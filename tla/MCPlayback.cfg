SPECIFICATION PlaybackSpec
CONSTANTS
  N <- MCN
  MaxChunk <- MCMaxChunk
  MaxBytes <- MCMaxBytes
  StartBelow <- MCStartBelow
  DrainedReset = FALSE
INVARIANTS
  SoundWhileReceiving
PROPERTIES
  RoomComes
  InstantPlayEnds
