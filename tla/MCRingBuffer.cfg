SPECIFICATION FairSpec
CONSTANTS
  N <- MCN
  MaxChunk <- MCMaxChunk
  MaxBytes <- MCMaxBytes
  DrainedReset = TRUE
INVARIANTS
  ReadsTheStream
  NoSharedCell
PROPERTIES
  QueueSpec
  EveryByteLeaves
