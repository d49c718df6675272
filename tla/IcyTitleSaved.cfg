CONSTANTS
  MetaInts = {0, 1, 2, 3}
  Unit = 2
  MaxUnits = 2
  Streams <- MCStreams
  RECEIVE = 6
SPECIFICATION Spec
INVARIANT TitleSaved
