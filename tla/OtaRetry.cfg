CONSTANTS
  Word = 2
  Sector = 4
  SlotSectors = 2
  Lengths = {6, 13}
  SegLen = 3
  UPGRADE_RETRY_TIMES = 5
  MaxErrors = 1
SPECIFICATION Spec
INVARIANT RetryStartsClean
CHECK_DEADLOCK FALSE
