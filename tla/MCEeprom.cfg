CONSTANTS
  Handlers = {"handler"}
  Main = "main"
  Saver = "saver"
  Sectors = 2
  SectorSize = 3
  Old = {1}
  New = {2}
  Ranges <- MCRanges
  Both <- MCBoth
  Tries = 2
  MaxEvents = 2
SPECIFICATION Spec
INVARIANTS OthersPreserved WipedOnlyAfterLoss
PROPERTY VolumeSettles
CHECK_DEADLOCK FALSE
