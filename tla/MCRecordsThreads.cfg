CONSTANTS
  App = {t1, t2}
  Tiles <- MCTiles
  Ids = 4
  JobIds = 8
  Orderly = FALSE
  MaxCalls = 6
  MaxFrames = 3
  NoRecord = NoRecord
  Header <- MCHeader
SPECIFICATION Spec
INVARIANTS JobsAreInTheTable
