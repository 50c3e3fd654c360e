SPECIFICATION MCSpec
CONSTANTS
  None = None
  BuildImage = TRUE
  OverrideImage = TRUE
  Embedded = TRUE
  MaxStarts = 2
  MaxAttempts = 4
  MaxTimeouts = 1
  MaxBegun = 1
  MaxAged = 1
  MaxAtWork = 1
  MaxRetries = 1
  DataTops = {"data", "output"}
  ModelTops = {"model", "data"}
  Given <- MCGiven
INVARIANTS TypeOK PlainIsRemoved DeliversWholeOutput
PROPERTIES TrainsOnItsInputs DiskIsFreed
CHECK_DEADLOCK FALSE
