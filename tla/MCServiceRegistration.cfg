SPECIFICATION FairSpec
CONSTANTS
  None = None
  Calls = {"start1", "start2", "occupy"}
  StartOrder <- TwoStarts
  FtOps = {"occupy"}
  Services <- Offers
  Suggested = 10
  MaxGasPrice = 11
  Rounds = 1
INVARIANTS TypeOK MinedAsReported RecordAsWanted
PROPERTIES CallsEnd
CHECK_DEADLOCK FALSE
