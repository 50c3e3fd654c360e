SPECIFICATION FairSpec
CONSTANTS
  None = None
  Base <- Shipped
  UserFiles <- Existing
  Answers = {"", "7", "http://h"}
  PortAnswers = {0, 70000}
  ConfigNames <- Names
  MountPaths = {"", "conf"}
  Projects = {"p"}
  MaxRuns = 2
INVARIANTS TypeOK SavedIsFilledIn FilesAgree
PROPERTIES EverythingStarts
CHECK_DEADLOCK FALSE
