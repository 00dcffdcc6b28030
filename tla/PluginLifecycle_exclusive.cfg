SPECIFICATION FairSpec
CONSTANTS
  Plugins = {"p"}
  Versions = {"v1", "v2"}
  Unknown = "unknown"
  Temp = "download"
  Tasks = {"t1", "t2"}
  Wired = TRUE
  Exclusive = TRUE
INVARIANTS ActiveIsLoaded EntryBacked
PROPERTIES OperationsEnd NoResurrection
CHECK_DEADLOCK FALSE
