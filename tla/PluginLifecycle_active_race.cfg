SPECIFICATION Spec
CONSTANTS
  Plugins = {"p"}
  Versions = {"v1"}
  Unknown = "unknown"
  Temp = "download"
  Tasks = {"t1", "t2"}
  Wired = TRUE
  Exclusive = FALSE
INVARIANTS ActiveIsLoaded
CHECK_DEADLOCK FALSE
