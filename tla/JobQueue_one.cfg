SPECIFICATION FairSpec
CONSTANTS
  Jobs = {j1, j2}
  Dispatchers = {d1}
  Limits = {0, 2}
  Delays = {0, 1}
  ParkDelay = 100
  MaxTime = 6
  MaxFaults = 2
  NoJob = NoJob
INVARIANTS RunBudget LossBoundedByFaults DoneStaysDone ExhaustedStaysParked
PROPERTIES EventuallyHandled
CHECK_DEADLOCK FALSE
