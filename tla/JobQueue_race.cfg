SPECIFICATION Spec
CONSTANTS
  Jobs = {j1}
  Dispatchers = {d1, d2}
  Limits = {2}
  Delays = {0, 1}
  ParkDelay = 100
  MaxTime = 3
  MaxFaults = 0
  NoJob = NoJob
INVARIANTS AtomicPop
CHECK_DEADLOCK FALSE
