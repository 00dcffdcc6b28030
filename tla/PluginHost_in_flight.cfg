SPECIFICATION Spec
CONSTANTS
  Instances = {i1, i2}
  Services = {s1}
  Names = {n1}
  Tasks = {t1}
  Callers = {c1}
  None = None
INVARIANTS InFlightSafe
CHECK_DEADLOCK FALSE
