SPECIFICATION FairSpec
CONSTANTS
  Instances = {i1, i2, i3}
  Services = {s1}
  Names = {n1}
  Tasks = {t1, t2}
  Callers = {c1}
  None = None
INVARIANTS Accounted LoadedIsCallable
PROPERTIES CallsEnd
CHECK_DEADLOCK FALSE
