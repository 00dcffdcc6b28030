SPECIFICATION PackagesSpec
CONSTANTS
  p1 = p1
  p2 = p2
  p3 = p3
  Discovered <- MCDiscovered
  Absent = {x}
  Bootstrap = {p1}
  MaxDeps = 2
  MaxEdges = 5
INVARIANTS GraphExact DependenciesFirst ResolutionsExact FilesSafe
PROPERTIES EachTried
CHECK_DEADLOCK FALSE
