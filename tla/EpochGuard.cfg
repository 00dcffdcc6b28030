SPECIFICATION Spec
CONSTANTS
  Loaders = {l1, l2, l3}
  Readers = {r1, r2}
  Writers = {w1, w2}
  Null = Null
INVARIANTS NoUseAfterFree OwnedOnce
PROPERTIES ImplementsCell
CHECK_DEADLOCK FALSE
