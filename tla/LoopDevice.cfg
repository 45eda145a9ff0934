\* Calls for two packages and one that is refused, three devices, every failure
CONSTANTS
  Package = {p1, p2, p3}
  Loop = {l1, l2, l3}
  IllegalDir = {p3}
  Free = Free
  Foreign = Foreign
  RollbackMayFail = TRUE
SYMMETRY LoopSymmetry
SPECIFICATION Spec
INVARIANTS
  TypeOK
  LeftIsThere
PROPERTY CallsAreAtomic
