\* Liveness and leak freedom when error paths undo what they did
CONSTANTS
  Package = {p1, p2}
  Loop = {l1, l2}
  IllegalDir = {}
  Free = Free
  Foreign = Foreign
  RollbackMayFail = FALSE
  MaxRuns = 3
  Delay = 1
  MaxNow = 1
SPECIFICATION FairSpec
INVARIANT NothingLeaked
PROPERTIES
  PurgatoryDrains
  DevicesReturned
