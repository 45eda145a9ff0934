\* Safety of runs, stops and sweeps, with every kernel failure allowed and a
\* package, p3, that dbp_loop_mount refuses after mounting its image
CONSTANTS
  Package = {p1, p2, p3}
  Loop = {l1, l2, l3}
  IllegalDir = {p3}
  Free = Free
  Foreign = Foreign
  RollbackMayFail = TRUE
  MaxRuns = 3
  Delay = 1
  MaxNow = 2
SYMMETRY LoopSymmetry
SPECIFICATION Spec
INVARIANTS
  TypeOK
  LiveIsMounted
  OneOwner
  PurgatoryMatchesKernel
PROPERTY KeepsPromise
