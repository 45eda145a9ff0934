\* Shutdowns, starts and boots while packages run, with every kernel failure
CONSTANTS
  Package = {p1, p2}
  Loop = {l1, l2}
  IllegalDir = {}
  Free = Free
  Foreign = Foreign
  RollbackMayFail = TRUE
  MaxRuns = 3
  Delay = 1
  MaxNow = 1
  MaxBoot = 2
SYMMETRY Symmetry
SPECIFICATION RestartSpec
INVARIANTS
  RestartTypeOK
  TokensSurvive
  StillMounted
PROPERTY RestartsUnnoticed
