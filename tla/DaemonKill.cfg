\* dbpd is killed and reads the state file of an earlier shutdown
CONSTANTS
  Package = {p1}
  Loop = {l1, l2}
  IllegalDir = {}
  Free = Free
  Foreign = Foreign
  RollbackMayFail = FALSE
  MaxRuns = 2
  Delay = 1
  MaxNow = 1
  MaxBoot = 1
SPECIFICATION KillSpec
INVARIANT HoldersMounted
