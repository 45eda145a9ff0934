--------------------------- MODULE MCLoopDevice ---------------------------
(* Instance of LoopDevice for TLC.  A refused directory name leaves an     *)
(* image mounted each time, which keeps its device: there are no more of   *)
(* them than devices.                                                      *)
EXTENDS LoopDevice, TLC

LoopSymmetry == Permutations(Loop)
=============================================================================
