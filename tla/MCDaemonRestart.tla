-------------------------- MODULE MCDaemonRestart --------------------------
(* Instances of DaemonRestart for TLC.  Both packages are alike, and so are *)
(* the loop devices.                                                        *)
EXTENDS DaemonRestart, TLC

Symmetry == Permutations(Loop) \cup Permutations(Package)
=============================================================================
