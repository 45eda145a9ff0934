--------------------------- MODULE MCPackageRun ---------------------------
(* Instances of PackageRun for TLC.  Loop devices are interchangeable; the *)
(* packages are not where one of them has an illegal directory.            *)
EXTENDS PackageRun, TLC

LoopSymmetry == Permutations(Loop)
=============================================================================
