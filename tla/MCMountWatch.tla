---------------------------- MODULE MCMountWatch ----------------------------
(* Instances of MountWatch for TLC: a package file on each device.  Mount  *)
(* points are alike, and so are the devices together with their files.     *)
EXTENDS MountWatch, TLC

CONSTANTS d1, d2, f1, f2

MCDevice == {d1, d2}
MCFile == {f1, f2}
MCDeviceOf == [f \in MCFile |-> IF f = f1 THEN d1 ELSE d2]

Swapped == d1 :> d2 @@ d2 :> d1 @@ f1 :> f2 @@ f2 :> f1
Symmetry == {p @@ q : p \in Permutations(Mount), q \in {Swapped, [x \in DOMAIN Swapped |-> x]}}
=============================================================================
