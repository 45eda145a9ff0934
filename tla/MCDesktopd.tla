----------------------------- MODULE MCDesktopd -----------------------------
(* Instances of Desktopd for TLC: the id of p1 begins the names of both     *)
(* packages' launchers.                                                    *)
EXTENDS Desktopd

CONSTANTS p1, p2, a, b

MCLaunchers == [p \in Package |-> IF p = p1 THEN {a} ELSE {b}]
MCMatching == [p \in Package |-> IF p = p1 THEN {a, b} ELSE {b}]
=============================================================================
