--------------------------- MODULE MountPromise ---------------------------
(***************************************************************************)
(* What dbpd promises the programs that launch packages, without loop      *)
(* devices, purgatory or registry: PackageRun answers a request to run a   *)
(* package with a token, no token is given twice, and the package stays    *)
(* mounted until every token for it has been handed back.  When it is      *)
(* unmounted after that is left open.                                      *)
(***************************************************************************)
EXTENDS Naturals

CONSTANTS Package, MaxRuns

VARIABLES
  held,      \* the tokens in use: pairs of a token and its package
  mounted,   \* the packages with a mounted union
  issued     \* every token below this one has been given out

promise == <<held, mounted, issued>>

InUse(p) == \E t \in held : t[2] = p

Init == held = {} /\ mounted = {} /\ issued = 0

\* A launch succeeds: a new token, and the package is mounted
Grant(p) ==
  /\ issued < MaxRuns
  /\ held' = held \cup {<<issued, p>>}
  /\ mounted' = mounted \cup {p}
  /\ issued' = issued + 1

\* A token is handed back
Return(t) ==
  /\ held' = held \ {t}
  /\ UNCHANGED <<mounted, issued>>

\* Nobody holds p any more and it is unmounted
Unmount(p) ==
  /\ p \in mounted
  /\ ~InUse(p)
  /\ mounted' = mounted \ {p}
  /\ UNCHANGED <<held, issued>>

Next ==
  \/ \E p \in Package : Grant(p) \/ Unmount(p)
  \/ \E t \in held : Return(t)

Spec == Init /\ [][Next]_promise
=============================================================================
