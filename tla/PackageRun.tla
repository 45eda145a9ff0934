---------------------------- MODULE PackageRun ----------------------------
(***************************************************************************)
(* dbpd/package.c, the life of a mounted package: package_run hands out    *)
(* instances of it, package_stop takes them back, and the purgatory keeps  *)
(* a package that nobody uses until package_purgatory_check unmounts it.   *)
(*                                                                         *)
(* package_run and package_stop are called by the D-Bus thread,            *)
(* package_purgatory_check by the main thread, once per turn of its loop.  *)
(* All of them hold p->mutex from their first to their last statement, so  *)
(* each call is one action, except for the sweep over the purgatory, which *)
(* takes one action per entry and holds the mutex in between: other        *)
(* programs go on using loop devices while it unmounts.                    *)
(***************************************************************************)
EXTENDS LoopMount, FiniteSets

CONSTANTS
  MaxRuns,   \* tokens before run_cnt, an int, would wrap around
  Delay,     \* seconds a package spends in purgatory by its expiry time
  MaxNow     \* bound on the clock

ASSUME PackageRunAssumption ==
  /\ MaxRuns \in Nat
  /\ Delay \in Nat \ {0}
  /\ MaxNow \in Nat

VARIABLES
  registered,   \* packages in p->entry
  instance,     \* p->instance: the runs in progress
  run_cnt,      \* the next run_id
  purgatory,    \* p->purgatory: unused packages not yet unmounted
  todo,         \* entries the sweep has not reached; the main thread holds
                \* the mutex as long as there are any
  now           \* time(NULL)

vars == <<loopdev, img, union, registered, instance, run_cnt, purgatory, todo, now>>

Instance == [package_id : Package, run_id : Nat, loop : Loop]

Purgatory == [package_id : Package, loop_number : Loop, reusable : States, expiry : Nat]

TypeOK ==
  /\ KernelTypeOK
  /\ registered \subseteq Package
  /\ instance \subseteq Instance
  /\ run_cnt \in Nat
  /\ purgatory \subseteq Purgatory
  /\ todo \subseteq purgatory
  /\ now \in Nat

Init ==
  /\ KernelInit
  /\ registered \in SUBSET Package
  /\ instance = {}
  /\ run_cnt = 0
  /\ purgatory = {}
  /\ todo = {}
  /\ now \in 1..MaxNow

MutexFree == todo = {}

Running(p) == \E i \in instance : i.package_id = p

InPurgatory(p) == \E e \in purgatory : e.package_id = p

-----------------------------------------------------------------------------
(* package_run                                                             *)

\* Defect: the slot in p->instance serves as token
add_instance_slot(p, l) ==
  /\ run_cnt < MaxRuns
  /\ instance' = instance \cup
       {[package_id |-> p, run_id |-> Cardinality(instance), loop |-> l]}
  /\ run_cnt' = run_cnt + 1

\* The label "mounted": the caller gets a new instance
add_instance(p, l) ==
  /\ run_cnt < MaxRuns
  /\ instance' = instance \cup {[package_id |-> p, run_id |-> run_cnt, loop |-> l]}
  /\ run_cnt' = run_cnt + 1

\* Another instance has it mounted already
RunShared(p) ==
  /\ MutexFree
  /\ \E i \in instance : i.package_id = p /\ add_instance(p, i.loop)
  /\ UNCHANGED <<kernel, registered, purgatory, todo, now>>

\* It is still mounted in purgatory: package_purgatory_revive takes it out
RunRevived(p) ==
  /\ MutexFree
  /\ ~Running(p)
  /\ \E e \in purgatory :
       /\ e.package_id = p
       /\ e.reusable >= 1
       /\ purgatory' = purgatory \ {e}
       /\ add_instance(p, e.loop_number)
  /\ UNCHANGED <<kernel, registered, todo, now>>

\* DBP_ERROR_MUTILATED: half unmounted, neither usable nor gone
RunMutilated(p) ==
  /\ MutexFree
  /\ ~Running(p)
  /\ \E e \in purgatory : e.package_id = p /\ e.reusable < 1
  /\ UNCHANGED vars

\* Defect: a half unmounted package is taken for one that is not mounted
UnmountedOrMutilated(p) ==
  MutexFree /\ ~Running(p) /\ \A e \in purgatory : e.package_id = p => e.reusable < 1

\* package_run gets as far as looking the package up
Unmounted(p) == MutexFree /\ ~Running(p) /\ ~InPurgatory(p)

\* DBP_ERROR_BAD_PKG_ID
RunUnknown(p) ==
  /\ Unmounted(p)
  /\ p \notin registered
  /\ UNCHANGED vars

RunMounted(p) ==
  /\ Unmounted(p)
  /\ p \in registered
  /\ \E l \in Loop : MountOk(p, l) /\ add_instance(p, l)
  /\ UNCHANGED <<registered, purgatory, todo, now>>

\* dbp_loop_mount returned an error.  (A user name of more than 63 characters is
\* refused before anything happens, with DBP_ERROR_INTERNAL_MSG: a stutter.)
RunFailed(p) ==
  /\ Unmounted(p)
  /\ p \in registered
  /\ \/ MountNoLoop
     \/ \E l \in Loop : MountNotAttached(l)
     \/ \E l \in Loop : MountBadFsimg(p, l)
     \/ \E l \in Loop : MountIllegalDirname(p, l)
     \/ \E l \in Loop : MountUnionFailed(p, l)
  /\ UNCHANGED <<registered, instance, run_cnt, purgatory, todo, now>>

-----------------------------------------------------------------------------
(* package_stop                                                            *)

package_purgatory_add(p, l) ==
  purgatory' = purgatory \cup
    {[package_id |-> p, loop_number |-> l, reusable |-> 1, expiry |-> now + Delay]}

\* Defect: the search for other users goes no further than the instance itself
InUseByEarlier(i) ==
  \E j \in instance : j.package_id = i.package_id /\ j.run_id < i.run_id

\* Another instance of the package goes on running
InUseByOther(i) ==
  \E j \in instance : j.package_id = i.package_id /\ j.run_id # i.run_id

package_stop(run_id) ==
  /\ MutexFree
  /\ \E i \in instance :
       /\ i.run_id = run_id
       /\ instance' = instance \ {i}
       /\ IF InUseByOther(i) THEN UNCHANGED purgatory
                             ELSE package_purgatory_add(i.package_id, i.loop)
  /\ UNCHANGED <<kernel, registered, run_cnt, todo, now>>

\* "Requested to stop instance with invalid id"
StopInvalid(run_id) ==
  /\ MutexFree
  /\ \A i \in instance : i.run_id # run_id
  /\ UNCHANGED vars

-----------------------------------------------------------------------------
(* package_purgatory_check                                                 *)

\* Defect: only packages that can still be used are reaped
reap_due_reusable(e) == e.reusable >= 1 /\ e.expiry # 0

\* The condition of the sweep.  It tests the expiry time for being non-zero
\* and does not compare it with the clock.
reap_due(e) == e.reusable < 1 \/ e.expiry # 0

package_purgatory_check ==
  /\ MutexFree
  /\ todo' = {e \in purgatory : reap_due(e)}
  /\ UNCHANGED <<kernel, registered, instance, run_cnt, purgatory, now>>

\* Defect: the entry of a package that is gone stays
reap_keep_finished(e, result) ==
  /\ dbp_loop_umount(e.package_id, e.loop_number, e.reusable, result)
  /\ purgatory' = (purgatory \ {e}) \cup {[e EXCEPT !.reusable = result]}
  /\ todo' = todo \ {e}
  /\ UNCHANGED <<registered, instance, run_cnt, now>>

\* Defect: how far the unmount got is not recorded
reap_forget_result(e, result) ==
  /\ dbp_loop_umount(e.package_id, e.loop_number, e.reusable, result)
  /\ purgatory' = IF result = 0 THEN purgatory \ {e} ELSE purgatory
  /\ todo' = todo \ {e}
  /\ UNCHANGED <<registered, instance, run_cnt, now>>

package_purgatory_reap(e, result) ==
  /\ dbp_loop_umount(e.package_id, e.loop_number, e.reusable, result)
  /\ purgatory' = (purgatory \ {e}) \cup
       (IF result = 0 THEN {} ELSE {[e EXCEPT !.reusable = result]})
  /\ todo' = todo \ {e}
  /\ UNCHANGED <<registered, instance, run_cnt, now>>

-----------------------------------------------------------------------------
(* The surroundings                                                        *)

\* Packages are registered and released by handlers that hold the mutex.
\* None of them touches an instance, the purgatory or a mount.
RegistryChange ==
  /\ MutexFree
  /\ registered' \in SUBSET Package
  /\ UNCHANGED <<kernel, instance, run_cnt, purgatory, todo, now>>

OtherProgram ==
  /\ \E l \in Loop : ForeignAttach(l) \/ ForeignDetach(l)
  /\ UNCHANGED <<registered, instance, run_cnt, purgatory, todo, now>>

Tick ==
  /\ now < MaxNow
  /\ now' = now + 1
  /\ UNCHANGED <<kernel, registered, instance, run_cnt, purgatory, todo>>

-----------------------------------------------------------------------------

Next ==
  \/ \E p \in Package : RunShared(p)
  \/ \E p \in Package : RunRevived(p)
  \/ \E p \in Package : RunMutilated(p)
  \/ \E p \in Package : RunUnknown(p)
  \/ \E p \in Package : RunMounted(p)
  \/ \E p \in Package : RunFailed(p)
  \/ \E r \in 0..MaxRuns : package_stop(r)
  \/ \E r \in 0..MaxRuns : StopInvalid(r)
  \/ package_purgatory_check
  \/ \E e \in todo, result \in States \cup {0} : package_purgatory_reap(e, result)
  \/ RegistryChange
  \/ OtherProgram
  \/ Tick

Spec == Init /\ [][Next]_vars

-----------------------------------------------------------------------------
(* Safety                                                                  *)

\* Everything the holder of a token relies on is in place: the union is
\* mounted, over the image of the package, on the device the instance records.
\* package_stop of another token and the sweep of the other thread must not
\* take any of it away (package_run 555-566, package_stop 686-694).
LiveIsMounted == \A i \in instance : HasLayers(i.package_id, i.loop, 1)

\* A mounted union has one owner, whatever mixture of runs, stops, failed
\* mounts and failed sweeps came before: it is mounted once, and either
\* instances use it or one purgatory entry is going to unmount it.
OneOwner ==
  \A p \in Package :
    /\ Len(union[p]) <= 1
    /\ union[p] # << >> => (Running(p) <=> ~InPurgatory(p))
    /\ \A e, f \in purgatory : e.package_id = p /\ f.package_id = p => e = f

\* A package in purgatory has exactly the layers its "reusable" says are left,
\* so the next sweep resumes at the right one (dbp_loop_umount's prev_state).
PurgatoryMatchesKernel ==
  \A e \in purgatory : HasLayers(e.package_id, e.loop_number, e.reusable)

\* dbpd never loses a loop device: each one it attached and still has belongs
\* to an instance or to a purgatory entry that will free it.  The exceptions
\* are the directory names dbp_loop_mount refuses after mounting the image
\* (307-309) and error paths on which the kernel refuses to undo.
NothingLeaked ==
  ~RollbackMayFail =>
    \A l \in Loop : loopdev[l] \in Package \ IllegalDir =>
      \/ \E i \in instance : i.loop = l /\ i.package_id = loopdev[l]
      \/ \E e \in purgatory : e.loop_number = l /\ e.package_id = loopdev[l]

\* The inductive invariant behind them: what else has to be remembered is that
\* tokens are old and distinct, that no package is both running and in
\* purgatory, and that a union without either has been unmounted.
TokensDistinct ==
  /\ \A i \in instance : i.run_id < run_cnt
  /\ \A i, j \in instance : i.run_id = j.run_id => i = j

Exclusive ==
  /\ \A i \in instance, e \in purgatory : i.package_id # e.package_id
  /\ \A e, f \in purgatory : e.package_id = f.package_id => e = f

UnionOwned ==
  \A p \in Package : Running(p) \/ InPurgatory(p) \/ union[p] = << >>

IInv ==
  /\ TypeOK
  /\ MountTable
  /\ TokensDistinct
  /\ Exclusive
  /\ UnionOwned
  /\ LiveIsMounted
  /\ PurgatoryMatchesKernel

-----------------------------------------------------------------------------
(* The promise                                                             *)

Promise == INSTANCE MountPromise WITH
  held    <- {<<i.run_id, i.package_id>> : i \in instance},
  mounted <- {p \in Package : union[p] # << >>},
  issued  <- run_cnt

\* package_run and package_stop keep the promise: a token is new, and a package
\* is unmounted only when nobody holds a token for it.
KeepsPromise == Promise!Spec

-----------------------------------------------------------------------------
(* Liveness                                                                *)

\* A reap of package p that gets to the end
ReapedCompletely(p) == \E e \in todo : e.package_id = p /\ package_purgatory_reap(e, 0)

\* The main thread goes round its loop, and a package that is tried again and
\* again is at last no longer busy.
Fairness ==
  /\ WF_vars(package_purgatory_check)
  /\ WF_vars(\E e \in todo, result \in States \cup {0} : package_purgatory_reap(e, result))
  /\ \A p \in Package : SF_vars(ReapedCompletely(p))

FairSpec == Spec /\ Fairness

\* No package is stuck in purgatory, where it can be neither launched nor freed
\* once it is mutilated: it is retried until it is gone (or launched again).
PurgatoryDrains == \A p \in Package : InPurgatory(p) ~> ~InPurgatory(p)

\* When a package is no longer run its loop device goes back to the system.
DevicesReturned ==
  \A p \in Package \ IllegalDir :
    <>[]~Running(p) => <>[](\A l \in Loop : loopdev[l] # p)
=============================================================================
