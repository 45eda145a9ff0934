------------------------ MODULE DaemonRestartProofs ------------------------
(***************************************************************************)
(* Proofs about PackageRun and, in the second half, about DaemonRestart,   *)
(* which extends it: for every set of packages and devices, every number   *)
(* of runs, shutdowns, starts and boots, and whether or not the error      *)
(* paths can fail to undo.                                                 *)
(***************************************************************************)
EXTENDS DaemonRestart, LoopMountProofs

-----------------------------------------------------------------------------
(* One dbpd                                                                *)

\* The initial states satisfy the inductive invariant.
LEMMA InitIInv ==
  ASSUME LoopMountAssumption, PackageRunAssumption, Init
  PROVE  IInv
  <1>1. KernelInv
    BY KernelInitInv DEF Init
  <1>2. TypeOK
    BY <1>1 DEF Init, TypeOK, KernelInv, PackageRunAssumption
  <1>3. UnionOwned
    BY DEF Init, KernelInit, UnionOwned
  <1> QED
    BY <1>1, <1>2, <1>3
    DEF Init, IInv, KernelInv, TokensDistinct, Exclusive, LiveIsMounted, PurgatoryMatchesKernel

\* A package with no instance and nothing in purgatory has no union.
LEMMA UnmountedNoUnion ==
  ASSUME IInv, NEW p \in Package, Unmounted(p)
  PROVE  union[p] = << >>
  BY DEF IInv, Unmounted, UnionOwned

\* A new instance of a package whose layers are in place and which is in no
\* purgatory entry keeps the part of the invariant that is about instances.
LEMMA AddInstance ==
  ASSUME IInv, NEW p \in Package, NEW l \in Loop, add_instance(p, l)
  PROVE  /\ instance' \subseteq Instance
         /\ run_cnt' \in Nat
         /\ TokensDistinct'
         /\ \A i \in instance' : i \in instance \/ (i.package_id = p /\ i.loop = l)
         /\ instance \subseteq instance'
         /\ \E i \in instance' : i.package_id = p /\ i.loop = l
         /\ Running(p)'
  <1> DEFINE new == [package_id |-> p, run_id |-> run_cnt, loop |-> l]
  <1>1. run_cnt \in Nat /\ instance \subseteq Instance
    BY DEF IInv, TypeOK
  <1>2. new \in Instance /\ new.package_id = p /\ new.loop = l /\ new.run_id = run_cnt
    BY <1>1 DEF Instance
  <1>3. instance' = instance \cup {new} /\ run_cnt' = run_cnt + 1
    BY DEF add_instance
  <1>4. /\ \A i \in instance : i.run_id \in Nat /\ i.run_id < run_cnt
        /\ \A i, j \in instance : i.run_id = j.run_id => i = j
    BY <1>1 DEF IInv, TokensDistinct, Instance
  <1> HIDE DEF new
  <1>5. TokensDistinct'
    BY <1>1, <1>2, <1>3, <1>4 DEF TokensDistinct
  <1> QED
    BY <1>1, <1>2, <1>3, <1>5 DEF Running

-----------------------------------------------------------------------------

\* Steps that change neither the kernel nor the bookkeeping
LEMMA UnchangedIInv ==
  ASSUME IInv, UNCHANGED <<loopdev, img, union, instance, run_cnt, purgatory>>,
         registered' \subseteq Package, todo' \subseteq purgatory, now' \in Nat
  PROVE  IInv'
  <1>1. TypeOK'
    BY DEF IInv, TypeOK, KernelTypeOK
  <1>2. MountTable'
    BY DEF IInv, MountTable
  <1>3. TokensDistinct' /\ Exclusive' /\ UnionOwned'
    BY DEF IInv, TokensDistinct, Exclusive, UnionOwned, Running, InPurgatory
  <1>4. LiveIsMounted' /\ PurgatoryMatchesKernel'
    BY DEF IInv, LiveIsMounted, PurgatoryMatchesKernel, HasLayers, OnTop, InUse
  <1> QED
    BY <1>1, <1>2, <1>3, <1>4 DEF IInv

\* Launching a package that is mounted already
LEMMA RunSharedIInv ==
  ASSUME LoopMountAssumption, IInv, NEW p \in Package, RunShared(p)
  PROVE  IInv'
  <1>1. PICK i \in instance : i.package_id = p /\ add_instance(p, i.loop)
    BY DEF RunShared
  <1>2. i.loop \in Loop /\ HasLayers(p, i.loop, 1)
    BY <1>1 DEF IInv, TypeOK, Instance, LiveIsMounted
  <1>3. /\ instance' \subseteq Instance
        /\ run_cnt' \in Nat
        /\ TokensDistinct'
        /\ \A j \in instance' : j \in instance \/ (j.package_id = p /\ j.loop = i.loop)
        /\ instance \subseteq instance'
    BY <1>1, <1>2, AddInstance
  <1>4. UNCHANGED <<loopdev, img, union, registered, purgatory, todo, now>>
    BY DEF RunShared, kernel
  <1>5. TypeOK' /\ MountTable'
    BY <1>3, <1>4 DEF IInv, TypeOK, KernelTypeOK, MountTable
  <1>6. Exclusive'
    BY <1>1, <1>3, <1>4 DEF IInv, Exclusive
  <1>7. UnionOwned'
    BY <1>3, <1>4 DEF IInv, UnionOwned, Running, InPurgatory
  <1>8. LiveIsMounted'
    BY <1>2, <1>3, <1>4 DEF IInv, LiveIsMounted, HasLayers, OnTop, InUse
  <1>9. PurgatoryMatchesKernel'
    BY <1>4 DEF IInv, PurgatoryMatchesKernel, HasLayers, OnTop, InUse
  <1> QED
    BY <1>3, <1>5, <1>6, <1>7, <1>8, <1>9 DEF IInv

\* Launching a package that is still mounted in purgatory
LEMMA RunRevivedIInv ==
  ASSUME LoopMountAssumption, IInv, NEW p \in Package, RunRevived(p)
  PROVE  IInv'
  <1>1. PICK e \in purgatory : /\ e.package_id = p
                               /\ e.reusable >= 1
                               /\ purgatory' = purgatory \ {e}
                               /\ add_instance(p, e.loop_number)
    BY DEF RunRevived
  <1>2. e.loop_number \in Loop /\ e.reusable = 1 /\ HasLayers(p, e.loop_number, 1)
    <2>1. e \in Purgatory
      BY DEF IInv, TypeOK
    <2>2. e.loop_number \in Loop /\ e.reusable \in States
      BY <2>1 DEF Purgatory
    <2>3. e.reusable = 1
      BY <1>1, <2>2 DEF States
    <2> QED
      BY <1>1, <2>2, <2>3 DEF IInv, PurgatoryMatchesKernel
  <1>3. /\ instance' \subseteq Instance
        /\ run_cnt' \in Nat
        /\ TokensDistinct'
        /\ \A j \in instance' : j \in instance \/ (j.package_id = p /\ j.loop = e.loop_number)
        /\ instance \subseteq instance'
        /\ Running(p)'
    BY <1>1, <1>2, AddInstance
  <1>4. UNCHANGED <<loopdev, img, union, registered, todo, now>> /\ todo = {}
    BY DEF RunRevived, kernel, MutexFree
  <1>5. TypeOK' /\ MountTable'
    BY <1>1, <1>3, <1>4 DEF IInv, TypeOK, KernelTypeOK, MountTable
  <1>6. Exclusive'
    <2>1. \A f \in purgatory' : f \in purgatory /\ f.package_id # p
      BY <1>1 DEF IInv, Exclusive
    <2> QED
      BY <1>3, <2>1 DEF IInv, Exclusive
  <1>7. UnionOwned'
    BY <1>1, <1>3, <1>4 DEF IInv, UnionOwned, Running, InPurgatory
  <1>8. LiveIsMounted'
    BY <1>2, <1>3, <1>4 DEF IInv, LiveIsMounted, HasLayers, OnTop, InUse
  <1>9. PurgatoryMatchesKernel'
    BY <1>1, <1>4 DEF IInv, PurgatoryMatchesKernel, HasLayers, OnTop, InUse
  <1> QED
    BY <1>3, <1>5, <1>6, <1>7, <1>8, <1>9 DEF IInv

\* The instances and purgatory entries of other packages keep their layers
\* when package p, which has neither, is mounted on device l.
LEMMA OthersKept ==
  ASSUME LoopMountAssumption, IInv, NEW p \in Package, NEW l \in loop_available,
         Unmounted(p),
         \/ loopdev' = loopdev
         \/ \E x : loopdev' = [loopdev EXCEPT ![l] = x],
         \/ img' = img
         \/ img' = [img EXCEPT ![p] = Append(@, l)],
         union' = union \/ \E x : union' = [union EXCEPT ![p] = x]
  PROVE  /\ \A i \in instance : HasLayers(i.package_id, i.loop, 1)'
         /\ \A e \in purgatory : HasLayers(e.package_id, e.loop_number, e.reusable)'
  <1>1. KernelInv /\ l \in Loop /\ loopdev[l] \in {p, Free, Foreign}
    BY DEF IInv, KernelInv, TypeOK, loop_available
  <1>2. ASSUME NEW i \in instance PROVE HasLayers(i.package_id, i.loop, 1)'
    <2>1. i.package_id \in Package /\ i.loop \in Loop /\ i.package_id # p
      BY DEF IInv, TypeOK, Instance, Unmounted, Running
    <2>2. HasLayers(i.package_id, i.loop, 1)
      BY DEF IInv, LiveIsMounted
    <2> QED
      BY <1>1, <2>1, <2>2, OthersKeepLayers
  <1>3. ASSUME NEW e \in purgatory PROVE HasLayers(e.package_id, e.loop_number, e.reusable)'
    <2>1. e.package_id \in Package /\ e.loop_number \in Loop /\ e.package_id # p
      BY DEF IInv, TypeOK, Purgatory, Unmounted, InPurgatory
    <2>2. HasLayers(e.package_id, e.loop_number, e.reusable)
      BY DEF IInv, PurgatoryMatchesKernel
    <2> QED
      BY <1>1, <2>1, <2>2, OthersKeepLayers
  <1> QED
    BY <1>2, <1>3

\* Launching a package that has to be mounted
LEMMA RunMountedIInv ==
  ASSUME LoopMountAssumption, IInv, NEW p \in Package, RunMounted(p)
  PROVE  IInv'
  <1>1. PICK l \in Loop : MountOk(p, l) /\ add_instance(p, l)
    BY DEF RunMounted
  <1>2. Unmounted(p) /\ union[p] = << >> /\ l \in loop_available
    BY <1>1, UnmountedNoUnion DEF RunMounted, MountOk
  <1>3. UNCHANGED <<registered, purgatory, todo, now>>
    BY DEF RunMounted
  <1>4. KernelInv /\ KernelTypeOK /\ loopdev[l] = Free
    BY <1>2 DEF IInv, TypeOK, KernelInv, loop_available
  <1>5. KernelInv'
    <2>1. union' \in [Package -> Seq(Loop)]
      BY <1>1, <1>4, AppendProperties DEF MountOk, KernelTypeOK
    <2>2. /\ loopdev' = [loopdev EXCEPT ![l] = p]
          /\ img' = [img EXCEPT ![p] = Append(@, l)]
      BY <1>1 DEF MountOk
    <2> QED
      BY <1>2, <1>4, <2>1, <2>2, ImageMountedInv
  <1>6. /\ instance' \subseteq Instance
        /\ run_cnt' \in Nat
        /\ TokensDistinct'
        /\ \A j \in instance' : j \in instance \/ (j.package_id = p /\ j.loop = l)
        /\ instance \subseteq instance'
        /\ Running(p)'
    BY <1>1, AddInstance
  <1>7. HasLayers(p, l, 1)'
    BY <1>1, <1>2, <1>4, MountOkLayers
  <1>8. /\ \A i \in instance : HasLayers(i.package_id, i.loop, 1)'
        /\ \A e \in purgatory : HasLayers(e.package_id, e.loop_number, e.reusable)'
    BY <1>1, <1>2, OthersKept DEF MountOk
  <1>9. TypeOK'
    BY <1>3, <1>5, <1>6 DEF IInv, TypeOK, KernelInv
  <1>10. Exclusive'
    BY <1>2, <1>3, <1>6 DEF IInv, Exclusive, Unmounted, InPurgatory
  <1>11. UnionOwned'
    BY <1>1, <1>3, <1>4, <1>6
    DEF IInv, UnionOwned, MountOk, Running, InPurgatory, KernelTypeOK
  <1>12. LiveIsMounted'
    BY <1>6, <1>7, <1>8 DEF LiveIsMounted
  <1>13. PurgatoryMatchesKernel'
    BY <1>3, <1>8 DEF PurgatoryMatchesKernel
  <1> QED
    BY <1>5, <1>6, <1>9, <1>10, <1>11, <1>12, <1>13 DEF IInv, KernelInv

\* A launch that dbp_loop_mount refuses
LEMMA RunFailedIInv ==
  ASSUME LoopMountAssumption, IInv, NEW p \in Package, RunFailed(p)
  PROVE  IInv'
  <1>1. Unmounted(p)
    BY DEF RunFailed
  <1>2. UNCHANGED <<registered, instance, run_cnt, purgatory, todo, now, union>>
    BY DEF RunFailed, MountNoLoop, MountNotAttached, MountBadFsimg, MountIllegalDirname,
           MountUnionFailed, NothingLeft, DeviceLeft, ImageLeft, kernel
  <1>3. KernelInv /\ registered \subseteq Package /\ todo \subseteq purgatory /\ now \in Nat
    BY DEF IInv, KernelInv, TypeOK
  <1>4. CASE UNCHANGED kernel
    BY <1>2, <1>3, <1>4, UnchangedIInv DEF kernel
  <1>5. CASE \E l \in loop_available : DeviceTaken(l) \/ DeviceLeft(p, l) \/ ImageLeft(p, l)
    <2>1. PICK l \in loop_available : DeviceTaken(l) \/ DeviceLeft(p, l) \/ ImageLeft(p, l)
      BY <1>5
    <2>2. l \in Loop
      BY DEF loop_available
    <2>3. KernelInv'
      <3>1. CASE DeviceTaken(l)
        BY <1>3, <2>2, <3>1, DeviceTakenInv
      <3>2. CASE DeviceLeft(p, l)
        BY <1>3, <3>2, DeviceLeftInv
      <3>3. CASE ImageLeft(p, l)
        <4>1. union' \in [Package -> Seq(Loop)]
          BY <1>2, <1>3 DEF KernelInv, KernelTypeOK
        <4> QED
          BY <1>3, <3>3, <4>1, ImageMountedInv DEF ImageLeft
      <3> QED
        BY <2>1, <3>1, <3>2, <3>3
    <2>4. /\ loopdev' = loopdev \/ \E x : loopdev' = [loopdev EXCEPT ![l] = x]
          /\ img' = img \/ img' = [img EXCEPT ![p] = Append(@, l)]
      BY <2>1 DEF DeviceTaken, DeviceLeft, ImageLeft
    <2>5. /\ \A i \in instance : HasLayers(i.package_id, i.loop, 1)'
          /\ \A e \in purgatory : HasLayers(e.package_id, e.loop_number, e.reusable)'
      BY <1>1, <1>2, <2>4, OthersKept
    <2> QED
      BY <1>2, <2>3, <2>5
      DEF IInv, TypeOK, KernelInv, TokensDistinct, Exclusive, UnionOwned,
          LiveIsMounted, PurgatoryMatchesKernel, Running, InPurgatory
  <1>6. UNCHANGED kernel
        \/ \E l \in loop_available : DeviceTaken(l) \/ DeviceLeft(p, l) \/ ImageLeft(p, l)
    BY DEF RunFailed, MountNoLoop, MountNotAttached, MountBadFsimg, MountIllegalDirname,
           MountUnionFailed, NothingLeft, DeviceTaken, kernel
  <1> QED
    BY <1>4, <1>5, <1>6

-----------------------------------------------------------------------------

\* Handing a token back
LEMMA StopIInv ==
  ASSUME LoopMountAssumption, PackageRunAssumption, IInv, NEW r, package_stop(r)
  PROVE  IInv'
  <1>1. PICK i \in instance :
          /\ i.run_id = r
          /\ instance' = instance \ {i}
          /\ IF InUseByOther(i) THEN UNCHANGED purgatory
                                ELSE package_purgatory_add(i.package_id, i.loop)
    BY DEF package_stop
  <1>2. UNCHANGED <<loopdev, img, union, registered, run_cnt, todo, now>>
    BY DEF package_stop, kernel
  <1>3. TypeOK /\ i \in Instance /\ i.package_id \in Package /\ i.loop \in Loop
    BY DEF IInv, TypeOK, Instance
  <1>4. HasLayers(i.package_id, i.loop, 1)
    BY DEF IInv, LiveIsMounted
  <1>5. MountTable' /\ KernelTypeOK'
    BY <1>2, <1>3 DEF IInv, MountTable, TypeOK, KernelTypeOK
  <1>6. TokensDistinct'
    BY <1>1, <1>2 DEF IInv, TokensDistinct
  <1>7. LiveIsMounted'
    BY <1>1, <1>2 DEF IInv, LiveIsMounted, HasLayers, OnTop, InUse
  <1>8. CASE InUseByOther(i)
    <2>1. purgatory' = purgatory
      BY <1>1, <1>8
    <2>2. \E j \in instance' : j.package_id = i.package_id
      BY <1>1, <1>8 DEF InUseByOther
    <2>3. TypeOK'
      BY <1>1, <1>2, <1>3, <1>5, <2>1 DEF TypeOK
    <2>4. Exclusive'
      BY <1>1, <2>1 DEF IInv, Exclusive
    <2>5. UnionOwned'
      BY <1>1, <1>2, <2>1, <2>2 DEF IInv, UnionOwned, Running, InPurgatory
    <2>6. PurgatoryMatchesKernel'
      BY <1>2, <2>1 DEF IInv, PurgatoryMatchesKernel, HasLayers, OnTop, InUse
    <2> QED
      BY <1>5, <1>6, <1>7, <2>3, <2>4, <2>5, <2>6 DEF IInv
  <1>9. CASE ~InUseByOther(i)
    <2> DEFINE e == [package_id |-> i.package_id, loop_number |-> i.loop,
                     reusable |-> 1, expiry |-> now + Delay]
    <2>1. purgatory' = purgatory \cup {e}
      BY <1>1, <1>9 DEF package_purgatory_add
    <2>2. /\ e \in Purgatory
          /\ e.package_id = i.package_id
          /\ e.loop_number = i.loop
          /\ e.reusable = 1
      BY <1>3 DEF TypeOK, Purgatory, States, PackageRunAssumption
    <2> HIDE DEF e
    <2>3. TypeOK'
      BY <1>1, <1>2, <1>3, <1>5, <2>1, <2>2 DEF TypeOK
    <2>4. \A j \in instance' : j.package_id # i.package_id
      BY <1>1, <1>9 DEF InUseByOther, IInv, TokensDistinct
    <2>5. \A f \in purgatory : f.package_id # i.package_id
      BY DEF IInv, Exclusive
    <2>6. Exclusive'
      BY <1>1, <2>1, <2>2, <2>4, <2>5 DEF IInv, Exclusive
    <2>7. UnionOwned'
      BY <1>1, <1>2, <2>1, <2>2 DEF IInv, UnionOwned, Running, InPurgatory
    <2>8. PurgatoryMatchesKernel'
      BY <1>2, <1>4, <2>1, <2>2 DEF IInv, PurgatoryMatchesKernel, HasLayers, OnTop, InUse
    <2> QED
      BY <1>5, <1>6, <1>7, <2>3, <2>6, <2>7, <2>8 DEF IInv
  <1> QED
    BY <1>8, <1>9

\* One entry of the sweep
LEMMA ReapIInv ==
  ASSUME LoopMountAssumption, IInv, NEW e \in todo, NEW result \in States \cup {0},
         package_purgatory_reap(e, result)
  PROVE  IInv'
  <1> DEFINE p == e.package_id
             l == e.loop_number
             left == [e EXCEPT !.reusable = result]
  <1>1. /\ e \in purgatory /\ e \in Purgatory
        /\ p \in Package /\ l \in Loop /\ e.reusable \in States
    BY DEF IInv, TypeOK, Purgatory
  <1>2. /\ dbp_loop_umount(p, l, e.reusable, result)
        /\ todo' = todo \ {e}
        /\ UNCHANGED <<registered, instance, run_cnt, now>>
    BY DEF package_purgatory_reap
  <1>3. KernelInv /\ HasLayers(p, l, e.reusable)
    BY <1>1 DEF IInv, KernelInv, TypeOK, PurgatoryMatchesKernel
  <1>4. KernelInv'
    BY <1>1, <1>2, <1>3, UmountInv
  <1>5. /\ result \in States => HasLayers(p, l, result)'
        /\ result = 0 => union'[p] = << >> /\ loopdev' = [loopdev EXCEPT ![l] = Free]
        /\ result # 0 => loopdev' = loopdev
        /\ union' # union => union' = [union EXCEPT ![p] = << >>]
    BY <1>1, <1>2, <1>3, UmountLayers
  <1>6. /\ left.package_id = p /\ left.loop_number = l /\ left.reusable = result
        /\ result \in States => left \in Purgatory
    BY <1>1 DEF Purgatory
  <1>7. purgatory' = (purgatory \ {e}) \cup (IF result = 0 THEN {} ELSE {left})
    BY DEF package_purgatory_reap
  <1>8. /\ loopdev' = loopdev \/ \E x : loopdev' = [loopdev EXCEPT ![l] = x]
        /\ img' = img \/ (Len(img[p]) > 0 /\ img' = [img EXCEPT ![p] = Pop(@)])
        /\ union' = union \/ \E x : union' = [union EXCEPT ![p] = x]
        /\ loopdev[l] = p
    BY <1>2, <1>3, <1>5 DEF dbp_loop_umount, HasLayers
  <1>9. /\ \A i \in instance : i.package_id # p
        /\ \A f \in purgatory \ {e} : f.package_id # p
    BY <1>1 DEF IInv, Exclusive
  <1> HIDE DEF left, p, l
  <1>10. ASSUME NEW q \in Package, NEW d \in Loop, NEW state, q # p, HasLayers(q, d, state)
         PROVE  HasLayers(q, d, state)'
    BY <1>1, <1>3, <1>8, <1>10, OthersKeepLayers
  <1>11. TypeOK'
    <2>1. purgatory' \subseteq Purgatory
      BY <1>6, <1>7 DEF IInv, TypeOK
    <2>2. todo' \subseteq purgatory'
      BY <1>2, <1>7 DEF IInv, TypeOK
    <2> QED
      BY <1>2, <1>4, <2>1, <2>2 DEF IInv, TypeOK, KernelInv
  <1>12. TokensDistinct'
    BY <1>2 DEF IInv, TokensDistinct
  <1>13. Exclusive'
    BY <1>2, <1>6, <1>7, <1>9 DEF IInv, Exclusive
  <1>14. UnionOwned'
    <2>1. ASSUME NEW q \in Package PROVE (Running(q) \/ InPurgatory(q) \/ union[q] = << >>)'
      <3>1. CASE q # p
        <4>1. union'[q] = union[q]
          BY <1>3, <1>5, <3>1 DEF KernelInv, KernelTypeOK
        <4>2. Running(q) => Running(q)'
          BY <1>2 DEF Running
        <4>3. InPurgatory(q) => InPurgatory(q)'
          BY <1>7, <3>1 DEF InPurgatory, p
        <4> QED
          BY <4>1, <4>2, <4>3 DEF IInv, UnionOwned
      <3>2. CASE q = p /\ result = 0
        BY <1>5, <3>2
      <3>3. CASE q = p /\ result # 0
        BY <1>6, <1>7, <3>3 DEF InPurgatory
      <3> QED
        BY <3>1, <3>2, <3>3
    <2> QED
      BY <2>1 DEF UnionOwned
  <1>15. LiveIsMounted'
    <2>1. ASSUME NEW i \in instance PROVE HasLayers(i.package_id, i.loop, 1)'
      <3>1. i.package_id \in Package /\ i.loop \in Loop /\ i.package_id # p
        BY <1>9 DEF IInv, TypeOK, Instance
      <3>2. HasLayers(i.package_id, i.loop, 1)
        BY DEF IInv, LiveIsMounted
      <3> QED
        BY <1>10, <3>1, <3>2
    <2> QED
      BY <1>2, <2>1 DEF LiveIsMounted
  <1>16. PurgatoryMatchesKernel'
    <2>1. ASSUME NEW f \in purgatory \ {e}
          PROVE  HasLayers(f.package_id, f.loop_number, f.reusable)'
      <3>1. f.package_id \in Package /\ f.loop_number \in Loop /\ f.package_id # p
        BY <1>9 DEF IInv, TypeOK, Purgatory
      <3>2. HasLayers(f.package_id, f.loop_number, f.reusable)
        BY DEF IInv, PurgatoryMatchesKernel
      <3> QED
        BY <1>10, <3>1, <3>2
    <2>2. CASE result = 0
      BY <1>7, <2>1, <2>2 DEF PurgatoryMatchesKernel
    <2>3. CASE result \in States
      <3>1. HasLayers(p, l, result)'
        BY <1>5, <2>3
      <3>2. HasLayers(left.package_id, left.loop_number, left.reusable)'
        BY <1>6, <3>1
      <3>3. purgatory' \subseteq (purgatory \ {e}) \cup {left}
        BY <1>7
      <3> QED
        BY <2>1, <3>2, <3>3 DEF PurgatoryMatchesKernel
    <2> QED
      BY <2>2, <2>3
  <1> QED
    BY <1>4, <1>11, <1>12, <1>13, <1>14, <1>15, <1>16 DEF IInv, KernelInv

\* Another program attaches or detaches a device
LEMMA OtherProgramIInv ==
  ASSUME LoopMountAssumption, IInv, OtherProgram
  PROVE  IInv'
  <1>1. PICK l \in Loop : ForeignAttach(l) \/ ForeignDetach(l)
    BY DEF OtherProgram
  <1>2. /\ loopdev[l] \in {Free, Foreign}
        /\ UNCHANGED <<img, union, registered, instance, run_cnt, purgatory, todo, now>>
        /\ \E x \in {Free, Foreign} : loopdev' = [loopdev EXCEPT ![l] = x]
    BY <1>1 DEF OtherProgram, ForeignAttach, ForeignDetach
  <1>3. \A d \in Loop : loopdev[d] \in Package => loopdev'[d] = loopdev[d]
    BY <1>2 DEF IInv, TypeOK, KernelTypeOK, LoopMountAssumption
  <1>4. TypeOK'
    BY <1>2 DEF IInv, TypeOK, KernelTypeOK
  <1>5. MountTable'
    <2>1. \A q \in Package : \A i \in 1..Len(img[q]) : img[q][i] \in Loop
      BY LenProperties DEF IInv, TypeOK, KernelTypeOK
    <2> QED
      BY <1>2, <1>3, <2>1 DEF IInv, MountTable
  <1>6. TokensDistinct' /\ Exclusive' /\ UnionOwned'
    BY <1>2 DEF IInv, TokensDistinct, Exclusive, UnionOwned, Running, InPurgatory
  <1>7. ASSUME NEW q \in Package, NEW d \in Loop, NEW state, HasLayers(q, d, state)
        PROVE  HasLayers(q, d, state)'
    BY <1>2, <1>3, <1>7 DEF HasLayers, OnTop, InUse
  <1>8. LiveIsMounted' /\ PurgatoryMatchesKernel'
    BY <1>2, <1>7 DEF IInv, TypeOK, Instance, Purgatory, LiveIsMounted, PurgatoryMatchesKernel
  <1> QED
    BY <1>4, <1>5, <1>6, <1>8 DEF IInv

-----------------------------------------------------------------------------

\* Every step keeps the inductive invariant.
LEMMA NextIInv ==
  ASSUME LoopMountAssumption, PackageRunAssumption, IInv, [Next]_vars
  PROVE  IInv'
  <1>1. /\ registered \subseteq Package
        /\ todo \subseteq purgatory
        /\ now \in Nat
    BY DEF IInv, TypeOK
  <1>2. CASE UNCHANGED vars
    BY <1>1, <1>2, UnchangedIInv DEF vars
  <1>3. ASSUME NEW p \in Package, RunShared(p) PROVE IInv'
    BY <1>3, RunSharedIInv
  <1>4. ASSUME NEW p \in Package, RunRevived(p) PROVE IInv'
    BY <1>4, RunRevivedIInv
  <1>5. ASSUME NEW p \in Package, RunMutilated(p) \/ RunUnknown(p) PROVE IInv'
    BY <1>2, <1>5 DEF RunMutilated, RunUnknown
  <1>6. ASSUME NEW p \in Package, RunMounted(p) PROVE IInv'
    BY <1>6, RunMountedIInv
  <1>7. ASSUME NEW p \in Package, RunFailed(p) PROVE IInv'
    BY <1>7, RunFailedIInv
  <1>8. ASSUME NEW r \in 0..MaxRuns, package_stop(r) PROVE IInv'
    BY <1>8, StopIInv
  <1>9. ASSUME NEW r \in 0..MaxRuns, StopInvalid(r) PROVE IInv'
    BY <1>2, <1>9 DEF StopInvalid
  <1>10. CASE package_purgatory_check
    BY <1>1, <1>10, UnchangedIInv DEF package_purgatory_check, kernel
  <1>11. ASSUME NEW e \in todo, NEW result \in States \cup {0},
                package_purgatory_reap(e, result)
         PROVE  IInv'
    BY <1>11, ReapIInv
  <1>12. CASE RegistryChange
    BY <1>1, <1>12, UnchangedIInv DEF RegistryChange, kernel
  <1>13. CASE OtherProgram
    BY <1>13, OtherProgramIInv
  <1>14. CASE Tick
    BY <1>1, <1>14, UnchangedIInv DEF Tick, kernel
  <1> QED
    BY <1>2, <1>3, <1>4, <1>5, <1>6, <1>7, <1>8, <1>9, <1>10, <1>11, <1>12, <1>13, <1>14
    DEF Next

\* PackageRun never leaves its inductive invariant.
THEOREM Invariance == Spec => []IInv
  <1>1. Init => IInv
    BY LoopMountAssumption, PackageRunAssumption, InitIInv
  <1>2. IInv /\ [Next]_vars => IInv'
    BY LoopMountAssumption, PackageRunAssumption, NextIInv
  <1> QED
    BY <1>1, <1>2, PTL DEF Spec

\* The variables keep their types, package.h's and the kernel's.
THEOREM TypeCorrect == Spec => []TypeOK
  <1>1. IInv => TypeOK
    BY DEF IInv
  <1> QED
    BY <1>1, Invariance, PTL

\* Whoever holds a token has the package mounted, all three layers of it.
THEOREM TokenHolderSafe == Spec => []LiveIsMounted
  <1>1. IInv => LiveIsMounted
    BY DEF IInv
  <1> QED
    BY <1>1, Invariance, PTL

\* The sweep resumes every unmount at the layer where it stopped.
THEOREM PurgatorySafe == Spec => []PurgatoryMatchesKernel
  <1>1. IInv => PurgatoryMatchesKernel
    BY DEF IInv
  <1> QED
    BY <1>1, Invariance, PTL

\* No package is mounted twice, and a mounted one has exactly one owner.
THEOREM SingleOwner == Spec => []OneOwner
  <1>1. ASSUME IInv PROVE OneOwner
    <2>1. ASSUME NEW p \in Package
          PROVE  /\ Len(union[p]) <= 1
                 /\ union[p] # << >> => (Running(p) <=> ~InPurgatory(p))
      <3>1. Running(p) => Len(union[p]) <= 1 /\ union[p] # << >>
        BY <1>1, LayersOnce DEF IInv, TypeOK, Instance, Running, LiveIsMounted
      <3>2. InPurgatory(p) => Len(union[p]) <= 1
        BY <1>1, LayersOnce DEF IInv, TypeOK, Purgatory, InPurgatory, PurgatoryMatchesKernel
      <3>3. Running(p) => ~InPurgatory(p)
        BY <1>1 DEF IInv, Exclusive, Running, InPurgatory
      <3> QED
        BY <1>1, <3>1, <3>2, <3>3 DEF IInv, UnionOwned
    <2> QED
      BY <1>1, <2>1 DEF OneOwner, IInv, Exclusive
  <1> QED
    BY <1>1, Invariance, PTL

-----------------------------------------------------------------------------
(* Leak freedom                                                            *)

\* Initially no device is ours
LEMMA InitNothingLeaked ==
  ASSUME LoopMountAssumption, Init
  PROVE  NothingLeaked
  BY DEF Init, KernelInit, NothingLeaked, LoopMountAssumption

\* With error paths that undo what they did, every step that attaches a device
\* gives it an owner and every step that drops an owner frees its device.
LEMMA NextNothingLeaked ==
  ASSUME LoopMountAssumption, IInv, NothingLeaked, [Next]_vars
  PROVE  NothingLeaked'
  <1> DEFINE InstanceOf(l) == \E i \in instance : i.loop = l /\ i.package_id = loopdev[l]
             EntryOf(l) == \E e \in purgatory : e.loop_number = l /\ e.package_id = loopdev[l]
             Ours(l) == loopdev[l] \in Package \ IllegalDir
  <1> SUFFICES ASSUME ~RollbackMayFail, NEW l \in Loop, Ours(l)'
               PROVE  InstanceOf(l)' \/ EntryOf(l)'
    BY DEF NothingLeaked
  <1>1. Ours(l) => InstanceOf(l) \/ EntryOf(l)
    BY DEF NothingLeaked
  <1>2. CASE UNCHANGED <<loopdev, instance, purgatory>>
    BY <1>1, <1>2
  <1>3. ASSUME NEW p \in Package, RunShared(p) PROVE InstanceOf(l)' \/ EntryOf(l)'
    <2>1. instance \subseteq instance' /\ UNCHANGED <<loopdev, purgatory>>
      BY <1>3 DEF RunShared, add_instance, kernel
    <2> QED
      BY <1>1, <2>1
  <1>4. ASSUME NEW p \in Package, RunRevived(p) PROVE InstanceOf(l)' \/ EntryOf(l)'
    <2>1. PICK e \in purgatory : /\ e.package_id = p
                                 /\ purgatory' = purgatory \ {e}
                                 /\ add_instance(p, e.loop_number)
      BY <1>4 DEF RunRevived
    <2>2. loopdev' = loopdev
      BY <1>4 DEF RunRevived, kernel
    <2>3. \E i \in instance' : i.loop = e.loop_number /\ i.package_id = p
      BY <2>1, AddInstance DEF IInv, TypeOK, Purgatory
    <2>4. instance \subseteq instance'
      BY <2>1 DEF add_instance
    <2> QED
      BY <1>1, <2>1, <2>2, <2>3, <2>4
  <1>5. ASSUME NEW p \in Package, RunMounted(p) PROVE InstanceOf(l)' \/ EntryOf(l)'
    <2>1. PICK d \in Loop : MountOk(p, d) /\ add_instance(p, d)
      BY <1>5 DEF RunMounted
    <2>2. loopdev' = [loopdev EXCEPT ![d] = p] /\ purgatory' = purgatory
      BY <1>5, <2>1 DEF RunMounted, MountOk
    <2>3. \E i \in instance' : i.loop = d /\ i.package_id = p
      BY <2>1, AddInstance
    <2>4. instance \subseteq instance'
      BY <2>1 DEF add_instance
    <2> QED
      BY <1>1, <2>2, <2>3, <2>4 DEF IInv, TypeOK, KernelTypeOK
  <1>6. ASSUME NEW p \in Package, RunFailed(p) PROVE InstanceOf(l)' \/ EntryOf(l)'
    <2>1. instance' = instance /\ purgatory' = purgatory
      BY <1>6 DEF RunFailed
    <2>2. \/ loopdev' = loopdev
          \/ \E d \in Loop : loopdev' = [loopdev EXCEPT ![d] = Foreign]
          \/ p \in IllegalDir /\ \E d \in Loop : loopdev' = [loopdev EXCEPT ![d] = p]
      BY <1>6 DEF RunFailed, MountNoLoop, MountNotAttached, MountBadFsimg,
                  MountIllegalDirname, MountUnionFailed, NothingLeft, ImageLeft, kernel
    <2>3. loopdev'[l] = loopdev[l]
      BY <2>2 DEF IInv, TypeOK, KernelTypeOK, LoopMountAssumption
    <2> QED
      BY <1>1, <2>1, <2>3
  <1>7. ASSUME NEW r, package_stop(r) PROVE InstanceOf(l)' \/ EntryOf(l)'
    <2>1. PICK i \in instance :
            /\ instance' = instance \ {i}
            /\ IF InUseByOther(i) THEN UNCHANGED purgatory
                                  ELSE package_purgatory_add(i.package_id, i.loop)
      BY <1>7 DEF package_stop
    <2>2. loopdev' = loopdev
      BY <1>7 DEF package_stop, kernel
    <2>3. CASE InUseByOther(i)
      <3>1. PICK j \in instance : j.package_id = i.package_id /\ j.run_id # i.run_id
        BY <2>3 DEF InUseByOther
      <3>2. j.loop = i.loop
        BY <3>1 DEF IInv, LiveIsMounted, HasLayers, OnTop
      <3> QED
        BY <1>1, <2>1, <2>2, <2>3, <3>1, <3>2
    <2>4. CASE ~InUseByOther(i)
      <3> DEFINE e == [package_id |-> i.package_id, loop_number |-> i.loop,
                       reusable |-> 1, expiry |-> now + Delay]
      <3>1. purgatory' = purgatory \cup {e}
        BY <2>1, <2>4 DEF package_purgatory_add
      <3>2. e.package_id = i.package_id /\ e.loop_number = i.loop
        OBVIOUS
      <3> HIDE DEF e
      <3> QED
        BY <1>1, <2>1, <2>2, <3>1, <3>2
    <2> QED
      BY <2>3, <2>4
  <1>8. ASSUME NEW e \in todo, NEW result \in States \cup {0}, package_purgatory_reap(e, result)
        PROVE InstanceOf(l)' \/ EntryOf(l)'
    <2> DEFINE left == [e EXCEPT !.reusable = result]
    <2>1. /\ instance' = instance
          /\ purgatory' = (purgatory \ {e}) \cup (IF result = 0 THEN {} ELSE {left})
      BY <1>8 DEF package_purgatory_reap
    <2>2. IF result = 0 THEN loopdev' = [loopdev EXCEPT ![e.loop_number] = Free]
                        ELSE loopdev' = loopdev
      BY <1>8 DEF package_purgatory_reap, dbp_loop_umount
    <2>3. e \in Purgatory
      BY DEF IInv, TypeOK
    <2>4. left.package_id = e.package_id /\ left.loop_number = e.loop_number
      BY <2>3 DEF Purgatory
    <2> HIDE DEF left
    <2>5. CASE result = 0
      <3>1. l # e.loop_number /\ loopdev'[l] = loopdev[l]
        BY <2>2, <2>5 DEF IInv, TypeOK, KernelTypeOK, LoopMountAssumption
      <3> QED
        BY <1>1, <2>1, <3>1
    <2>6. CASE result # 0
      <3>1. loopdev' = loopdev /\ left \in purgatory'
        BY <2>1, <2>2, <2>6
      <3> QED
        BY <1>1, <2>1, <2>4, <3>1
    <2> QED
      BY <2>5, <2>6
  <1>9. CASE OtherProgram
    <2>1. PICK d \in Loop : ForeignAttach(d) \/ ForeignDetach(d)
      BY <1>9 DEF OtherProgram
    <2>2. loopdev'[l] = loopdev[l]
      BY <2>1 DEF ForeignAttach, ForeignDetach, IInv, TypeOK, KernelTypeOK, LoopMountAssumption
    <2> QED
      BY <1>1, <1>9, <2>2 DEF OtherProgram
  <1>10. [Next]_vars =>
            \/ UNCHANGED <<loopdev, instance, purgatory>>
            \/ \E p \in Package : RunShared(p) \/ RunRevived(p) \/ RunMounted(p) \/ RunFailed(p)
            \/ \E r \in 0..MaxRuns : package_stop(r)
            \/ \E e \in todo, result \in States \cup {0} : package_purgatory_reap(e, result)
            \/ OtherProgram
    BY DEF Next, vars, kernel, RunMutilated, RunUnknown, StopInvalid, package_purgatory_check,
           RegistryChange, Tick
  <1> HIDE DEF InstanceOf, EntryOf, Ours
  <1> QED
    BY <1>2, <1>3, <1>4, <1>5, <1>6, <1>7, <1>8, <1>9, <1>10

\* No loop device is lost, except behind an illegal directory name.
THEOREM LeakFree == Spec => []NothingLeaked
  <1>1. Init => NothingLeaked
    BY LoopMountAssumption, InitNothingLeaked
  <1>2. IInv /\ NothingLeaked /\ [Next]_vars => NothingLeaked'
    BY LoopMountAssumption, NextNothingLeaked
  <1> QED
    BY <1>1, <1>2, Invariance, PTL DEF Spec

-----------------------------------------------------------------------------
(* The promise                                                             *)

Held == {<<i.run_id, i.package_id>> : i \in instance}
Mounted == {p \in Package : union[p] # << >>}

\* A launch that succeeds grants a token.
LEMMA LaunchGrants ==
  ASSUME IInv, NEW p \in Package, NEW l \in Loop, add_instance(p, l),
         Mounted' = Mounted \cup {p}
  PROVE  Promise!Grant(p)
  <1>1. Held' = Held \cup {<<run_cnt, p>>}
    <2> DEFINE new == [package_id |-> p, run_id |-> run_cnt, loop |-> l]
    <2>1. instance' = instance \cup {new}
      BY DEF add_instance
    <2>2. new.run_id = run_cnt /\ new.package_id = p
      OBVIOUS
    <2> HIDE DEF new
    <2> QED
      BY <2>1, <2>2 DEF Held
  <1> QED
    BY <1>1 DEF Promise!Grant, add_instance, Held, Mounted

\* Every step of PackageRun is a step of the promise, or one it does not see.
LEMMA StepKeepsPromise ==
  ASSUME LoopMountAssumption, IInv, [Next]_vars
  PROVE  [Promise!Next]_Promise!promise
  <1>1. ASSUME UNCHANGED <<instance, run_cnt, union>> PROVE UNCHANGED Promise!promise
    BY <1>1 DEF Promise!promise
  <1>2. TypeOK
    BY DEF IInv
  <1>3. \A p \in Package : Running(p) => p \in Mounted
    BY DEF IInv, Running, LiveIsMounted, HasLayers, Mounted
  <1>4. ASSUME NEW p \in Package, RunShared(p) PROVE Promise!Grant(p)
    <2>1. PICK i \in instance : i.package_id = p /\ add_instance(p, i.loop)
      BY <1>4 DEF RunShared
    <2>2. i.loop \in Loop
      BY <1>2 DEF TypeOK, Instance
    <2>3. Mounted' = Mounted \cup {p}
      BY <1>3, <1>4, <2>1 DEF RunShared, kernel, Mounted, Running
    <2> QED
      BY <2>1, <2>2, <2>3, LaunchGrants
  <1>5. ASSUME NEW p \in Package, RunRevived(p) PROVE Promise!Grant(p)
    <2>1. PICK e \in purgatory : /\ e.package_id = p
                                 /\ e.reusable >= 1
                                 /\ add_instance(p, e.loop_number)
      BY <1>5 DEF RunRevived
    <2>2. e.loop_number \in Loop /\ e.reusable = 1
      BY <1>2, <2>1 DEF TypeOK, Purgatory, States
    <2>3. union[p] # << >>
      BY <2>1, <2>2, LayersOnce DEF IInv, TypeOK, Purgatory, PurgatoryMatchesKernel
    <2>4. Mounted' = Mounted \cup {p}
      BY <1>5, <2>3 DEF RunRevived, kernel, Mounted
    <2> QED
      BY <2>1, <2>2, <2>4, LaunchGrants
  <1>6. ASSUME NEW p \in Package, RunMounted(p) PROVE Promise!Grant(p)
    <2>1. PICK l \in Loop : MountOk(p, l) /\ add_instance(p, l)
      BY <1>6 DEF RunMounted
    <2>2. Mounted' = Mounted \cup {p}
      BY <1>2, <2>1 DEF MountOk, Mounted, TypeOK, KernelTypeOK
    <2> QED
      BY <2>1, <2>2, LaunchGrants
  <1>7. ASSUME NEW p \in Package, RunFailed(p) PROVE UNCHANGED Promise!promise
    <2>1. UNCHANGED <<instance, run_cnt, union>>
      BY <1>7 DEF RunFailed, MountNoLoop, MountNotAttached, MountBadFsimg, MountIllegalDirname,
                  MountUnionFailed, NothingLeft, DeviceLeft, ImageLeft, kernel
    <2> QED
      BY <1>1, <2>1
  <1>8. ASSUME NEW r \in 0..MaxRuns, package_stop(r)
        PROVE  \E t \in Held : Promise!Return(t)
    <2>1. PICK i \in instance : instance' = instance \ {i}
      BY <1>8 DEF package_stop
    <2>2. Held' = Held \ {<<i.run_id, i.package_id>>}
      BY <2>1 DEF Held, IInv, TokensDistinct
    <2>3. UNCHANGED <<union, run_cnt>>
      BY <1>8 DEF package_stop, kernel
    <2>4. Promise!Return(<<i.run_id, i.package_id>>)
      BY <2>2, <2>3 DEF Promise!Return, Held
    <2> QED
      BY <2>4 DEF Held
  <1>9. ASSUME NEW e \in todo, NEW result \in States \cup {0}, package_purgatory_reap(e, result)
        PROVE  [\E p \in Package : Promise!Unmount(p)]_Promise!promise
    <2>1. /\ e \in purgatory /\ e.package_id \in Package /\ e.loop_number \in Loop
          /\ e.reusable \in States
      BY <1>2 DEF TypeOK, Purgatory
    <2>2. KernelInv /\ HasLayers(e.package_id, e.loop_number, e.reusable)
      BY <1>2, <2>1 DEF IInv, KernelInv, TypeOK, PurgatoryMatchesKernel
    <2>3. /\ dbp_loop_umount(e.package_id, e.loop_number, e.reusable, result)
          /\ UNCHANGED <<instance, run_cnt>>
      BY <1>9 DEF package_purgatory_reap
    <2>4. union' # union => union' = [union EXCEPT ![e.package_id] = << >>]
      BY <2>1, <2>2, <2>3, UmountLayers
    <2>5. CASE union' = union
      BY <1>1, <2>3, <2>5
    <2>6. CASE union' # union
      <3>1. union' = [union EXCEPT ![e.package_id] = << >>]
        BY <2>4, <2>6
      <3>2. union[e.package_id] # << >>
        BY <1>2, <2>1, <2>6, <3>1 DEF TypeOK, KernelTypeOK
      <3>3. Mounted' = Mounted \ {e.package_id}
        BY <1>2, <2>1, <3>1 DEF Mounted, TypeOK, KernelTypeOK
      <3>4. \A t \in Held : t[2] # e.package_id
        BY <2>1 DEF Held, IInv, Exclusive
      <3>5. e.package_id \in Mounted /\ Held' = Held
        BY <2>1, <2>3, <3>2 DEF Mounted, Held
      <3>6. Promise!Unmount(e.package_id)
        BY <2>3, <3>3, <3>4, <3>5 DEF Promise!Unmount, Promise!InUse, Held, Mounted
      <3> QED
        BY <2>1, <3>6
    <2> QED
      BY <2>5, <2>6
  <1>10. CASE OtherProgram
    <2>1. UNCHANGED <<instance, run_cnt, union>>
      BY <1>10 DEF OtherProgram, ForeignAttach, ForeignDetach
    <2> QED
      BY <1>1, <2>1
  <1>11. [Next]_vars =>
            \/ UNCHANGED <<instance, run_cnt, union>>
            \/ \E p \in Package : RunShared(p) \/ RunRevived(p) \/ RunMounted(p) \/ RunFailed(p)
            \/ \E r \in 0..MaxRuns : package_stop(r)
            \/ \E e \in todo, result \in States \cup {0} : package_purgatory_reap(e, result)
            \/ OtherProgram
    BY DEF Next, vars, kernel, RunMutilated, RunUnknown, StopInvalid, package_purgatory_check,
           RegistryChange, Tick
  <1> QED
    BY <1>1, <1>4, <1>5, <1>6, <1>7, <1>8, <1>9, <1>10, <1>11 DEF Promise!Next, Held

\* PackageRun implements MountPromise: tokens are new, and nothing is unmounted
\* under a program that holds one.
THEOREM Refinement == Spec => KeepsPromise
  <1>1. Init => Promise!Init
    BY DEF Init, KernelInit, Promise!Init
  <1>2. IInv /\ [Next]_vars => [Promise!Next]_Promise!promise
    BY LoopMountAssumption, StepKeepsPromise
  <1> QED
    BY <1>1, <1>2, Invariance, PTL DEF Spec, KeepsPromise, Promise!Spec

-----------------------------------------------------------------------------
(* Shutdowns and starts.  The invariant of one dbpd is too strong here: a  *)
(* shutdown forgets the purgatory, so below a package's mounts there may   *)
(* be older ones of which nobody knows.                                    *)

\* What the holder of a token sees: the topmost mounts of p are those on device l.
InPlace(p, l) ==
  /\ loopdev[l] = p
  /\ OnTop(p, l)
  /\ union[p] # << >> /\ union[p][Len(union[p])] = l

\* Tokens that were given out, as far as dbpd remembers or will remember
issued == IF up THEN run_cnt ELSE IF FileIsOfThisBoot THEN state_file.run_cnt ELSE 0

\* No token that is known will be given out again, and none is known twice.
TokensOld ==
  /\ \A i \in known : i.run_id < issued
  /\ \A i, j \in known : i.run_id = j.run_id => i = j

\* A package that can be revived is still what programs would see.
RevivableInPlace == \A e \in purgatory : e.reusable = 1 => InPlace(e.package_id, e.loop_number)

RestartInv ==
  /\ RestartTypeOK
  /\ MountTable
  /\ state_file.boot <= boot
  /\ TokensOld
  /\ Exclusive
  /\ TokensSurvive
  /\ StillMounted
  /\ RevivableInPlace

\* The initial states satisfy it.
LEMMA InitRestartInv ==
  ASSUME LoopMountAssumption, PackageRunAssumption, DaemonRestartAssumption, RestartInit
  PROVE  RestartInv
  <1>1. KernelInv
    BY KernelInitInv DEF RestartInit, Init
  <1>2. TypeOK
    BY <1>1 DEF RestartInit, Init, TypeOK, KernelInv, PackageRunAssumption
  <1>3. RestartTypeOK /\ state_file.boot <= boot
    BY <1>2 DEF RestartInit, Init, RestartTypeOK, StateFile, NoFile, DaemonRestartAssumption
  <1>4. known = {} /\ purgatory = {} /\ instance = {} /\ client = {}
    BY DEF RestartInit, Init, known
  <1> QED
    BY <1>1, <1>3, <1>4
    DEF RestartInv, KernelInv, TokensOld, Exclusive, TokensSurvive, StillMounted, RevivableInPlace

-----------------------------------------------------------------------------
(* Steps of the kernel                                                     *)

\* Whoever leaves the stacks of p and device l alone leaves p in place.
LEMMA KeepsInPlace ==
  ASSUME NEW p \in Package, NEW l \in Loop, InPlace(p, l),
         img'[p] = img[p], union'[p] = union[p], loopdev'[l] = p
  PROVE  InPlace(p, l)'
  BY DEF InPlace, OnTop

\* A step on a device that is not a package's, for package p, keeps the others in place.
LEMMA MountKeepsOthers ==
  ASSUME KernelTypeOK, NEW p \in Package, NEW l \in Loop, loopdev[l] \notin Package,
         loopdev' = loopdev \/ \E x : loopdev' = [loopdev EXCEPT ![l] = x],
         img' = img \/ \E x : img' = [img EXCEPT ![p] = x],
         union' = union \/ \E x : union' = [union EXCEPT ![p] = x],
         NEW q \in Package, NEW d \in Loop, q # p, InPlace(q, d)
  PROVE  InPlace(q, d)'
  <1>1. d # l /\ loopdev[d] = q
    BY DEF InPlace
  <1>2. loopdev'[d] = q /\ img'[q] = img[q] /\ union'[q] = union[q]
    BY <1>1 DEF KernelTypeOK
  <1> QED
    BY <1>2, KeepsInPlace

\* A successful mount puts its package in place, whatever is mounted below.
LEMMA MountOkInPlace ==
  ASSUME KernelTypeOK, NEW p \in Package, NEW l \in Loop, MountOk(p, l)
  PROVE  InPlace(p, l)'
  <1>1. OnTop(p, l)'
    BY PushTop DEF MountOk
  <1>2. loopdev'[l] = p /\ union'[p] = Append(union[p], l) /\ union[p] \in Seq(Loop)
    BY DEF MountOk, KernelTypeOK
  <1>3. /\ Len(union[p]) \in Nat
        /\ Len(union'[p]) = Len(union[p]) + 1
        /\ union'[p][Len(union[p]) + 1] = l
    BY <1>2, AppendProperties, LenProperties
  <1>4. union'[p] # << >>
    BY <1>3
  <1> QED
    BY <1>1, <1>2, <1>3, <1>4 DEF InPlace

\* An unmount keeps the other packages in place.
LEMMA UmountKeepsOthers ==
  ASSUME KernelTypeOK, NEW p \in Package, NEW l \in Loop, NEW prev, NEW result,
         dbp_loop_umount(p, l, prev, result),
         NEW q \in Package, NEW d \in Loop, q # p, InPlace(q, d)
  PROVE  InPlace(q, d)'
  <1>1. img'[q] = img[q] /\ union'[q] = union[q]
    BY DEF KernelTypeOK, dbp_loop_umount
  <1>2. Len(img[q]) \in Nat /\ Len(img[q]) > 0 /\ img[q][Len(img[q])] = d /\ loopdev[d] = q
    BY LenProperties DEF KernelTypeOK, InPlace, OnTop
  <1>3. Len(img'[q]) \in 1..Len(img'[q]) /\ img'[q][Len(img'[q])] = d
    BY <1>1, <1>2
  <1>4. InUse(d)'
    BY <1>3 DEF InUse
  <1>5. loopdev'[d] = q
    <2>1. CASE loopdev' = loopdev
      BY <1>2, <2>1
    <2>2. CASE loopdev' = [loopdev EXCEPT ![l] = Free] /\ ~InUse(l)'
      <3>1. d # l
        BY <1>4, <2>2
      <3> QED
        BY <1>2, <2>2, <3>1 DEF KernelTypeOK
    <2> QED
      BY <2>1, <2>2 DEF dbp_loop_umount
  <1> QED
    BY <1>1, <1>5, KeepsInPlace

-----------------------------------------------------------------------------
(* Steps of dbpd                                                           *)

\* While dbpd is up, what is known is what it has in its memory.
LEMMA UpStep ==
  ASSUME RestartInv, up, UNCHANGED <<up, state_file, boot>>,
         KernelInv', TypeOK', client' \subseteq Nat \X Package,
         TokensDistinct', Exclusive', RevivableInPlace',
         \A t \in client' : \E i \in instance' : i.run_id = t[1] /\ i.package_id = t[2],
         \A i \in instance' : InPlace(i.package_id, i.loop)'
  PROVE  RestartInv'
  <1>1. up' /\ known' = instance' /\ issued' = run_cnt'
    BY DEF known, issued
  <1>2. RestartTypeOK'
    BY <1>1 DEF RestartInv, RestartTypeOK
  <1>3. TokensOld'
    BY <1>1 DEF TokensOld, TokensDistinct
  <1>4. TokensSurvive'
    BY <1>1 DEF TokensSurvive
  <1>5. StillMounted'
    BY <1>1 DEF StillMounted, InPlace, OnTop
  <1> QED
    BY <1>2, <1>3, <1>4, <1>5 DEF RestartInv, KernelInv

\* What the invariant says while dbpd is up
LEMMA WhenUp ==
  ASSUME RestartInv, up
  PROVE  /\ KernelInv /\ KernelTypeOK /\ TypeOK /\ TokensDistinct /\ Exclusive
         /\ client \subseteq Nat \X Package
         /\ known = instance /\ issued = run_cnt
         /\ \A t \in client : \E i \in instance : i.run_id = t[1] /\ i.package_id = t[2]
         /\ \A i \in instance : InPlace(i.package_id, i.loop)
         /\ RevivableInPlace
  <1>1. known = instance /\ issued = run_cnt
    BY DEF known, issued
  <1>2. \A i \in instance : InPlace(i.package_id, i.loop)
    BY <1>1 DEF RestartInv, StillMounted, InPlace
  <1> QED
    BY <1>1, <1>2
    DEF RestartInv, RestartTypeOK, TypeOK, KernelInv, TokensOld, TokensDistinct, TokensSurvive

\* A launch that finds its package in place, or puts it there, keeps the invariant.
LEMMA Granted ==
  ASSUME RestartInv, up, NEW p \in Package, NEW l \in Loop, add_instance(p, l),
         client' = client \cup {<<run_cnt, p>>}, UNCHANGED <<up, state_file, boot>>,
         KernelInv', registered' \subseteq Package, purgatory' \subseteq purgatory,
         todo' \subseteq purgatory', now' \in Nat, InPlace(p, l)', RevivableInPlace',
         \A i \in instance : InPlace(i.package_id, i.loop)',
         \A e \in purgatory' : e.package_id # p
  PROVE  RestartInv'
  <1> DEFINE new == [package_id |-> p, run_id |-> run_cnt, loop |-> l]
  <1>1. /\ TypeOK /\ TokensDistinct /\ Exclusive /\ client \subseteq Nat \X Package
        /\ run_cnt \in Nat /\ instance \subseteq Instance /\ purgatory \subseteq Purgatory
        /\ \A t \in client : \E i \in instance : i.run_id = t[1] /\ i.package_id = t[2]
    BY WhenUp DEF TypeOK
  <1>2. new \in Instance /\ new.package_id = p /\ new.loop = l /\ new.run_id = run_cnt
    BY <1>1 DEF Instance
  <1>3. instance' = instance \cup {new} /\ run_cnt' = run_cnt + 1
    BY DEF add_instance
  <1>4. \A i \in instance : i.run_id \in Nat /\ i.run_id < run_cnt
    BY <1>1 DEF TokensDistinct, Instance
  <1> HIDE DEF new
  <1>5. TokensDistinct'
    BY <1>1, <1>2, <1>3, <1>4 DEF TokensDistinct
  <1>6. Exclusive'
    BY <1>1, <1>2, <1>3 DEF Exclusive
  <1>7. TypeOK'
    BY <1>1, <1>2, <1>3 DEF TypeOK, KernelInv
  <1>8. \A i \in instance' : InPlace(i.package_id, i.loop)'
    BY <1>2, <1>3
  <1>9. client' \subseteq Nat \X Package
    BY <1>1
  <1>10. ASSUME NEW t \in client'
         PROVE  \E i \in instance' : i.run_id = t[1] /\ i.package_id = t[2]
    <2>1. CASE t \in client
      BY <1>1, <1>3, <2>1
    <2>2. CASE t = <<run_cnt, p>>
      BY <1>2, <1>3, <2>2
    <2> QED
      BY <2>1, <2>2
  <1> QED
    BY <1>5, <1>6, <1>7, <1>8, <1>9, <1>10, UpStep

\* Stacks and devices that do not change keep everything in place.
LEMMA SameInPlace ==
  ASSUME UNCHANGED kernel
  PROVE  \A p, l : InPlace(p, l) => InPlace(p, l)'
  BY DEF kernel, InPlace, OnTop

\* A launch
LEMMA LaunchRestartInv ==
  ASSUME LoopMountAssumption, RestartInv, NEW p \in Package, Launch(p)
  PROVE  RestartInv'
  <1>1. /\ up /\ client' = client \cup {<<run_cnt, p>>}
        /\ UNCHANGED <<up, state_file, boot>>
    BY DEF Launch
  <1>2. /\ KernelInv /\ KernelTypeOK /\ Exclusive /\ RevivableInPlace
        /\ registered \subseteq Package /\ instance \subseteq Instance
        /\ purgatory \subseteq Purgatory /\ todo \subseteq purgatory /\ now \in Nat
        /\ \A i \in instance : InPlace(i.package_id, i.loop)
    BY <1>1, WhenUp DEF TypeOK
  <1>3. CASE RunShared(p)
    <2>1. PICK i \in instance : i.package_id = p /\ add_instance(p, i.loop)
      BY <1>3 DEF RunShared
    <2>2. UNCHANGED <<kernel, registered, purgatory, todo, now>>
      BY <1>3 DEF RunShared
    <2>3. i.loop \in Loop /\ InPlace(p, i.loop)'
      BY <1>2, <2>1, <2>2, SameInPlace DEF Instance
    <2>4. KernelInv'
      BY <1>2, <2>2 DEF KernelInv, KernelTypeOK, MountTable, kernel
    <2>5. RevivableInPlace' /\ \A j \in instance : InPlace(j.package_id, j.loop)'
      BY <1>2, <2>2, SameInPlace DEF RevivableInPlace
    <2>6. \A e \in purgatory' : e.package_id # p
      BY <1>2, <2>1, <2>2 DEF Exclusive
    <2> QED
      BY <1>1, <1>2, <2>1, <2>2, <2>3, <2>4, <2>5, <2>6, Granted
  <1>4. CASE RunRevived(p)
    <2>1. PICK e \in purgatory : /\ e.package_id = p
                                 /\ e.reusable >= 1
                                 /\ purgatory' = purgatory \ {e}
                                 /\ add_instance(p, e.loop_number)
      BY <1>4 DEF RunRevived
    <2>2. UNCHANGED <<kernel, registered, todo, now>> /\ MutexFree
      BY <1>4 DEF RunRevived
    <2>3. e.loop_number \in Loop /\ e.reusable = 1
      BY <1>2, <2>1 DEF Purgatory, States
    <2>4. InPlace(p, e.loop_number)'
      BY <1>2, <2>1, <2>2, <2>3, SameInPlace DEF RevivableInPlace
    <2>5. KernelInv'
      BY <1>2, <2>2 DEF KernelInv, KernelTypeOK, MountTable, kernel
    <2>6. RevivableInPlace' /\ \A j \in instance : InPlace(j.package_id, j.loop)'
      BY <1>2, <2>1, <2>2, SameInPlace DEF RevivableInPlace
    <2>7. \A f \in purgatory' : f.package_id # p
      BY <1>2, <2>1 DEF Exclusive
    <2>8. todo' \subseteq purgatory' /\ purgatory' \subseteq purgatory
      BY <2>1, <2>2 DEF MutexFree
    <2> QED
      BY <1>1, <1>2, <2>1, <2>2, <2>3, <2>4, <2>5, <2>6, <2>7, <2>8, Granted
  <1>5. CASE RunMounted(p)
    <2>1. PICK l \in Loop : MountOk(p, l) /\ add_instance(p, l)
      BY <1>5 DEF RunMounted
    <2>2. ~Running(p) /\ ~InPurgatory(p) /\ UNCHANGED <<registered, purgatory, todo, now>>
      BY <1>5 DEF RunMounted, Unmounted
    <2>3. l \in loop_available /\ loopdev[l] \notin Package
      BY <2>1 DEF MountOk, loop_available, LoopMountAssumption
    <2>4. KernelInv'
      <3>1. union' \in [Package -> Seq(Loop)]
        BY <1>2, <2>1, AppendProperties DEF MountOk, KernelTypeOK
      <3> QED
        BY <1>2, <2>1, <2>3, <3>1, ImageMountedInv DEF MountOk
    <2>5. InPlace(p, l)'
      BY <1>2, <2>1, MountOkInPlace
    <2>6. ASSUME NEW q \in Package, NEW d \in Loop, q # p, InPlace(q, d)
          PROVE  InPlace(q, d)'
      BY <1>2, <2>1, <2>3, <2>6, MountKeepsOthers DEF MountOk
    <2>7. \A i \in instance : InPlace(i.package_id, i.loop)'
      BY <1>2, <2>2, <2>6 DEF Instance, Running
    <2>8. RevivableInPlace' /\ \A e \in purgatory' : e.package_id # p
      BY <1>2, <2>2, <2>6 DEF RevivableInPlace, Purgatory, InPurgatory
    <2> QED
      BY <1>1, <1>2, <2>1, <2>2, <2>4, <2>5, <2>7, <2>8, Granted
  <1> QED
    BY <1>3, <1>4, <1>5 DEF Launch, Successful

\* A token that is handed back removes its instance and no other.
LEMMA ReturnRestartInv ==
  ASSUME PackageRunAssumption, RestartInv, NEW t \in client, Return(t)
  PROVE  RestartInv'
  <1>1. /\ up /\ client' = client \ {t} /\ UNCHANGED <<up, state_file, boot>>
        /\ UNCHANGED kernel /\ UNCHANGED <<registered, run_cnt, todo, now>>
    BY DEF Return, package_stop
  <1>2. /\ KernelInv /\ TypeOK /\ TokensDistinct /\ Exclusive /\ RevivableInPlace
        /\ instance \subseteq Instance /\ purgatory \subseteq Purgatory
        /\ todo \subseteq purgatory /\ now \in Nat
        /\ client \subseteq Nat \X Package
        /\ \A s \in client : \E j \in instance : j.run_id = s[1] /\ j.package_id = s[2]
        /\ \A j \in instance : InPlace(j.package_id, j.loop)
    BY <1>1, WhenUp DEF TypeOK
  <1>3. PICK i \in instance : /\ i.run_id = t[1]
                              /\ instance' = instance \ {i}
                              /\ IF InUseByOther(i) THEN UNCHANGED purgatory
                                 ELSE package_purgatory_add(i.package_id, i.loop)
    BY DEF Return, package_stop
  <1> DEFINE new == [package_id |-> i.package_id, loop_number |-> i.loop,
                     reusable |-> 1, expiry |-> now + Delay]
  <1>4. /\ new \in Purgatory /\ new.package_id = i.package_id
        /\ new.loop_number = i.loop /\ new.reusable = 1
    BY <1>2, <1>3 DEF Purgatory, Instance, States, PackageRunAssumption
  <1>5. \/ InUseByOther(i) /\ purgatory' = purgatory
        \/ ~InUseByOther(i) /\ purgatory' = purgatory \cup {new}
    BY <1>3 DEF package_purgatory_add
  <1> HIDE DEF new
  <1>6. ~InUseByOther(i) => \A j \in instance' : j.package_id # i.package_id
    BY <1>2, <1>3 DEF InUseByOther, TokensDistinct
  <1>7. KernelInv' /\ TypeOK'
    BY <1>1, <1>2, <1>3, <1>4, <1>5 DEF KernelInv, KernelTypeOK, MountTable, kernel, TypeOK
  <1>8. TokensDistinct'
    BY <1>1, <1>2, <1>3 DEF TokensDistinct
  <1>9. Exclusive'
    <2>1. \A e \in purgatory : e.package_id # i.package_id
      BY <1>2, <1>3 DEF Exclusive
    <2>2. \A j \in instance', e \in purgatory' : j.package_id # e.package_id
      BY <1>2, <1>3, <1>4, <1>5, <1>6 DEF Exclusive
    <2> QED
      BY <1>2, <1>4, <1>5, <2>1, <2>2 DEF Exclusive
  <1>10. RevivableInPlace' /\ \A j \in instance' : InPlace(j.package_id, j.loop)'
    BY <1>1, <1>2, <1>3, <1>4, <1>5, SameInPlace DEF RevivableInPlace
  <1>11. ASSUME NEW s \in client'
         PROVE  \E j \in instance' : j.run_id = s[1] /\ j.package_id = s[2]
    <2>1. s \in client /\ s # t /\ s = <<s[1], s[2]>> /\ t = <<t[1], t[2]>>
      BY <1>1, <1>2
    <2>2. PICK j \in instance : j.run_id = s[1] /\ j.package_id = s[2]
      BY <1>2, <2>1
    <2>3. PICK k \in instance : k.run_id = t[1] /\ k.package_id = t[2]
      BY <1>2
    <2>4. k = i
      BY <1>2, <1>3, <2>3 DEF TokensDistinct
    <2>5. j # i
      BY <2>1, <2>2, <2>3, <2>4
    <2> QED
      BY <1>3, <2>2, <2>5
  <1> QED
    BY <1>1, <1>2, <1>7, <1>8, <1>9, <1>10, <1>11, UpStep

\* What changes no instance and no token need only keep what is in place.
LEMMA InstancesKept ==
  ASSUME RestartInv, up, UNCHANGED <<up, state_file, boot, client, instance, run_cnt>>,
         KernelInv', TypeOK', Exclusive', RevivableInPlace',
         \A i \in instance : InPlace(i.package_id, i.loop)'
  PROVE  RestartInv'
  <1>1. /\ TokensDistinct /\ client \subseteq Nat \X Package
        /\ \A t \in client : \E i \in instance : i.run_id = t[1] /\ i.package_id = t[2]
    BY WhenUp
  <1> QED
    BY <1>1, UpStep DEF TokensDistinct

\* A launch that fails keeps what is in place, whatever it leaves behind.
LEMMA FailedRestartInv ==
  ASSUME LoopMountAssumption, RestartInv, up, UNCHANGED <<up, state_file, boot, client>>,
         NEW p \in Package, RunFailed(p)
  PROVE  RestartInv'
  <1>1. /\ KernelInv /\ KernelTypeOK /\ TypeOK /\ Exclusive /\ RevivableInPlace
        /\ instance \subseteq Instance /\ purgatory \subseteq Purgatory
        /\ \A i \in instance : InPlace(i.package_id, i.loop)
    BY WhenUp DEF TypeOK
  <1>2. /\ ~Running(p) /\ ~InPurgatory(p)
        /\ UNCHANGED <<registered, instance, run_cnt, purgatory, todo, now>>
    BY DEF RunFailed, Unmounted
  <1>3. \/ UNCHANGED kernel
        \/ \E l \in loop_available : DeviceTaken(l) \/ DeviceLeft(p, l) \/ ImageLeft(p, l)
    BY DEF RunFailed, MountNoLoop, MountNotAttached, MountBadFsimg, MountIllegalDirname,
           MountUnionFailed, NothingLeft, DeviceTaken, kernel
  <1>4. /\ KernelInv'
        /\ \A q \in Package, d \in Loop : q # p /\ InPlace(q, d) => InPlace(q, d)'
    <2>1. CASE UNCHANGED kernel
      BY <1>1, <2>1, SameInPlace DEF KernelInv, KernelTypeOK, MountTable, kernel
    <2>2. ASSUME NEW l \in loop_available,
                 DeviceTaken(l) \/ DeviceLeft(p, l) \/ ImageLeft(p, l)
          PROVE  /\ KernelInv'
                 /\ \A q \in Package, d \in Loop : q # p /\ InPlace(q, d) => InPlace(q, d)'
      <3>1. l \in Loop /\ loopdev[l] \notin Package
        BY DEF loop_available, LoopMountAssumption
      <3>2. KernelInv'
        BY <1>1, <2>2, <3>1, DeviceTakenInv, DeviceLeftInv, ImageMountedInv
        DEF ImageLeft, KernelTypeOK
      <3>3. /\ \E x : loopdev' = [loopdev EXCEPT ![l] = x]
            /\ img' = img \/ \E x : img' = [img EXCEPT ![p] = x]
            /\ union' = union
        BY <2>2 DEF DeviceTaken, DeviceLeft, ImageLeft
      <3> QED
        BY <1>1, <3>1, <3>2, <3>3, MountKeepsOthers
    <2> QED
      BY <1>3, <2>1, <2>2
  <1>5. TypeOK' /\ Exclusive'
    BY <1>1, <1>2, <1>4 DEF TypeOK, KernelInv, Exclusive
  <1>6. \A i \in instance : InPlace(i.package_id, i.loop)'
    BY <1>1, <1>2, <1>4 DEF Instance, Running
  <1>7. RevivableInPlace'
    BY <1>1, <1>2, <1>4 DEF RevivableInPlace, Purgatory, InPurgatory
  <1> QED
    BY <1>2, <1>4, <1>5, <1>6, <1>7, InstancesKept

\* The sweep's unmount, however far it gets, is of a package nobody runs.
LEMMA ReapRestartInv ==
  ASSUME LoopMountAssumption, RestartInv, up, UNCHANGED <<up, state_file, boot, client>>,
         NEW e \in todo, NEW result \in States \cup {0}, package_purgatory_reap(e, result)
  PROVE  RestartInv'
  <1>1. /\ KernelInv /\ KernelTypeOK /\ TypeOK /\ Exclusive /\ RevivableInPlace
        /\ instance \subseteq Instance /\ purgatory \subseteq Purgatory
        /\ todo \subseteq purgatory
        /\ \A i \in instance : InPlace(i.package_id, i.loop)
    BY WhenUp DEF TypeOK
  <1> DEFINE p == e.package_id
             l == e.loop_number
             new == [e EXCEPT !.reusable = result]
  <1>2. p \in Package /\ l \in Loop /\ e \in purgatory /\ e.reusable \in States
    BY <1>1 DEF Purgatory
  <1>3. /\ dbp_loop_umount(p, l, e.reusable, result)
        /\ todo' = todo \ {e}
        /\ UNCHANGED <<registered, instance, run_cnt, now>>
        /\ purgatory' = (purgatory \ {e}) \cup (IF result = 0 THEN {} ELSE {new})
    BY DEF package_purgatory_reap
  <1>4. result # 0 => /\ new \in Purgatory /\ new.package_id = p
                      /\ new.loop_number = l /\ new.reusable = result
    BY <1>1, <1>2 DEF Purgatory
  <1>5. KernelInv'
    BY <1>1, <1>2, <1>3, UmountInv
  <1>6. \A q \in Package, d \in Loop : q # p /\ InPlace(q, d) => InPlace(q, d)'
    BY <1>1, <1>2, <1>3, UmountKeepsOthers
  <1>7. result = 1 => UNCHANGED kernel
    BY <1>2, <1>3 DEF dbp_loop_umount, umount_results, States, kernel
  <1>8. result = 1 => e.reusable = 1
    BY <1>2, <1>3 DEF dbp_loop_umount, umount_results, States
  <1> HIDE DEF new, p, l
  <1>9. TypeOK'
    BY <1>1, <1>3, <1>4, <1>5 DEF TypeOK, KernelInv
  <1>10. \A i \in instance : i.package_id # p /\ InPlace(i.package_id, i.loop)'
    BY <1>1, <1>2, <1>6 DEF Exclusive, Instance, p
  <1>11. \A f \in purgatory \ {e} : f.package_id # p
    BY <1>1, <1>2 DEF Exclusive, p
  <1>12. Exclusive'
    BY <1>1, <1>3, <1>4, <1>10, <1>11 DEF Exclusive
  <1>13. RevivableInPlace'
    <2>1. ASSUME NEW f \in purgatory \ {e}, f.reusable = 1
          PROVE  InPlace(f.package_id, f.loop_number)'
      BY <1>1, <1>6, <1>11, <2>1 DEF RevivableInPlace, Purgatory
    <2>2. ASSUME result = 1 PROVE InPlace(p, l)'
      BY <1>1, <1>2, <1>7, <1>8, <2>2, SameInPlace DEF RevivableInPlace, p, l
    <2> QED
      BY <1>3, <1>4, <2>1, <2>2 DEF RevivableInPlace
  <1> QED
    BY <1>3, <1>5, <1>9, <1>10, <1>12, <1>13, InstancesKept

\* Requests, the sweep and registrations
LEMMA ServeRestartInv ==
  ASSUME LoopMountAssumption, RestartInv, Serve
  PROVE  RestartInv'
  <1>1. up /\ UNCHANGED <<up, state_file, boot, client>>
    BY DEF Serve
  <1>2. /\ KernelInv /\ TypeOK /\ Exclusive /\ RevivableInPlace
        /\ \A i \in instance : InPlace(i.package_id, i.loop)
    BY <1>1, WhenUp
  <1>3. ASSUME UNCHANGED <<kernel, instance, run_cnt, purgatory, now>>,
               registered' \subseteq Package, todo' \subseteq purgatory
        PROVE  RestartInv'
    <2>1. KernelInv' /\ TypeOK' /\ Exclusive'
      BY <1>2, <1>3 DEF KernelInv, KernelTypeOK, MountTable, kernel, TypeOK, Exclusive
    <2>2. RevivableInPlace' /\ \A i \in instance : InPlace(i.package_id, i.loop)'
      BY <1>2, <1>3, SameInPlace DEF RevivableInPlace
    <2> QED
      BY <1>1, <1>3, <2>1, <2>2, InstancesKept
  <1>4. CASE package_purgatory_check
    BY <1>2, <1>3, <1>4 DEF package_purgatory_check, TypeOK
  <1>5. CASE RegistryChange
    BY <1>2, <1>3, <1>5 DEF RegistryChange, TypeOK
  <1> QED
    BY <1>1, <1>4, <1>5, FailedRestartInv, ReapRestartInv DEF Serve

-----------------------------------------------------------------------------
(* Steps that dbpd need not be there for                                   *)

\* Other programs and programs that end disturb nobody, whether dbpd is up or not.
LEMMA OutsideRestartInv ==
  ASSUME LoopMountAssumption, RestartInv, Others \/ \E t \in client : Abandon(t)
  PROVE  RestartInv'
  <1>1. UNCHANGED <<registered, instance, run_cnt, purgatory, todo, now, up, state_file, boot>>
    BY DEF Others, OtherProgram, Abandon, vars
  <1>2. /\ RestartTypeOK /\ KernelTypeOK /\ KernelInv /\ known' = known /\ issued' = issued
        /\ client' \subseteq client /\ union' = union /\ img' = img
    BY <1>1 DEF RestartInv, RestartTypeOK, TypeOK, KernelInv, known, issued, FileIsOfThisBoot,
                Others, OtherProgram, ForeignAttach, ForeignDetach, Abandon, vars
  <1>3. /\ loopdev' \in [Loop -> Package \cup {Free, Foreign}]
        /\ \A l \in Loop : loopdev[l] \in Package => loopdev'[l] = loopdev[l]
    BY <1>2 DEF Others, OtherProgram, ForeignAttach, ForeignDetach, Abandon, vars,
                KernelTypeOK, LoopMountAssumption
  <1>4. \A p \in Package, l \in Loop : InPlace(p, l) => InPlace(p, l)'
    BY <1>2, <1>3, KeepsInPlace DEF InPlace
  <1>5. KernelTypeOK' /\ MountTable'
    <2>1. KernelTypeOK'
      BY <1>2, <1>3 DEF KernelTypeOK
    <2>2. \A p \in Package : \A i \in 1..Len(img[p]) : img[p][i] \in Loop
      BY <1>2, LenProperties DEF KernelTypeOK
    <2> QED
      BY <1>2, <1>3, <2>1, <2>2 DEF KernelInv, MountTable
  <1>6. RestartTypeOK'
    BY <1>1, <1>2, <1>5 DEF RestartTypeOK, TypeOK
  <1>7. TokensOld' /\ Exclusive' /\ TokensSurvive' /\ state_file'.boot <= boot'
    BY <1>1, <1>2 DEF RestartInv, TokensOld, Exclusive, TokensSurvive
  <1>8. known \subseteq Instance /\ purgatory \subseteq Purgatory
    BY <1>2 DEF known, RestartTypeOK, TypeOK, StateFile
  <1>9. StillMounted'
    <2>1. \A i \in known : InPlace(i.package_id, i.loop)
      BY DEF RestartInv, StillMounted, InPlace
    <2>2. \A i \in known : InPlace(i.package_id, i.loop)'
      BY <1>4, <1>8, <2>1 DEF Instance
    <2> QED
      BY <1>2, <2>2 DEF StillMounted, InPlace
  <1>10. RevivableInPlace'
    BY <1>1, <1>4, <1>8 DEF RestartInv, RevivableInPlace, Purgatory
  <1> QED
    BY <1>5, <1>6, <1>7, <1>9, <1>10 DEF RestartInv

\* A shutdown writes down all the instances; what it forgets nobody relies on.
LEMMA ShutdownRestartInv ==
  ASSUME RestartInv, Shutdown
  PROVE  RestartInv'
  <1>1. /\ up /\ ~up' /\ state_file' = [boot |-> boot, run_cnt |-> run_cnt, instance |-> instance]
        /\ registered' = {} /\ instance' = {} /\ run_cnt' = 0 /\ purgatory' = {} /\ todo' = {}
        /\ up' = FALSE /\ UNCHANGED <<kernel, now, boot, client>>
    BY DEF Shutdown, MemoryLost, state_dump
  <1>2. RestartTypeOK /\ TypeOK /\ boot \in Nat /\ known = instance /\ issued = run_cnt
    BY <1>1, WhenUp DEF RestartInv, RestartTypeOK
  <1>3. known' = known /\ issued' = issued /\ state_file'.boot <= boot'
    BY <1>1, <1>2 DEF known, issued, FileIsOfThisBoot
  <1>4. TypeOK'
    BY <1>1, <1>2 DEF TypeOK, KernelTypeOK, kernel
  <1>5. state_file' \in StateFile
    BY <1>1, <1>2 DEF StateFile, TypeOK
  <1>6. RestartTypeOK'
    BY <1>1, <1>2, <1>4, <1>5 DEF RestartTypeOK
  <1>7. MountTable' /\ TokensOld' /\ TokensSurvive' /\ StillMounted'
    BY <1>1, <1>3 DEF RestartInv, MountTable, TokensOld, TokensSurvive, StillMounted, OnTop, kernel
  <1>8. Exclusive' /\ RevivableInPlace'
    BY <1>1 DEF Exclusive, RevivableInPlace
  <1> QED
    BY <1>3, <1>6, <1>7, <1>8 DEF RestartInv

\* A start reads them back.
LEMMA StartRestartInv ==
  ASSUME RestartInv, Start
  PROVE  RestartInv'
  <1>1. /\ ~up /\ up' = TRUE
        /\ UNCHANGED <<kernel, registered, purgatory, todo, now, state_file, boot, client>>
        /\ instance' = known /\ run_cnt' = issued
    BY DEF Start, state_recover, known, issued
  <1>2. RestartTypeOK /\ TypeOK /\ purgatory = {}
    BY <1>1 DEF RestartInv, RestartTypeOK
  <1>3. known' = known /\ issued' = issued
    BY <1>1 DEF known, issued
  <1>4. known \subseteq Instance /\ issued \in Nat
    BY <1>1, <1>2 DEF known, issued, RestartTypeOK, StateFile
  <1>5. TypeOK'
    BY <1>1, <1>2, <1>4 DEF TypeOK, KernelTypeOK, kernel
  <1>6. RestartTypeOK'
    BY <1>1, <1>2, <1>5 DEF RestartTypeOK
  <1>7. MountTable' /\ TokensOld' /\ TokensSurvive' /\ StillMounted' /\ state_file'.boot <= boot'
    BY <1>1, <1>3 DEF RestartInv, MountTable, TokensOld, TokensSurvive, StillMounted, OnTop, kernel
  <1>8. Exclusive' /\ RevivableInPlace'
    BY <1>1, <1>2 DEF Exclusive, RevivableInPlace
  <1> QED
    BY <1>6, <1>7, <1>8 DEF RestartInv

\* After a boot nothing is mounted, and the file is of another boot.
LEMMA RebootRestartInv ==
  ASSUME DaemonRestartAssumption, RestartInv, Reboot
  PROVE  RestartInv'
  <1>1. /\ up' = FALSE /\ boot' = boot + 1 /\ boot < MaxBoot /\ client' = {}
        /\ registered' = {} /\ instance' = {} /\ run_cnt' = 0 /\ purgatory' = {} /\ todo' = {}
        /\ loopdev' = [l \in Loop |-> Free]
        /\ img' = [p \in Package |-> << >>]
        /\ union' = [p \in Package |-> << >>]
        /\ UNCHANGED <<now, state_file>>
    BY DEF Reboot, MemoryLost
  <1>2. /\ RestartTypeOK /\ TypeOK /\ boot \in 1..MaxBoot /\ MaxBoot \in Nat
        /\ state_file.boot \in Nat /\ state_file.boot <= boot
    BY DEF RestartInv, RestartTypeOK, StateFile, DaemonRestartAssumption
  <1>3. known' = {}
    BY <1>1, <1>2 DEF known, FileIsOfThisBoot
  <1>4. KernelTypeOK' /\ MountTable'
    <2>1. << >> \in Seq(Loop) /\ Len(<< >>) = 0
      BY EmptySeq
    <2> QED
      BY <1>1, <2>1 DEF KernelTypeOK, MountTable
  <1>5. TypeOK'
    BY <1>1, <1>2, <1>4 DEF TypeOK
  <1>6. RestartTypeOK' /\ state_file'.boot <= boot'
    <2>1. boot' \in 1..MaxBoot /\ state_file'.boot <= boot'
      BY <1>1, <1>2
    <2>2. state_file' \in StateFile
      BY <1>1, <1>2 DEF RestartTypeOK
    <2> QED
      BY <1>1, <1>5, <2>1, <2>2, Zenon DEF RestartTypeOK
  <1>7. TokensOld' /\ TokensSurvive' /\ StillMounted'
    BY <1>1, <1>3 DEF TokensOld, TokensSurvive, StillMounted
  <1>8. Exclusive' /\ RevivableInPlace'
    BY <1>1 DEF Exclusive, RevivableInPlace
  <1> QED
    BY <1>4, <1>6, <1>7, <1>8 DEF RestartInv

\* No step of RestartSpec breaks the invariant.
LEMMA NextRestartInv ==
  ASSUME LoopMountAssumption, PackageRunAssumption, DaemonRestartAssumption,
         RestartInv, [RestartNext]_allvars
  PROVE  RestartInv'
  <1>1. CASE UNCHANGED allvars
    BY <1>1
    DEF allvars, vars, RestartInv, RestartTypeOK, TypeOK, KernelTypeOK, MountTable, TokensOld,
        Exclusive, TokensSurvive, StillMounted, RevivableInPlace, InPlace, OnTop, known, issued,
        FileIsOfThisBoot
  <1> QED
    BY <1>1, LaunchRestartInv, ReturnRestartInv, ServeRestartInv, OutsideRestartInv,
       ShutdownRestartInv, StartRestartInv, RebootRestartInv
    DEF RestartNext

-----------------------------------------------------------------------------

\* The inductive invariant holds in every reachable state.
THEOREM RestartInvariance == RestartSpec => []RestartInv
  <1>1. RestartInit => RestartInv
    BY LoopMountAssumption, PackageRunAssumption, DaemonRestartAssumption, InitRestartInv
  <1>2. RestartInv /\ [RestartNext]_allvars => RestartInv'
    BY LoopMountAssumption, PackageRunAssumption, DaemonRestartAssumption, NextRestartInv
  <1> QED
    BY <1>1, <1>2, PTL DEF RestartSpec

\* The variables of DaemonRestart keep their types; while dbpd is away it knows nothing.
THEOREM RestartTypeCorrect == RestartSpec => []RestartTypeOK
  <1>1. RestartInv => RestartTypeOK
    BY DEF RestartInv
  <1> QED
    BY <1>1, RestartInvariance, PTL

\* A token is good after any number of shutdowns and starts (state_dump and
\* state_recover), for as long as the system is not booted.
THEOREM TokensKept == RestartSpec => []TokensSurvive
  <1>1. RestartInv => TokensSurvive
    BY DEF RestartInv
  <1> QED
    BY <1>1, RestartInvariance, PTL

\* The package of every instance stays mounted while dbpd is away and when it is
\* back, on top of whatever its shutdowns forgot to unmount.
THEOREM MountsKept == RestartSpec => []StillMounted
  <1>1. RestartInv => StillMounted
    BY DEF RestartInv
  <1> QED
    BY <1>1, RestartInvariance, PTL

-----------------------------------------------------------------------------
(* The promise                                                             *)

KnownHeld == {<<i.run_id, i.package_id>> : i \in known}

\* What RestartPromise sees of a state
LEMMA Seen ==
  /\ RestartPromise!promise = <<KnownHeld, Mounted, issued>>
  /\ RestartPromise!promise' = <<KnownHeld', Mounted', issued'>>
  BY DEF RestartPromise!promise, KnownHeld, Mounted, issued

\* A launch grants a token, as if there had been no restart.
LEMMA LaunchUnnoticed ==
  ASSUME LoopMountAssumption, RestartInv, NEW p \in Package, Launch(p)
  PROVE  RestartPromise!Grant(p)
  <1>1. up /\ up' /\ UNCHANGED <<up, state_file, boot>>
    BY DEF Launch
  <1>2. /\ KernelTypeOK /\ known = instance /\ known' = instance'
        /\ issued = run_cnt /\ issued' = run_cnt' /\ RevivableInPlace
        /\ purgatory \subseteq Purgatory
        /\ \A i \in instance : InPlace(i.package_id, i.loop)
    BY <1>1, WhenUp DEF known, issued, TypeOK
  <1>3. PICK l : add_instance(p, l)
    BY DEF Launch, Successful, RunShared, RunRevived, RunMounted
  <1>4. Mounted' = Mounted \cup {p}
    <2>1. CASE RunShared(p)
      <3>1. union[p] # << >> /\ union' = union
        BY <1>2, <2>1 DEF RunShared, InPlace, kernel
      <3> QED
        BY <3>1 DEF Mounted
    <2>2. CASE RunRevived(p)
      <3>1. PICK e \in purgatory : e.package_id = p /\ e.reusable >= 1
        BY <2>2 DEF RunRevived
      <3>2. e.reusable = 1
        BY <1>2, <3>1 DEF Purgatory, States
      <3>3. union[p] # << >> /\ union' = union
        BY <1>2, <2>2, <3>1, <3>2 DEF RunRevived, RevivableInPlace, InPlace, kernel
      <3> QED
        BY <3>3 DEF Mounted
    <2>3. CASE RunMounted(p)
      <3>1. PICK l1 \in Loop : MountOk(p, l1)
        BY <2>3 DEF RunMounted
      <3>2. InPlace(p, l1)' /\ union' = [union EXCEPT ![p] = Append(@, l1)]
        BY <1>2, <3>1, MountOkInPlace DEF MountOk
      <3>3. union'[p] # << >> /\ \A q \in Package : q # p => union'[q] = union[q]
        BY <1>2, <3>2 DEF InPlace, KernelTypeOK
      <3> QED
        BY <3>3 DEF Mounted
    <2> QED
      BY <2>1, <2>2, <2>3 DEF Launch, Successful
  <1>5. KnownHeld' = KnownHeld \cup {<<run_cnt, p>>}
    <2> DEFINE new == [package_id |-> p, run_id |-> run_cnt, loop |-> l]
    <2>1. instance' = instance \cup {new}
      BY <1>3 DEF add_instance
    <2>2. new.run_id = run_cnt /\ new.package_id = p
      OBVIOUS
    <2> HIDE DEF new
    <2> QED
      BY <1>2, <2>1, <2>2 DEF KnownHeld
  <1>6. /\ issued < MaxRuns /\ KnownHeld' = KnownHeld \cup {<<issued, p>>}
        /\ Mounted' = Mounted \cup {p} /\ issued' = issued + 1
    BY <1>2, <1>3, <1>4, <1>5 DEF add_instance
  <1> QED
    BY <1>6 DEF RestartPromise!Grant, KnownHeld, Mounted, issued

\* A token that is handed back is returned.
LEMMA ReturnUnnoticed ==
  ASSUME RestartInv, NEW t \in client, Return(t)
  PROVE  \E s \in KnownHeld : RestartPromise!Return(s)
  <1>1. up /\ up' /\ UNCHANGED <<up, state_file, boot>> /\ UNCHANGED <<union, run_cnt>>
    BY DEF Return, package_stop, kernel
  <1>2. /\ known = instance /\ known' = instance' /\ TokensDistinct
        /\ issued = run_cnt /\ issued' = run_cnt'
    BY <1>1, WhenUp DEF known, issued
  <1>3. PICK i \in instance : instance' = instance \ {i}
    BY DEF Return, package_stop
  <1> DEFINE s == <<i.run_id, i.package_id>>
  <1>4. KnownHeld' = KnownHeld \ {s} /\ s \in KnownHeld
    BY <1>2, <1>3 DEF KnownHeld, TokensDistinct
  <1>5. Mounted' = Mounted /\ issued' = issued
    BY <1>1, <1>2 DEF Mounted
  <1>6. RestartPromise!Return(s)
    BY <1>4, <1>5 DEF RestartPromise!Return, KnownHeld, Mounted, issued
  <1> QED
    BY <1>4, <1>6

\* The sweep unmounts a package nobody holds, or what was mounted below it stays.
LEMMA ReapUnnoticed ==
  ASSUME RestartInv, up, UNCHANGED <<up, state_file, boot, client>>,
         NEW e \in todo, NEW result \in States \cup {0}, package_purgatory_reap(e, result)
  PROVE  (\E p \in Package : RestartPromise!Unmount(p)) \/ UNCHANGED RestartPromise!promise
  <1>1. /\ KernelTypeOK /\ Exclusive /\ todo \subseteq purgatory /\ purgatory \subseteq Purgatory
        /\ known = instance /\ known' = instance' /\ issued = run_cnt /\ issued' = run_cnt'
    BY WhenUp DEF TypeOK, known, issued
  <1> DEFINE p == e.package_id
  <1>2. p \in Package /\ e \in purgatory
    BY <1>1 DEF Purgatory
  <1>3. UNCHANGED <<instance, run_cnt>> /\ \A q \in Package : q # p => union'[q] = union[q]
    BY <1>1 DEF package_purgatory_reap, dbp_loop_umount, KernelTypeOK
  <1>4. KnownHeld' = KnownHeld /\ issued' = issued
    BY <1>1, <1>3 DEF KnownHeld
  <1>5. union[p] = << >> => union' = union
    BY DEF package_purgatory_reap, dbp_loop_umount
  <1>6. CASE (union'[p] # << >>) <=> (union[p] # << >>)
    <2>1. Mounted' = Mounted
      BY <1>2, <1>3, <1>6 DEF Mounted
    <2> QED
      BY <1>4, <2>1, Seen
  <1>7. CASE union[p] # << >> /\ union'[p] = << >>
    <2>1. p \in Mounted /\ Mounted' = Mounted \ {p}
      BY <1>2, <1>3, <1>7 DEF Mounted
    <2>2. \A t \in KnownHeld : t[2] # p
      BY <1>1, <1>2 DEF KnownHeld, Exclusive
    <2>3. RestartPromise!Unmount(p)
      BY <1>4, <2>1, <2>2
      DEF RestartPromise!Unmount, RestartPromise!InUse, KnownHeld, Mounted, issued
    <2> QED
      BY <1>2, <2>3
  <1> QED
    BY <1>5, <1>6, <1>7

\* While the system stays up each step is one of the promise, or not seen in it.
LEMMA StepUnnoticed ==
  ASSUME LoopMountAssumption, RestartInv, [RestartNext]_allvars, boot' = boot
  PROVE  RestartPromise!Next \/ UNCHANGED RestartPromise!promise
  <1>1. ASSUME known' = known, issued' = issued, union' = union
        PROVE  UNCHANGED RestartPromise!promise
    <2>1. KnownHeld' = KnownHeld /\ Mounted' = Mounted
      BY <1>1 DEF KnownHeld, Mounted
    <2> QED
      BY <1>1, <2>1, Seen
  <1>2. ASSUME NEW p \in Package, Launch(p) PROVE RestartPromise!Next
    BY <1>2, LaunchUnnoticed DEF RestartPromise!Next
  <1>3. ASSUME NEW t \in client, Return(t) PROVE RestartPromise!Next
    BY <1>3, ReturnUnnoticed DEF RestartPromise!Next, KnownHeld
  <1>4. CASE Serve
    <2>1. up /\ UNCHANGED <<up, state_file, boot, client>>
      BY <1>4 DEF Serve
    <2>2. ASSUME UNCHANGED <<instance, run_cnt, union>> PROVE UNCHANGED RestartPromise!promise
      BY <1>1, <2>1, <2>2 DEF known, issued
    <2>3. ASSUME NEW p \in Package, RunFailed(p) PROVE UNCHANGED <<instance, run_cnt, union>>
      BY <2>3 DEF RunFailed, MountNoLoop, MountNotAttached, MountBadFsimg, MountIllegalDirname,
                  MountUnionFailed, NothingLeft, DeviceLeft, ImageLeft, kernel
    <2>4. package_purgatory_check \/ RegistryChange => UNCHANGED <<instance, run_cnt, union>>
      BY DEF package_purgatory_check, RegistryChange, kernel
    <2> QED
      BY <1>4, <2>1, <2>2, <2>3, <2>4, ReapUnnoticed DEF Serve, RestartPromise!Next
  <1>5. CASE Others \/ \E t \in client : Abandon(t)
    <2>1. UNCHANGED <<instance, run_cnt, union, up, state_file, boot>>
      BY <1>5 DEF Others, OtherProgram, ForeignAttach, ForeignDetach, Abandon, vars
    <2> QED
      BY <1>1, <2>1 DEF known, issued, FileIsOfThisBoot
  <1>6. CASE Shutdown
    <2>1. known = instance /\ issued = run_cnt
      BY <1>6 DEF Shutdown, known, issued
    <2> QED
      BY <1>1, <1>6, <2>1
      DEF Shutdown, MemoryLost, state_dump, kernel, known, issued, FileIsOfThisBoot
  <1>7. CASE Start
    BY <1>1, <1>7 DEF Start, state_recover, kernel, known, issued
  <1>8. CASE Reboot
    <2>1. boot \in Nat /\ boot' = boot + 1
      BY <1>8 DEF Reboot, RestartInv, RestartTypeOK
    <2> QED
      BY <2>1
  <1>9. CASE UNCHANGED allvars
    BY <1>1, <1>9 DEF allvars, vars, known, issued, FileIsOfThisBoot
  <1> QED
    BY <1>2, <1>3, <1>4, <1>5, <1>6, <1>7, <1>8, <1>9 DEF RestartNext

\* Programs cannot notice restarts: between two boots, with any number of
\* shutdowns and starts, dbpd keeps the promise of one dbpd that never stops.
THEOREM Unnoticed == RestartSpec => RestartsUnnoticed
  <1>1. RestartInit => RestartPromise!Init
    BY DEF RestartInit, Init, KernelInit, RestartPromise!Init, known
  <1>2. RestartInv /\ [RestartNext]_allvars =>
          [boot' = boot => RestartPromise!Next \/ UNCHANGED RestartPromise!promise]_allvars
    BY LoopMountAssumption, StepUnnoticed
  <1> QED
    BY <1>1, <1>2, RestartInvariance, PTL DEF RestartSpec, RestartsUnnoticed
=============================================================================
