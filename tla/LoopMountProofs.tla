-------------------------- MODULE LoopMountProofs --------------------------
(***************************************************************************)
(* What the mounts and unmounts of LoopMount preserve, for every set of    *)
(* packages and devices: the mount table stays consistent, an unmounted    *)
(* layer is really gone, and a step for one package leaves the layers of   *)
(* every other package alone.                                              *)
(***************************************************************************)
EXTENDS LoopMount, SequenceTheorems, TLAPS

KernelInv == KernelTypeOK /\ MountTable

\* A step that fails may hand device l from nobody to another program
DeviceTaken(l) ==
  /\ l \in loop_available
  /\ loopdev' = [loopdev EXCEPT ![l] = Foreign]
  /\ UNCHANGED <<img, union>>

-----------------------------------------------------------------------------

\* Initially nothing is mounted.
LEMMA KernelInitInv == KernelInit => KernelInv
  <1> SUFFICES ASSUME KernelInit PROVE KernelInv
    OBVIOUS
  <1>1. loopdev \in [Loop -> Package \cup {Free, Foreign}]
    BY DEF KernelInit
  <1>2. img \in [Package -> Seq(Loop)]
    BY EmptySeq DEF KernelInit
  <1>3. union \in [Package -> Seq(Loop)]
    BY EmptySeq DEF KernelInit
  <1>4. MountTable
    BY DEF KernelInit, MountTable
  <1> QED
    BY <1>1, <1>2, <1>3, <1>4 DEF KernelInv, KernelTypeOK

\* A device that is free is not mounted, one that is mounted at p holds p.
LEMMA FreeNotInUse ==
  ASSUME LoopMountAssumption, KernelInv, NEW l \in Loop, loopdev[l] \notin Package
  PROVE  ~InUse(l)
  BY DEF KernelInv, MountTable, InUse

\* Pushing a device on a stack puts it on top and moves nothing else.
LEMMA PushTop ==
  ASSUME KernelTypeOK, NEW p \in Package, NEW l \in Loop,
         img' = [img EXCEPT ![p] = Append(@, l)]
  PROVE  /\ img' \in [Package -> Seq(Loop)]
         /\ \A q \in Package : q # p => img'[q] = img[q]
         /\ Len(img[p]) \in Nat
         /\ Len(img'[p]) = Len(img[p]) + 1
         /\ \A i \in 1..Len(img[p]) : img'[p][i] = img[p][i]
         /\ img'[p][Len(img'[p])] = l
         /\ OnTop(p, l)'
  <1>1. img[p] \in Seq(Loop) /\ img'[p] = Append(img[p], l)
    BY DEF KernelTypeOK
  <1>2. /\ Append(img[p], l) \in Seq(Loop)
        /\ Len(Append(img[p], l)) = Len(img[p]) + 1
        /\ \A i \in 1..Len(img[p]) : Append(img[p], l)[i] = img[p][i]
        /\ Append(img[p], l)[Len(img[p]) + 1] = l
    BY <1>1, AppendProperties
  <1>3. Len(img[p]) \in Nat
    BY <1>1, LenProperties
  <1> QED
    BY <1>1, <1>2, <1>3 DEF KernelTypeOK, OnTop

\* A stack of one
LEMMA One ==
  ASSUME NEW l \in Loop
  PROVE  Append(<< >>, l) = <<l>> /\ Pop(<<l>>) = << >> /\ <<l>> # << >>
  BY DEF Pop

\* What is left of a stack is a stack.
LEMMA PopSeq ==
  ASSUME NEW s \in Seq(Loop), s # << >>
  PROVE  Pop(s) \in Seq(Loop)
  <1>1. Len(s) \in Nat /\ Len(s) > 0 /\ \A i \in 1..Len(s) : s[i] \in Loop
    BY LenProperties, EmptySeq
  <1>2. \A i \in 1..(Len(s) - 1) : s[i] \in Loop
    BY <1>1
  <1> QED
    BY <1>1, <1>2, SubSeqProperties DEF Pop

\* Popping a stack removes its top and moves nothing else.
LEMMA PopTop ==
  ASSUME KernelTypeOK, NEW p \in Package, Len(img[p]) > 0,
         img' = [img EXCEPT ![p] = Pop(@)]
  PROVE  /\ img' \in [Package -> Seq(Loop)]
         /\ \A q \in Package : q # p => img'[q] = img[q]
         /\ Len(img[p]) \in Nat
         /\ Len(img'[p]) = Len(img[p]) - 1
         /\ \A i \in 1..Len(img'[p]) : img'[p][i] = img[p][i]
  <1>1. img[p] \in Seq(Loop) /\ img'[p] = SubSeq(img[p], 1, Len(img[p]) - 1)
    BY DEF KernelTypeOK, Pop
  <1>2. Len(img[p]) \in Nat /\ \A i \in 1..Len(img[p]) : img[p][i] \in Loop
    BY <1>1, LenProperties
  <1>3. \A i \in 1..(Len(img[p]) - 1) : img[p][i] \in Loop
    BY <1>2
  <1>4. /\ SubSeq(img[p], 1, Len(img[p]) - 1) \in Seq(Loop)
        /\ Len(SubSeq(img[p], 1, Len(img[p]) - 1))
             = IF 1 <= Len(img[p]) - 1 THEN (Len(img[p]) - 1) - 1 + 1 ELSE 0
        /\ \A i \in 1..((Len(img[p]) - 1) - 1 + 1) :
             SubSeq(img[p], 1, Len(img[p]) - 1)[i] = img[p][1 + i - 1]
    BY <1>2, <1>3, SubSeqProperties
  <1>5. Len(img'[p]) = Len(img[p]) - 1
    BY <1>1, <1>2, <1>4
  <1>6. \A i \in 1..Len(img'[p]) : img'[p][i] = img[p][i]
    BY <1>1, <1>2, <1>4, <1>5
  <1> QED
    BY <1>1, <1>2, <1>4, <1>5, <1>6 DEF KernelTypeOK

-----------------------------------------------------------------------------
(* Steps that mount                                                        *)

\* A device alone is attached
LEMMA DeviceLeftInv ==
  ASSUME LoopMountAssumption, KernelInv, NEW p \in Package, NEW l \in loop_available,
         DeviceLeft(p, l)
  PROVE  KernelInv'
  <1>1. ~InUse(l)
    BY FreeNotInUse DEF LoopMountAssumption, loop_available
  <1>2. KernelTypeOK'
    BY DEF KernelInv, KernelTypeOK, DeviceLeft, loop_available
  <1>3. MountTable'
    BY <1>1 DEF KernelInv, KernelTypeOK, MountTable, DeviceLeft, InUse, loop_available
  <1> QED
    BY <1>2, <1>3 DEF KernelInv

\* Another program takes a device
LEMMA DeviceTakenInv ==
  ASSUME LoopMountAssumption, KernelInv, NEW l \in Loop, DeviceTaken(l)
  PROVE  KernelInv'
  <1>1. ~InUse(l)
    BY FreeNotInUse DEF LoopMountAssumption, loop_available, DeviceTaken
  <1>2. KernelTypeOK'
    BY DEF KernelInv, KernelTypeOK, DeviceTaken
  <1>3. MountTable'
    BY <1>1 DEF KernelInv, KernelTypeOK, MountTable, DeviceTaken, InUse
  <1> QED
    BY <1>2, <1>3 DEF KernelInv

\* A device is attached and mounted as image of p, with or without a union
LEMMA ImageMountedInv ==
  ASSUME LoopMountAssumption, KernelInv, NEW p \in Package, NEW l \in loop_available,
         loopdev' = [loopdev EXCEPT ![l] = p],
         img' = [img EXCEPT ![p] = Append(@, l)],
         union' \in [Package -> Seq(Loop)]
  PROVE  KernelInv'
  <1>1. ~InUse(l) /\ l \in Loop
    BY FreeNotInUse DEF LoopMountAssumption, loop_available
  <1>2. KernelTypeOK
    BY DEF KernelInv
  <1>3. /\ img' \in [Package -> Seq(Loop)]
        /\ \A q \in Package : q # p => img'[q] = img[q]
        /\ Len(img[p]) \in Nat
        /\ Len(img'[p]) = Len(img[p]) + 1
        /\ \A i \in 1..Len(img[p]) : img'[p][i] = img[p][i]
        /\ img'[p][Len(img'[p])] = l
    BY <1>1, <1>2, PushTop
  <1>4. loopdev' \in [Loop -> Package \cup {Free, Foreign}]
    BY <1>2 DEF KernelTypeOK
  <1>5. ASSUME NEW q \in Package, NEW i \in 1..Len(img'[q])
        PROVE  /\ loopdev'[img'[q][i]] = q
               /\ \A j \in 1..Len(img'[q]) : img'[q][i] = img'[q][j] => i = j
    <2>1. CASE q # p
      <3>1. img'[q] = img[q]
        BY <1>3, <2>1
      <3>2. img[q][i] # l
        BY <1>1, <3>1 DEF InUse
      <3>3. img[q][i] \in Loop
        BY <1>2, <3>1, LenProperties DEF KernelTypeOK
      <3> QED
        BY <1>2, <3>1, <3>2, <3>3 DEF KernelInv, MountTable, KernelTypeOK
    <2>2. CASE q = p /\ i = Len(img'[p])
      <3>1. \A j \in 1..Len(img[p]) : img[p][j] # l
        BY <1>1 DEF InUse
      <3> QED
        BY <1>1, <1>2, <1>3, <2>2, <3>1 DEF KernelTypeOK
    <2>3. CASE q = p /\ i # Len(img'[p])
      <3>1. i \in 1..Len(img[p])
        BY <1>3, <2>3
      <3>2. img'[p][i] = img[p][i] /\ img[p][i] # l
        BY <1>1, <1>3, <3>1 DEF InUse
      <3>3. img[p][i] \in Loop
        BY <1>2, <3>1, LenProperties DEF KernelTypeOK
      <3>4. loopdev'[img'[q][i]] = q
        BY <1>2, <2>3, <3>1, <3>2, <3>3 DEF KernelInv, MountTable, KernelTypeOK
      <3>5. ASSUME NEW j \in 1..Len(img'[p]), img'[p][i] = img'[p][j]
            PROVE  i = j
        <4>1. j # Len(img'[p])
          BY <1>3, <3>2, <3>5
        <4>2. j \in 1..Len(img[p])
          BY <1>3, <4>1
        <4>3. img[p][i] = img[p][j]
          BY <1>3, <3>2, <3>5, <4>2
        <4> QED
          BY <3>1, <4>2, <4>3 DEF KernelInv, MountTable
      <3> QED
        BY <2>3, <3>4, <3>5
    <2> QED
      BY <2>1, <2>2, <2>3
  <1> QED
    BY <1>3, <1>4, <1>5 DEF KernelInv, KernelTypeOK, MountTable

-----------------------------------------------------------------------------
(* Steps that unmount                                                      *)

\* An unmount, however far it gets, keeps the mount table consistent.
LEMMA UmountInv ==
  ASSUME LoopMountAssumption, KernelInv, NEW p \in Package, NEW l \in Loop,
         NEW prev, NEW result, dbp_loop_umount(p, l, prev, result)
  PROVE  KernelInv'
  <1>1. KernelTypeOK
    BY DEF KernelInv
  <1>2. union' \in [Package -> Seq(Loop)]
    <2>1. CASE union[p] # << >>
      <3>1. Pop(union[p]) \in Seq(Loop)
        BY <1>1, <2>1, PopSeq DEF KernelTypeOK
      <3> QED
        BY <1>1, <3>1 DEF KernelTypeOK, dbp_loop_umount
    <2>2. CASE union[p] = << >>
      BY <1>1, <2>2 DEF KernelTypeOK, dbp_loop_umount
    <2> QED
      BY <2>1, <2>2
  <1>3. loopdev' \in [Loop -> Package \cup {Free, Foreign}]
    BY <1>1 DEF KernelTypeOK, dbp_loop_umount
  <1>4. /\ img' \in [Package -> Seq(Loop)]
        /\ \A q \in Package : /\ 1..Len(img'[q]) \subseteq 1..Len(img[q])
                            /\ \A i \in 1..Len(img'[q]) : img'[q][i] = img[q][i]
    <2>1. CASE img' = img
      BY <1>1, <2>1 DEF KernelTypeOK
    <2>2. CASE Len(img[p]) > 0 /\ img' = [img EXCEPT ![p] = Pop(@)]
      <3>1. /\ img' \in [Package -> Seq(Loop)]
            /\ \A q \in Package : q # p => img'[q] = img[q]
            /\ Len(img[p]) \in Nat
            /\ Len(img'[p]) = Len(img[p]) - 1
            /\ \A i \in 1..Len(img'[p]) : img'[p][i] = img[p][i]
        BY <1>1, <2>2, PopTop
      <3> QED
        BY <3>1
    <2> QED
      BY <2>1, <2>2 DEF dbp_loop_umount
  <1>5. \A q \in Package : \A i \in 1..Len(img'[q]) : loopdev'[img'[q][i]] = loopdev[img'[q][i]]
    <2>1. CASE loopdev' = loopdev
      BY <2>1
    <2>2. CASE loopdev' = [loopdev EXCEPT ![l] = Free] /\ ~InUse(l)'
      BY <1>1, <2>2 DEF InUse, KernelTypeOK
    <2> QED
      BY <2>1, <2>2 DEF dbp_loop_umount
  <1>6. ASSUME NEW q \in Package, NEW i \in 1..Len(img'[q])
        PROVE  /\ loopdev'[img'[q][i]] = q
               /\ \A j \in 1..Len(img'[q]) : img'[q][i] = img'[q][j] => i = j
    <2>1. i \in 1..Len(img[q]) /\ img'[q][i] = img[q][i]
      BY <1>4
    <2>2. loopdev'[img'[q][i]] = q
      BY <1>5, <2>1 DEF KernelInv, MountTable
    <2>3. ASSUME NEW j \in 1..Len(img'[q]), img'[q][i] = img'[q][j]
          PROVE  i = j
      <3>1. j \in 1..Len(img[q]) /\ img'[q][j] = img[q][j]
        BY <1>4
      <3> QED
        BY <2>1, <2>3, <3>1 DEF KernelInv, MountTable
    <2> QED
      BY <2>2, <2>3
  <1> QED
    BY <1>2, <1>3, <1>4, <1>6 DEF KernelInv, KernelTypeOK, MountTable

\* The result of an unmount describes what is left of the package: the next
\* attempt may start where this one stopped.
LEMMA UmountLayers ==
  ASSUME LoopMountAssumption, KernelInv, NEW p \in Package, NEW l \in Loop,
         NEW prev \in States, NEW result \in States \cup {0},
         HasLayers(p, l, prev), dbp_loop_umount(p, l, prev, result)
  PROVE  /\ result \in States => HasLayers(p, l, result)'
         /\ result = 0 => union'[p] = << >> /\ loopdev' = [loopdev EXCEPT ![l] = Free]
         /\ result # 0 => loopdev' = loopdev
         /\ union' # union => union' = [union EXCEPT ![p] = << >>]
  <1>1. KernelTypeOK
    BY DEF KernelInv
  <1>2. loopdev[l] = p /\ union[p] = IF prev = 1 THEN <<l>> ELSE << >>
    BY DEF HasLayers
  <1>3. union'[p] = IF result = 1 THEN <<l>> ELSE << >>
    BY <1>1, <1>2, One DEF dbp_loop_umount, umount_results, States, KernelTypeOK
  <1>4. result # 0 => loopdev' = loopdev
    BY DEF dbp_loop_umount
  <1>5. result = 0 => loopdev' = [loopdev EXCEPT ![l] = Free]
    BY DEF dbp_loop_umount
  <1>6. union' # union => union' = [union EXCEPT ![p] = << >>]
    BY <1>1, <1>2, One DEF dbp_loop_umount, KernelTypeOK
  <1>7. ASSUME result \in {1, -2} PROVE OnTop(p, l)'
    <2>1. prev # -3 /\ img' = img
      BY <1>7 DEF dbp_loop_umount, umount_results, States
    <2> QED
      BY <2>1 DEF HasLayers, OnTop
  <1>8. ASSUME result = -3 PROVE ~InUse(l)'
    <2>1. CASE prev = -3
      BY <1>8, <2>1 DEF HasLayers, InUse, dbp_loop_umount
    <2>2. CASE prev # -3
      <3>1. OnTop(p, l) /\ Len(img[p]) > 0 /\ img' = [img EXCEPT ![p] = Pop(@)]
        BY <1>8, <2>2 DEF HasLayers, dbp_loop_umount
      <3>2. /\ \A q \in Package : q # p => img'[q] = img[q]
            /\ Len(img[p]) \in Nat
            /\ Len(img'[p]) = Len(img[p]) - 1
            /\ \A i \in 1..Len(img'[p]) : img'[p][i] = img[p][i]
        BY <1>1, <3>1, PopTop
      <3>3. ASSUME NEW q \in Package, NEW i \in 1..Len(img'[q]), img'[q][i] = l
            PROVE  FALSE
        <4>1. CASE q # p
          BY <1>2, <3>2, <3>3, <4>1 DEF KernelInv, MountTable
        <4>2. CASE q = p
          <5>1. i \in 1..Len(img[p]) /\ img[p][i] = l /\ i # Len(img[p])
            BY <3>2, <3>3, <4>2
          <5>2. img[p][Len(img[p])] = l /\ Len(img[p]) \in 1..Len(img[p])
            BY <3>1, <3>2 DEF OnTop
          <5> QED
            BY <5>1, <5>2 DEF KernelInv, MountTable
        <4> QED
          BY <4>1, <4>2
      <3> QED
        BY <3>3 DEF InUse
    <2> QED
      BY <2>1, <2>2
  <1>9. result \in States => HasLayers(p, l, result)'
    BY <1>2, <1>3, <1>4, <1>7, <1>8 DEF HasLayers, States
  <1> QED
    BY <1>3, <1>4, <1>5, <1>6, <1>9

-----------------------------------------------------------------------------
(* Steps for one package leave the others alone                            *)

\* A step for package p on device l keeps the layers of package q
LEMMA OthersKeepLayers ==
  ASSUME LoopMountAssumption, KernelInv, NEW p \in Package, NEW l \in Loop,
         NEW q \in Package, NEW d \in Loop, NEW state, HasLayers(q, d, state), p # q,
         loopdev[l] \in {p, Free, Foreign},
         \/ loopdev' = loopdev
         \/ \E x : loopdev' = [loopdev EXCEPT ![l] = x],
         \/ img' = img
         \/ img' = [img EXCEPT ![p] = Append(@, l)]
         \/ Len(img[p]) > 0 /\ img' = [img EXCEPT ![p] = Pop(@)],
         union' = union \/ \E x : union' = [union EXCEPT ![p] = x]
  PROVE  HasLayers(q, d, state)'
  <1>1. KernelTypeOK /\ loopdev[d] = q
    BY DEF KernelInv, HasLayers
  <1>2. d # l
    BY <1>1 DEF LoopMountAssumption
  <1>3. loopdev'[d] = q
    BY <1>1, <1>2 DEF KernelTypeOK
  <1>4. union'[q] = union[q]
    BY <1>1 DEF KernelTypeOK
  <1>5. /\ img'[q] = img[q]
        /\ \A i \in 1..Len(img'[p]) : img'[p][i] \in {img[p][i], l}
        /\ \A i \in 1..Len(img'[p]) : img'[p][i] # l => i \in 1..Len(img[p])
        /\ \A r \in Package : r # p => img'[r] = img[r]
    <2>1. CASE img' = img
      BY <2>1
    <2>2. CASE img' = [img EXCEPT ![p] = Append(@, l)]
      <3>1. /\ \A r \in Package : r # p => img'[r] = img[r]
            /\ Len(img[p]) \in Nat
            /\ Len(img'[p]) = Len(img[p]) + 1
            /\ \A i \in 1..Len(img[p]) : img'[p][i] = img[p][i]
            /\ img'[p][Len(img'[p])] = l
        BY <1>1, <2>2, PushTop
      <3> QED
        BY <3>1
    <2>3. CASE Len(img[p]) > 0 /\ img' = [img EXCEPT ![p] = Pop(@)]
      <3>1. /\ \A r \in Package : r # p => img'[r] = img[r]
            /\ Len(img[p]) \in Nat
            /\ Len(img'[p]) = Len(img[p]) - 1
            /\ \A i \in 1..Len(img'[p]) : img'[p][i] = img[p][i]
        BY <1>1, <2>3, PopTop
      <3> QED
        BY <3>1
    <2> QED
      BY <2>1, <2>2, <2>3
  <1>6. ~InUse(d) => ~InUse(d)'
    BY <1>2, <1>5 DEF InUse
  <1> QED
    BY <1>3, <1>4, <1>5, <1>6 DEF HasLayers, OnTop

\* A package with layers has at most one union, and one if it can be used.
LEMMA LayersOnce ==
  ASSUME NEW p \in Package, NEW l \in Loop, NEW state, HasLayers(p, l, state)
  PROVE  Len(union[p]) <= 1 /\ (state = 1 => union[p] # << >>)
  <1>1. Len(<<l>>) = 1 /\ <<l>> # << >> /\ Len(<< >>) = 0
    OBVIOUS
  <1>2. union[p] = IF state = 1 THEN <<l>> ELSE << >>
    BY DEF HasLayers
  <1> QED
    BY <1>1, <1>2

\* A package with nothing mounted gets all three layers from a successful mount.
LEMMA MountOkLayers ==
  ASSUME LoopMountAssumption, KernelInv, NEW p \in Package, NEW l \in Loop,
         MountOk(p, l), union[p] = << >>
  PROVE  HasLayers(p, l, 1)'
  <1>1. KernelTypeOK
    BY DEF KernelInv
  <1>2. OnTop(p, l)'
    BY <1>1, PushTop DEF MountOk
  <1>3. loopdev'[l] = p /\ union'[p] = <<l>>
    BY <1>1, One DEF MountOk, KernelTypeOK, loop_available
  <1> QED
    BY <1>2, <1>3 DEF HasLayers
=============================================================================
