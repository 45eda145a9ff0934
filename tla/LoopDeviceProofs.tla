-------------------------- MODULE LoopDeviceProofs --------------------------
(***************************************************************************)
(* For every set of packages and devices: the mounts and unmounts of       *)
(* loop.c, system call by system call and beside other programs that use   *)
(* the devices, leave what their results say, and show their caller        *)
(* nothing but the atomic steps of LoopMount.                              *)
(***************************************************************************)
EXTENDS LoopDevice, LoopMountProofs

Pushed == loopdev[loop_n] = pkg /\ img[pkg] = Append(before.img, loop_n)

NotPushed == img[pkg] = before.img

NotOurs == loopdev[loop_n] \in {Free, Foreign}

\* What the mount in progress has done so far
MountSoFar ==
  /\ pc \in {"check"} \cup Mounting =>
       left[pkg] = 0 /\ before.union = << >> /\ union[pkg] = << >>
  /\ pc \in Mounting =>
       /\ \A i \in 1..Len(before.img) : before.img[i] # loop_n
       /\ \A p \in Package : left[p] # 0 => device[p] # loop_n
  /\ pc \in {"check", "attach", "image"} => NotPushed
  /\ pc = "attach" => NotOurs
  /\ pc = "image" => NotOurs \/ loopdev[loop_n] = pkg
  /\ pc \in {"union", "undo"} => Pushed
  /\ pc = "undo" => pkg \notin IllegalDir /\ ret = "UNION_FAILED"
  /\ pc = "reset" =>
       \/ ret = "NOT_SET" /\ NotOurs /\ NotPushed
       \/ ret = "BAD_FSIMG" /\ (NotOurs \/ loopdev[loop_n] = pkg) /\ NotPushed
       \/ ret = "ILL_DIRNAME" /\ pkg \in IllegalDir /\ Pushed
       \/ /\ ret = "UNION_FAILED"
          /\ pkg \notin IllegalDir
          /\ loopdev[loop_n] = pkg
          /\ NotPushed \/ (RollbackMayFail /\ Pushed)

\* What the unmount in progress has found and done so far
UmountSoFar ==
  /\ pc \in Unmounting =>
       /\ loop_n = device[pkg]
       /\ loopdev[loop_n] = pkg
       /\ before.union = IF left[pkg] = 1 THEN <<loop_n>> ELSE << >>
       /\ left[pkg] # -3 => before.img # << >> /\ before.img[Len(before.img)] = loop_n
  /\ pc = "umount_union" => left[pkg] = 1 /\ union[pkg] = <<loop_n>> /\ NotPushed
  /\ pc = "umount_image" => left[pkg] \in {1, -2} /\ union[pkg] = << >> /\ NotPushed
  /\ pc = "clear" =>
       /\ left[pkg] # 0
       /\ union[pkg] = << >>
       /\ ~InUse(loop_n)
       /\ IF left[pkg] = -3 THEN NotPushed ELSE img[pkg] = Pop(before.img)

\* What every caller that waits relies on
Kept ==
  \A p \in Package : pc = "idle" \/ pkg # p =>
    IF left[p] = 0 THEN union[p] = << >> ELSE HasLayers(p, device[p], left[p])

IInv == TypeOK /\ MountTable /\ Kept /\ MountSoFar /\ UmountSoFar

-----------------------------------------------------------------------------
(* Facts about states                                                      *)

\* Appending a device puts it on top, and popping takes it away again.
LEMMA PopAppend ==
  ASSUME NEW s \in Seq(Loop), NEW l \in Loop
  PROVE  /\ Append(s, l) \in Seq(Loop)
         /\ Append(s, l) # << >>
         /\ Len(Append(s, l)) = Len(s) + 1
         /\ Append(s, l)[Len(s) + 1] = l
         /\ Pop(Append(s, l)) = s
  <1>1. /\ Append(s, l) \in Seq(Loop)
        /\ Len(Append(s, l)) = Len(s) + 1
        /\ \A i \in 1..Len(s) : Append(s, l)[i] = s[i]
        /\ Append(s, l)[Len(s) + 1] = l
    BY AppendProperties
  <1>2. Len(s) \in Nat
    BY LenProperties
  <1>3. Append(s, l) # << >>
    BY <1>1, <1>2, EmptySeq
  <1>4. Pop(Append(s, l)) \in Seq(Loop)
    BY <1>1, <1>3, PopSeq
  <1>5. Pop(Append(s, l)) = SubSeq(Append(s, l), 1, Len(s))
    BY <1>1, <1>2 DEF Pop
  <1>6. \A i \in 1..Len(s) : Append(s, l)[i] \in Loop
    BY <1>1, <1>2, LenProperties
  <1>7. /\ Len(SubSeq(Append(s, l), 1, Len(s))) = IF 1 <= Len(s) THEN Len(s) - 1 + 1 ELSE 0
        /\ \A i \in 1..(Len(s) - 1 + 1) : SubSeq(Append(s, l), 1, Len(s))[i] = Append(s, l)[1 + i - 1]
    BY <1>1, <1>2, <1>6, SubSeqProperties
  <1>8. Len(Pop(Append(s, l))) = Len(s) /\ \A i \in 1..Len(s) : Pop(Append(s, l))[i] = s[i]
    BY <1>1, <1>2, <1>5, <1>7
  <1>9. Pop(Append(s, l)) = s
    BY <1>4, <1>8, SeqEqual
  <1> QED
    BY <1>1, <1>3, <1>9

\* A device that holds nothing of another package, and was not mounted for this
\* one, is not mounted.
LEMMA NotMounted ==
  ASSUME LoopMountAssumption, TypeOK, MountTable, NotOurs \/ loopdev[loop_n] = pkg, NotPushed,
         \A i \in 1..Len(before.img) : before.img[i] # loop_n
  PROVE  ~InUse(loop_n)
  BY DEF LoopMountAssumption, TypeOK, KernelTypeOK, MountTable, InUse, NotOurs, NotPushed

-----------------------------------------------------------------------------
(* The invariant                                                           *)

LEMMA InitInv == LoopMountAssumption /\ Init => IInv
  <1> SUFFICES ASSUME LoopMountAssumption, Init PROVE IInv
    OBVIOUS
  <1>1. TypeOK /\ MountTable
    BY KernelInitInv, EmptySeq DEF Init, TypeOK, KernelInv, States, Errors
  <1>2. Kept /\ MountSoFar /\ UmountSoFar
    BY DEF Init, KernelInit, Kept, MountSoFar, UmountSoFar, Mounting, Unmounting
  <1> QED
    BY <1>1, <1>2 DEF IInv

\* A step that neither changes the kernel nor what the caller holds
LEMMA QuietStep ==
  ASSUME IInv, UNCHANGED <<kernel, caller>>, pkg' = pkg \/ pc = "idle",
         \/ pc' # "idle"
         \/ IF left[pkg] = 0 THEN union[pkg] = << >> ELSE HasLayers(pkg, device[pkg], left[pkg])
  PROVE  MountTable' /\ Kept'
  <1>1. MountTable'
    BY DEF IInv, MountTable, kernel
  <1>2. \A p \in Package : HasLayers(p, device[p], left[p]) => HasLayers(p, device[p], left[p])'
    BY DEF HasLayers, InUse, OnTop, kernel, caller
  <1>3. Kept'
    BY <1>2 DEF IInv, Kept, kernel, caller
  <1> QED
    BY <1>1, <1>3

LEMMA MountBegins ==
  ASSUME LoopMountAssumption, IInv, NEW p \in Package, dbp_loop_mount(p)
  PROVE  IInv'
  <1> USE DEF dbp_loop_mount, Begin
  <1>1. TypeOK'
    BY DEF IInv, TypeOK, KernelTypeOK, kernel, caller, Mounting
  <1>2. MountTable' /\ Kept'
    BY QuietStep
  <1>3. MountSoFar'
    BY DEF IInv, TypeOK, KernelTypeOK, Kept, MountSoFar, Mounting, NotPushed, kernel, caller
  <1>4. UmountSoFar'
    BY DEF UmountSoFar, Unmounting
  <1> QED
    BY <1>1, <1>2, <1>3, <1>4 DEF IInv

LEMMA DeviceChecked ==
  ASSUME LoopMountAssumption, IInv, NEW l \in Loop, loop_available_check(l)
  PROVE  IInv'
  <1> USE DEF loop_available_check
  <1>1. TypeOK'
    BY DEF IInv, TypeOK, KernelTypeOK, kernel, caller, Mounting
  <1>2. MountTable' /\ Kept'
    BY QuietStep DEF kernel, caller
  <1>3. CASE UNCHANGED <<pc, loop_n>>
    <2>1. MountSoFar' /\ UmountSoFar'
      BY <1>3 DEF IInv, MountSoFar, Mounting, UmountSoFar, Unmounting, NotPushed, kernel, caller
    <2> QED
      BY <1>1, <1>2, <2>1 DEF IInv
  <1>4. CASE loopdev[l] = Free /\ loop_n' = l /\ pc' = "attach"
    <2>1. /\ left[pkg] = 0 /\ before.union = << >> /\ union[pkg] = << >>
          /\ img[pkg] = before.img
      BY DEF IInv, MountSoFar, NotPushed
    <2>2. \A i \in 1..Len(before.img) : before.img[i] # l
      BY <1>4, <2>1 DEF IInv, TypeOK, MountTable, LoopMountAssumption
    <2>3. \A q \in Package : left[q] # 0 => device[q] # l
      BY <1>4, <2>1 DEF IInv, Kept, HasLayers, LoopMountAssumption
    <2>4. MountSoFar'
      BY <1>4, <2>1, <2>2, <2>3 DEF MountSoFar, Mounting, NotPushed, NotOurs, kernel, caller
    <2>5. UmountSoFar'
      BY <1>4 DEF UmountSoFar, Unmounting
    <2> QED
      BY <1>1, <1>2, <2>4, <2>5 DEF IInv
  <1> QED
    BY <1>3, <1>4

\* The errors that change nothing in the kernel
LEMMA MountErrs ==
  ASSUME LoopMountAssumption, IInv,
         no_loop \/ loop_set_fail \/ open_fail \/ bad_fsimg \/ illegal_dirname \/ union_failed
  PROVE  IInv'
  <1> USE DEF no_loop, loop_set_fail, open_fail, bad_fsimg, illegal_dirname, union_failed, Fail, Goto
  <1>1. UNCHANGED <<kernel, caller, pkg, loop_n, before>>
    OBVIOUS
  <1>2. TypeOK'
    BY <1>1 DEF IInv, TypeOK, KernelTypeOK, kernel, caller, Mounting, Errors
  <1>3. MountTable' /\ Kept'
    BY <1>1, QuietStep DEF IInv, MountSoFar, Mounting
  <1>4. MountSoFar'
    BY <1>1 DEF IInv, MountSoFar, Mounting, NotPushed, Pushed, NotOurs, kernel, caller
  <1>5. UmountSoFar'
    BY DEF UmountSoFar, Unmounting
  <1> QED
    BY <1>2, <1>3, <1>4, <1>5 DEF IInv

\* A step that changes what is attached to or mounted from one device only, at
\* one package, leaves alone what the callers of other packages hold.
LEMMA KeptElsewhere ==
  ASSUME IInv, NEW p \in Package, p # pkg, UNCHANGED device, left'[p] = left[p],
         img'[p] = img[p], union'[p] = union[p],
         left[p] # 0 =>
           /\ device[p] # loop_n
           /\ loopdev'[device[p]] = loopdev[device[p]]
           /\ ~InUse(device[p]) => ~InUse(device[p])'
  PROVE  IF left'[p] = 0 THEN union'[p] = << >> ELSE HasLayers(p, device[p], left[p])'
  BY DEF IInv, Kept, HasLayers, OnTop

\* The device of a mount that has begun is no other package's.
LEMMA DeviceAttached ==
  ASSUME LoopMountAssumption, IInv, loop_setup
  PROVE  IInv'
  <1> USE DEF loop_setup, Goto
  <1>1. TypeOK'
    BY DEF IInv, TypeOK, KernelTypeOK, caller, Mounting
  <1>2. /\ left[pkg] = 0 /\ before.union = << >> /\ union[pkg] = << >> /\ NotPushed
        /\ \A i \in 1..Len(before.img) : before.img[i] # loop_n
        /\ \A p \in Package : left[p] # 0 => device[p] # loop_n
    BY DEF IInv, MountSoFar, Mounting
  <1>3. ~InUse(loop_n)
    BY <1>2, NotMounted DEF IInv, NotOurs, MountSoFar
  <1>4. MountTable'
    BY <1>3 DEF IInv, TypeOK, KernelTypeOK, MountTable, InUse
  <1>5. Kept'
    <2> SUFFICES ASSUME NEW p \in Package, p # pkg
                 PROVE  IF left'[p] = 0 THEN union'[p] = << >> ELSE HasLayers(p, device[p], left[p])'
      BY DEF Kept, caller
    <2> QED
      BY <1>2, KeptElsewhere DEF IInv, TypeOK, KernelTypeOK, InUse, caller
  <1>6. MountSoFar'
    BY <1>2 DEF IInv, TypeOK, KernelTypeOK, MountSoFar, Mounting, NotPushed, caller
  <1>7. UmountSoFar'
    BY DEF UmountSoFar, Unmounting
  <1> QED
    BY <1>1, <1>4, <1>5, <1>6, <1>7 DEF IInv

LEMMA ImageMounted ==
  ASSUME LoopMountAssumption, IInv, mount_image
  PROVE  IInv'
  <1> USE DEF mount_image, Goto
  <1>1. /\ left[pkg] = 0 /\ before.union = << >> /\ union[pkg] = << >> /\ NotPushed
        /\ \A i \in 1..Len(before.img) : before.img[i] # loop_n
        /\ \A p \in Package : left[p] # 0 => device[p] # loop_n
    BY DEF IInv, MountSoFar, Mounting
  <1>2. ~InUse(loop_n)
    BY <1>1, NotMounted DEF IInv
  <1>3. /\ img' \in [Package -> Seq(Loop)]
        /\ \A q \in Package : q # pkg => img'[q] = img[q]
        /\ Len(img[pkg]) \in Nat
        /\ Len(img'[pkg]) = Len(img[pkg]) + 1
        /\ \A i \in 1..Len(img[pkg]) : img'[pkg][i] = img[pkg][i]
        /\ img'[pkg][Len(img'[pkg])] = loop_n
    <2>1. KernelTypeOK /\ pkg \in Package /\ loop_n \in Loop
      BY DEF IInv, TypeOK
    <2>2. img' = [img EXCEPT ![pkg] = Append(@, loop_n)]
      OBVIOUS
    <2> HIDE DEF mount_image
    <2> QED
      BY <2>1, <2>2, PushTop
  <1>4. TypeOK'
    BY <1>3 DEF IInv, TypeOK, KernelTypeOK, caller, Mounting
  <1>5. MountTable'
    BY <1>2, <1>3 DEF IInv, TypeOK, KernelTypeOK, MountTable, InUse
  <1>6. Kept'
    <2> SUFFICES ASSUME NEW p \in Package, p # pkg
                 PROVE  IF left'[p] = 0 THEN union'[p] = << >> ELSE HasLayers(p, device[p], left[p])'
      BY DEF Kept, caller
    <2>1. \A l \in Loop : l # loop_n /\ ~InUse(l) => ~InUse(l)'
      BY <1>3 DEF InUse
    <2> QED
      BY <1>1, <1>3, <2>1, KeptElsewhere DEF IInv, TypeOK, caller
  <1>7. MountSoFar'
    BY <1>1, <1>4 DEF IInv, TypeOK, KernelTypeOK, MountSoFar, Mounting, NotPushed, Pushed, caller
  <1>8. UmountSoFar'
    BY DEF UmountSoFar, Unmounting
  <1> QED
    BY <1>4, <1>5, <1>6, <1>7, <1>8 DEF IInv

LEMMA UnionMounted ==
  ASSUME LoopMountAssumption, IInv, mount_union
  PROVE  IInv'
  <1> USE DEF mount_union, Return, Goto
  <1>1. /\ left[pkg] = 0 /\ union[pkg] = << >> /\ Pushed
        /\ \A i \in 1..Len(before.img) : before.img[i] # loop_n
        /\ \A p \in Package : left[p] # 0 => device[p] # loop_n
    BY DEF IInv, MountSoFar, Mounting
  <1>2. union' = [union EXCEPT ![pkg] = <<loop_n>>]
    BY <1>1, One DEF IInv, TypeOK, KernelTypeOK
  <1>3. OnTop(pkg, loop_n)
    BY <1>1, PopAppend DEF IInv, TypeOK, Pushed, OnTop
  <1>4. TypeOK'
    BY <1>2 DEF IInv, TypeOK, KernelTypeOK, caller, States
  <1>5. MountTable'
    BY DEF IInv, MountTable
  <1>6. HasLayers(pkg, loop_n, 1)'
    BY <1>1, <1>2, <1>3 DEF IInv, TypeOK, KernelTypeOK, HasLayers, OnTop, Pushed
  <1>7. Kept'
    <2> SUFFICES ASSUME NEW p \in Package
                 PROVE  IF left'[p] = 0 THEN union'[p] = << >> ELSE HasLayers(p, device[p], left[p])'
      BY DEF Kept
    <2>1. CASE p = pkg
      BY <1>6, <2>1 DEF IInv, TypeOK
    <2>2. CASE p # pkg
      BY <2>2 DEF IInv, TypeOK, KernelTypeOK, Kept, HasLayers, OnTop, InUse
    <2> QED
      BY <2>1, <2>2
  <1>8. MountSoFar' /\ UmountSoFar'
    BY DEF MountSoFar, UmountSoFar, Mounting, Unmounting
  <1> QED
    BY <1>4, <1>5, <1>7, <1>8 DEF IInv

\* The image that was mounted is on top and is taken away, or it stays.
LEMMA ImageUndone ==
  ASSUME LoopMountAssumption, IInv, undo_image
  PROVE  IInv'
  <1> USE DEF undo_image, Goto
  <1>1. /\ left[pkg] = 0 /\ before.union = << >> /\ union[pkg] = << >> /\ Pushed
        /\ pkg \notin IllegalDir /\ ret = "UNION_FAILED"
        /\ \A i \in 1..Len(before.img) : before.img[i] # loop_n
        /\ \A p \in Package : left[p] # 0 => device[p] # loop_n
    BY DEF IInv, MountSoFar, Mounting
  <1>2. \/ img' = [img EXCEPT ![pkg] = before.img]
        \/ RollbackMayFail /\ img' = img
    BY <1>1, PopAppend DEF IInv, TypeOK, Pushed, KernelTypeOK
  <1>3. \A i \in 1..Len(before.img) : before.img[i] = img[pkg][i] /\ i \in 1..Len(img[pkg])
    <2>1. /\ Len(before.img) \in Nat
          /\ Len(img[pkg]) = Len(before.img) + 1
          /\ \A i \in 1..Len(before.img) : img[pkg][i] = before.img[i]
      BY <1>1, AppendProperties, LenProperties DEF IInv, TypeOK, Pushed
    <2> QED
      BY <2>1
  <1>4. TypeOK'
    BY <1>2 DEF IInv, TypeOK, KernelTypeOK, caller, Mounting
  <1>5. MountTable'
    <2>1. CASE img' = img
      BY <2>1 DEF IInv, MountTable
    <2>2. CASE img' = [img EXCEPT ![pkg] = before.img]
      <3>1. \A p \in Package : \A i \in 1..Len(img'[p]) : i \in 1..Len(img[p]) /\ img'[p][i] = img[p][i]
        BY <1>3, <2>2 DEF IInv, TypeOK, KernelTypeOK
      <3> QED
        BY <3>1 DEF IInv, MountTable
    <2> QED
      BY <1>2, <2>1, <2>2
  <1>6. Kept'
    <2> SUFFICES ASSUME NEW p \in Package, p # pkg
                 PROVE  IF left'[p] = 0 THEN union'[p] = << >> ELSE HasLayers(p, device[p], left[p])'
      BY DEF Kept, caller
    <2>1. \A l \in Loop : ~InUse(l) => ~InUse(l)'
      BY <1>2, <1>3 DEF InUse, IInv, TypeOK, KernelTypeOK
    <2> QED
      BY <1>1, <1>2, <2>1, KeptElsewhere DEF IInv, TypeOK, KernelTypeOK, caller
  <1>7. MountSoFar'
    BY <1>1, <1>2 DEF IInv, TypeOK, KernelTypeOK, MountSoFar, Mounting, NotPushed, Pushed, caller
  <1>8. UmountSoFar'
    BY DEF UmountSoFar, Unmounting
  <1> QED
    BY <1>4, <1>5, <1>6, <1>7, <1>8 DEF IInv

\* Freeing a device that is not mounted, and that no other caller holds
LEMMA DeviceFreed ==
  ASSUME LoopMountAssumption, IInv, ~InUse(loop_n), loopdev' = [loopdev EXCEPT ![loop_n] = Free],
         UNCHANGED <<img, union, device>>, \A p \in Package : p # pkg => left'[p] = left[p],
         \A p \in Package : p # pkg /\ left[p] # 0 => device[p] # loop_n
  PROVE  /\ MountTable'
         /\ \A p \in Package : p # pkg =>
              IF left'[p] = 0 THEN union'[p] = << >> ELSE HasLayers(p, device[p], left[p])'
  <1>1. MountTable'
    BY DEF IInv, TypeOK, KernelTypeOK, MountTable, InUse
  <1>2. ASSUME NEW p \in Package, p # pkg
        PROVE  IF left'[p] = 0 THEN union'[p] = << >> ELSE HasLayers(p, device[p], left[p])'
    <2>1. \A l \in Loop : ~InUse(l) => ~InUse(l)'
      BY DEF InUse
    <2> QED
      BY <1>2, <2>1, KeptElsewhere DEF IInv, TypeOK, KernelTypeOK
  <1> QED
    BY <1>1, <1>2

LEMMA MountGivenUp ==
  ASSUME LoopMountAssumption, IInv, loop_reset_failed_mount
  PROVE  IInv'
  <1> USE DEF loop_reset_failed_mount, Goto
  <1>1. /\ left[pkg] = 0 /\ union[pkg] = << >>
        /\ \A p \in Package : left[p] # 0 => device[p] # loop_n
    BY DEF IInv, MountSoFar, Mounting
  <1>2. TypeOK'
    BY DEF IInv, TypeOK, KernelTypeOK, caller
  <1>3. MountSoFar' /\ UmountSoFar'
    BY DEF MountSoFar, UmountSoFar, Mounting, Unmounting
  <1>4. CASE MayClear(loop_n) /\ loopdev' = [loopdev EXCEPT ![loop_n] = Free]
    <2>1. /\ MountTable'
          /\ \A p \in Package : p # pkg =>
               IF left'[p] = 0 THEN union'[p] = << >> ELSE HasLayers(p, device[p], left[p])'
      BY <1>1, <1>4, DeviceFreed DEF MayClear, caller
    <2>2. Kept'
      BY <1>1, <2>1 DEF Kept, caller
    <2> QED
      BY <1>2, <1>3, <2>1, <2>2 DEF IInv
  <1>5. CASE UNCHANGED loopdev
    <2>1. MountTable' /\ Kept'
      BY <1>1, <1>5, QuietStep DEF kernel
    <2> QED
      BY <1>2, <1>3, <2>1 DEF IInv
  <1> QED
    BY <1>4, <1>5

-----------------------------------------------------------------------------
(* The unmount and other programs                                          *)

LEMMA UmountBegins ==
  ASSUME LoopMountAssumption, IInv, NEW p \in Package, dbp_loop_umount_begin(p)
  PROVE  IInv'
  <1> USE DEF dbp_loop_umount_begin, Begin
  <1>1. left[p] \in {1, -2, -3} /\ device[p] \in Loop
    BY DEF IInv, TypeOK, States
  <1>2. pc' \in Unmounting /\ (left[p] = 1 <=> pc' = "umount_union")
        /\ (left[p] = -2 <=> pc' = "umount_image") /\ (left[p] = -3 <=> pc' = "clear")
    BY <1>1 DEF Unmounting
  <1>3. TypeOK'
    BY <1>1, <1>2 DEF IInv, TypeOK, KernelTypeOK, kernel, caller
  <1>4. MountTable' /\ Kept'
    BY <1>2, QuietStep DEF Unmounting
  <1>5. MountSoFar'
    BY <1>2 DEF MountSoFar, Mounting, Unmounting
  <1>6. HasLayers(p, device[p], left[p])
    BY DEF IInv, Kept
  <1>7. img[p] = << >> => Len(img[p]) = 0
    BY EmptySeq DEF IInv, TypeOK, KernelTypeOK
  <1>8. UmountSoFar'
    BY <1>1, <1>2, <1>6, <1>7 DEF UmountSoFar, Unmounting, HasLayers, OnTop, NotPushed, InUse, kernel, caller
  <1> QED
    BY <1>3, <1>4, <1>5, <1>8 DEF IInv

\* The union is popped or nothing happens.
LEMMA UnionUnmounted ==
  ASSUME LoopMountAssumption, IInv, umount_union
  PROVE  IInv'
  <1> USE DEF umount_union, Return, Goto
  <1>1. /\ loop_n = device[pkg] /\ loopdev[loop_n] = pkg /\ left[pkg] = 1
        /\ union[pkg] = <<loop_n>> /\ before.union = <<loop_n>> /\ NotPushed
        /\ before.img # << >> /\ before.img[Len(before.img)] = loop_n
    BY DEF IInv, UmountSoFar, Unmounting
  <1>2. MountSoFar'
    BY DEF MountSoFar, Mounting
  <1>3. MountTable'
    BY DEF IInv, MountTable
  <1>4. CASE union' = [union EXCEPT ![pkg] = Pop(@)] /\ pc' = "umount_image" /\ UNCHANGED left
    <2>1. union' = [union EXCEPT ![pkg] = << >>]
      BY <1>1, <1>4, One DEF IInv, TypeOK, KernelTypeOK
    <2>2. TypeOK'
      BY <1>4, <2>1, EmptySeq DEF IInv, TypeOK, KernelTypeOK, Unmounting
    <2>3. Kept'
      <3> SUFFICES ASSUME NEW p \in Package, p # pkg
                   PROVE  IF left[p] = 0 THEN union'[p] = << >> ELSE HasLayers(p, device[p], left[p])'
        BY <1>4 DEF Kept, HasLayers
      <3>1. union'[p] = union[p]
        BY <2>1 DEF IInv, TypeOK, KernelTypeOK
      <3>2. IF left[p] = 0 THEN union[p] = << >> ELSE HasLayers(p, device[p], left[p])
        BY DEF IInv, Kept
      <3> QED
        BY <1>4, <3>1, <3>2 DEF HasLayers, OnTop, InUse
    <2>4. UmountSoFar'
      BY <1>1, <1>4, <2>1 DEF IInv, TypeOK, KernelTypeOK, UmountSoFar, Unmounting, NotPushed
    <2> QED
      BY <1>2, <1>3, <2>2, <2>3, <2>4 DEF IInv
  <1>5. CASE Return(1) /\ UNCHANGED union
    <2>1. UNCHANGED <<left, union>>
      BY <1>1, <1>5 DEF IInv, TypeOK
    <2>2. TypeOK'
      BY <1>5, <2>1 DEF IInv, TypeOK, KernelTypeOK
    <2>3. img[pkg] # << >> => Len(img[pkg]) > 0
      BY EmptySeq, LenProperties DEF IInv, TypeOK, KernelTypeOK
    <2>4. HasLayers(pkg, device[pkg], left[pkg])
      BY <1>1, <2>3 DEF HasLayers, OnTop, NotPushed
    <2>5. Kept'
      <3>1. UNCHANGED <<kernel, caller>> /\ pkg' = pkg
        BY <1>5, <2>1 DEF kernel, caller
      <3>2. IF left[pkg] = 0 THEN union[pkg] = << >> ELSE HasLayers(pkg, device[pkg], left[pkg])
        BY <1>1, <2>4
      <3> HIDE DEF umount_union, Return, Goto
      <3> QED
        BY <3>1, <3>2, QuietStep
    <2>6. UmountSoFar'
      BY <1>5 DEF UmountSoFar, Unmounting
    <2> QED
      BY <1>2, <1>3, <2>2, <2>5, <2>6 DEF IInv
  <1> QED
    BY <1>4, <1>5

\* The image is popped or nothing happens.
LEMMA ImageUnmounted ==
  ASSUME LoopMountAssumption, IInv, umount_image
  PROVE  IInv'
  <1> USE DEF umount_image, Return, Goto
  <1>1. /\ loop_n = device[pkg] /\ loopdev[loop_n] = pkg /\ left[pkg] \in {1, -2}
        /\ union[pkg] = << >> /\ NotPushed
        /\ before.union = IF left[pkg] = 1 THEN <<loop_n>> ELSE << >>
        /\ before.img # << >> /\ before.img[Len(before.img)] = loop_n
    BY DEF IInv, UmountSoFar, Unmounting
  <1>2. MountSoFar'
    BY DEF MountSoFar, Mounting
  <1>3. Len(img[pkg]) \in Nat /\ Len(img[pkg]) > 0 /\ img[pkg][Len(img[pkg])] = loop_n
    BY <1>1, EmptySeq, LenProperties DEF IInv, TypeOK, KernelTypeOK, NotPushed
  <1>4. CASE img' = [img EXCEPT ![pkg] = Pop(@)] /\ pc' = "clear" /\ UNCHANGED left
    <2>1. /\ img' \in [Package -> Seq(Loop)]
          /\ \A q \in Package : q # pkg => img'[q] = img[q]
          /\ Len(img'[pkg]) = Len(img[pkg]) - 1
          /\ \A i \in 1..Len(img'[pkg]) : img'[pkg][i] = img[pkg][i]
      <3>1. KernelTypeOK /\ pkg \in Package /\ img' = [img EXCEPT ![pkg] = Pop(@)]
        BY <1>4 DEF IInv, TypeOK
      <3> HIDE DEF umount_image
      <3> QED
        BY <1>3, <3>1, PopTop
    <2>2. \A p \in Package : \A i \in 1..Len(img'[p]) : i \in 1..Len(img[p]) /\ img'[p][i] = img[p][i]
      BY <1>3, <2>1
    <2>3. TypeOK'
      BY <1>4, <2>1 DEF IInv, TypeOK, KernelTypeOK, Unmounting
    <2>4. MountTable'
      BY <2>2 DEF IInv, MountTable
    <2>5. \A l \in Loop : ~InUse(l) => ~InUse(l)'
      BY <2>2 DEF InUse
    <2>6. Kept'
      <3> SUFFICES ASSUME NEW p \in Package, p # pkg
                   PROVE  IF left[p] = 0 THEN union[p] = << >> ELSE HasLayers(p, device[p], left[p])'
        BY <1>4 DEF Kept
      <3>1. IF left[p] = 0 THEN union[p] = << >> ELSE HasLayers(p, device[p], left[p])
        BY DEF IInv, Kept
      <3> QED
        BY <2>1, <2>5, <3>1 DEF IInv, TypeOK, HasLayers, OnTop
    <2>7. ~InUse(loop_n)'
      <3>1. Len(img[pkg]) \in 1..Len(img[pkg])
        BY <1>3
      <3>2. \A i \in 1..Len(img'[pkg]) : img'[pkg][i] # loop_n
        <4> SUFFICES ASSUME NEW i \in 1..Len(img'[pkg]) PROVE img'[pkg][i] # loop_n
          OBVIOUS
        <4>1. pkg \in Package /\ i \in 1..Len(img[pkg]) /\ i # Len(img[pkg]) /\ img'[pkg][i] = img[pkg][i]
          BY <1>3, <2>1, <2>2 DEF IInv, TypeOK
        <4>2. img[pkg][i] = img[pkg][Len(img[pkg])] => i = Len(img[pkg])
          BY <3>1, <4>1 DEF IInv, MountTable
        <4> QED
          BY <1>3, <4>1, <4>2
      <3>3. \A p \in Package : p # pkg => \A i \in 1..Len(img[p]) : img[p][i] # loop_n
        BY <1>1 DEF IInv, MountTable
      <3> QED
        BY <2>1, <3>2, <3>3 DEF InUse
    <2>8. img'[pkg] = Pop(before.img)
      BY <1>1, <1>4 DEF IInv, TypeOK, KernelTypeOK, NotPushed
    <2>9. UmountSoFar'
      BY <1>1, <1>4, <2>7, <2>8 DEF UmountSoFar, Unmounting
    <2> QED
      BY <1>2, <2>3, <2>4, <2>6, <2>9 DEF IInv
  <1>5. CASE Return(-2) /\ UNCHANGED img
    <2>1. left' = [left EXCEPT ![pkg] = -2] /\ UNCHANGED kernel
      BY <1>5 DEF kernel
    <2>2. TypeOK'
      BY <1>5, <2>1 DEF IInv, TypeOK, KernelTypeOK, States
    <2>3. MountTable'
      BY <2>1 DEF IInv, MountTable, kernel
    <2>4. HasLayers(pkg, device[pkg], -2)
      BY <1>1, <1>3 DEF HasLayers, OnTop
    <2>5. Kept'
      <3> SUFFICES ASSUME NEW p \in Package
                   PROVE  IF left'[p] = 0 THEN union[p] = << >> ELSE HasLayers(p, device[p], left'[p])
        BY <2>1 DEF Kept, HasLayers, OnTop, InUse, kernel
      <3>1. CASE p = pkg
        BY <2>1, <2>4, <3>1 DEF IInv, TypeOK
      <3>2. CASE p # pkg
        BY <2>1, <3>2 DEF IInv, TypeOK, Kept
      <3> QED
        BY <3>1, <3>2
    <2>6. UmountSoFar'
      BY <1>5 DEF UmountSoFar, Unmounting
    <2> QED
      BY <1>2, <2>2, <2>3, <2>5, <2>6 DEF IInv
  <1> QED
    BY <1>4, <1>5

\* The device is freed or nothing happens.
LEMMA DeviceReset ==
  ASSUME LoopMountAssumption, IInv, loop_reset
  PROVE  IInv'
  <1> USE DEF loop_reset, Return, Goto
  <1>1. /\ loop_n = device[pkg] /\ loopdev[loop_n] = pkg
        /\ union[pkg] = << >> /\ ~InUse(loop_n)
    BY DEF IInv, UmountSoFar, Unmounting
  <1>2. MountSoFar' /\ UmountSoFar'
    BY DEF MountSoFar, UmountSoFar, Mounting, Unmounting
  <1>3. CASE MayClear(loop_n) /\ loopdev' = [loopdev EXCEPT ![loop_n] = Free] /\ Return(0)
    <2>1. TypeOK'
      BY <1>3 DEF IInv, TypeOK, KernelTypeOK, States
    <2>2. left' = [left EXCEPT ![pkg] = 0] /\ \A p \in Package : p # pkg => left'[p] = left[p]
      BY <1>3 DEF IInv, TypeOK
    <2>3. \A p \in Package : p # pkg /\ left[p] # 0 => device[p] # loop_n
      BY <1>1 DEF IInv, Kept, HasLayers
    <2>4. /\ MountTable'
          /\ \A p \in Package : p # pkg =>
               IF left'[p] = 0 THEN union'[p] = << >> ELSE HasLayers(p, device[p], left[p])'
      BY <1>1, <1>3, <2>2, <2>3, DeviceFreed
    <2>5. Kept'
      BY <1>1, <2>2, <2>4 DEF IInv, TypeOK, Kept
    <2> QED
      BY <1>2, <2>1, <2>4, <2>5 DEF IInv
  <1>4. CASE Return(-3) /\ UNCHANGED loopdev
    <2>1. left' = [left EXCEPT ![pkg] = -3] /\ UNCHANGED kernel
      BY <1>4 DEF kernel
    <2>2. TypeOK'
      BY <1>4, <2>1 DEF IInv, TypeOK, KernelTypeOK, States
    <2>3. MountTable'
      BY <2>1 DEF IInv, MountTable, kernel
    <2>4. Kept'
      <3> SUFFICES ASSUME NEW p \in Package
                   PROVE  IF left'[p] = 0 THEN union[p] = << >> ELSE HasLayers(p, device[p], left'[p])
        BY <2>1 DEF Kept, HasLayers, OnTop, InUse, kernel
      <3>1. CASE p = pkg
        BY <1>1, <2>1, <3>1 DEF IInv, TypeOK, HasLayers
      <3>2. CASE p # pkg
        BY <2>1, <3>2 DEF IInv, TypeOK, Kept
      <3> QED
        BY <3>1, <3>2
    <2> QED
      BY <1>2, <2>2, <2>3, <2>4 DEF IInv
  <1> QED
    BY <1>3, <1>4

LEMMA OtherKeeps ==
  ASSUME LoopMountAssumption, IInv, NEW l \in Loop, OtherProgram(l)
  PROVE  IInv'
  <1> USE DEF OtherProgram, ForeignAttach, ForeignDetach, caller, call
  <1>1. loopdev[l] \in {Free, Foreign} /\ loopdev'[l] \in {Free, Foreign}
    BY DEF IInv, TypeOK, KernelTypeOK
  <1>2. /\ loopdev' \in [Loop -> Package \cup {Free, Foreign}]
        /\ \A k \in Loop : loopdev'[k] # loopdev[k] => loopdev[k] \notin Package /\ loopdev'[k] \in {Free, Foreign}
    BY <1>1 DEF IInv, TypeOK, KernelTypeOK, LoopMountAssumption
  <1>3. TypeOK'
    BY <1>2 DEF IInv, TypeOK, KernelTypeOK
  <1>4. MountTable'
    BY <1>2 DEF IInv, TypeOK, KernelTypeOK, MountTable
  <1>5. Kept'
    BY <1>2 DEF IInv, TypeOK, Kept, HasLayers, OnTop, InUse
  <1>6. MountSoFar'
    <2>1. (NotOurs => NotOurs') /\ (loopdev[loop_n] = pkg => loopdev'[loop_n] = pkg)
      BY <1>2 DEF IInv, TypeOK, KernelTypeOK, NotOurs
    <2> QED
      BY <2>1 DEF IInv, MountSoFar, Pushed, NotPushed
  <1>7. UmountSoFar'
    BY <1>2 DEF IInv, TypeOK, UmountSoFar, NotPushed, InUse, Unmounting
  <1> QED
    BY <1>3, <1>4, <1>5, <1>6, <1>7 DEF IInv

LEMMA NextInv == LoopMountAssumption /\ IInv /\ [Next]_vars => IInv'
  <1> SUFFICES ASSUME LoopMountAssumption, IInv, [Next]_vars PROVE IInv'
    OBVIOUS
  <1>1. CASE Mount
    <2>1. CASE \E p \in Package : dbp_loop_mount(p)
      BY <2>1, MountBegins
    <2>2. CASE \E l \in Loop : loop_available_check(l)
      BY <2>2, DeviceChecked
    <2>3. CASE no_loop \/ loop_set_fail \/ open_fail \/ bad_fsimg \/ illegal_dirname \/ union_failed
      BY <2>3, MountErrs
    <2>4. CASE loop_setup
      BY <2>4, DeviceAttached
    <2>5. CASE mount_image
      BY <2>5, ImageMounted
    <2>6. CASE mount_union
      BY <2>6, UnionMounted
    <2>7. CASE undo_image
      BY <2>7, ImageUndone
    <2>8. CASE loop_reset_failed_mount
      BY <2>8, MountGivenUp
    <2> QED
      BY <1>1, <2>1, <2>2, <2>3, <2>4, <2>5, <2>6, <2>7, <2>8 DEF Mount
  <1>2. CASE Umount
    BY <1>2, UmountBegins, UnionUnmounted, ImageUnmounted, DeviceReset DEF Umount
  <1>3. CASE \E l \in Loop : OtherProgram(l)
    BY <1>3, OtherKeeps
  <1>4. CASE UNCHANGED vars
    <2>1. UNCHANGED <<loopdev, img, union, device, left, pc, pkg, loop_n, unchecked, ret, before>>
      BY <1>4 DEF vars, kernel, caller, call
    <2>2. TypeOK' /\ MountTable'
      BY <2>1 DEF IInv, TypeOK, KernelTypeOK, MountTable
    <2>3. Kept'
      BY <2>1 DEF IInv, Kept, HasLayers, OnTop, InUse
    <2>4. MountSoFar' /\ UmountSoFar'
      BY <2>1 DEF IInv, MountSoFar, UmountSoFar, Pushed, NotPushed, NotOurs, InUse
    <2> QED
      BY <2>2, <2>3, <2>4 DEF IInv
  <1> QED
    BY <1>1, <1>2, <1>3, <1>4 DEF Next

\* The invariant holds in every behaviour.
THEOREM Invariance == Spec => []IInv
  <1>1. Init => IInv
    BY InitInv, LoopMountAssumption
  <1>2. IInv /\ [Next]_vars => IInv'
    BY NextInv, LoopMountAssumption
  <1> QED
    BY <1>1, <1>2, PTL DEF Spec

\* Every state has its type.
THEOREM TypeCorrect == Spec => []TypeOK
  <1>1. IInv => TypeOK
    BY DEF IInv
  <1> QED
    BY <1>1, Invariance, PTL

\* What callers have been told is left to unmount is there, between any two
\* system calls of the others.
THEOREM LeftIsMounted == Spec => []LeftIsThere
  <1>1. IInv => LeftIsThere
    BY DEF IInv, Kept, LeftIsThere
  <1> QED
    BY <1>1, Invariance, PTL

-----------------------------------------------------------------------------
(* What the caller sees                                                    *)

\* Before a mount has attached its device and while nothing is mounted, the
\* caller sees the mounts there are.
LEMMA SeenMounts ==
  ASSUME IInv, NotPushed, union[pkg] = before.union
  PROVE  seen_img = img /\ seen_union = union
  BY DEF IInv, TypeOK, KernelTypeOK, NotPushed, seen_img, seen_union

\* Steps of a mount that hide what they do
LEMMA MountHidden ==
  ASSUME LoopMountAssumption, IInv, IInv',
         \/ \E p \in Package : dbp_loop_mount(p)
         \/ \E l \in Loop : loop_available_check(l)
         \/ loop_setup \/ loop_set_fail \/ open_fail \/ mount_image \/ bad_fsimg
         \/ illegal_dirname \/ union_failed \/ undo_image
  PROVE  CallStep
  <1> SUFFICES ~Returns /\ UNCHANGED <<seen_loopdev, seen_img, seen_union, caller>>
    BY DEF CallStep
  <1>1. CASE \E p \in Package : dbp_loop_mount(p)
    BY <1>1 DEF dbp_loop_mount, Begin, IInv, TypeOK, KernelTypeOK, Returns, kernel, caller, Mounting,
       seen_loopdev, seen_img, seen_union
  <1>2. CASE \E l \in Loop : loop_available_check(l)
    BY <1>2 DEF loop_available_check, IInv, TypeOK, KernelTypeOK, Returns, kernel, caller, Mounting,
       seen_loopdev, seen_img, seen_union
  <1>3. CASE loop_setup
    BY <1>3 DEF loop_setup, Goto, IInv, TypeOK, KernelTypeOK, Returns, caller, Mounting,
       seen_loopdev, seen_img, seen_union
  <1>4. CASE loop_set_fail \/ open_fail \/ bad_fsimg \/ illegal_dirname \/ union_failed
    BY <1>4 DEF loop_set_fail, open_fail, bad_fsimg, illegal_dirname, union_failed, Fail, Goto,
       Returns, kernel, caller, Mounting, seen_loopdev, seen_img, seen_union
  <1>5. CASE mount_image \/ undo_image
    BY <1>5 DEF mount_image, undo_image, Goto, IInv, TypeOK, KernelTypeOK, Returns, caller, Mounting,
       seen_loopdev, seen_img, seen_union
  <1> QED
    BY <1>1, <1>2, <1>3, <1>4, <1>5

LEMMA NoLoopSeen ==
  ASSUME LoopMountAssumption, IInv, no_loop
  PROVE  CallStep
  <1> USE DEF no_loop, Fail
  <1>1. Returns /\ pc \notin Unmounting /\ loop_n \in Loop
    BY DEF IInv, TypeOK, Returns, Unmounting
  <1>2. union[pkg] = before.union /\ NotPushed
    BY DEF IInv, MountSoFar
  <1>3. UNCHANGED <<seen_loopdev, seen_img, seen_union>>
    BY <1>2, SeenMounts DEF seen_loopdev, seen_img, seen_union, Mounting, kernel
  <1>4. MountFails(pkg, loop_n, ret')
    BY <1>3 DEF MountFails, Seen!MountNoLoop, Seen!kernel, caller
  <1> QED
    BY <1>1, <1>4 DEF CallStep

LEMMA MountOkSeen ==
  ASSUME LoopMountAssumption, IInv, mount_union
  PROVE  CallStep
  <1> USE DEF mount_union, Return, Goto
  <1>1. Returns /\ pc \notin Unmounting /\ loop_n \in Loop /\ pkg \in Package
    BY DEF IInv, TypeOK, Returns, Unmounting
  <1>2. left[pkg] = 0 /\ union[pkg] = << >> /\ before.union = << >> /\ Pushed
    BY DEF IInv, MountSoFar, Mounting
  <1>3. loop_n \in Seen!loop_available
    BY <1>1 DEF Seen!loop_available, seen_loopdev, Mounting, IInv, TypeOK, KernelTypeOK
  <1>4. seen_loopdev' = [seen_loopdev EXCEPT ![loop_n] = pkg]
    BY <1>1, <1>2 DEF Pushed, seen_loopdev, Mounting, IInv, TypeOK, KernelTypeOK
  <1>5. seen_img' = [seen_img EXCEPT ![pkg] = Append(@, loop_n)]
    BY <1>1, <1>2 DEF Pushed, seen_img, IInv, TypeOK, KernelTypeOK
  <1>6. seen_union' = [seen_union EXCEPT ![pkg] = Append(@, loop_n)]
    BY <1>1, <1>2 DEF seen_union, IInv, TypeOK, KernelTypeOK
  <1>7. MountSucceeds(pkg, loop_n)
    BY <1>2, <1>3, <1>4, <1>5, <1>6 DEF MountSucceeds, Seen!MountOk
  <1> QED
    BY <1>1, <1>7 DEF CallStep

\* After a failure LoopMount has an outcome for every point it may come at.
LEMMA MountFailsSeen ==
  ASSUME LoopMountAssumption, IInv, loop_reset_failed_mount
  PROVE  CallStep
  <1> USE DEF loop_reset_failed_mount, Goto
  <1>1. Returns /\ pc \notin Unmounting /\ loop_n \in Loop /\ pkg \in Package
    BY DEF IInv, TypeOK, Returns, Unmounting
  <1>2. /\ left[pkg] = 0 /\ union[pkg] = before.union
        /\ \A i \in 1..Len(before.img) : before.img[i] # loop_n
    BY DEF IInv, MountSoFar, Mounting
  <1>3. loop_n \in Seen!loop_available
    BY <1>1 DEF Seen!loop_available, seen_loopdev, Mounting, IInv, TypeOK, KernelTypeOK
  <1>4. /\ seen_union' = seen_union
        /\ NotPushed => seen_img' = seen_img
        /\ Pushed => seen_img' = [seen_img EXCEPT ![pkg] = Append(@, loop_n)]
    BY <1>1, <1>2 DEF seen_union, seen_img, NotPushed, Pushed, IInv, TypeOK, KernelTypeOK
  <1>5. \/ seen_loopdev' = seen_loopdev
        \/ /\ MayStay(loop_n)
           /\ seen_loopdev' = [seen_loopdev EXCEPT ![loop_n] = loopdev[loop_n]]
    BY <1>1 DEF seen_loopdev, Mounting, IInv, TypeOK, KernelTypeOK
  <1>6. loopdev[loop_n] = Free => [seen_loopdev EXCEPT ![loop_n] = loopdev[loop_n]] = seen_loopdev
    BY <1>1 DEF seen_loopdev, Mounting, IInv, TypeOK, KernelTypeOK
  <1>7. CASE NotOurs /\ NotPushed /\ ret \in {"NOT_SET", "BAD_FSIMG"}
    <2>1. Seen!MountNotAttached(loop_n)
      BY <1>3, <1>4, <1>5, <1>6, <1>7 DEF NotOurs, Seen!MountNotAttached
    <2> QED
      BY <1>1, <1>7, <2>1 DEF CallStep, MountFails
  <1>8. CASE NotPushed /\ loopdev[loop_n] = pkg
    <2>1. ~InUse(loop_n)
      BY <1>2, <1>8, NotMounted DEF IInv
    <2>2. \/ seen_loopdev' = seen_loopdev
          \/ RollbackMayFail /\ seen_loopdev' = [seen_loopdev EXCEPT ![loop_n] = pkg]
      BY <1>5, <1>8, <2>1 DEF MayStay
    <2>3. CASE ret = "BAD_FSIMG"
      <3>1. Seen!MountBadFsimg(pkg, loop_n)
        BY <1>3, <1>4, <1>8, <2>2
           DEF Seen!MountBadFsimg, Seen!NothingLeft, Seen!DeviceLeft, Seen!kernel
      <3> QED
        BY <1>1, <2>3, <3>1 DEF CallStep, MountFails
    <2>4. CASE ret = "UNION_FAILED" /\ pkg \notin IllegalDir
      <3>1. Seen!MountUnionFailed(pkg, loop_n)
        BY <1>3, <1>4, <1>8, <2>2, <2>4
           DEF Seen!MountUnionFailed, Seen!NothingLeft, Seen!DeviceLeft, Seen!kernel
      <3> QED
        BY <1>1, <2>4, <3>1 DEF CallStep, MountFails
    <2>5. ret = "BAD_FSIMG" \/ (ret = "UNION_FAILED" /\ pkg \notin IllegalDir)
      <3>1. ~NotOurs
        BY <1>1, <1>8 DEF NotOurs, LoopMountAssumption
      <3>2. ~Pushed
        <4>1. Append(before.img, loop_n) # before.img
          BY <1>1, PopAppend, LenProperties DEF IInv, TypeOK
        <4> QED
          BY <1>8, <4>1 DEF Pushed, NotPushed
      <3> QED
        BY <3>1, <3>2 DEF IInv, MountSoFar
    <2> QED
      BY <2>3, <2>4, <2>5
  <1>9. CASE Pushed
    <2>1. InUse(loop_n)
      <3>1. img[pkg][Len(before.img) + 1] = loop_n /\ Len(before.img) + 1 \in 1..Len(img[pkg])
        BY <1>1, <1>9, PopAppend, LenProperties DEF Pushed, IInv, TypeOK
      <3> QED
        BY <1>1, <3>1 DEF InUse
    <2>2. seen_loopdev' = [seen_loopdev EXCEPT ![loop_n] = pkg]
      BY <1>1, <1>9, <2>1 DEF MayClear, Pushed, seen_loopdev, Mounting, IInv, TypeOK, KernelTypeOK
    <2>3. Seen!ImageLeft(pkg, loop_n)
      BY <1>4, <1>9, <2>2 DEF Seen!ImageLeft
    <2>4. CASE ret = "ILL_DIRNAME" /\ pkg \in IllegalDir
      BY <1>1, <1>3, <2>3, <2>4 DEF CallStep, MountFails, Seen!MountIllegalDirname
    <2>5. CASE ret = "UNION_FAILED" /\ pkg \notin IllegalDir /\ RollbackMayFail
      BY <1>1, <1>3, <2>3, <2>5 DEF CallStep, MountFails, Seen!MountUnionFailed
    <2>6. ~NotPushed
      BY <1>1, <1>9, PopAppend, LenProperties DEF IInv, TypeOK, Pushed, NotPushed
    <2> QED
      BY <2>4, <2>5, <2>6 DEF IInv, MountSoFar
  <1> QED
    BY <1>7, <1>8, <1>9 DEF IInv, MountSoFar

\* Steps of an unmount that hide what they do
LEMMA UmountHidden ==
  ASSUME LoopMountAssumption, IInv, IInv',
         \/ \E p \in Package : dbp_loop_umount_begin(p)
         \/ umount_union /\ pc' # "idle"
         \/ umount_image /\ pc' # "idle"
  PROVE  CallStep
  <1> SUFFICES ~Returns /\ UNCHANGED <<seen_loopdev, seen_img, seen_union, caller>>
    BY DEF CallStep
  <1>1. CASE \E p \in Package : dbp_loop_umount_begin(p)
    BY <1>1 DEF dbp_loop_umount_begin, Begin, IInv, TypeOK, KernelTypeOK, States, Returns, kernel, caller,
       Mounting, seen_loopdev, seen_img, seen_union
  <1>2. CASE umount_union /\ pc' # "idle"
    BY <1>2 DEF umount_union, Return, Goto, IInv, TypeOK, KernelTypeOK, Returns, caller, Mounting,
       seen_loopdev, seen_img, seen_union
  <1>3. CASE umount_image /\ pc' # "idle"
    BY <1>3 DEF umount_image, Return, Goto, IInv, TypeOK, KernelTypeOK, Returns, caller, Mounting,
       seen_loopdev, seen_img, seen_union
  <1> QED
    BY <1>1, <1>2, <1>3

\* What the caller sees before and after the step that returns from an unmount
LEMMA SeenUmount ==
  ASSUME IInv, pc \in Unmounting, pc' = "idle", UNCHANGED <<img, union>>
  PROVE  /\ seen_loopdev = loopdev /\ seen_loopdev' = loopdev'
         /\ seen_img[pkg] = before.img /\ seen_img' = [seen_img EXCEPT ![pkg] = img[pkg]]
         /\ seen_union[pkg] = before.union /\ seen_union' = [seen_union EXCEPT ![pkg] = union[pkg]]
         /\ seen_img' = img /\ seen_union' = union
  BY DEF IInv, TypeOK, KernelTypeOK, Mounting, Unmounting, seen_loopdev, seen_img, seen_union

LEMMA UnionKept ==
  ASSUME LoopMountAssumption, IInv, umount_union, pc' = "idle"
  PROVE  CallStep
  <1> USE DEF umount_union, Return, Goto
  <1>1. Returns /\ pc \in Unmounting /\ pkg \in Package
    BY DEF IInv, TypeOK, Returns, Unmounting
  <1>2. /\ left[pkg] = 1 /\ union[pkg] = before.union /\ NotPushed
        /\ left' = [left EXCEPT ![pkg] = 1] /\ left'[pkg] = 1
        /\ UNCHANGED <<loopdev, img, union, device>>
    BY DEF IInv, TypeOK, UmountSoFar, Unmounting
  <1>3. UNCHANGED <<seen_loopdev, seen_img, seen_union>>
    BY <1>2, SeenMounts DEF seen_loopdev, seen_img, seen_union, Mounting
  <1>4. Seen!dbp_loop_umount(pkg, device[pkg], left[pkg], left'[pkg])
    BY <1>2, <1>3 DEF Seen!dbp_loop_umount, Seen!umount_results
  <1> HIDE DEF umount_union, Return, Goto
  <1>5. UmountResult(pkg, left'[pkg])
    <2>1. left[pkg] # 0 /\ device' = device
      BY <1>2
    <2>2. left' = [left EXCEPT ![pkg] = left'[pkg]]
      BY <1>2, Zenon
    <2> QED
      BY <1>4, <2>1, <2>2, Zenon DEF UmountResult
  <1> QED
    BY <1>1, <1>5 DEF CallStep

LEMMA ImageKept ==
  ASSUME LoopMountAssumption, IInv, umount_image, pc' = "idle"
  PROVE  CallStep
  <1> USE DEF umount_image, Return, Goto
  <1>1. Returns /\ pc \in Unmounting /\ pkg \in Package /\ loop_n \in Loop
    BY DEF IInv, TypeOK, Returns, Unmounting
  <1>2. /\ left[pkg] \in {1, -2} /\ union[pkg] = << >> /\ img[pkg] = before.img
        /\ before.union = IF left[pkg] = 1 THEN <<loop_n>> ELSE << >>
        /\ left' = [left EXCEPT ![pkg] = -2] /\ left'[pkg] = -2
        /\ UNCHANGED <<loopdev, img, union, device>>
    BY DEF IInv, TypeOK, UmountSoFar, NotPushed, Unmounting
  <1>3. /\ seen_loopdev' = seen_loopdev
        /\ seen_img' = seen_img
        /\ seen_union[pkg] = before.union /\ seen_union' = [seen_union EXCEPT ![pkg] = << >>]
    <2>1. seen_img \in [Package -> Seq(Loop)]
      BY DEF IInv, TypeOK, KernelTypeOK, seen_img
    <2> QED
      BY <1>1, <1>2, <2>1, SeenUmount
  <1>4. left[pkg] = 1 => /\ seen_union[pkg] # << >>
                         /\ seen_union' = [seen_union EXCEPT ![pkg] = Pop(@)]
    BY <1>1, <1>2, <1>3, One
  <1>5. left[pkg] = -2 => seen_union' = seen_union
    BY <1>1, <1>2, SeenMounts DEF seen_union, NotPushed
  <1> HIDE DEF umount_image, Return, Goto
  <1>6. Seen!dbp_loop_umount(pkg, device[pkg], left[pkg], left'[pkg])
    <2>1. CASE left[pkg] = 1
      BY <1>2, <1>3, <1>4, <2>1 DEF Seen!dbp_loop_umount, Seen!umount_results, Seen!Pop, Pop
    <2>2. CASE left[pkg] = -2
      BY <1>2, <1>3, <1>5, <2>2 DEF Seen!dbp_loop_umount, Seen!umount_results
    <2> QED
      BY <1>2, <2>1, <2>2
  <1>7. UmountResult(pkg, left'[pkg])
    <2>1. left[pkg] # 0 /\ device' = device
      BY <1>2
    <2>2. left' = [left EXCEPT ![pkg] = left'[pkg]]
      BY <1>2, Zenon
    <2> QED
      BY <1>6, <2>1, <2>2, Zenon DEF UmountResult
  <1> QED
    BY <1>1, <1>7 DEF CallStep

LEMMA DeviceResetSeen ==
  ASSUME LoopMountAssumption, IInv, loop_reset
  PROVE  CallStep
  <1> USE DEF loop_reset, Return, Goto
  <1>1. Returns /\ pc \in Unmounting /\ pkg \in Package /\ loop_n \in Loop
    BY DEF IInv, TypeOK, Returns, Unmounting
  <1>2. /\ left[pkg] \in States /\ left[pkg] # 0
        /\ union[pkg] = << >> /\ ~InUse(loop_n) /\ loop_n = device[pkg]
        /\ before.union = IF left[pkg] = 1 THEN <<loop_n>> ELSE << >>
        /\ IF left[pkg] = -3 THEN img[pkg] = before.img ELSE img[pkg] = Pop(before.img)
        /\ left[pkg] # -3 => before.img # << >>
        /\ UNCHANGED <<img, union, device>>
    BY DEF IInv, TypeOK, UmountSoFar, NotPushed, Unmounting
  <1>3. PICK result \in {-3, 0} :
          /\ left' = [left EXCEPT ![pkg] = result] /\ left'[pkg] = result /\ pkg' = pkg
          /\ result = 0 => loopdev[loop_n] # Free
          /\ loopdev' = IF result = 0 THEN [loopdev EXCEPT ![loop_n] = Free] ELSE loopdev
    BY <1>1 DEF IInv, TypeOK, MayClear
  <1>4. /\ seen_loopdev = loopdev /\ seen_loopdev' = loopdev'
        /\ seen_img[pkg] = before.img /\ seen_img' = [seen_img EXCEPT ![pkg] = img[pkg]]
        /\ seen_union[pkg] = before.union /\ seen_union' = [seen_union EXCEPT ![pkg] = << >>]
        /\ seen_img' = img /\ seen_union' = union
    BY <1>1, <1>2, SeenUmount
  <1>5. IF left[pkg] = 1
        THEN seen_union[pkg] # << >> /\ seen_union' = [seen_union EXCEPT ![pkg] = Pop(@)]
        ELSE seen_union' = seen_union
    <2>1. seen_union \in [Package -> Seq(Loop)]
      BY DEF IInv, TypeOK, KernelTypeOK, seen_union
    <2> QED
      BY <1>1, <1>2, <1>4, <2>1, One
  <1>6. IF left[pkg] # -3
        THEN Len(seen_img[pkg]) > 0 /\ seen_img' = [seen_img EXCEPT ![pkg] = Pop(@)]
        ELSE seen_img' = seen_img
    <2>1. seen_img \in [Package -> Seq(Loop)]
      BY DEF IInv, TypeOK, KernelTypeOK, seen_img
    <2>2. left[pkg] # -3 => Len(before.img) > 0
      BY <1>2, EmptySeq, LenProperties DEF IInv, TypeOK
    <2> QED
      BY <1>1, <1>2, <1>4, <2>1, <2>2
  <1> HIDE DEF loop_reset, Return, Goto
  <1>7. ~(\E i \in 1..Len(seen_union'[pkg]) : seen_union'[pkg][i] = seen_img[pkg][Len(seen_img[pkg])])
    <2>1. seen_union'[pkg] = << >> /\ Len(<< >>) = 0
      BY <1>2, <1>4
    <2> QED
      BY <2>1
  <1>8. ~Seen!InUse(device[pkg])'
    <2>1. (device[pkg])' = loop_n
      BY <1>2, <1>3
    <2>2. ~(\E p \in Package : \E i \in 1..Len(seen_img'[p]) : seen_img'[p][i] = loop_n)
      BY <1>2, <1>4 DEF InUse
    <2> QED
      BY <2>1, <2>2 DEF Seen!InUse
  <1>9. Seen!dbp_loop_umount(pkg, device[pkg], left[pkg], left'[pkg])
    <2>1. CASE left[pkg] = 1
      BY <1>2, <1>3, <1>4, <1>5, <1>6, <1>7, <1>8, <2>1
         DEF Seen!dbp_loop_umount, Seen!umount_results, Seen!Pop, Pop
    <2>2. CASE left[pkg] = -2
      BY <1>2, <1>3, <1>4, <1>5, <1>6, <1>7, <1>8, <2>2
         DEF Seen!dbp_loop_umount, Seen!umount_results, Seen!Pop, Pop
    <2>3. CASE left[pkg] = -3
      BY <1>2, <1>3, <1>4, <1>5, <1>6, <1>7, <1>8, <2>3
         DEF Seen!dbp_loop_umount, Seen!umount_results, Seen!Pop, Pop
    <2> QED
      BY <1>2, <2>1, <2>2, <2>3 DEF States
  <1>10. UmountResult(pkg, left'[pkg])
    BY <1>2, <1>3, <1>9 DEF UmountResult
  <1> QED
    BY <1>1, <1>10 DEF CallStep

\* What another program does to a device that a mount has chosen is not seen, and
\* everything else it does is.
LEMMA OtherProgramSeen ==
  ASSUME LoopMountAssumption, IInv, NEW l \in Loop, OtherProgram(l)
  PROVE  CallStep
  <1> USE DEF OtherProgram, ForeignAttach, ForeignDetach
  <1>1. ~Returns /\ UNCHANGED <<seen_img, seen_union, caller, pc, pkg, loop_n>>
    BY DEF Returns, call, seen_img, seen_union
  <1>2. CASE pc \in Mounting /\ l = loop_n
    <2>1. seen_loopdev' = seen_loopdev
      BY <1>1, <1>2 DEF seen_loopdev, IInv, TypeOK, KernelTypeOK
    <2> QED
      BY <1>1, <2>1 DEF CallStep
  <1>3. CASE ~(pc \in Mounting /\ l = loop_n)
    <2>1. Seen!ForeignAttach(l) \/ Seen!ForeignDetach(l)
      BY <1>1, <1>3 DEF Seen!ForeignAttach, Seen!ForeignDetach, seen_loopdev, IInv, TypeOK, KernelTypeOK
    <2> QED
      BY <1>1, <2>1 DEF CallStep, OtherSeen
  <1> QED
    BY <1>2, <1>3

LEMMA NextSeen ==
  LoopMountAssumption /\ IInv /\ IInv' /\ [Next]_vars => [CallStep]_vars
  <1> SUFFICES ASSUME LoopMountAssumption, IInv, IInv', Next PROVE CallStep
    OBVIOUS
  <1>1. CASE Mount
    BY <1>1, MountHidden, NoLoopSeen, MountOkSeen, MountFailsSeen DEF Mount
  <1>2. CASE Umount
    BY <1>2, UmountHidden, UnionKept, ImageKept, DeviceResetSeen DEF Umount
  <1>3. CASE \E l \in Loop : OtherProgram(l)
    BY <1>3, OtherProgramSeen
  <1> QED
    BY <1>1, <1>2, <1>3 DEF Next

\* To its caller every mount and unmount is one atomic step of LoopMount, taken
\* when it returns, whatever fails and whatever other programs do meanwhile.
THEOREM CallsAtomic == Spec => CallsAreAtomic
  <1>1. IInv /\ IInv' /\ [Next]_vars => [CallStep]_vars
    BY NextSeen, LoopMountAssumption
  <1> QED
    BY <1>1, Invariance, PTL DEF Spec, CallsAreAtomic
=============================================================================
