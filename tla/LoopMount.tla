----------------------------- MODULE LoopMount -----------------------------
(***************************************************************************)
(* libdbpbase/loop.c: what dbp_loop_mount and dbp_loop_umount do to the    *)
(* kernel's loop devices and mount table.  A package that runs holds three *)
(* kernel objects, taken in this order and returned in the opposite one:   *)
(*                                                                         *)
(*    a loop device with the package file attached to it,                  *)
(*    the image, that device mounted on img_mount/<id>,                    *)
(*    the union, a file system mounted on union_mount/<id> over the image. *)
(*                                                                         *)
(* The kernel state is external to the repository and modelled from how    *)
(* loop.c uses it.  Every operator below is an action on that state only;  *)
(* the caller (module PackageRun) holds the package mutex around it.       *)
(***************************************************************************)
EXTENDS Integers, Sequences

CONSTANTS
  Package,          \* package ids
  Loop,             \* numbers of the loop devices in /dev
  IllegalDir,       \* packages whose data or image directory has a ':', '=' or ','
  Free,             \* content of a loop device with nothing attached
  Foreign,          \* content of a loop device attached by another program
  RollbackMayFail   \* TRUE: umount and LOOP_CLR_FD may fail on the error paths too

ASSUME LoopMountAssumption ==
  /\ IllegalDir \subseteq Package
  /\ Free \notin Package
  /\ Foreign \notin Package
  /\ Free # Foreign
  /\ RollbackMayFail \in BOOLEAN

VARIABLES
  loopdev,   \* what is attached to each loop device
  img,       \* devices stacked on img_mount/<id>, the topmost last
  union      \* unions stacked on union_mount/<id>: the device of each one's image

kernel == <<loopdev, img, union>>

KernelTypeOK ==
  /\ loopdev \in [Loop -> Package \cup {Free, Foreign}]
  /\ img \in [Package -> Seq(Loop)]
  /\ union \in [Package -> Seq(Loop)]

KernelInit ==
  /\ loopdev \in [Loop -> {Free, Foreign}]
  /\ img = [p \in Package |-> << >>]
  /\ union = [p \in Package |-> << >>]

\* Is device l mounted anywhere?  The kernel refuses to clear such a device.
InUse(l) == \E p \in Package : \E i \in 1..Len(img[p]) : img[p][i] = l

\* Is device l what one sees on img_mount/p?
OnTop(p, l) == Len(img[p]) > 0 /\ img[p][Len(img[p])] = l

-----------------------------------------------------------------------------
(* dbp_loop_mount                                                          *)

\* The devices loop_available_get may return: it takes the first one of size
\* zero that readdir yields, in an order the file system chooses.
loop_available == {l \in Loop : loopdev[l] = Free}

\* What remains of a mount that failed.  All the error paths end in
\* loop_reset(loop_n), whose result, like umount's, is ignored.
NothingLeft == UNCHANGED kernel

DeviceLeft(p, l) ==
  /\ loopdev' = [loopdev EXCEPT ![l] = p]
  /\ UNCHANGED <<img, union>>

ImageLeft(p, l) ==
  /\ loopdev' = [loopdev EXCEPT ![l] = p]
  /\ img' = [img EXCEPT ![p] = Append(@, l)]
  /\ UNCHANGED union

\* DBP_ERROR_NO_LOOP.  The devices are looked at one after the other, so there may
\* be a free one all the time: it was taken when it was looked at, or cannot be
\* opened.
MountNoLoop == UNCHANGED kernel

\* DBP_ERROR_NO_PKG_ACCESS and DBP_ERROR_SET_LOOP2: nothing of ours is attached.
\* Another program may have taken the device since loop_available_get; then
\* loop_reset clears that program's device or, if it is in use, fails.
MountNotAttached(l) ==
  /\ l \in loop_available
  /\ loopdev' \in {loopdev, [loopdev EXCEPT ![l] = Foreign]}
  /\ UNCHANGED <<img, union>>

\* Defect: no loop_reset
BadFsimgNoReset(p, l) == l \in loop_available /\ DeviceLeft(p, l)

\* DBP_ERROR_BAD_FSIMG.  Where loop_setup's open_fail returns 0 for an error,
\* nothing is attached and this error follows MountNotAttached's outcome.
MountBadFsimg(p, l) ==
  /\ l \in loop_available
  /\ \/ NothingLeft
     \/ RollbackMayFail /\ DeviceLeft(p, l)

\* DBP_ERROR_ILL_DIRNAME: the image is mounted by now and nothing unmounts it,
\* so loop_reset cannot release the device.
MountIllegalDirname(p, l) ==
  /\ p \in IllegalDir
  /\ l \in loop_available
  /\ ImageLeft(p, l)

\* Defect: the image is not unmounted
UnionFailedNoUmount(p, l) == p \notin IllegalDir /\ l \in loop_available /\ ImageLeft(p, l)

\* DBP_ERROR_UNION_FAILED
MountUnionFailed(p, l) ==
  /\ p \notin IllegalDir
  /\ l \in loop_available
  /\ \/ NothingLeft
     \/ RollbackMayFail /\ (DeviceLeft(p, l) \/ ImageLeft(p, l))

\* The mount succeeds and dbp_loop_mount returns l
MountOk(p, l) ==
  /\ p \notin IllegalDir
  /\ l \in loop_available
  /\ loopdev' = [loopdev EXCEPT ![l] = p]
  /\ img' = [img EXCEPT ![p] = Append(@, l)]
  /\ union' = [union EXCEPT ![p] = Append(@, l)]

-----------------------------------------------------------------------------
(* dbp_loop_umount.  prev says what an earlier attempt left behind and the *)
(* result what this one leaves: 1 everything (the mount can still be used),*)
(* -2 the image and the device, -3 only the device, 0 nothing.             *)

States == {1, -2, -3}

\* The results of an attempt that starts from prev, the earliest failure first
umount_results(prev) ==
  IF prev = 1 THEN {1, -2, -3, 0}
  ELSE IF prev = -2 THEN {-2, -3, 0}
  ELSE {-3, 0}

\* Remove the topmost mount of a stack
Pop(s) == SubSeq(s, 1, Len(s) - 1)

dbp_loop_umount(p, l, prev, result) ==
  LET Covered(q) == \E i \in 1..Len(union'[q]) : union'[q][i] = img[q][Len(img[q])]
      unionGone  == prev = 1 /\ result # 1
      imageGone  == prev # -3 /\ result \in {-3, 0}
      deviceGone == result = 0
  IN /\ result \in umount_results(prev)
     /\ unionGone => union[p] # << >>
     /\ union' = IF unionGone THEN [union EXCEPT ![p] = Pop(@)] ELSE union
     /\ imageGone => Len(img[p]) > 0 /\ ~Covered(p)
     /\ img' = IF imageGone THEN [img EXCEPT ![p] = Pop(@)] ELSE img
     /\ deviceGone => loopdev[l] # Free /\ ~InUse(l)'
     /\ loopdev' = IF deviceGone THEN [loopdev EXCEPT ![l] = Free] ELSE loopdev

-----------------------------------------------------------------------------
(* Other programs use the loop devices as well                             *)

ForeignAttach(l) ==
  /\ loopdev[l] = Free
  /\ loopdev' = [loopdev EXCEPT ![l] = Foreign]
  /\ UNCHANGED <<img, union>>

ForeignDetach(l) ==
  /\ loopdev[l] = Foreign
  /\ loopdev' = [loopdev EXCEPT ![l] = Free]
  /\ UNCHANGED <<img, union>>

-----------------------------------------------------------------------------

\* The layers of package p that dbp_loop_umount expects to find, on device l,
\* when it is called with prev_state = state
HasLayers(p, l, state) ==
  /\ loopdev[l] = p
  /\ union[p] = IF state = 1 THEN <<l>> ELSE << >>
  /\ IF state = -3 THEN ~InUse(l) ELSE OnTop(p, l)

\* The mount table agrees with the devices: what is mounted on img_mount/p is
\* a device with p attached to it, and no device is mounted twice.
MountTable ==
  \A p \in Package : \A i \in 1..Len(img[p]) :
    /\ loopdev[img[p][i]] = p
    /\ \A j \in 1..Len(img[p]) : img[p][i] = img[p][j] => i = j
=============================================================================
