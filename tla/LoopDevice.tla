----------------------------- MODULE LoopDevice -----------------------------
(***************************************************************************)
(* libdbpbase/loop.c, one system call at a time.  LoopMount takes each of  *)
(* dbp_loop_mount and dbp_loop_umount for one step; here other programs    *)
(* attach and detach loop devices between any two of their system calls.   *)
(* The module shows that LoopMount's steps are all that a caller can see.  *)
(*                                                                         *)
(* There is one call at a time, because dbpd makes them under p->mutex.    *)
(* What the caller does with the results, the instances and the purgatory, *)
(* is module PackageRun; here it only keeps the device and the result.     *)
(***************************************************************************)
EXTENDS LoopMount

VARIABLES
  device,     \* the device of each package's last successful mount
  left,       \* what a package's caller has yet to unmount: 0 or one of States
  pc,         \* where the call in progress is, "idle" without one
  pkg,        \* its package
  loop_n,     \* its device
  unchecked,  \* devices loop_available_get has yet to look at
  ret,        \* why the mount in progress, or the last one, failed
  before      \* what was mounted for the package when the call began: nothing
              \* in the code, only to say what the call changed

caller == <<device, left>>
call == <<pc, pkg, loop_n, unchecked, ret, before>>
vars == <<kernel, caller, call>>

Mounting == {"attach", "image", "union", "undo", "reset"}
Unmounting == {"umount_union", "umount_image", "clear"}

Errors == {"NO_LOOP", "NOT_SET", "BAD_FSIMG", "ILL_DIRNAME", "UNION_FAILED"}

TypeOK ==
  /\ KernelTypeOK
  /\ device \in [Package -> Loop]
  /\ left \in [Package -> States \cup {0}]
  /\ pc \in {"idle", "check"} \cup Mounting \cup Unmounting
  /\ pkg \in Package
  /\ loop_n \in Loop
  /\ unchecked \subseteq Loop
  /\ ret \in Errors
  /\ before \in [img : Seq(Loop), union : Seq(Loop)]

Init ==
  /\ KernelInit
  /\ device \in [Package -> Loop]
  /\ left = [p \in Package |-> 0]
  /\ pc = "idle"
  /\ pkg \in Package
  /\ loop_n \in Loop
  /\ unchecked = {}
  /\ ret = "NO_LOOP"
  /\ before = [img |-> << >>, union |-> << >>]

Begin(p) ==
  /\ pc = "idle"
  /\ pkg' = p
  /\ before' = [img |-> img[p], union |-> union[p]]

Goto(label) == pc' = label /\ UNCHANGED <<pkg, loop_n, unchecked, ret, before>>

Fail(error, label) ==
  /\ pc' = label
  /\ ret' = error
  /\ UNCHANGED <<pkg, loop_n, unchecked, before, kernel, caller>>

\* The call ends and the caller has this to unmount
Return(result) ==
  /\ Goto("idle")
  /\ left' = [left EXCEPT ![pkg] = result]

-----------------------------------------------------------------------------
(* dbp_loop_mount                                                          *)

dbp_loop_mount(p) ==
  /\ left[p] = 0
  /\ Begin(p)
  /\ pc' = "check"
  /\ unchecked' = Loop
  /\ UNCHANGED <<kernel, caller, loop_n, ret>>

\* Defect: the size is not looked at
loop_available_any(l) ==
  /\ pc = "check"
  /\ l \in unchecked
  /\ loop_n' = l
  /\ unchecked' = {}
  /\ pc' = "attach"
  /\ UNCHANGED <<kernel, caller, pkg, ret, before>>

\* loop_available_get takes the first device of size zero.  A device that cannot
\* be opened is passed over.
loop_available_check(l) ==
  /\ pc = "check"
  /\ l \in unchecked
  /\ \/ /\ loopdev[l] = Free
        /\ loop_n' = l
        /\ unchecked' = {}
        /\ pc' = "attach"
     \/ /\ unchecked' = unchecked \ {l}
        /\ UNCHANGED <<pc, loop_n>>
  /\ UNCHANGED <<kernel, caller, pkg, ret, before>>

no_loop ==
  /\ pc = "check"
  /\ unchecked = {}
  /\ Fail("NO_LOOP", "idle")

\* LOOP_SET_FD fails on a device that something is attached to
loop_setup ==
  /\ pc = "attach"
  /\ loopdev[loop_n] = Free
  /\ loopdev' = [loopdev EXCEPT ![loop_n] = pkg]
  /\ Goto("image")
  /\ UNCHANGED <<img, union, caller>>

\* DBP_ERROR_NO_PKG_ACCESS and DBP_ERROR_SET_LOOP2
loop_set_fail == pc = "attach" /\ Fail("NOT_SET", "reset")

\* The device cannot be opened: loop_setup returns 0, which is taken for success.
\* Nothing is attached and the mount that follows fails.  (It could succeed if
\* another program had attached an image meanwhile; that is left out.)
open_fail ==
  /\ pc = "attach"
  /\ Goto("image")
  /\ UNCHANGED <<kernel, caller>>

mount_image ==
  /\ pc = "image"
  /\ loopdev[loop_n] = pkg
  /\ img' = [img EXCEPT ![pkg] = Append(@, loop_n)]
  /\ Goto("union")
  /\ UNCHANGED <<loopdev, union, caller>>

bad_fsimg == pc = "image" /\ Fail("BAD_FSIMG", "reset")

\* Nothing unmounts the image
illegal_dirname ==
  /\ pc = "union"
  /\ pkg \in IllegalDir
  /\ Fail("ILL_DIRNAME", "reset")

mount_union ==
  /\ pc = "union"
  /\ pkg \notin IllegalDir
  /\ union' = [union EXCEPT ![pkg] = Append(@, loop_n)]
  /\ device' = [device EXCEPT ![pkg] = loop_n]
  /\ Return(1)
  /\ UNCHANGED <<loopdev, img>>

union_failed ==
  /\ pc = "union"
  /\ pkg \notin IllegalDir
  /\ Fail("UNION_FAILED", "undo")

undo_image ==
  /\ pc = "undo"
  /\ img' \in {[img EXCEPT ![pkg] = Pop(@)]} \cup (IF RollbackMayFail THEN {img} ELSE {})
  /\ Goto("reset")
  /\ UNCHANGED <<loopdev, union, caller>>

\* LOOP_CLR_FD fails on a device that is empty or in use.  Whether another
\* program's device is in use is not known here.
MayClear(l) == loopdev[l] # Free /\ ~InUse(l)
MayStay(l) == loopdev[l] # pkg \/ InUse(l) \/ RollbackMayFail

\* The end of every failed mount; the result of loop_reset is ignored
loop_reset_failed_mount ==
  /\ pc = "reset"
  /\ \/ MayClear(loop_n) /\ loopdev' = [loopdev EXCEPT ![loop_n] = Free]
     \/ MayStay(loop_n) /\ UNCHANGED loopdev
  /\ Goto("idle")
  /\ UNCHANGED <<img, union, caller>>

-----------------------------------------------------------------------------
(* dbp_loop_umount, which begins where the last attempt failed             *)

dbp_loop_umount_begin(p) ==
  /\ left[p] # 0
  /\ Begin(p)
  /\ loop_n' = device[p]
  /\ pc' = CASE left[p] = 1 -> "umount_union"
             [] left[p] = -2 -> "umount_image"
             [] left[p] = -3 -> "clear"
  /\ UNCHANGED <<kernel, caller, unchecked, ret>>

umount_union ==
  /\ pc = "umount_union"
  /\ \/ /\ union[pkg] # << >>
        /\ union' = [union EXCEPT ![pkg] = Pop(@)]
        /\ Goto("umount_image")
        /\ UNCHANGED left
     \/ Return(1) /\ UNCHANGED union
  /\ UNCHANGED <<loopdev, img, device>>

\* The union over the image holds it
Covered(p) == \E i \in 1..Len(union[p]) : union[p][i] = img[p][Len(img[p])]

\* Defect: the result is that of a union that is still mounted
umount_image_forgets ==
  /\ pc = "umount_image"
  /\ \/ /\ img[pkg] # << >> /\ ~Covered(pkg)
        /\ img' = [img EXCEPT ![pkg] = Pop(@)]
        /\ Goto("clear")
        /\ UNCHANGED left
     \/ Return(1) /\ UNCHANGED img
  /\ UNCHANGED <<loopdev, union, device>>

umount_image ==
  /\ pc = "umount_image"
  /\ \/ /\ img[pkg] # << >> /\ ~Covered(pkg)
        /\ img' = [img EXCEPT ![pkg] = Pop(@)]
        /\ Goto("clear")
        /\ UNCHANGED left
     \/ Return(-2) /\ UNCHANGED img
  /\ UNCHANGED <<loopdev, union, device>>

\* Defect: the result is that of the system call
loop_reset_minus_one ==
  /\ pc = "clear"
  /\ \/ /\ MayClear(loop_n)
        /\ loopdev' = [loopdev EXCEPT ![loop_n] = Free]
        /\ Return(0)
     \/ Return(-1) /\ UNCHANGED loopdev
  /\ UNCHANGED <<img, union, device>>

loop_reset ==
  /\ pc = "clear"
  /\ \/ /\ MayClear(loop_n)
        /\ loopdev' = [loopdev EXCEPT ![loop_n] = Free]
        /\ Return(0)
     \/ Return(-3) /\ UNCHANGED loopdev
  /\ UNCHANGED <<img, union, device>>

-----------------------------------------------------------------------------

OtherProgram(l) ==
  /\ ForeignAttach(l) \/ ForeignDetach(l)
  /\ UNCHANGED <<caller, call>>

Mount ==
  \/ \E p \in Package : dbp_loop_mount(p)
  \/ \E l \in Loop : loop_available_check(l)
  \/ no_loop
  \/ loop_setup \/ loop_set_fail \/ open_fail
  \/ mount_image \/ bad_fsimg
  \/ illegal_dirname \/ mount_union \/ union_failed
  \/ undo_image
  \/ loop_reset_failed_mount

Umount ==
  \/ \E p \in Package : dbp_loop_umount_begin(p)
  \/ umount_union \/ umount_image \/ loop_reset

Next == Mount \/ Umount \/ \E l \in Loop : OtherProgram(l)

Spec == Init /\ [][Next]_vars

-----------------------------------------------------------------------------
(* Properties                                                              *)

\* What a failed or half done unmount is recorded to have left is what there is,
\* so the next attempt starts at the right layer, and a mount that succeeded is
\* complete; calls for other packages and other programs, between any two system
\* calls, change nothing of it (loop.c 327-369).
LeftIsThere ==
  \A p \in Package : left[p] # 0 /\ (pc = "idle" \/ pkg # p) => HasLayers(p, device[p], left[p])

\* The kernel's state as the caller sees it: a call has changed nothing until it
\* returns, and nobody else's use of its device shows.
seen_loopdev == IF pc \in Mounting THEN [loopdev EXCEPT ![loop_n] = Free] ELSE loopdev
seen_img == IF pc = "idle" THEN img ELSE [img EXCEPT ![pkg] = before.img]
seen_union == IF pc = "idle" THEN union ELSE [union EXCEPT ![pkg] = before.union]

Seen == INSTANCE LoopMount WITH loopdev <- seen_loopdev, img <- seen_img, union <- seen_union

MountSucceeds(p, l) ==
  /\ left[p] = 0
  /\ Seen!MountOk(p, l)
  /\ left' = [left EXCEPT ![p] = 1]
  /\ device' = [device EXCEPT ![p] = l]

MountFails(p, l, error) ==
  /\ CASE error = "NO_LOOP" -> Seen!MountNoLoop
       [] error = "NOT_SET" -> Seen!MountNotAttached(l)
       [] error = "BAD_FSIMG" -> Seen!MountBadFsimg(p, l) \/ Seen!MountNotAttached(l)
       [] error = "ILL_DIRNAME" -> Seen!MountIllegalDirname(p, l)
       [] error = "UNION_FAILED" -> Seen!MountUnionFailed(p, l)
  /\ UNCHANGED caller

UmountResult(p, result) ==
  /\ left[p] # 0
  /\ Seen!dbp_loop_umount(p, device[p], left[p], result)
  /\ left' = [left EXCEPT ![p] = result]
  /\ UNCHANGED device

OtherSeen(l) ==
  /\ Seen!ForeignAttach(l) \/ Seen!ForeignDetach(l)
  /\ UNCHANGED caller

Returns == pc # "idle" /\ pc' = "idle"

CallStep ==
  IF Returns
  THEN IF pc \in Unmounting
       THEN UmountResult(pkg, left'[pkg])
       ELSE \E l \in Loop : MountSucceeds(pkg, l) \/ MountFails(pkg, l, ret')
  ELSE \/ \E l \in Loop : OtherSeen(l)
       \/ UNCHANGED <<seen_loopdev, seen_img, seen_union, caller>>

\* For its caller each call is one step, taken when it returns, and one that
\* LoopMount allows with that result: what the other modules take for atomic may
\* be taken for atomic, in spite of other programs and of failures at any system
\* call.
CallsAreAtomic == [][CallStep]_vars
=============================================================================
