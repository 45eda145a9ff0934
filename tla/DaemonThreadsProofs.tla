------------------------ MODULE DaemonThreadsProofs ------------------------
(* The safety of dbpd's threads: types, the dump without other threads, and *)
(* the wait of mountwatch_dirchange.                                       *)
EXTENDS DaemonThreads, TLAPS

\* What each thread was told by the others is so: a thread that is reported dead
\* is dead, and the handler is where it is only after the reports it waits for.
\* Until mountwatch_init there is nobody to report anything.
Reported ==
  /\ main = "starting" => dir = "unborn" /\ mnt = "unborn" /\ ~died /\ ~died2
  /\ died => mnt = "dead"
  /\ died2 => dir = "dead"
  /\ daemon_exited => dbus = "dead"
  /\ main \in {"kill_dbus", "await_dbus", "dump", "exited"} => died /\ died2
  /\ main \in {"dump", "exited"} => daemon_exited

IInv == TypeOK /\ Reported /\ DirAwaited

LEMMA InitIInv ==
  ASSUME DaemonThreadsAssumption, Init
  PROVE  IInv
  BY DEF Init, InitPosts, IInv, TypeOK, Reported, DirAwaited, Signalled, Handler

\* The steps of main and of its handler
LEMMA MainKeepsIInv ==
  ASSUME DaemonThreadsAssumption, IInv, Main
  PROVE  IInv'
<1> USE DEF IInv, TypeOK, Reported, DirAwaited, Signalled, Handler,
            threads, locks, sems, world, flags
<1>1. CASE mountwatch_init
  BY <1>1 DEF mountwatch_init
<1>2. CASE WaitChanged
  BY <1>2 DEF WaitChanged
<1>3. CASE LockDirWatch
  BY <1>3 DEF LockDirWatch
<1>4. CASE ReadMounts
  <2> USE <1>4 DEF ReadMounts
  <2>1. TypeOK'
    <3>1. changed' \in Nat /\ dir_watch_continue' \in Nat
      BY SMT
    <3>2. dir_change' \in BOOLEAN /\ events' \in BOOLEAN /\ notify' \in BOOLEAN
          /\ unseen' \in BOOLEAN /\ failed' \in BOOLEAN /\ should_die' \in BOOLEAN
          /\ died' \in BOOLEAN /\ died2' \in BOOLEAN /\ quit' \in BOOLEAN
          /\ daemon_exited' \in BOOLEAN /\ allocating' \in BOOLEAN /\ saved' \in BOOLEAN
      BY ZenonT(30)
    <3>3. QED
      BY <3>1, <3>2, SMT
  <2>2. Reported'
    OBVIOUS
  <2>3. DirAwaited'
    OBVIOUS
  <2>4. QED
    BY <2>1, <2>2, <2>3
<1>5. CASE ReadFails
  BY <1>5 DEF ReadFails
<1>6. CASE HandleEvents
  <2> USE <1>6 DEF HandleEvents
  <2>1. TypeOK'
    <3>1. changed' \in Nat /\ dir_watch_continue' \in Nat
      BY SMT
    <3>2. dir_change' \in BOOLEAN /\ events' \in BOOLEAN /\ notify' \in BOOLEAN
          /\ unseen' \in BOOLEAN /\ failed' \in BOOLEAN /\ should_die' \in BOOLEAN
          /\ died' \in BOOLEAN /\ died2' \in BOOLEAN /\ quit' \in BOOLEAN
          /\ daemon_exited' \in BOOLEAN /\ allocating' \in BOOLEAN /\ saved' \in BOOLEAN
      BY ZenonT(30)
    <3>3. QED
      BY <3>1, <3>2, SMT
  <2>2. Reported'
    OBVIOUS
  <2>3. DirAwaited'
    OBVIOUS
  <2>4. QED
    BY <2>1, <2>2, <2>3
<1>7. CASE LockPackage
  BY <1>7 DEF LockPackage
<1>8. CASE UnlockPackage
  BY <1>8 DEF UnlockPackage
<1>9. CASE mountwatch_kill
  BY <1>9 DEF mountwatch_kill
<1>10. CASE AwaitMountwatch
  BY <1>10 DEF AwaitMountwatch, mountwatch_died
<1>11. CASE comm_kill
  BY <1>11 DEF comm_kill
<1>12. CASE AwaitDBus
  BY <1>12 DEF AwaitDBus
<1>13. CASE state_dump
  BY <1>13 DEF state_dump
<1>14. QED
  BY <1>1, <1>2, <1>3, <1>4, <1>5, <1>6, <1>7, <1>8, <1>9, <1>10, <1>11, <1>12, <1>13 DEF Main

\* The steps of the two watchers
LEMMA WatchersKeepIInv ==
  ASSUME DaemonThreadsAssumption, IInv, Dir \/ Mnt
  PROVE  IInv'
<1> USE DEF IInv, TypeOK, Reported, DirAwaited, Signalled, Handler,
            threads, locks, sems, world, flags
<1>1. CASE DirSelect
  <2> USE <1>1 DEF DirSelect
  <2>1. TypeOK'
    <3>1. changed' \in Nat /\ dir_watch_continue' \in Nat
      BY SMT
    <3>2. dir_change' \in BOOLEAN /\ events' \in BOOLEAN /\ notify' \in BOOLEAN
          /\ unseen' \in BOOLEAN /\ failed' \in BOOLEAN /\ should_die' \in BOOLEAN
          /\ died' \in BOOLEAN /\ died2' \in BOOLEAN /\ quit' \in BOOLEAN
          /\ daemon_exited' \in BOOLEAN /\ allocating' \in BOOLEAN /\ saved' \in BOOLEAN
      BY ZenonT(30)
    <3>3. QED
      BY <3>1, <3>2, SMT
  <2>2. Reported'
    OBVIOUS
  <2>3. DirAwaited'
    OBVIOUS
  <2>4. QED
    BY <2>1, <2>2, <2>3
<1>2. CASE DirLock
  BY <1>2 DEF DirLock
<1>3. CASE DirPost
  BY <1>3 DEF DirPost
<1>4. CASE DirWait
  BY <1>4 DEF DirWait
<1>5. CASE MntNotified
  <2> USE <1>5 DEF MntNotified
  <2>1. TypeOK'
    <3>1. changed' \in Nat /\ dir_watch_continue' \in Nat
      BY SMT
    <3>2. dir_change' \in BOOLEAN /\ events' \in BOOLEAN /\ notify' \in BOOLEAN
          /\ unseen' \in BOOLEAN /\ failed' \in BOOLEAN /\ should_die' \in BOOLEAN
          /\ died' \in BOOLEAN /\ died2' \in BOOLEAN /\ quit' \in BOOLEAN
          /\ daemon_exited' \in BOOLEAN /\ allocating' \in BOOLEAN /\ saved' \in BOOLEAN
      BY ZenonT(30)
    <3>3. QED
      BY <3>1, <3>2, SMT
  <2>2. Reported'
    OBVIOUS
  <2>3. DirAwaited'
    OBVIOUS
  <2>4. QED
    BY <2>1, <2>2, <2>3
<1>6. CASE MntDies
  BY <1>6 DEF MntDies
<1>7. QED
  BY <1>1, <1>2, <1>3, <1>4, <1>5, <1>6 DEF Dir, Mnt

\* The D-Bus thread, the signal and the surroundings
LEMMA OthersKeepIInv ==
  ASSUME DaemonThreadsAssumption, IInv, DBus \/ Request \/ on_name_lost \/ Signal \/ MountChange \/ DirectoryChange
  PROVE  IInv'
<1> USE DEF IInv, TypeOK, Reported, DirAwaited, Signalled, Handler,
            threads, locks, sems, world, flags
<1>1. CASE RequestLock
  BY <1>1 DEF RequestLock
<1>2. CASE RequestDone
  BY <1>2 DEF RequestDone
<1>3. CASE DBusExits
  BY <1>3 DEF DBusExits
<1>4. CASE Request
  BY <1>4 DEF Request
<1>5. CASE Signal
  <2> USE <1>5 DEF Signal, Allocates, DaemonThreadsAssumption
  <2>1. TypeOK'
    <3>1. changed' \in Nat /\ dir_watch_continue' \in Nat
      BY SMT
    <3>2. dir_change' \in BOOLEAN /\ events' \in BOOLEAN /\ notify' \in BOOLEAN
          /\ unseen' \in BOOLEAN /\ failed' \in BOOLEAN /\ should_die' \in BOOLEAN
          /\ died' \in BOOLEAN /\ died2' \in BOOLEAN /\ quit' \in BOOLEAN
          /\ daemon_exited' \in BOOLEAN /\ allocating' \in BOOLEAN /\ saved' \in BOOLEAN
      BY ZenonT(30)
    <3>3. QED
      BY <3>1, <3>2, SMT, DaemonThreadsAssumption
  <2>2. Reported'
    BY DaemonThreadsAssumption
  <2>3. DirAwaited'
    OBVIOUS
  <2>4. QED
    BY <2>1, <2>2, <2>3
<1>6. CASE MountChange
  <2> USE <1>6 DEF MountChange
  <2>1. TypeOK'
    <3>1. changed' \in Nat /\ dir_watch_continue' \in Nat
      BY SMT
    <3>2. dir_change' \in BOOLEAN /\ events' \in BOOLEAN /\ notify' \in BOOLEAN
          /\ unseen' \in BOOLEAN /\ failed' \in BOOLEAN /\ should_die' \in BOOLEAN
          /\ died' \in BOOLEAN /\ died2' \in BOOLEAN /\ quit' \in BOOLEAN
          /\ daemon_exited' \in BOOLEAN /\ allocating' \in BOOLEAN /\ saved' \in BOOLEAN
      BY ZenonT(30)
    <3>3. QED
      BY <3>1, <3>2, SMT
  <2>2. Reported'
    OBVIOUS
  <2>3. DirAwaited'
    OBVIOUS
  <2>4. QED
    BY <2>1, <2>2, <2>3
<1>7. CASE DirectoryChange
  BY <1>7 DEF DirectoryChange
<1>8. CASE DBusStarts
  <2> USE <1>8 DEF DBusStarts
  <2>1. TypeOK'
    <3>1. changed' \in Nat /\ dir_watch_continue' \in Nat
      BY SMT
    <3>2. dir_change' \in BOOLEAN /\ events' \in BOOLEAN /\ notify' \in BOOLEAN
          /\ unseen' \in BOOLEAN /\ failed' \in BOOLEAN /\ should_die' \in BOOLEAN
          /\ died' \in BOOLEAN /\ died2' \in BOOLEAN /\ quit' \in BOOLEAN
          /\ daemon_exited' \in BOOLEAN /\ allocating' \in BOOLEAN /\ saved' \in BOOLEAN
      BY ZenonT(30)
    <3>3. QED
      BY <3>1, <3>2, SMT, DaemonThreadsAssumption
  <2>2. Reported'
    BY DaemonThreadsAssumption
  <2>3. DirAwaited'
    OBVIOUS
  <2>4. QED
    BY <2>1, <2>2, <2>3
<1>9. CASE DBusRuns
  BY <1>9 DEF DBusRuns
<1>10. CASE on_name_lost
  BY <1>10 DEF on_name_lost
<1>11. QED
  BY <1>1, <1>2, <1>3, <1>4, <1>5, <1>6, <1>7, <1>8, <1>9, <1>10 DEF DBus

LEMMA StutterKeepsIInv ==
  ASSUME IInv, UNCHANGED vars
  PROVE  IInv'
  BY DEF IInv, TypeOK, Reported, DirAwaited, Signalled, Handler,
         vars, threads, locks, sems, world, flags

\* The inductive invariant: types, the reports behind the shutdown's order, and the
\* change that main is still going to see.
THEOREM Invariance == Spec => []IInv
<1>1. Init => IInv
  BY InitIInv, DaemonThreadsAssumption
<1>2. IInv /\ [Next]_vars => IInv'
  BY MainKeepsIInv, WatchersKeepIInv, OthersKeepIInv, StutterKeepsIInv, DaemonThreadsAssumption
     DEF Next, Stands, Exited
<1>3. QED
  BY <1>1, <1>2, PTL DEF Spec

\* Every variable keeps its type; the semaphores never get below zero.
THEOREM TypeCorrect == Spec => []TypeOK
<1>1. IInv => TypeOK
  BY DEF IInv
<1>2. QED
  BY <1>1, Invariance, PTL

\* Wherever the signal finds the main thread, state_dump runs when no other thread is
\* left to change what it reads (state.c:11).
THEOREM DumpsAlone == Spec => []DumpAlone
<1>1. IInv => DumpAlone
  BY DEF IInv, Reported, DumpAlone
<1>2. QED
  BY <1>1, Invariance, PTL

\* mountwatch_dirchange never waits for a post that nobody is going to make, unless
\* /proc/mounts could not be read (mountwatch.c 57-62, 279-285, 376-378).
THEOREM NeverWaitsInVain == Spec => []DirAwaited
<1>1. IInv => DirAwaited
  BY DEF IInv
<1>2. QED
  BY <1>1, Invariance, PTL
=============================================================================
