--------------------------- MODULE DaemonThreads ---------------------------
(***************************************************************************)
(* The four threads of dbpd and how they wait for one another              *)
(* (dbpd/daemon.c, dbpd/mountwatch.c, dbpd/comm.c):                        *)
(*                                                                         *)
(*   main   waits for changes of mounts and directories, applies them to   *)
(*          the registry, then sweeps the purgatory; a signal makes it run *)
(*          shutdown() wherever it is                                      *)
(*   dir    mountwatch_dirchange: waits for inotify events                 *)
(*   mnt    mountwatch_loop: waits for changes of the mount table          *)
(*   dbus   comm_dbus_loop: serves one request after the other             *)
(*                                                                         *)
(* Only what they wait for is modelled: two mutexes, two semaphores and    *)
(* the flags of the shutdown.                                              *)
(***************************************************************************)
EXTENDS Naturals

CONSTANTS
  SignalAt,         \* where the main thread may be when a signal arrives
  OpenMayFail,      \* TRUE: opening /proc/mounts may fail
  MaxChanged        \* bound on posts of "changed" not yet consumed

ASSUME DaemonThreadsAssumption ==
  /\ SignalAt \subseteq {"starting", "wait", "lock", "read", "handle", "apply",
                        "applying", "sweep", "sweeping"}
  /\ OpenMayFail \in BOOLEAN
  /\ MaxChanged \in Nat \ {0}

VARIABLES
  main, dir, mnt, dbus,   \* where each thread is
  dir_watch_mutex,        \* "free" or the thread that holds it
  package_mutex,          \* p->mutex, likewise
  changed,                \* semaphore: something for main to look at
  dir_watch_continue,     \* semaphore: dir may wait for inotify events again
  dir_change,             \* the change is one of a directory
  events,                 \* inotify has events nobody has read
  notify,                 \* the kernel will tell mnt that the mounts changed
  unseen,                 \* the mount table differs from what main knows
  failed,                 \* the last attempt to read /proc/mounts failed
  should_die, died, died2,
  quit, daemon_exited,    \* the loop of the D-Bus thread was quit, the thread is over
  allocating,             \* the signal found main in malloc or free
  saved                   \* state_dump is done

threads == <<main, dir, mnt, dbus>>
locks == <<dir_watch_mutex, package_mutex>>
sems == <<changed, dir_watch_continue, dir_change>>
world == <<events, notify, unseen, failed>>
flags == <<should_die, died, died2, quit, daemon_exited, allocating, saved>>
vars == <<threads, locks, sems, world, flags>>

\* Where main may be in malloc or free: the changes of mounts and directories are kept
\* in memory that is allocated as they are found, and freed when they are applied.
Allocates == {"starting", "read", "handle", "apply", "applying", "sweep", "sweeping"}

Handler == {"kill", "await", "kill_dbus", "await_dbus", "dump", "exited"}

TypeOK ==
  /\ main \in {"starting", "wait", "lock", "read", "handle", "apply", "applying",
               "sweep", "sweeping"} \cup Handler
  /\ dir \in {"unborn", "select", "lock", "post", "wait", "dead"}
  /\ mnt \in {"unborn", "select", "dead"}
  /\ dbus \in {"born", "made", "idle", "lock", "work", "dead"}
  /\ dir_watch_mutex \in {"free", "main", "dir"}
  /\ package_mutex \in {"free", "main", "dbus"}
  /\ changed \in Nat
  /\ dir_watch_continue \in Nat
  /\ dir_change \in BOOLEAN
  /\ events \in BOOLEAN /\ notify \in BOOLEAN /\ unseen \in BOOLEAN /\ failed \in BOOLEAN
  /\ should_die \in BOOLEAN /\ died \in BOOLEAN /\ died2 \in BOOLEAN
  /\ quit \in BOOLEAN /\ daemon_exited \in BOOLEAN
  /\ allocating \in BOOLEAN /\ saved \in BOOLEAN

InitPosts(posts) ==
  /\ main = "starting" /\ dir = "unborn" /\ mnt = "unborn" /\ dbus = "born"
  /\ dir_watch_mutex = "free" /\ package_mutex = "free"
  /\ changed = posts /\ dir_watch_continue = 0 /\ dir_change = FALSE
  /\ events = FALSE /\ notify = FALSE /\ unseen = TRUE /\ failed = FALSE
  /\ should_die = FALSE /\ died = FALSE /\ died2 = FALSE
  /\ quit = FALSE /\ daemon_exited = FALSE /\ allocating = FALSE /\ saved = FALSE

\* Defect: the first look at the mounts waits for a change of them
InitUnposted == InitPosts(0)

Init == InitPosts(1)

Running == main # "exited"

-----------------------------------------------------------------------------
(* main                                                                    *)

\* mountwatch_init; its loop ends at once if it cannot open /proc/mounts
mountwatch_init ==
  /\ main = "starting"
  /\ main' = "wait"
  /\ dir' = "select"
  /\ mnt' \in {"select"} \cup (IF OpenMayFail THEN {"dead"} ELSE {})
  /\ UNCHANGED <<dbus, locks, sems, world, flags>>

\* Defect: sem_wait, without a timeout
WaitChangedForEver ==
  /\ main = "wait"
  /\ changed > 0
  /\ main' = "lock"
  /\ changed' = changed - 1
  /\ UNCHANGED <<dir, mnt, dbus, locks, dir_watch_continue, dir_change, world, flags>>

\* sem_timedwait: returns when there is a post, or else after a second
WaitChanged ==
  /\ main = "wait"
  /\ IF changed > 0
     THEN main' = "lock" /\ changed' = changed - 1
     ELSE main' = "sweep" /\ UNCHANGED changed
  /\ UNCHANGED <<dir, mnt, dbus, locks, dir_watch_continue, dir_change, world, flags>>

LockDirWatch ==
  /\ main = "lock"
  /\ dir_watch_mutex = "free"
  /\ dir_watch_mutex' = "main"
  /\ main' = "read"
  /\ UNCHANGED <<dir, mnt, dbus, package_mutex, sems, world, flags>>

\* The comparison of /proc/mounts with the mounts main knows.  Nothing changed
\* and no directory either: wait again.
ReadMounts ==
  /\ main = "read"
  /\ dir_watch_mutex' = "free"
  /\ dir_change' = FALSE
  /\ unseen' = FALSE
  /\ failed' = FALSE
  /\ main' = IF dir_change THEN "handle" ELSE IF unseen THEN "apply" ELSE "wait"
  /\ UNCHANGED <<dir, mnt, dbus, package_mutex, changed, dir_watch_continue,
                 events, notify, flags>>

\* fopen fails: the post is used up and dir_change remains set
ReadFails ==
  /\ OpenMayFail
  /\ main = "read"
  /\ dir_watch_mutex' = "free"
  /\ failed' = TRUE
  /\ main' = "sweep"
  /\ UNCHANGED <<dir, mnt, dbus, package_mutex, sems, events, notify, unseen, flags>>

\* mountwatch_inotify_handle reads all events, then lets dir go on
HandleEvents ==
  /\ main = "handle"
  /\ events' = FALSE
  /\ dir_watch_continue' = dir_watch_continue + 1
  /\ main' = "apply"
  /\ UNCHANGED <<dir, mnt, dbus, locks, changed, dir_change, notify, unseen, failed, flags>>

\* package_release_mount, package_crawl_mount etc., then package_purgatory_check
LockPackage ==
  /\ main \in {"apply", "sweep"}
  /\ package_mutex = "free"
  /\ package_mutex' = "main"
  /\ main' = IF main = "apply" THEN "applying" ELSE "sweeping"
  /\ UNCHANGED <<dir, mnt, dbus, dir_watch_mutex, sems, world, flags>>

UnlockPackage ==
  /\ main \in {"applying", "sweeping"}
  /\ package_mutex' = "free"
  /\ main' = IF main = "applying" THEN "sweep" ELSE "wait"
  /\ UNCHANGED <<dir, mnt, dbus, dir_watch_mutex, sems, world, flags>>

\* A signal interrupts main, which keeps the mutexes it holds and never returns, the
\* ones of the allocator included
Signal ==
  /\ main \in SignalAt
  /\ main' = "kill"
  /\ allocating' \in {b \in BOOLEAN : b => main \in Allocates}
  /\ UNCHANGED <<dir, mnt, dbus, locks, sems, world, should_die, died, died2, quit,
                 daemon_exited, saved>>

-----------------------------------------------------------------------------
(* shutdown                                                                *)

mountwatch_kill ==
  /\ main = "kill"
  /\ should_die' = TRUE
  /\ main' = "await"
  /\ UNCHANGED <<dir, mnt, dbus, locks, sems, world, died, died2, quit, daemon_exited,
                 allocating, saved>>

\* Defect: one thread is waited for, not both
OneDied == died

mountwatch_died == died /\ died2

AwaitMountwatch ==
  /\ main = "await"
  /\ mountwatch_died
  /\ main' = "kill_dbus"
  /\ UNCHANGED <<dir, mnt, dbus, locks, sems, world, flags>>

\* g_main_loop_quit does nothing to a loop that is not there yet, or is not run yet.
comm_kill ==
  /\ main = "kill_dbus"
  /\ quit' = (quit \/ dbus \in {"idle", "lock", "work"})
  /\ main' = "await_dbus"
  /\ UNCHANGED <<dir, mnt, dbus, locks, sems, world, should_die, died, died2,
                 daemon_exited, allocating, saved>>

AwaitDBus ==
  /\ main = "await_dbus"
  /\ daemon_exited
  /\ main' = "dump"
  /\ UNCHANGED <<dir, mnt, dbus, locks, sems, world, flags>>

\* state_dump allocates, so it waits for ever for what the signal interrupted.
state_dump ==
  /\ main = "dump"
  /\ ~allocating
  /\ saved' = TRUE
  /\ main' = "exited"
  /\ UNCHANGED <<dir, mnt, dbus, locks, sems, world, should_die, died, died2, quit,
                 daemon_exited, allocating>>

-----------------------------------------------------------------------------
(* mountwatch_dirchange                                                    *)

\* select returns: the thread dies, or there are events
DirSelect ==
  /\ dir = "select"
  /\ \/ should_die /\ dir' = "dead" /\ died2' = TRUE
     \/ ~should_die /\ events /\ dir' = "lock" /\ UNCHANGED died2
  /\ UNCHANGED <<main, mnt, dbus, locks, sems, world, should_die, died, quit,
                 daemon_exited, allocating, saved>>

DirLock ==
  /\ dir = "lock"
  /\ dir_watch_mutex = "free"
  /\ dir_watch_mutex' = "dir"
  /\ dir' = "post"
  /\ UNCHANGED <<main, mnt, dbus, package_mutex, sems, world, flags>>

\* Defect: the change is posted but not marked as one of a directory
DirPostUnmarked ==
  /\ dir = "post"
  /\ changed' = changed + 1
  /\ dir_watch_mutex' = "free"
  /\ dir' = "wait"
  /\ UNCHANGED <<main, mnt, dbus, package_mutex, dir_watch_continue, dir_change, world, flags>>

DirPost ==
  /\ dir = "post"
  /\ dir_change' = TRUE
  /\ changed' = changed + 1
  /\ dir_watch_mutex' = "free"
  /\ dir' = "wait"
  /\ UNCHANGED <<main, mnt, dbus, package_mutex, dir_watch_continue, world, flags>>

\* Defect: sem_trywait, whether or not there is a post
DirWaitUntested ==
  /\ dir = "wait"
  /\ dir_watch_continue' = dir_watch_continue - 1
  /\ dir' = "select"
  /\ UNCHANGED <<main, mnt, dbus, locks, changed, dir_change, world, flags>>

DirWait ==
  /\ dir = "wait"
  /\ dir_watch_continue > 0
  /\ dir_watch_continue' = dir_watch_continue - 1
  /\ dir' = "select"
  /\ UNCHANGED <<main, mnt, dbus, locks, changed, dir_change, world, flags>>

-----------------------------------------------------------------------------
(* mountwatch_loop                                                         *)

MntNotified ==
  /\ mnt = "select"
  /\ ~should_die
  /\ notify
  /\ notify' = FALSE
  /\ changed' = changed + 1
  /\ UNCHANGED <<threads, locks, dir_watch_continue, dir_change, events, unseen, failed, flags>>

\* Defect: dir is not woken
MntDiesSilently ==
  /\ mnt = "select"
  /\ should_die
  /\ died' = TRUE
  /\ mnt' = "dead"
  /\ UNCHANGED <<main, dir, dbus, locks, sems, world, should_die, died2, quit,
                 daemon_exited, allocating, saved>>

MntDies ==
  /\ mnt = "select"
  /\ should_die
  /\ died' = TRUE
  /\ dir_watch_continue' = dir_watch_continue + 1
  /\ mnt' = "dead"
  /\ UNCHANGED <<main, dir, dbus, locks, changed, dir_change, world, should_die, died2,
                 quit, daemon_exited, allocating, saved>>

-----------------------------------------------------------------------------
(* comm_dbus_loop                                                          *)

\* The loop is made, or the thread ends at once without its introspection file
DBusStarts ==
  /\ dbus = "born"
  /\ \/ dbus' = "made" /\ UNCHANGED daemon_exited
     \/ dbus' = "dead" /\ daemon_exited' = TRUE
  /\ UNCHANGED <<main, dir, mnt, locks, sems, world, should_die, died, died2, quit,
                 allocating, saved>>

\* g_main_loop_run
DBusRuns ==
  /\ dbus = "made"
  /\ dbus' = "idle"
  /\ UNCHANGED <<main, dir, mnt, locks, sems, world, flags>>

\* The name on the bus is not to be had, or lost
on_name_lost ==
  /\ dbus = "idle"
  /\ ~quit
  /\ quit' = TRUE
  /\ UNCHANGED <<threads, locks, sems, world, should_die, died, died2, daemon_exited,
                 allocating, saved>>

Request ==
  /\ dbus = "idle"
  /\ ~quit
  /\ dbus' = "lock"
  /\ UNCHANGED <<main, dir, mnt, locks, sems, world, flags>>

RequestLock ==
  /\ dbus = "lock"
  /\ package_mutex = "free"
  /\ package_mutex' = "dbus"
  /\ dbus' = "work"
  /\ UNCHANGED <<main, dir, mnt, dir_watch_mutex, sems, world, flags>>

RequestDone ==
  /\ dbus = "work"
  /\ package_mutex' = "free"
  /\ dbus' = "idle"
  /\ UNCHANGED <<main, dir, mnt, dir_watch_mutex, sems, world, flags>>

DBusExits ==
  /\ dbus = "idle"
  /\ quit
  /\ daemon_exited' = TRUE
  /\ dbus' = "dead"
  /\ UNCHANGED <<main, dir, mnt, locks, sems, world, should_die, died, died2, quit,
                 allocating, saved>>

-----------------------------------------------------------------------------
(* The surroundings                                                        *)

\* Something is mounted or unmounted that main cares about, or something else
\* (its own loop devices, for instance)
MountChange ==
  /\ changed < MaxChanged
  /\ ~notify
  /\ notify' = TRUE
  /\ unseen' \in {unseen, TRUE}
  /\ UNCHANGED <<threads, locks, sems, events, failed, flags>>

\* A file in a watched directory changes
DirectoryChange ==
  /\ changed < MaxChanged
  /\ ~events
  /\ events' = TRUE
  /\ UNCHANGED <<threads, locks, sems, notify, unseen, failed, flags>>

-----------------------------------------------------------------------------

Main ==
  \/ mountwatch_init \/ WaitChanged \/ LockDirWatch \/ ReadMounts \/ ReadFails
  \/ HandleEvents \/ LockPackage \/ UnlockPackage
  \/ mountwatch_kill \/ AwaitMountwatch \/ comm_kill \/ AwaitDBus \/ state_dump

Dir == DirSelect \/ DirLock \/ DirPost \/ DirWait

Mnt == MntNotified \/ MntDies

DBus == DBusStarts \/ DBusRuns \/ RequestLock \/ RequestDone \/ DBusExits

\* The handler polls, or hangs in the allocator.
Stands ==
  /\ main \in {"await", "await_dbus"} \/ (main = "dump" /\ allocating)
  /\ UNCHANGED vars

\* Nothing happens after the process is gone
Exited == ~Running /\ UNCHANGED vars

Next ==
  \/ Running /\ (Main \/ Dir \/ Mnt \/ DBus)
  \/ Running /\ (Request \/ on_name_lost \/ Signal \/ MountChange \/ DirectoryChange)
  \/ Stands
  \/ Exited

Spec == Init /\ [][Next]_vars

\* The scheduler runs every thread, and a mutex that is released again and
\* again is at last had by each thread that waits for it.  Requests, signals
\* and changes of the surroundings need not happen.
Fairness ==
  /\ WF_vars(Running /\ Main)
  /\ SF_vars(Running /\ (LockDirWatch \/ LockPackage))
  /\ WF_vars(Running /\ Dir)
  /\ SF_vars(Running /\ DirLock)
  /\ WF_vars(Running /\ Mnt)
  /\ WF_vars(Running /\ DBus)
  /\ SF_vars(Running /\ RequestLock)

FairSpec == Spec /\ Fairness

-----------------------------------------------------------------------------
(* Properties                                                              *)

Signalled == main \in Handler

\* No other thread is left when the state is dumped, as state.c:11 demands
\* ("other threads must not exist").
DumpAlone ==
  main \in {"dump", "exited"} => dir = "dead" /\ mnt = "dead" /\ dbus = "dead"

\* dir never waits in vain: main is still going to see its change and to let
\* it go on, unless the post for it was used up by a read of /proc/mounts that
\* failed (mountwatch.c:281-285).
DirAwaited ==
  dir = "wait" /\ dir_watch_continue = 0 /\ ~Signalled =>
    \/ dir_change /\ (changed > 0 \/ main \in {"lock", "read"} \/ failed)
    \/ main = "handle"

\* mountwatch_loop ended at once because /proc/mounts could not be opened
Deaf == mnt = "dead" /\ ~died

\* comm_kill came before the loop of the D-Bus thread was run (comm.c 220-221)
Unheard == main = "await_dbus" /\ ~quit

\* The shutdown handler gets to the end and saves the state (daemon.c:29), if
\* mountwatch_loop was there to be told, the D-Bus thread was up, and main was not
\* interrupted in the allocator.
ShutdownSaves == Signalled ~> (saved \/ Deaf \/ Unheard \/ allocating)

\* What happens in a watched directory is looked at, however changes of
\* directories, changes of mounts and the two semaphores interleave.
EventsRead == events ~> (~events \/ Signalled \/ failed)

\* Every change of the mounts main cares about is looked at.
MountsSeen == unseen ~> (~unseen \/ Signalled \/ failed \/ Deaf)

\* When mounts no longer change, the purgatory is swept for ever.
SweepsGoOn == <>[]~notify => []<>(main = "sweeping" \/ Signalled)
=============================================================================
