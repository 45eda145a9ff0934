# dbp in TLA+

DragonBox Package (dbp) lets programs be launched straight from package files.
A daemon, `dbpd`, finds package files on the mounted media, exports their
launchers, and mounts a package on demand: the file is attached to a loop
device, the device is mounted, and a union file system (the image below, the
user's application data on top) is mounted over it.  Launchers (`dbp-run`,
`dbp-cmd`) and a desktop mirror (`dbp-desktopd`) talk to it over D-Bus.

This directory holds TLA+ models of the daemon, TLC configurations that check
them on small instances, and TLAPS proofs.  `PROJECT.json` is the index: which
definition models which lines, which run checks what, which hazard is covered
by which property.  Paths below are relative to `src/`.

Contents: 1 the system · 2 the modules · 3 the runs · 4 fairness ·
5 assumptions and exceptions · 6 what is proved · 7 what is only
model-checked · 8 findings · 9 not modelled · 10 plan · 11 how to run it

## 1. The system

### Components

| component | where | state | operations |
|---|---|---|---|
| mount lifecycle | `dbpd/package.c` 544-707 | `instance[]` (token, package, device), `run_cnt`, `purgatory[]` (package, device, how far unmounted, expiry) | `package_run`, `package_stop`, `package_purgatory_check` |
| loop and union mounting | `libdbpbase/loop.c` | none of its own; the kernel's loop devices and mount table | `dbp_loop_mount`, `dbp_loop_umount` |
| package registry | `dbpd/package.c` 24-542, `dbpd/daemon.c` 49-113 | `entry[]` (path, device, id, list of scripts); files in the directories of launchers, icons and scripts | register a file, crawl a mount, release a file, release a mount, clear everything at start |
| threads and shutdown | `dbpd/daemon.c`, `dbpd/mountwatch.c`, `dbpd/comm.c` | `p->mutex`, `dir_watch_mutex`, semaphores `changed` and `dir_watch_continue`, `dir_change`, `should_die`, `died`, `died2`, the GMainLoop | main's loop, two watcher threads, the D-Bus thread, the signal handler `shutdown` |
| state file | `dbpd/state.c` | the file `dbp_config_struct.state_file` | `state_dump`, `state_recover` |
| mount table comparison | `dbpd/mountwatch.c` 30-384 | the mounts main knows, the inotify watches | `mountwatch_diff`, `mountwatch_inotify_handle` |
| D-Bus interface | `dbpd/comm.c` | the name on the bus | `Mount`, `UMount`, `RegisterPath`, `UnregisterPath`, look-ups, `PackageList`, signals |
| mount look-up | `dbpd/util.c` | none | `util_lookup_mount` |
| desktop files | `libdbpbase/desktop.c` | parsed sections and entries | parse, append, look up, write |
| configuration, meta-data, strings | `libdbpbase/{config,dbp,meta,util}.c` | constants after start | read once; read a package's meta-data |
| versions and dependencies | `libdbpmgr/dependencies.c` | two trees of packages, built once per program | comparison of versions, parsing, building and searching the trees, the check of the five lists |
| client library | `libdbpmgr/dbpd-dbus-client.c`, `error.c` | the connection | one blocking call each |
| desktop mirror | `dbp-desktopd/desktopd.c` | files in the user's desktop directory, the subscription | initial listing, `NewMeta`/`RemoveMeta` |
| launcher | `dbp-run/` | the token of its run | register, mount, run the program, unmount |
| thumbnailer, validator, command line tools | `dbp-thumbnailer/`, `dbp-validate-extracted/`, `dbp-cmd/`, `dbp-cfg/`, `dbp-meta/` | small or none | see section 9 |

### How they interact

* The **D-Bus thread** executes requests one after the other.  `Mount` calls
  `package_run`, `UMount` calls `package_stop`, `RegisterPath` and
  `UnregisterPath` the registry.  Each takes `p->mutex` for its whole length.
* The **main thread** waits in `mountwatch_diff`, for at most a second if
  nothing happens, applies the changes to the registry, and sweeps the
  purgatory.  Each of those steps takes `p->mutex` for its whole length.
* **mountwatch_dirchange** and **mountwatch_loop** wake main through the
  semaphore `changed`; the first then waits on `dir_watch_continue` until main
  has read the inotify events.
* The **desktop mirror** gets dbpd's signals in one thread and lists dbpd's packages
  once in another; both copy launchers from dbpd's directory without any lock.
* A **signal** makes main run `shutdown` wherever it is: it tells the others to
  stop, waits for them, and calls `state_dump`.
* The **kernel** is shared with other programs, which take loop devices in any
  order and between any two calls of dbpd.
* **Programs** may call in any order, hand back tokens of others or none at
  all, and die.

### What is hard

* *Sharing.*  Several instances use one mount; the last one out moves it to the
  purgatory; a launch may take it out again, or may come after a sweep has
  unmounted half of it.
* *Partial failure.*  A mount has three steps, an unmount has three steps, each
  can fail, and the error paths can fail too.  Elsewhere most system calls are
  not checked: launchers, scripts, directories and watches may silently be missing.
* *Other programs* take loop devices between the choice of a device and its use.
* *Files as state.*  Launchers are removed by a prefix of their name, scripts by
  a list kept when they were written; names collide; a killed daemon leaves all
  of them behind.
* *Waiting.*  Two semaphores, two mutexes and four threads, and a signal handler
  that waits for threads, and allocates, from inside an interrupted thread.
* *Restarts.*  What is mounted outlives the daemon; what the daemon knows of it
  depends on a file that may be old.

### What makes each component correct

* mounts: the holder of a token has everything mounted; a mount has one owner;
  an unmount resumes where it stopped; devices are returned in the end.
* registry: launchers and scripts belong to registered packages, each to one.
* threads: no wake-up is lost, sweeps go on, shutdown ends and saves the state
  when nobody else can change it.
* restarts: tokens and mounts survive them unnoticed, as long as the system does.
* mount table: the comparison finds the difference; each mount has one watch, alive
  unless it was refused; when all is dealt with the registry has what is on the
  mounts, as far as dbpd was told.
* desktop mirror: in the end it shows the launchers that exist, with their
  contents, although two threads write it.
* dependencies: versions are ordered as dpkg orders them; a dependency accepts
  the versions it names; each installed package is found, and the list of what is
  missing is right.  Look-ups find the right mount (planned).

## 2. The modules

    MountPromise  <--implements--  PackageRun  --EXTENDS-->  LoopMount
         ^                             ^                        ^
         '--------implements------  DaemonRestart               '--implements--  LoopDevice
                                    (EXTENDS PackageRun)

    Registry    DaemonThreads    MountWatch    Desktopd    Dependencies (EXTENDS Version)

    *Proofs: theorems        MC*: instances for TLC

### LoopMount: `libdbpbase/loop.c`

State: `loopdev` (what is attached to each device), `img` and `union` (stacks
of mounts per package; the kernel lets one mount over another).  The operators
are actions on this state: one per result of `dbp_loop_mount` (`MountOk`,
`MountNoLoop`, `MountNotAttached`, `MountBadFsimg`, `MountIllegalDirname`,
`MountUnionFailed`, named after the error codes), and `dbp_loop_umount(p, l,
prev, result)`, whose `prev` and `result` are the numbers of the code: 1
everything is mounted, -2 the image and the device are left, -3 only the device
is left, 0 nothing.  What an error path leaves behind is `NothingLeft`,
`DeviceLeft` or `ImageLeft`; the code ignores the results of `umount` and
`loop_reset` there, so with `RollbackMayFail` each of them is possible.  The
kernel rules used are that `umount` removes the topmost mount and refuses one
that is in use, and that a mounted device cannot be cleared.

A mount is one action although other programs run during it.  They can disturb
it only between the choice of a device and `LOOP_SET_FD`; that outcome is
`MountNotAttached`.  That this is all there is to see is what LoopDevice shows.

### LoopDevice: `libdbpbase/loop.c`, system call by system call

Extends LoopMount with a program counter: `dbp_loop_mount` looks at one device
after the other (`loop_available_check`), attaches the image to the first that
is free (`loop_setup`), mounts it and the union, and on a failure undoes what
the code undoes; `dbp_loop_umount` begins at the step its `prev` names.  Other
programs take and release devices between any two system calls.  `device` and
`left` are what the caller keeps of the results, which is what PackageRun has in
an instance or a purgatory entry.

The refinement is `Seen == INSTANCE LoopMount WITH ...`: a call in progress has
changed nothing yet as its caller sees it, so `seen_img` and `seen_union` are
those of the call's beginning (`before`) and the device a mount is working on
counts as free.  `CallsAreAtomic` says that every step is a stutter of `Seen`,
one of LoopMount's actions with the result that is returned, or another
program's.  An error path that clears a device which somebody else has taken
meanwhile appears to the caller as that program's `ForeignDetach`; to that
program it is a loss (finding 8).

### PackageRun: `dbpd/package.c`, runs, stops and the purgatory

One action per way through a function, because each function holds `p->mutex`
throughout: `RunShared`, `RunRevived`, `RunMutilated`, `RunUnknown`,
`RunMounted`, `RunFailed` are `package_run`; `package_stop`, `StopInvalid`;
`package_purgatory_check` with one action `package_purgatory_reap` per entry,
during which `todo` is not empty and so the mutex is taken.  `instance` is a set
because the code searches its array by `run_id` and its order has no effect.
`RegistryChange` (any change of the registered packages), `OtherProgram` and
`Tick` are the surroundings.

### MountPromise

What programs are promised, without devices, purgatory or registry: tokens are
new, and a package is unmounted only when nobody holds a token for it.
`KeepsPromise` says that PackageRun implements it; `DaemonRestart` shows the
same across restarts.

### Registry: `dbpd/package.c`, registration and exported files

State: `entry` maps each registered file to the scripts written for it (the
code's `exec` list), `launcher` and `script` are the two directories with the
content of each file, `crawling` and `doomed` are what a crawl and the release
of a mount have yet to do, under the mutex.  Ids and names are sequences of the
words between underscores, for that is all `package_meta_remove` depends on:
`HasPrefix` is "the name begins with `<id>_`".  Package files may appear and
vanish at any time, also in the middle of a crawl; dbpd may end and start at
any time, with its files left behind, which `daemon_nuke` deletes.

System calls fail: `package_register` may find the package file gone when it is
opened a second time, skip launchers that cannot be opened or leave one unfinished,
and record executables for which `package_emit_exec` wrote no script; a crawl leaves
out directories that cannot be opened, and a release removes nothing if the
directory cannot be opened.  The code notices none of this.  `Fault` counts
the steps in which it happens, up to `MaxFaults`, and three variables that only
properties read remember what suffered: `cut` (registered files whose launchers were not
all written), `spoiled` (executables recorded without a script), `kept` (launchers
that a release could not remove).

### DaemonThreads: `daemon.c`, `mountwatch.c`, `comm.c`

A program counter per thread, the mutexes as the name of their holder, the
semaphores as counters, the flags as Booleans.  Only the waiting is modelled:
what main does with the mutex held is the business of the other modules.
`Signal` moves main to the handler and leaves the mutexes as they are, which is
what a handler that never returns does.  The allocator has a lock of its own: where
main may be in `malloc` or `free` (`Allocates`) the signal may find it there
(`allocating`), and then `state_dump`, which allocates, waits for ever.  The D-Bus
thread starts beside main: its loop is not there yet (`born`), made but not run
(`made`), or running, and `comm_kill` stops only a running one.  It may also end by
itself, without its introspection file or its name on the bus.

### DaemonRestart: `dbpd/state.c`

Extends PackageRun with `up`, the state file, the boot (what `state_btime`
tells), and `client`, the tokens that programs really hold.  `Launch` and
`Return` tie the tokens to their holders, `Serve` is the rest of PackageRun
with dbpd running, `Shutdown` dumps and forgets, `Start` recovers, `Reboot` also clears the
kernel.  `Kill`, which exists only in `KillSpec`, forgets without a dump and may
leave a mount half done.  Two boots differ by more than the second of tolerance
that `state_recover` grants, so the comparison is equality.

### MountWatch: `dbpd/mountwatch.c` and the loop of `dbpd/daemon.c`

State: `table` (the lines of `/proc/mounts`), `content` of each package file,
inotify (`handle` of each device's search directory, `events` not yet read),
the daemon's `entry` and `ientry` arrays, and the list `change` that main has
yet to apply to `registered`.  `Diff(refused)` is `mountwatch_diff` when
`inotify_add_watch` fails for the devices `refused`: `Compared(refused)`
is a recursive function of the number of lines compared (one by `Compare`, which
keeps the code's comparison by mount point or device, and the watches it moves),
and `Purge` one over the entries, which drops those whose tag is not set.
`mountwatch_diff`, `mountwatch_inotify_handle`
and each change that main applies (`ApplyNext`) are steps of their own, and
between them mounts, files and events go on changing.

A watch that is refused is kept with the handle 0 (-1 in the code), as it is on a
medium without the search directory.  inotify keeps `MaxEvents` unread events and drops
what comes when it is full (`Reported`).  A directory or a package that
cannot be opened when a change is applied is skipped.  Two history variables, which no
action reads, say what dbpd could not know: `unwatched`, the devices whose watch was
refused, and `missed`, the files whose last change was dropped, happened on such a
device, or was heard of when the package could not be opened.  A later event, or an
unmount, clears a file from `missed`.

`content` distinguishes a file that is still being written (`partial`), as a
registration of it fails.
Left out: lines that are skipped (special and loop-back file systems, `tmpfs`
and the like), the escapes in paths, several search directories on a mount, packages
registered over D-Bus, and ids, which Registry models.  A diff and a crawl are
one step each.

### Desktopd: `dbp-desktopd/desktopd.c`

The mirror's two threads (the signal thread with `thread_file`, main with
`main`, `list`, `files`, `main_file`), their temporary files, and the desktop.
Below them is dbpd as it can be seen from there: the registered packages, the
launcher directory, written and emptied one file after the other under the
mutex, and the signals sent meanwhile.  dbpd may be stopped anywhere and
started again.  The bus is external: it keeps the order of messages, a signal
goes to those who have subscribed when it is sent, and the watch of dbpd's name
(`Known`, `Vanished`) is what subscribes.  A file has the version of its last
write, and version 0 between the truncation and the end of the write, so a copy
made then is incomplete.  The ids and names overlap as in Registry (`Matching`).
The session before may have left launchers on the desktop, which `nuke_desktop`
removes, and a temporary file of either thread (`Leftover`), which it does not: a copy
overwrites it, or gives it the launcher's name if the source has gone.

`missed` and `raced` are history: which launchers changed without a signal that
reached the mirror, and which ones while main was copying.  No action reads them.

### Version: `libdbpmgr/dependencies.c`, versions

Strings are sequences of characters, since what is modelled is what the code
makes of each of them.  `dbpmgr_depend_compare_version`, with
`version_decode`, `compare_version_string` and `compare_substring`, is the order
of versions; `compare_round` is a round of its loop, or what follows the loop when
a string has ended, at the places that `Place` gives for the round.  `scan` is what `sscanf` with `%i` reads and `atoi` what
`atoi` does; both go by way of `strtol`, so `AsInt` clamps a long number to
`LongMax` and then keeps the low bits of an `int` (`IntMax`).
`dbpmgr_depend_parse`, `Accepts` and `Satisfies` are the meaning of a dependency.  There is no state
in the code: the variable holds up to three versions, written one character
after the other, so that a run meets all of them up to the bound.

### Dependencies: `libdbpmgr/dependencies.c`, trees and checks

`package_tree_populate` and `find_list` are the trees of packages, which spread
a list over the next letter when it gets too long.  A tree is a function that gives
each node, named by the slots of the look-ups that lead to it (`Path`, `Paths`), what
the node holds; a node that the code has not allocated is an empty one.  `Depth` is
how many look-ups a name goes through, the recursion of `find_list` and of
`package_tree_populate`; `put` and `spread` are the latter's ends.  The loops are
recursive functions, not operators, so that there are proofs about them.  `Found` is what the loops
over `dbpmgr_depend_debian_next` and `dbpmgr_depend_dbp_next` see;
`dbpmgr_depend_check` decides the five lists of dependencies with them and with
`Satisfies`.  The state is what the trees are built from: the stanzas of dpkg's
status file and dbpd's packages, each in the order they came in.  Debian's
packages are listed with the versions written out, the lists of meta-data are
given as parsed.  One run steps either through installations or through versions.

The modules `MC*` only define values for TLC.  Operators marked *Defect* in a module are
variants of the definition that follows them, as a plausible mistake would have
written it; each is used to see that a property notices the mistake, and no
action of the specification refers to them.

## 3. The runs

| run | result | what it asks |
|---|---|---|
| PackageRun | passes, 94 720 states | do tokens, owners and purgatory agree with the kernel, and is the promise kept, with every failure allowed? |
| PackageRunLive | passes, 2 448 states | do unused packages leave the purgatory and return their devices, and is none lost? |
| Registry | passes, 842 848 states | do exported files follow the registered packages, also if a call fails? |
| RegistryExport | violated | are the launchers of every registered package there? |
| DaemonThreads | passes, 25 726 states | are wake-ups lost, do sweeps go on, does shutdown end, alone? |
| DaemonShutdown | violated | does shutdown end if the signal finds main at work? |
| MountWatch | passes, 2 049 286 states | do the registered packages follow mounts and files? |
| LoopDevice | passes, 972 812 states | are the mounts and unmounts of `loop.c` atomic for their caller, and is what they leave what they say? |
| Desktopd | passes, 2 069 701 states | does the desktop show what dbpd has in the end? |
| Dependencies | passes, 433 203 states | are versions ordered, as Debian's are, do dependencies accept what they say, and are the right ones missing? |
| DaemonRestart | passes, 231 477 states | can programs notice a restart? |
| DaemonKill | violated | is the package of a token mounted, if dbpd can be killed? |

Properties of the passing runs:

* **LiveIsMounted**: for every instance the union is mounted over the image, on
  the device recorded.  **OneOwner**: a union is mounted once and belongs either
  to instances or to one purgatory entry.  **PurgatoryMatchesKernel**: the
  recorded progress of an unmount is what the kernel has.  **KeepsPromise**:
  refinement of MountPromise.
* **NothingLeaked**: each device dbpd attached has an owner that will free it.
  **PurgatoryDrains**: no package stays in purgatory for ever (if mutilated it
  could not be launched either).  **DevicesReturned**: a package that is no
  longer run gives its device back.
* **LeftIsThere**: between calls for a package exactly those layers are there
  that the last result named; nobody's calls in between disturb them.
  **CallsAreAtomic**: refinement of LoopMount.
* **NoStaleLauncher**: every launcher was written for a package that is
  registered now, but for those a release could not remove (`kept`).
  **ScriptsOwned**: every script is listed by a package, which will delete it, and
  whose id it runs; unless a script of that name once failed to be written (`spoiled`)
  by one package only, and none lists a script that is gone.  **LaunchersComplete**: a
  package whose id is not in a prefix relation with another and whose launchers could be
  written (not in `cut`) has them all.
* **DumpAlone**: no other thread is left when the state is dumped.
  **DirAwaited**: mountwatch_dirchange never waits for a post nobody will make.
  **ShutdownSaves**, **EventsRead**, **MountsSeen**: the handler ends, changes are
  seen, with the exceptions of section 5.  **SweepsGoOn**: once mounts stop changing, sweeps
  go on for ever, without anything that wakes main.
* **DiffIsDifference**: each diff reports the mounts that are new and those that
  are gone, once each, and knows the mounted ones afterwards.  **WatchesMatch**:
  one watch per known mount, leading to its path and alive, if it was not refused.
  **InStep**: when nothing is left to notice, read or apply, exactly the readable
  packages on mounted devices are registered, from where they are, but for the files
  in `missed`.
* **IsOrder**: the comparison of versions is antisymmetric and transitive.
  **AgreesWithDebian**: on versions written in the usual way it is the order
  dpkg has, stated independently as a comparison of lists of parts.
  **IntervalsPartition**: `pkg<v`, `pkg>=v<w` and `pkg>=w` are parsed and decided
  so that every version satisfies exactly one of them.
* **FindsExact**: after installations in any order, each installed package is
  found once under its name and nothing else is.  **MissingRight**: a dependency
  is reported missing just if no package of the sort its list allows satisfies it.  The
  dependencies are names alone and names with `>=`; the lists are all there, or only
  those whose look-ups do not begin with a Debian package (`Defined`).
* **OwnContent**: no launcher on the desktop has another one's contents, although
  both threads copy at once; a temporary file of an earlier session is passed on to one
  name at most.  **NothingMissing**: when nothing is under way, every
  launcher that dbpd has and announced is on the desktop.  **Converges**: the
  desktop comes to be what dbpd's directory is, apart from launchers whose change
  was not announced or came while main copied.
* **TokensSurvive**, **StillMounted**, **RestartsUnnoticed**: dbpd, or the file it
  will read, knows every token a program holds; the packages of all known
  instances are mounted and are what programs see; and MountPromise is kept
  across restarts within a boot.

### Bounds, and why they are enough

* *PackageRun*: three packages, one of which `dbp_loop_mount` refuses after
  mounting its image; three devices; three tokens.  Sharing needs two tokens of
  one package, a collision needs a third actor; all three can be mounted at
  once, and devices can run out since other programs take some.  The clock has
  two values: the code compares the expiry with nothing.  Loop devices are
  symmetric (no property or action names one).
* *PackageRunLive*: no symmetry, as liveness is checked; two packages are enough
  for a busy one beside one that has to drain.
* *Registry*: five files on two devices: two files of one package, two packages
  with ids `foo` and `foo_bar`, one with an invalid id; launchers and executables
  that collide across devices.  `MaxFaults` = 1: one step in which any of its system calls
  fail, at any place of the behaviour, so that what the failure left behind meets every later
  registration, release and restart; the theorems have no such bound.
* *DaemonThreads*: `MaxChanged` = 2 bounds unread posts (and the environment's
  changes while they are unread): one post of each watcher, which is all that
  can be under way before one of them has to wait.
* *MountWatch*: two mount points and two devices with a file each: one entry can
  go while the other stays or comes, in both orders of the arrays, and one
  package can change while the other's changes are applied.  `MaxEvents` = 2
  unread events, so that several are read at once and a third is dropped; `MaxHandle` = 4
  bounds the watches that are set.  Any watch may be refused.  Mount points are symmetric, and so are the devices
  together with their files.
* *LoopDevice*: three packages, of which `dbp_loop_mount` refuses one after
  mounting its image, and three devices: two packages can be mounted, and one
  device is left for another program, or all are taken.  Error paths may fail.
  Refused launches keep their devices, so they end.  Devices are symmetric.
* *Desktopd*: two packages with a launcher each, and the id of one begins the
  names of both, so a release removes the other's launcher too.  Three writes
  (one launcher is written again), two starts of dbpd, three messages waiting:
  one of each kind that a launcher can cause, with the name's change.
* *Dependencies*: names `a`, `ab`, `a_`: one begins the others, which part at the
  second letter, and one of them has a character without a slot of its own
  (`Letter`, `Indexed`), so with lists of one package (25 in the code) three packages
  make a tree branch twice.  Two architectures, two versions, stanzas that are
  installed or not.  For versions, characters `0 1 x ~ . - :`: zeros in front,
  hexadecimal, letters, the tilde, epochs and revisions; pairs of versions of six
  characters together (two parts each), triples of five.  The first of a pair is not
  longer than three characters: IsOrder and AgreesWithDebian look at a pair from both
  sides.  A version is followed by another only when neither its main part nor its
  revision is empty, as the properties of pairs and triples ask.  `IntMax` = 15 and
  `LongMax` = 127, so that numbers of three digits overflow an int and of four a
  long, as those of ten and nineteen do in the code.  Without any one of the
  clauses of `Regular`, `AgreesWithDebian` is violated in this run, but for the one on
  mixed revisions: that needs two versions of five characters (`1-1x1` and `1-1.1`).
* *DaemonRestart*: two packages, two devices, three tokens, two boots: a token
  before a restart, one after it, and a package that was in purgatory during it
  and is mounted again over its old mount.  Packages and devices are symmetric.
  The clock stands still, since no action there depends on it.
* *DaemonKill*: one package, one boot, two tokens.

## 4. Fairness

* PackageRun (`Fairness`): the main loop goes round because `sem_timedwait`
  returns after a second at the latest, so sweeps start (WF) and get through
  their entries (WF).  Strong fairness of `ReapedCompletely` says that of
  attempts repeated for ever one succeeds at last: a union is busy only while
  somebody uses it.  Launches and stops need not happen.
* DaemonThreads (`Fairness`): the scheduler runs every thread (WF per thread),
  and a mutex that is released again and again is had at last by each thread
  waiting for it (SF of the actions that lock).  Requests, signals, and changes
  of mounts and directories need not happen.  `SweepsGoOn` is conditional: while
  the mount table keeps changing, `mountwatch_diff` goes on comparing and main
  sweeps nothing, which is listed as a hazard that no property covers.
* Desktopd (in `Spec`): the signal thread, main, and a request that dbpd has begun
  go on (WF each).  Packages need not come or go, nor dbpd be started; as the
  writes and starts are bounded, changes end, and `Converges` is about what comes
  after them.
* Registry, DaemonRestart, MountWatch, LoopDevice and Dependencies state safety only.  That the
  posts which make MountWatch's steps happen do come is what `EventsRead` and
  `MountsSeen` of DaemonThreads say.

## 5. Assumptions and exceptions

* `IllegalDir`: packages whose directories contain ':', '=' or ','.  Their image
  stays mounted after a refused launch; `NothingLeaked` and `DevicesReturned`
  leave them out (finding).
* `RollbackMayFail`: whether `umount` and `LOOP_CLR_FD` may fail on error paths.
  `NothingLeaked` claims nothing when they may; all other properties hold either way.
* `MaxRuns`: tokens given out, fewer than it takes `run_cnt` to wrap (2^31).
  After the wrap the code starts again at 0 without looking which tokens are in
  use; that is not modelled.
* `cut`, `spoiled`, `kept` (Registry): what a failing call on a launcher, a script or a
  directory explains, and no more; `LaunchersComplete`, `ScriptsOwned` and `NoStaleLauncher`
  leave out just those packages, names and launchers (findings 19, 20).  `cut` and
  `spoiled` end with the release of the packages concerned, `kept` when the launcher is
  removed after all, written again, or dbpd starts.
* `unwatched`, `missed` (MountWatch): see there.  `WatchesMatch` excepts the first,
  `InStep` the second (findings 21, 22).
* `allocating`, `Unheard` (DaemonThreads): the signal found main in the allocator, or
  came before the D-Bus loop was run.  `ShutdownSaves` excepts both, since the handler then
  waits for ever (findings 23, 24).
* `Leftover` (Desktopd): a temporary file of an earlier session.  `OwnContent` allows it
  under one launcher's name (finding 25).
* `missed`, `raced`: the exceptions of `NothingMissing` and `Converges`.  Without
  `missed` both fail because `daemon_nuke` announces nothing and because signals
  are lost while nobody has subscribed; without `raced` `Converges` fails because
  main's copies undo what signals did (findings 12, 13).
* `Defined`: `MissingRight` leaves out lists of dependencies for which the code
  writes beyond its look-ups (finding 9).  Stanzas are installed or have only
  configuration files left in the run, and no status is `half-installed` or
  `not-installed` in the theorems (`WordsApart`); those are in finding 10.
* `EarlyRequests`: whether programs call dbpd between `comm_dbus_register` and
  `daemon_nuke`.  If they do, `daemon_nuke` deletes what was exported for
  registered packages, and a script may later be written twice, so `ScriptsOwned`
  and `LaunchersComplete` claim nothing; `NoStaleLauncher` holds either way.  The run has
  FALSE; that it holds with TRUE is what the theorem `LaunchersFresh` shows.
* `SignalAt`: where a signal may find main.  The passing run allows every place
  where main holds no mutex, after `mountwatch_init`, in the allocator or not;
  DaemonShutdown shows one place where it holds a mutex.  A signal before the watchers exist, and a second
  signal during the handler, are hazards without a run.
* `Reused`: whether a mount point or a device may be mounted anew before main has
  seen that it was unmounted.  `Twice`: whether a device may be mounted at two
  places.  `DiffIsDifference`, `WatchesMatch` and `InStep` claim nothing if either
  is so; what the code does then is in the findings.
* `Regular`: main parts and revisions begin and end with digits, without leading
  zeros and with numbers that fit in an int (`RegularString`); epochs are such
  numbers; and the main parts of a pair, and likewise its revisions, either have no
  letters, or have only letters, digits and "~" (`Unmixed`), because of finding 18.
  `Complete`:
  versions without an empty main part or revision; with an empty revision the
  order has a cycle (`1-` before `1-0~` before `1-~1` before `1-`).
* `failed` (`fopen` of `/proc/mounts` failed in `mountwatch_diff`, with the post
  used up) and `Deaf` (`mountwatch_loop` ended at once for the same reason)
  appear as exceptions in the properties: what the code does then is wrong, but
  needs the kernel to refuse a file that is always there.
* Memory allocation never fails in the models.  Some of the code's answers to a
  failure are wrong (`package.c:577`, `loop.c:246`).
* What fails, and how, is limited in these places.  Registry: `unlink` of a launcher or a
  script that dbpd wrote succeeds, and `daemon_nuke` that fails ends dbpd, which is
  `Restart`.  Desktopd: dbpd's own calls succeed, which is Registry's business, and so does
  the mirror's `fopen` of its temporary file.  MountWatch: a search directory is not
  removed or renamed while its medium is mounted, and the events are read all at
  once.  DaemonRestart: a state file that cannot be written (`desktop.c:241`) leaves the old
  one in place, which is what `Kill` does.  Dependencies: a status file that cannot be read,
  or a `PackageList` that fails, is an empty one, as in the code, and the status file ends with
  a blank line; otherwise `build_database` (334-335) takes its last stanza as
  installed whatever its status is.  dpkg writes no such file.
* `init_conv_table` (`dependencies.c:252`) clears 256 bytes of a table of 128.  What
  lies behind it is up to the linker; if it is `debian_root` or `lookup_size`, these are
  zero at that moment or set afterwards.  Listed as a hazard, not modelled.
* A forked daemon, the pid file, logging and the text of messages are left out.

## 6. What is proved

The proofs hold for all values of the constants that satisfy the named
assumptions `LoopMountAssumption`, `PackageRunAssumption`,
`RegistryAssumption`, `DaemonThreadsAssumption`, `DaemonRestartAssumption`,
`DesktopdAssumption`, `MountWatchAssumption`, `VersionAssumption` and
`DependenciesAssumption`; neither the sets of packages, devices and files nor the
bounds need be finite or small.

**DaemonRestartProofs**, first half, about PackageRun (with the lemmas of
**LoopMountProofs**).  `Invariance`
proves `Spec => []IInv`.  `LiveIsMounted` alone is not inductive: a stop could
put a package into purgatory that is there already, and a sweep could then
unmount what another run uses.  `IInv` adds

* `TokensDistinct`: tokens are below `run_cnt` and distinct, so that removing
  one instance removes no other;
* `Exclusive`: no package is both running and in purgatory, and none is there
  twice, so that a sweep's unmount concerns nobody else;
* `UnionOwned`: without a run or an entry no union is mounted, so that a new
  mount is the only one;
* `MountTable`: what is mounted on a package's image directory is a device with
  that package attached, each device once, so that unmounting one device cannot
  uncover or free another one's;
* `PurgatoryMatchesKernel`: layers are as recorded, so that a revived package is
  completely mounted.

LoopMountProofs says what the operators do to `HasLayers`: a mount produces the
three layers (`MountOkLayers`), an unmount from `prev` to `result` changes
exactly the layers between (`UmountLayers`), and everything else keeps the
layers of other packages (`OthersKeepLayers`).  From `Invariance` follow
`TypeCorrect`, `TokenHolderSafe` (LiveIsMounted), `PurgatorySafe`, `SingleOwner`
(OneOwner).  `LeakFree` is an invariant of its own on top of `IInv`, action by
action.  `Refinement` proves `Spec => KeepsPromise`: launches map to `Grant`,
stops to `Return`, a sweep that removes the union to `Unmount`, for which
`Exclusive` supplies that nobody holds a token; all else stutters.

**DaemonRestartProofs**, second half, about DaemonRestart.  `IInv` of PackageRun does
not survive a shutdown, which forgets the purgatory: a package may be mounted
without an owner, and again on top.  `RestartInv` (`RestartInvariance`,
`RestartTypeCorrect`) keeps what holders need: the topmost union and image of each
known instance are on its device (`InPlace`, whatever is below), and so for
each purgatory entry that can be revived (`RevivableInPlace`).  `known` and `issued` are what
dbpd remembers or will read from the file; a shutdown and a start leave both as
they are, and a boot, after which the file is older than the boot, empties both.
`Exclusive` again lets the sweep unmount only what nobody runs; the unmount of
an upper mount leaves the lower one, so `Unnoticed` (RestartsUnnoticed) maps it
to a stutter of MountPromise and that of the last one to `Unmount`.

**RegistryProofs**.  `LaunchersFresh` (NoStaleLauncher) needs to remember that a
launcher's name begins with the id of the package it was written for, so the
release of that package removes it; `OwnPrefix` is the fact about sequences
behind it; a launcher that a release leaves behind is in `kept`.  `ScriptsHaveOneOwner`
(ScriptsOwned) is the invariant `ScriptInv`: each script is in the list of the package it
runs, and of no other unless it is in `spoiled`.  `AloneIsComplete`
(LaunchersComplete) rests on `SharedName`: if a launcher of one package begins
with another's id, the ids are equal or one extends the other, so that the
release of an unrelated package cannot remove it.  Its invariant `CompleteInv`
adds that ids are registered once and that nothing is registered before
`daemon_nuke` has emptied the directories.  A package is in `cut` from the step that
registers it, so nothing that fails later takes launchers from one that is not.

**LoopDeviceProofs**.  `LeftIsThere` is not inductive: nothing in it says what a
call has done so far.  `MountSoFar` places each system call of a mount (until
`LOOP_SET_FD` the device is not dbpd's, from then on it has this package, and
from the mount of the image on the image stack is the old one with that device
on top; whatever fails, the reset finds one of four situations).  `UmountSoFar`
does the same for an unmount.  `MountTable` (LoopMount) and `Kept` (what every
caller that waits relies on) complete `IInv`, proved in `Invariance`.
`CallsAtomic` proves `Spec => CallsAreAtomic`: for each step that ends a call,
`MountSoFar` or `UmountSoFar` says that the stacks are those of one of
LoopMount's results; the steps before it change only what `Seen` hides.

**DaemonThreadsProofs**.  `Reported` is what each thread has been told: who is
reported dead is dead, and the handler is past each of its waits only with the
report it waited for; before `mountwatch_init` there is nobody to report.  `comm_kill`
without effect leaves the handler waiting, so it adds no way past that wait.  From
it `DumpsAlone` (DumpAlone) follows for every place where the signal can find
main and also if `/proc/mounts` cannot be opened.  `NeverWaitsInVain` (DirAwaited)
is inductive with the types.

**DesktopdProofs**.  `ContentIsOwn` (OwnContent) says that the two threads of
dbp-desktopd cannot mix up launchers by way of the directory they share.
`IInv` adds that what dbpd writes under a name is that launcher (`SourcesOwn`),
that nothing reaches the mirror before it listens (`Quiet`), and that a running
dbpd has a generation (`Numbered`).  A temporary file is then either of the
launcher its thread is copying, so that a rename puts that launcher's content in place,
or the one that was there at the start.  Such a file is in one place at a time, the
temporary file or a name on the desktop, since only a rename moves it and nothing copies
from the desktop.
`NoneIsMissing` (NothingMissing) follows a launcher on its way: `Coming` says that
it is on the desktop, announced in the queue, being copied, or in what main still has to
list or copy; `Replaced`, that a removal in the queue is followed by the news
of what replaced it.  That main's list leaves nothing out needs `Owned`, each file in
dbpd's directory is of a registered package or about to be removed, and the
hypothesis `NamesApart`: no launcher name is shared by a package that is shown
and one that is not (`foo_bar` with `x` and `foo` with `bar_x` would share one).

**MountWatchProofs**.  The tables have any number of lines, and `mountwatch_diff`
goes over them one by one, so the proof is an induction over lines.  The library's
induction theorems take an operator as a parameter, which the provers cannot
instantiate; here induction is over a *set* of numbers, from the least number that
is not in it (`Least`, by `WFMin`), and the recursion in the model is by functions
on numbers, which `Recursion` shows to exist.  `Scan` says what comparing one line
does to a scan in which mounts and entries correspond one to one, `ScanAll` and
`PurgeAll` what all lines and all entries do, and from them come `DifferenceFound`
(DiffIsDifference) and the half of `WatchesKept` (WatchesMatch) that is about a
diff, for any set of refused watches (`DiffEffect`).  `InStep` speaks of the moments when nothing is under way and is not inductive
at all: its invariant `Inv` says for *every* moment where each difference between
files and registered packages is going to be noticed.  If mounts are neither
`Twice` nor `Reused`,

* `OneByOne`: mounts, entries and watches correspond one to one, so that a diff's
  search by mount point or device finds the mount's own entry;
* `HandlesRight`: the handle of a mounted entry is the live watch of its device, if
  there is one, and no two live watches share a handle, so that an event is attributed
  to its mount;
* `RefusedRight`: a mounted entry without a handle is of an unwatched device, so that
  any other known device reports what happens on it;
* `EventsRight`, `ChangesRight`: an event or a change that is still to be handled
  names a file of the device it came from, and a removal is of a mount no longer
  known, so that a late change takes nothing from a mount that came since;
* `RegisteredRight`: each registered package is of a known mount or a removal of it
  is among the changes;
* `GoneNoticed`: if the file of a registered package is gone from a device that is
  mounted and known, an event or a change says so;
* `WholeNoticed`: a file that can be read on such a device is registered and stays so
  (`Stays`), or an event or a change will register it after whatever removes it, unless
  it is in `missed`; likewise for `GoneNoticed`.

At rest there are no events, no changes and no difference, so the last three leave
only `InStepAtRest` (InStep).  `TypeCorrect` needs none of this and holds for all mounts.

**DependenciesProofs**, first half, about Version.  `Ordered` (IsOrder) holds for
versions of every length.  To compare by the first of several orders that tells two elements apart is an order
(`FirstIsOrder`: antisymmetric because both directions stop at the same place,
transitive because the first difference on either side decides), and so is to
compare integers (`KeyOrder`).  The code is brought into that form level by level:
`SubstringFirst` gives every character of a part a rank, with the end of the part
between "~" and all others, although `compare_substring` has a case for each pair;
`RoundFirst` makes a round of the number read and these ranks; `StringFirst` says that
`compare_version_string`, which stops in the first round that finds a difference or
an end, is the comparison by all rounds, where a string that is over comes first.
That its last test looks at "~" makes no difference there: a round that is not the
first begins at a digit (`PlaceMoves`).  `VersionOrder` adds the epoch and the
revision.  Nothing depends on what `scan` and `atoi` return, only that it is an
integer, so the order survives octal numbers, clamping and wrapping; that it is the
*right* order is what AgreesWithDebian says.  `IntervalsExact` (IntervalsPartition)
adds the parser: `BoundOperator` says that the operator found is the one that was
written, as "<=" is tried before "<", `BoundVersion` that what is compared with is
what follows it, up to the next operator or the end (`NeedsOne`, `NeedsTwo`); the
three intervals are then cases of the order.  `TypeCorrect` (Version's TypeOK) is about
`version_decode`.  The specification writes versions up to `MaxLength`, and no
step of the proofs uses that bound.

`DebianOrder` (AgreesWithDebian) compares two descriptions that cut a string at
different places: Debian's order has a list of parts, other characters followed by a
number, each found by counting the parts before it; the code goes in rounds, a number
followed by other characters, each found from the place where the last one ended.
`Begin` is where a part begins, said in terms of the rounds, and `PartsAll` that these
are all parts there are, so that `PartIs` gives the n-th one without counting.  `PlacesAgree`
says that the ranks of the code and those of Debian order two characters, or
a character and the end, in the same way if letters are not mixed with others, and
`PartSays` that the characters of a part are therefore compared as Debian does.
Numbers are read alike by `scan` (`ScanIs`), as nothing in a regular string looks octal
or hexadecimal or is clamped.  `RoundIs` and `RoundsSame` put the two together: a round finds
nothing just if the number of one part and the characters of the next are the same, so
the first round with a difference has in it the first part with one (`StringParts`,
`StringIs`).  The digits at both ends are what keeps the first and the last round in
step.  What is asked of letters is asked of "-" too, which a main part may hold (`1a1-1`
and `1-1-1` are ordered differently by dpkg); the run does not reach such a pair, only
the proof shows that `Unmixed` must exclude it.

**DependenciesProofs**, second half, about the trees.  `FindsInstalled` (FindsExact)
holds for every number of names, packages and letters, whatever the limit of the lists and
whichever letters have slots.  That a look-up finds everything under its name is not
inductive: it says nothing of the lists that are spread next.  `Holds` does: the
nodes above one with a look-up have look-ups (`Below`); no node holds anything twice
(`AllOnce`); an entry among the matches of a node has a name that ends there
(`Matches`), one in a list has a name that goes on, and the node has no look-up to go
on with (`Lists`); and each entry is in a node on the way of its name (`HasAll`).
`PutHolds` keeps this for a new entry.  A list that is spread is first taken out of the tree,
so that `Holds` is about the other entries (`ClearedHolds`), and then comes back entry by
entry (`SpreadHolds`); `PopulateHolds` and `TreeHolds` are the loops around them.  The way of a
name ends at one node (`ReachesOne`), so the node where `Depth` ends is the only
one that can hold the name (`FindsAll`).  The loops are functions
on numbers, shown to exist by `Recursion`, and the inductions are over sets of
numbers, as in MountWatchProofs.  `MissingNamed` (MissingRight, so for dependencies on a name,
or on a name and a least version) needs besides that
the first package found speaks for all: `DependInv` says that dpkg's stanzas for one
name have different architectures and, if installed, the same version, and that
dbpd's ids differ.  Both theorems assume `WordsApart` (section 5).  `VersionsHold` takes the
invariants of Version over to the composed specification, which the run checks.

## 7. What is only model-checked

Liveness: PurgatoryDrains, DevicesReturned, Converges, and the liveness properties of
DaemonThreads.  Proofs of liveness under fairness need ENABLED, which is out of the
prover's reach.  Every invariant and every action property of the runs has a theorem.

## 8. Findings

With a run:

1. *RegistryExport* (`package.c:456`): releasing `foo` deletes the launchers of
   the registered package `foo_bar`.
2. *DaemonShutdown* (`daemon.c:41`): a signal that reaches main while it holds
   `p->mutex`, with a request waiting for it, ends in a standstill; no state is
   saved.
3. *DaemonKill* (`state.c:107`): the state file is not removed once it is
   recovered and only the boot is compared.  After a kill dbpd recovers the file of an
   earlier shutdown; instances that were stopped are back, and the next launch
   of their package is answered with a token although nothing is mounted.

Without a run; where a property would be violated, its exception (section 5)
names the case:

4. `package.c:660`: the sweep tests the expiry time for being non-zero and never
   compares it with the clock.  A package is unmounted by the first sweep after
   its last stop, within about a second, not after the "between 4 and 5 seconds"
   of the comment at `package.c:610`.
5. `mountwatch.c:359`: the removal of one mount of a device releases all packages
   on the device, which is still mounted elsewhere (`Twice`).
6. `mountwatch.c:328`: a device that is unmounted and mounted again at the same
   place before main looks is not searched again, and not watched any more (`Reused`).
7. `loop.c:307`: a refused directory name leaves the image mounted and its
   device in use (`IllegalDir`).
8. `loop.c:321`: a mount that lost its device to another program before
   `LOOP_SET_FD` clears that program's device on its error path.
9. `dependencies.c:447`: the table that gives letters their place in a look-up is
   filled by the Debian tree only; without a list that needs one, the tree of
   dbpd's packages branches with look-ups of length 0.
10. `dependencies.c:331`: "installed" is looked for anywhere in the status, so
    half-installed and not-installed packages count.
11. `dependencies.c:555`: the keys that are checked are not those the documentation
    (`README.md:16-17`) tells packagers to write.
12. `daemon.c:57`: `daemon_nuke` sends no RemoveMeta, so launchers of packages that
    went while dbpd was down stay on the desktop.
13. `desktopd.c:150`: main copies its list while the signal thread handles signals;
    a launcher that goes in between comes back, and an older copy replaces a newer one.
14. `state.c:52`: the purgatory is not dumped; its packages stay mounted with
    nobody to unmount them, and a later launch mounts them a second time.
15. `desktop.c:40`: an entry is added to the last section of the file, not to the
    one it was asked for.
16. `package.c:80`: an id is validated only if some package is registered already.
17. `dependencies.c:208`: numbers with a leading zero are read as octal, so
    2015.08 is older than 2015.07.
18. `dependencies.c:138`: letters come after all other characters, which dpkg has
    the other way round.
19. `package.c:185`: the name of an executable is recorded even if no script could be
    written, so the script a later package gets under that name is deleted with the
    first package (`spoiled`).
20. `package.c:165`: launchers that cannot be written, and package files that cannot be
    opened the second time (`package.c:278`), are skipped, and the package counts as
    registered (`cut`).  The stream opened at 165 is never closed, so that
    dbpd runs out of file descriptors in the end.
21. `mountwatch.c:164`: a refused watch goes unnoticed.  A medium without the
    search directory is never looked at again (`unwatched`).
22. `mountwatch.c:205`: the overflow of the inotify queue is ignored; nothing is searched
    again (`missed`).
23. `daemon.c:44`: the handler allocates, and waits for ever if the signal found main
    in the allocator (`allocating`).
24. `comm.c:241`: the handler's `g_main_loop_quit` is lost if the D-Bus thread has not run
    its loop yet; the handler waits for ever (`Unheard`).
25. `desktopd.c:74`: a temporary file left by an ended session gets the name of a launcher
    whose source has gone (`Leftover`).

## 9. Not modelled

Marshalling, error texts, translations, the command line tools, the validator
(sequential programs that print), the configuration reader (constants after
start), reading of archives, the text format of the state file and with it the
check of damaged files, forking and the pid file.  The thumbnailer is
unfinished: its queue is never filled.  Icons behave like launchers.

## 10. Plan

Done: LoopMount, PackageRun with MountPromise and its proofs; Registry with its
proofs; DaemonThreads with its proofs; DaemonRestart with its proofs; MountWatch with its
proofs; Version and Dependencies with their proofs; LoopDevice with its proofs; Desktopd with
its proofs.  What is left, in this order:

1. **Daemon**: MountWatch composed with Registry, so that ids, launchers and
   scripts follow the mounts; registrations over D-Bus between diff and apply.
2. **Algorithms** over bounded inputs: `util_lookup_mount`, the merge of override
   files (`desktop.c`), Exec lines (`exec-line.vala`).
3. **RunClient**: dbp-run's register, mount, spawn and unmount as an actor of
   PackageRun and Registry, dying at any step.

## 11. Running it

    tlc -config PackageRun.cfg MCPackageRun.tla
    tlapm DaemonRestartProofs.tla

The longest run (Dependencies) takes about four minutes with two workers.
`RegistryExport`, `DaemonShutdown` and `DaemonKill` end with a counterexample.
