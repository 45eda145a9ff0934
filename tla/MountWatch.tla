----------------------------- MODULE MountWatch -----------------------------
(***************************************************************************)
(* dbpd/mountwatch.c and the loop of dbpd/daemon.c: how the registered     *)
(* packages follow the mounts and the files on them.                       *)
(*                                                                         *)
(* mountwatch_diff compares the lines of /proc/mounts with the mounts it   *)
(* knows and watches the search directory of each with inotify.  What it   *)
(* finds, and the events inotify has collected, become a list of changes   *)
(* that the main thread applies to the registry one after the other, while *)
(* mounts and files go on changing.                                        *)
(*                                                                         *)
(* Lines that mountwatch_diff skips are left out, a mount has one search   *)
(* directory, and no two files have the same id.  A watch may be refused,  *)
(* an event lost and a package not be opened; nobody notices, and what was *)
(* missed is remembered here to say what can be expected nevertheless.     *)
(***************************************************************************)
EXTENDS Naturals, Sequences, FiniteSets, SequencesExt

CONSTANTS
  Mount,       \* mount points
  Device,      \* devices with a file system
  File,        \* package files
  DeviceOf,    \* the device each file is on
  Twice,       \* TRUE: a device may be mounted at several mount points
  Reused,      \* TRUE: a mount point or a device may be used anew before main
               \* has seen that it was unmounted
  MaxHandle,   \* bound on inotify handles
  MaxEvents    \* the events inotify keeps; those beyond are lost

ASSUME MountWatchAssumption ==
  /\ DeviceOf \in [File -> Device]
  /\ Twice \in BOOLEAN
  /\ Reused \in BOOLEAN
  /\ MaxHandle \in Nat
  /\ MaxEvents \in Nat \ {0}

VARIABLES
  table,        \* the lines of /proc/mounts
  content,      \* each file: absent, partial (cannot be read yet) or whole
  handle,       \* the inotify handle of each device's directory, 0 if none
  next_handle,  \* the handle inotify gives out next
  events,       \* what inotify has to report
  entry,        \* mountwatch_struct.entry: the mounts known
  ientry,       \* mountwatch_struct.ientry: the directories watched
  dir_change,   \* mountwatch_dirchange has posted
  main,         \* where the main thread is
  change,       \* the changes it has yet to apply
  registered,   \* packages in p->entry, with the mount and device recorded
  unwatched,    \* history: the devices a watch was refused for
  missed        \* history: the files dbpd has not heard of or not opened

kernel == <<table, content, handle, next_handle, events>>
watch == <<entry, ientry, dir_change>>
history == <<unwatched, missed>>
vars == <<kernel, watch, main, change, registered, history>>

Line == [mount : Mount, device : Device]
Event == [handle : Nat, file : File, what : {"created", "written", "gone"}]
Watch == [mount : Mount, device : Device, handle : Nat]
MountChange == [tag : {"ADDED", "CHANGED", "REMOVED"}, mount : Mount, device : Device]
FileChange == [tag : {"PKG_ADDED", "PKG_REMOVED"}, mount : Mount, device : Device, file : File]

TypeOK ==
  /\ table \in Seq(Line)
  /\ content \in [File -> {"absent", "partial", "whole"}]
  /\ handle \in [Device -> Nat]
  /\ next_handle \in Nat \ {0}
  /\ events \in Seq(Event)
  /\ entry \in Seq(Line)
  /\ ientry \in Seq(Watch)
  /\ dir_change \in BOOLEAN
  /\ main \in {"wait", "handle", "apply"}
  /\ change \in Seq(MountChange \cup FileChange)
  /\ registered \subseteq [file : File, mount : Mount, device : Device]
  /\ unwatched \subseteq Device
  /\ missed \subseteq File
  /\ main = "wait" => change = << >>

Mounted == ToSet(table)
Known == ToSet(entry)

\* What one sees at mount point m is the last thing mounted there
Shows(m, d) ==
  \E i \in 1..Len(table) :
    /\ table[i] = [mount |-> m, device |-> d]
    /\ \A j \in i + 1..Len(table) : table[j].mount # m

Init ==
  /\ table = << >>
  /\ content \in [File -> {"absent", "whole"}]
  /\ handle = [d \in Device |-> 0]
  /\ next_handle = 1
  /\ events = << >>
  /\ entry = << >>
  /\ ientry = << >>
  /\ dir_change = FALSE
  /\ main = "wait"
  /\ change = << >>
  /\ registered = {}
  /\ unwatched = {}
  /\ missed = {}

-----------------------------------------------------------------------------
(* mountwatch_diff, as a function of what it works on: entry, ientry, the  *)
(* kernel's handles, and the changes found; seen is the set of the entries *)
(* whose tag is set, refused that of the devices that no watch is set for. *)

\* Defect: no watch is ever removed
UnwatchNothing(w, m) == w

\* The watches of s that are not at mount point m
Without(s, m) ==
  LET rest[n \in 0..Len(s)] ==
        IF n = 0 THEN << >>
        ELSE IF s[n].mount = m THEN rest[n - 1] ELSE Append(rest[n - 1], s[n])
  IN rest[Len(s)]

\* mountwatch_inotify_remove
Unwatch(w, m) ==
  LET lost == {x.handle : x \in {y \in ToSet(w.ientry) : y.mount = m}}
  IN [w EXCEPT !.ientry = Without(@, m),
               !.handle = [d \in Device |-> IF @[d] \in lost THEN 0 ELSE @[d]]]

\* What inotify_add_watch returns for the directory of device d: an error (-1,
\* here 0), for one if there is no such directory; the handle it has if it is
\* watched already, else a new one
AddWatch(w, d) ==
  IF d \in w.refused THEN 0 ELSE IF w.handle[d] = 0 THEN w.next ELSE w.handle[d]

\* mountwatch_inotify_add, which keeps whatever it gets.  The directory is found
\* by its path.
Watched(w, line) ==
  LET d == CHOOSE x \in Device : Shows(line.mount, x)
      h == AddWatch(w, d)
  IN [w EXCEPT !.ientry = Append(@, [mount |-> line.mount, device |-> line.device, handle |-> h]),
               !.handle[d] = IF h = 0 THEN @ ELSE h,
               !.next = IF h = @ THEN @ + 1 ELSE @]

Found(w, t, line) ==
  [w EXCEPT !.change = Append(@, [tag |-> t, mount |-> line.mount, device |-> line.device])]

\* The entry that is equal to a line, or 0
Equal(w, line) == SelectInSeq(w.entry, LAMBDA e : e = line)

\* The entries up to the equal one that have the same mount point or the same
\* device as a line, but not both
Partly(w, line) ==
  LET equal == Equal(w, line)
  IN {i \in 1..(IF equal = 0 THEN Len(w.entry) ELSE equal) :
        /\ i # equal
        /\ w.entry[i].mount = line.mount \/ w.entry[i].device = line.device}

\* Each of them moves its watch to the line and stays as it is.
Moved(w, line) ==
  LET moved[n \in 0..Len(w.entry)] ==
        IF n = 0 THEN w
        ELSE IF n \in Partly(w, line)
        THEN Found(Watched(Unwatch(moved[n - 1], w.entry[n].mount), line), "CHANGED", line)
        ELSE moved[n - 1]
  IN moved[Len(w.entry)]

\* One line of /proc/mounts against the entries
Compare(w, line) ==
  LET equal == Equal(w, line)
      seen == w.seen \cup Partly(w, line)
  IN IF equal # 0
     THEN [Moved(w, line) EXCEPT !.seen = seen \cup {equal}]
     ELSE [Watched(Found(Moved(w, line), "ADDED", line), line)
             EXCEPT !.entry = Append(@, line), !.seen = seen \cup {Len(w.entry) + 1}]

\* Defect: the index is not stepped back when an entry is removed
GoneSkipping(w) ==
  {i \in 1..Len(w.entry) : i \notin w.seen /\ (i = 1 \/ i - 1 \in w.seen)}

\* The entries whose tag is not set
Gone(w) == {i \in 1..Len(w.entry) : i \notin w.seen}

Purge(w) ==
  LET kept[n \in 0..Len(w.entry)] ==
        IF n = 0 THEN [w EXCEPT !.entry = << >>]
        ELSE IF n \in Gone(w)
        THEN Found(Unwatch(kept[n - 1], w.entry[n].mount), "REMOVED", w.entry[n])
        ELSE [kept[n - 1] EXCEPT !.entry = Append(@, w.entry[n])]
  IN kept[Len(w.entry)]

Compared(refused) ==
  LET compared[n \in 0..Len(table)] ==
        IF n = 0
        THEN [entry |-> entry, ientry |-> ientry, handle |-> handle, next |-> next_handle,
              change |-> << >>, seen |-> {}, refused |-> refused]
        ELSE Compare(compared[n - 1], table[n])
  IN compared[Len(table)]

Diff(refused) == Purge(Compared(refused))

\* Defect: it returns for the events of directories only
ReturnsOnPost(changes, posted) == IF posted THEN "handle" ELSE "wait"

\* Without changes and without a post of mountwatch_dirchange it waits again.
Returns(changes, posted) ==
  IF posted THEN "handle" ELSE IF changes # << >> THEN "apply" ELSE "wait"

mountwatch_diff ==
  /\ main = "wait"
  /\ \E refused \in SUBSET {x.device : x \in Mounted} :
       LET w == Diff(refused)
       IN /\ entry' = w.entry
          /\ ientry' = w.ientry
          /\ handle' = w.handle
          /\ next_handle' = w.next
          /\ change' = w.change
          /\ main' = Returns(w.change, dir_change)
          /\ unwatched' = {d \in unwatched \cup w.refused : w.handle[d] = 0}
  /\ dir_change' = FALSE
  /\ UNCHANGED <<table, content, events, registered, missed>>

-----------------------------------------------------------------------------
(* Directory events                                                        *)

\* mountwatch_dirchange, which waits from its post until main has read the events
DirNotices ==
  /\ events # << >>
  /\ main # "handle"
  /\ ~dir_change
  /\ dir_change' = TRUE
  /\ UNCHANGED <<kernel, entry, ientry, main, change, registered, history>>

Tags(what) ==
  CASE what = "created" -> <<"PKG_ADDED">>
    [] what = "written" -> <<"PKG_REMOVED", "PKG_ADDED">>
    [] what = "gone" -> <<"PKG_REMOVED">>

\* The changes of an event.  Its path is that of the first watch with its
\* handle; the events of a watch that was removed are dropped.
ChangesOf(e) ==
  LET i == SelectInSeq(ientry, LAMBDA x : x.handle = e.handle)
      tags == Tags(e.what)
  IN IF i = 0 THEN << >>
     ELSE [n \in 1..Len(tags) |->
             [tag |-> tags[n], mount |-> ientry[i].mount, device |-> ientry[i].device,
              file |-> e.file]]

\* Defect: of several events that are read at once the first is handled
FirstEventChanges == IF events = << >> THEN << >> ELSE ChangesOf(Head(events))

ChangesUpTo[n \in 0..Len(events)] ==
  IF n = 0 THEN << >> ELSE ChangesUpTo[n - 1] \o ChangesOf(events[n])

EventChanges == ChangesUpTo[Len(events)]

mountwatch_inotify_handle ==
  /\ main = "handle"
  /\ events' = << >>
  /\ change' = change \o EventChanges
  /\ main' = IF change' = << >> THEN "wait" ELSE "apply"
  /\ UNCHANGED <<table, content, handle, next_handle, watch, registered, history>>

-----------------------------------------------------------------------------
(* main applies the changes.  What is on a mount is what is found there at *)
(* that moment.                                                            *)

IsRegistered(f) == \E r \in registered : r.file = f

\* The files that can be read at mount point m and have no entry yet
New(m) ==
  {f \in File : content[f] = "whole" /\ Shows(m, DeviceOf[f]) /\ ~IsRegistered(f)}

Entries(fs, c) == {[file |-> f, mount |-> c.mount, device |-> c.device] : f \in fs}

\* The packages a change tells package_crawl_mount or package_register_path to add
Offered(c) ==
  IF c.tag = "ADDED" THEN New(c.mount)
  ELSE IF c.tag = "PKG_ADDED" THEN New(c.mount) \cap {c.file}
  ELSE {}

\* What package_release_mount or package_release_path leaves; nothing is done
\* about CHANGED.
Left(c) ==
  CASE c.tag = "REMOVED" -> {r \in registered : r.device # c.device}
    [] c.tag = "PKG_REMOVED" -> {r \in registered : r.file # c.file \/ r.mount # c.mount}
    [] OTHER -> registered

\* A directory or a package that cannot be opened is skipped.
ApplyNext ==
  /\ main = "apply"
  /\ LET c == Head(change)
     IN \E opened \in SUBSET Offered(c) :
          /\ registered' = Left(c) \cup Entries(opened, c)
          /\ missed' = missed \cup (Offered(c) \ opened)
  /\ change' = Tail(change)
  /\ main' = IF change' = << >> THEN "wait" ELSE "apply"
  /\ UNCHANGED <<kernel, watch, unwatched>>

-----------------------------------------------------------------------------
(* The kernel and its users                                                *)

MountDevice(m, d) ==
  /\ next_handle + Len(table) < MaxHandle
  /\ [mount |-> m, device |-> d] \notin Mounted
  /\ \A x \in Mounted \cup Known :
       /\ x.mount = m => Reused
       /\ x.device = d => Reused \/ (Twice /\ x \in Mounted)
  /\ table' = Append(table, [mount |-> m, device |-> d])
  /\ UNCHANGED <<content, handle, next_handle, events, watch, main, change, registered, history>>

\* The topmost mount goes.  With the last mount of a device its watch goes too,
\* but not the events that were reported.  When it returns it is searched anew.
Unmount(m) ==
  LET i == SelectLastInSeq(table, LAMBDA x : x.mount = m)
      d == table[i].device
  IN /\ i # 0
     /\ table' = RemoveAt(table, i)
     /\ IF \E x \in ToSet(table') : x.device = d THEN UNCHANGED <<handle, history>>
        ELSE /\ handle' = [handle EXCEPT ![d] = 0]
             /\ unwatched' = unwatched \ {d}
             /\ missed' = {f \in missed : DeviceOf[f] # d}
     /\ UNCHANGED <<content, next_handle, events, watch, main, change, registered>>

\* inotify drops what exceeds its queue and says so in an event without a name,
\* which mountwatch_inotify_handle ignores.  A later event makes up for a lost one.
Reported(f, what) ==
  LET h == handle[DeviceOf[f]]
  IN IF h # 0 /\ Len(events) < MaxEvents
     THEN /\ events' = Append(events, [handle |-> h, file |-> f, what |-> what])
          /\ missed' = missed \ {f}
     ELSE /\ UNCHANGED events
          /\ missed' = IF h # 0 \/ DeviceOf[f] \in unwatched THEN missed \cup {f} ELSE missed

IsMounted(d) == \E x \in Mounted : x.device = d

ContentChange(f, from, to) ==
  /\ content[f] \in from
  /\ content' = [content EXCEPT ![f] = to]
  /\ UNCHANGED <<table, handle, next_handle, watch, main, change, registered, unwatched>>

\* IN_CREATE, IN_CLOSE_WRITE, IN_MOVED_TO, IN_DELETE or IN_MOVED_FROM, IN_ATTRIB.
\* Opening a file to write it again is not reported.
Create(f)  == ContentChange(f, {"absent"}, "partial") /\ Reported(f, "created")
Close(f)   == ContentChange(f, {"partial"}, "whole") /\ Reported(f, "written")
MoveTo(f)  == ContentChange(f, {"absent"}, "whole") /\ Reported(f, "created")
Delete(f)  == ContentChange(f, {"partial", "whole"}, "absent") /\ Reported(f, "gone")
Chmod(f)   == ContentChange(f, {"whole"}, "whole") /\ Reported(f, "written")
Rewrite(f) == ContentChange(f, {"whole"}, "partial") /\ UNCHANGED <<events, missed>>

\* A file on a device that is mounted nowhere: another computer changes it
Elsewhere(f) ==
  /\ ~IsMounted(DeviceOf[f])
  /\ \E c \in {"absent", "whole"} : ContentChange(f, {"absent", "partial", "whole"}, c)
  /\ UNCHANGED <<events, missed>>

FileOperation(f) == Create(f) \/ Close(f) \/ MoveTo(f) \/ Delete(f) \/ Chmod(f) \/ Rewrite(f)

-----------------------------------------------------------------------------

Daemon == mountwatch_diff \/ DirNotices \/ mountwatch_inotify_handle \/ ApplyNext

Environment ==
  \/ \E m \in Mount, d \in Device : MountDevice(m, d)
  \/ \E m \in Mount : Unmount(m)
  \/ \E f \in File : IsMounted(DeviceOf[f]) /\ FileOperation(f)
  \/ \E f \in File : Elsewhere(f)

Next == Daemon \/ Environment

Spec == Init /\ [][Next]_vars

-----------------------------------------------------------------------------
(* Properties                                                              *)

\* Mounts and mountwatch's entries correspond one to one
Tidy == ~Twice /\ ~Reused

\* mountwatch_diff finds the difference of two sets, for all its comparing of
\* mount points and devices one by one: it knows the mounts there are, and has
\* reported those it did not know and those that are gone, once each.
DiffIsDifference ==
  [][Tidy /\ main = "wait" /\ main' # "wait" =>
       /\ ToSet(entry)' = Mounted
       /\ {<<c.mount, c.device>> : c \in {x \in ToSet(change') : x.tag = "ADDED"}}
            = {<<x.mount, x.device>> : x \in Mounted \ Known}
       /\ {c.device : c \in {x \in ToSet(change') : x.tag = "REMOVED"}}
            = {x.device : x \in Known \ Mounted}
       /\ Len(change') = Cardinality((Mounted \ Known) \cup (Known \ Mounted))]_vars

\* Each mount known has one watch, and while it is mounted the watch leads to its
\* path and is alive, unless inotify refused it: neither does dbpd lose a watch
\* that was set nor do watches pile up.
WatchesMatch ==
  Tidy =>
    /\ Len(ientry) = Len(entry)
    /\ \A e \in Known : \E x \in ToSet(ientry) :
         /\ x.mount = e.mount /\ x.device = e.device
         /\ e \in Mounted => /\ handle[e.device] = x.handle
                             /\ x.handle = 0 => x.device \in unwatched

\* Nothing is left to be noticed, read or applied
Quiet == main = "wait" /\ events = << >> /\ ~dir_change /\ Known = Mounted

\* All packages that can be read on a mounted device are registered, but for
\* those whose last change was missed
AllRegistered ==
  \A f \in File \ missed :
    content[f] = "whole" /\ (\E m \in Mount : Shows(m, DeviceOf[f])) => IsRegistered(f)

\* Every registered package is where it was registered from
NoneStale ==
  \A r \in registered :
    /\ r.file \notin missed => content[r.file] # "absent"
    /\ r.device = DeviceOf[r.file]
    /\ Shows(r.mount, r.device)

\* When dbpd has dealt with all that happened, the registered packages are
\* those on the mounted devices, whatever the order in which mounts appeared,
\* files changed, watches were set, events were read and changes were applied.
InStep == Tidy /\ Quiet => AllRegistered /\ NoneStale
=============================================================================
