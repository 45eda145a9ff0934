----------------------------- MODULE Registry -----------------------------
(***************************************************************************)
(* dbpd/package.c, the registered packages and the files they export, and  *)
(* the start of dbpd/daemon.c that clears those files.                     *)
(*                                                                         *)
(* A package file that is registered gets an entry in p->entry, its        *)
(* launchers are written to the desktop directory under the name           *)
(* "__dbp__<id>_<file name>", and a script for each of its executables to  *)
(* the directory of executables.  A release undoes this.  The main thread  *)
(* crawls and releases whole mounts, and both it and the D-Bus thread      *)
(* register and release single files, all under p->mutex.  A crawl and the *)
(* release of a mount take one action per package; the mutex is held until *)
(* no package is left to them.                                             *)
(*                                                                         *)
(* Ids and file names are sequences of the words between their             *)
(* underscores, because package_meta_remove tells launchers apart by that. *)
(* Icons are treated like launchers and left out.                          *)
(*                                                                         *)
(* Most system calls on these directories are not checked: a launcher or a *)
(* script that cannot be written is skipped, a directory that cannot be    *)
(* opened is taken for empty.  cut, spoiled and kept say what has suffered *)
(* from that; only the properties use them.  MaxFaults bounds how often it *)
(* happens.                                                                *)
(***************************************************************************)
EXTENDS Naturals, Sequences

CONSTANTS
  File,            \* package files, told apart by their paths
  Device,          \* devices that packages are on
  Executable,      \* names of executables
  Word,            \* words of ids and file names
  Id,              \* the id in each file's meta-data
  DeviceOf,        \* the device each file is on
  Launchers,       \* the .desktop file names in each file
  Executables,     \* for each file, the executables each launcher names
  LegalId,         \* ids that package_id_validate accepts
  EarlyRequests,   \* TRUE: programs call dbpd before daemon_nuke is over
  MaxFaults        \* bound on the operations in which a system call fails

ASSUME RegistryAssumption ==
  /\ Id \in [File -> Seq(Word)]
  /\ DeviceOf \in [File -> Device]
  /\ Launchers \in [File -> SUBSET Seq(Word)]
  /\ \A f \in File : << >> \notin Launchers[f]
  /\ \A f \in File : Executables[f] \in [Launchers[f] -> SUBSET Executable]
  /\ EarlyRequests \in BOOLEAN
  /\ MaxFaults \in Nat

VARIABLES
  started,   \* daemon_nuke is over
  present,   \* package files that exist and can be read
  entry,     \* p->entry: for each registered file the scripts in its exec list
  launcher,  \* the desktop directory: for each file in it the package it is from
  script,    \* the directory of executables: for each script the id it runs
  crawling,  \* files a crawl has yet to register
  doomed,    \* files the release of a mount has yet to release
  cut,       \* registered files whose launchers could not all be written
  spoiled,   \* executables in an exec list that could not be given a script
  kept,      \* launchers that a release could not remove
  faults     \* operations in which a system call failed

suffered == <<cut, spoiled, kept, faults>>
vars == <<started, present, entry, launcher, script, crawling, doomed, suffered>>

Registered == DOMAIN entry

TypeOK ==
  /\ started \in BOOLEAN
  /\ present \subseteq File
  /\ Registered \subseteq File
  /\ \A f \in Registered : entry[f] \subseteq Executable
  /\ DOMAIN launcher \subseteq Seq(Word)
  /\ \A n \in DOMAIN launcher : launcher[n] \in File
  /\ DOMAIN script \subseteq Executable
  /\ \A x \in DOMAIN script : script[x] \in Seq(Word)
  /\ crawling \subseteq File
  /\ doomed \subseteq Registered
  /\ cut \subseteq Registered
  /\ spoiled \subseteq Executable
  /\ kept \subseteq DOMAIN launcher
  /\ faults \in 0..MaxFaults

Empty == [x \in {} |-> {}]

Init ==
  /\ started = FALSE
  /\ present \in SUBSET File
  /\ entry = Empty
  /\ launcher = Empty
  /\ script = Empty
  /\ crawling = {}
  /\ doomed = {}
  /\ cut = {} /\ spoiled = {} /\ kept = {} /\ faults = 0

MutexFree == crawling = {} /\ doomed = {}

\* A system call fails in this step, or none does.
Fault(fails) ==
  \/ ~fails /\ UNCHANGED faults
  \/ fails /\ faults < MaxFaults /\ faults' = faults + 1

\* "<id>_<file name>" for some launchers of f, or for all of them
NamesOf(f, launchers) == {Id[f] \o n : n \in launchers}

LauncherNames(f) == NamesOf(f, Launchers[f])

\* Does the name begin with "<id>_"?
HasPrefix(name, id) == Len(id) < Len(name) /\ SubSeq(name, 1, Len(id)) = id

-----------------------------------------------------------------------------
(* Registering                                                             *)

\* Defect: a package that is registered already is registered again
AcceptsAgain(f) == \A g \in Registered : Id[f] \in LegalId

\* package_add checks the id against the rules inside its loop over the
\* entries there are.
package_add_accepts(f) ==
  \A g \in Registered : Id[f] \in LegalId /\ Id[g] # Id[f]

\* Defect: a script is overwritten where there is one already
ExportAll(f, opened) == UNION {Executables[f][n] : n \in opened}

\* package_meta_exec_export, for the launchers that could be opened: an executable is
\* left out if its script exists.
package_meta_exec_export(f, opened) ==
  (UNION {Executables[f][n] : n \in opened}) \ DOMAIN script

\* package_meta_extract opens the file once more, package_desktop_write skips a launcher
\* that it cannot open or leaves one unfinished, and package_emit_exec returns without
\* a script if it cannot open the template or the script.  None of this is noticed: the
\* package is registered, with the name of every executable it came to.
package_register(f) ==
  IF f \in present /\ package_add_accepts(f)
  THEN \E opened \in SUBSET Launchers[f] :
       LET names == NamesOf(f, opened)
           exec == package_meta_exec_export(f, opened)
       IN \E emitted \in SUBSET exec, whole \in BOOLEAN :
          /\ Fault(opened # Launchers[f] \/ ~whole \/ emitted # exec)
          /\ entry' = [g \in Registered \cup {f} |-> IF g = f THEN exec ELSE entry[g]]
          /\ launcher' = [n \in DOMAIN launcher \cup names |->
                            IF n \in names THEN f ELSE launcher[n]]
          /\ script' = [x \in DOMAIN script \cup emitted |->
                            IF x \in emitted THEN Id[f] ELSE script[x]]
          /\ cut' = IF whole /\ opened = Launchers[f] THEN cut ELSE cut \cup {f}
          /\ spoiled' = spoiled \cup (exec \ emitted)
          /\ kept' = kept \ names
  ELSE UNCHANGED <<entry, launcher, script, suffered>>

\* The D-Bus thread runs before the main thread gets to daemon_nuke
DBusMayCall == started \/ EarlyRequests

\* A request over D-Bus or a file that appeared in a watched directory
package_register_path(f) ==
  /\ DBusMayCall
  /\ MutexFree
  /\ package_register(f)
  /\ UNCHANGED <<started, present, crawling, doomed>>

\* A mount that appeared: its search directories are read, in any order.  One that
\* cannot be opened is left out.
package_crawl_mount(d) ==
  /\ started
  /\ MutexFree
  /\ LET found == {f \in present : DeviceOf[f] = d}
     IN crawling' \in SUBSET found /\ Fault(crawling' # found)
  /\ UNCHANGED <<started, present, entry, launcher, script, doomed, cut, spoiled, kept>>

CrawlNext(f) ==
  /\ f \in crawling
  /\ package_register(f)
  /\ crawling' = crawling \ {f}
  /\ UNCHANGED <<started, present, doomed>>

-----------------------------------------------------------------------------
(* Releasing                                                               *)

\* Defect: only the launchers found in the package file, which may be gone
RemovePresent(f) == IF f \in present THEN LauncherNames(f) ELSE {}

\* package_meta_remove: every launcher whose name begins with the id
package_meta_remove(f) == {n \in DOMAIN launcher : HasPrefix(n, Id[f])}

\* package_kill_prefix removes nothing if it cannot open the directory.
package_kill(f) ==
  /\ \E removed \in {package_meta_remove(f), {}} :
       /\ Fault(removed # package_meta_remove(f))
       /\ launcher' = [n \in DOMAIN launcher \ removed |-> launcher[n]]
       /\ kept' = (kept \cup package_meta_remove(f)) \ removed
  /\ script' = [x \in DOMAIN script \ entry[f] |-> script[x]]
  /\ entry' = [g \in Registered \ {f} |-> entry[g]]
  /\ cut' = cut \ {f}
  /\ spoiled' = {x \in spoiled : \E g \in Registered \ {f} : x \in entry[g]}

\* Also DBP_ERROR_NOTFOUND, when no entry has the path
package_release_path(f) ==
  /\ DBusMayCall
  /\ MutexFree
  /\ IF f \in Registered THEN package_kill(f) ELSE UNCHANGED <<launcher, script, entry, suffered>>
  /\ UNCHANGED <<started, present, crawling, doomed>>

\* Defect: every package file of the device is released
ReleaseAll(d) ==
  /\ started
  /\ MutexFree
  /\ doomed' = {f \in File : DeviceOf[f] = d}
  /\ UNCHANGED <<started, present, entry, launcher, script, crawling, suffered>>

package_release_mount(d) ==
  /\ started
  /\ MutexFree
  /\ doomed' = {f \in Registered : DeviceOf[f] = d}
  /\ UNCHANGED <<started, present, entry, launcher, script, crawling, suffered>>

ReleaseNext(f) ==
  /\ f \in doomed
  /\ package_kill(f)
  /\ doomed' = doomed \ {f}
  /\ UNCHANGED <<started, present, crawling>>

-----------------------------------------------------------------------------
(* The daemon and its surroundings                                         *)

\* daemon_init: the exported files of an earlier daemon are deleted
daemon_nuke ==
  /\ ~started
  /\ started' = TRUE
  /\ launcher' = Empty
  /\ script' = Empty
  /\ kept' = {}
  /\ UNCHANGED <<present, entry, crawling, doomed, cut, spoiled, faults>>

\* dbpd ends, however, and is started again: what it exported stays
Restart ==
  /\ started' = FALSE
  /\ entry' = Empty
  /\ crawling' = {}
  /\ doomed' = {}
  /\ cut' = {} /\ spoiled' = {}
  /\ UNCHANGED <<present, launcher, script, kept, faults>>

\* A file is created, deleted or becomes unreadable, during a crawl too
FileChange(f) ==
  /\ present' = IF f \in present THEN present \ {f} ELSE present \cup {f}
  /\ UNCHANGED <<started, entry, launcher, script, crawling, doomed, suffered>>

Next ==
  \/ \E f \in File : package_register_path(f)
  \/ \E d \in Device : package_crawl_mount(d)
  \/ \E f \in File : CrawlNext(f)
  \/ \E f \in File : package_release_path(f)
  \/ \E d \in Device : package_release_mount(d)
  \/ \E f \in File : ReleaseNext(f)
  \/ daemon_nuke
  \/ Restart
  \/ \E f \in File : FileChange(f)

Spec == Init /\ [][Next]_vars

-----------------------------------------------------------------------------
(* Properties                                                              *)

\* No launcher outlives its package: once the leftovers of an earlier daemon
\* are gone, every file in the desktop directory was written for a package
\* that is registered now, whatever other packages overwrote or removed, or was left
\* by a release that could not open the directory (package.c 440).
NoStaleLauncher ==
  started => \A n \in DOMAIN launcher \ kept : launcher[n] \in Registered

\* Every script has a package to answer for it, whose release deletes it and whose id
\* it runs, however executables of several packages collide.  If no script of that
\* name ever failed to be written (package.c 185-194) it has only one, and no package
\* lists a script that is gone.
ScriptsOwned ==
  started /\ ~EarlyRequests =>
    /\ \A x \in DOMAIN script : \E f \in Registered : x \in entry[f] /\ script[x] = Id[f]
    /\ \A f \in Registered : entry[f] \ spoiled \subseteq DOMAIN script
    /\ \A f, g \in Registered : f # g => entry[f] \cap entry[g] \subseteq spoiled

Related(i, j) == HasPrefix(i, j) \/ HasPrefix(j, i)

\* A registered package whose id no other id extends, and whose launchers could be
\* written, has them all, with its own content, whatever happens to others.
LaunchersComplete ==
  started /\ ~EarlyRequests =>
    \A f \in Registered \ cut :
      (\A g \in File : ~Related(Id[f], Id[g])) =>
        \A n \in LauncherNames(f) : n \in DOMAIN launcher /\ launcher[n] = f

\* Every registered package has its launchers exported (dbp-cmd/dbp-cmd.c:32), even
\* if that is asked only where all of them could be written.
RegisteredIsExported ==
  started => \A f \in Registered \ cut : LauncherNames(f) \subseteq DOMAIN launcher
=============================================================================
