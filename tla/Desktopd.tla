------------------------------ MODULE Desktopd ------------------------------
(***************************************************************************)
(* dbp-desktopd copies the launchers that dbpd exports to the desktop of a *)
(* user.  It gets them in two ways: its signal thread handles dbpd's       *)
(* signals NewMeta and RemoveMeta, and its main thread copies, once, what  *)
(* the packages have when it starts.  Both write to the same directory     *)
(* without a lock, while dbpd goes on writing and removing the sources.    *)
(*                                                                         *)
(* dbpd is reduced to what can be seen of it from there: which packages    *)
(* are registered, the files in its launcher directory, and what it sends. *)
(* The D-Bus library is external: messages of one connection arrive in     *)
(* their order, and a signal is sent only to those who have subscribed.    *)
(***************************************************************************)
EXTENDS Integers, Sequences, FiniteSets

CONSTANTS
  Package,        \* package ids
  Launcher,       \* names of launchers
  OnDesktop,      \* packages in a desktop directory ("desk")
  Launchers,      \* the launchers each package has
  Matching,       \* the names that begin with "__dbp__" and each package's id
  Absent,         \* no such file
  MaxWrites,      \* bound on how often launchers are written
  MaxGeneration,  \* bound on the starts of dbpd
  MaxQueue        \* bound on the messages that wait for the signal thread

\* What the temporary file of thread t holds that an earlier session has left
Leftover(t) == [of |-> Absent, version |-> t]

ASSUME DesktopdAssumption ==
  /\ Absent \notin Launcher \cup {Leftover(0), Leftover(1)}
  /\ OnDesktop \subseteq Package
  /\ Launchers \in [Package -> SUBSET Launcher]
  /\ Matching \in [Package -> SUBSET Launcher]
  /\ \A p \in Package : Launchers[p] \subseteq Matching[p]
  /\ {MaxWrites, MaxGeneration, MaxQueue} \subseteq Nat \ {0}

VARIABLES
  running,     \* dbpd runs and has its name on the bus
  generation,  \* how often it has been started
  nuked,       \* daemon_nuke is done
  registered,  \* the packages in its registry
  op,          \* what is done under p->mutex
  announce,    \* whether that is announced
  todo,        \* launchers still to be written or removed
  written,     \* the launcher that is being written, or Absent
  writes,      \* how often launchers have been written
  dir,         \* the files in the launcher directory
  queue,       \* messages on their way to the signal thread
  subscription,\* the start of dbpd whose signals are subscribed to, 0 for none
  thread_file, \* the launcher that the signal thread copies, or Absent
  main,        \* where the main thread is
  list,        \* packages it has yet to list
  files,       \* what is left of the listing of one package
  main_file,   \* the launcher that it copies, or Absent
  temp,        \* the temporary file of each thread, main's first
  desktop,     \* the files on the desktop
  missed,      \* launchers that changed since desktopd was last sent a signal of them
  raced        \* launchers that changed while main was listing, and were not
               \* announced since

mutex == <<op, announce, todo, written>>
dbpd == <<running, generation, nuked, registered, mutex, writes, dir>>
bus == <<queue, subscription>>
main_thread == <<main, list, files, main_file>>
history == <<missed, raced>>
vars == <<dbpd, bus, thread_file, main_thread, temp, desktop, history>>

\* What a file holds.  A launcher of version 0 is not written completely.
Content == [of : Launcher, version : Nat] \cup {Leftover(0), Leftover(1)}
File == Content \cup {Absent}

Message ==
  [kind : {"Known"}, value : 1..MaxGeneration] \cup [kind : {"Vanished"}, value : {0}]
    \cup [kind : {"NewMeta", "RemoveMeta"}, value : Launcher]

DbpdTypeOK ==
  /\ running \in BOOLEAN /\ nuked \in BOOLEAN /\ announce \in BOOLEAN
  /\ generation \in 0..MaxGeneration
  /\ registered \subseteq Package
  /\ op \in {"idle", "register", "release"}
  /\ todo \subseteq Launcher /\ written \in Launcher \cup {Absent}
  /\ writes \in Nat
  /\ dir \in [Launcher -> File]

MirrorTypeOK ==
  /\ queue \in Seq(Message) /\ Len(queue) <= MaxQueue
  /\ subscription \in 0..MaxGeneration
  /\ thread_file \in Launcher \cup {Absent}
  /\ main \in {"start", "connect", "list", "copy", "join", "ended"}
  /\ list \subseteq Package /\ files \subseteq Launcher
  /\ main_file \in Launcher \cup {Absent}
  /\ temp \in [0..1 -> File] /\ desktop \in [Launcher -> File]
  /\ missed \subseteq Launcher /\ raced \subseteq Launcher

\* The temporary file of thread t, which copies a file or none
TempOf(t, file) == temp[t] \in {Absent, Leftover(t)} \/ (file # Absent /\ temp[t].of = file)

\* Types, and that a temporary file of this session is there only while its thread
\* copies, and is of the launcher that the thread copies
TypeOK ==
  /\ DbpdTypeOK
  /\ MirrorTypeOK
  /\ TempOf(0, main_file)
  /\ TempOf(1, thread_file)

\* The last session may have left launchers on the desktop, and temporary files, if it
\* was ended while it copied.
Init ==
  /\ running = FALSE /\ generation = 0 /\ nuked = FALSE
  /\ registered = {}
  /\ op = "idle" /\ announce = FALSE /\ todo = {} /\ written = Absent
  /\ writes = 0
  /\ dir = [n \in Launcher |-> Absent]
  /\ queue = << >> /\ subscription = 0 /\ thread_file = Absent
  /\ main = "start" /\ list = {} /\ files = {} /\ main_file = Absent
  /\ \E left \in SUBSET (0..1) :
       temp = [t \in 0..1 |-> IF t \in left THEN Leftover(t) ELSE Absent]
  /\ desktop = [n \in Launcher |-> [of |-> n, version |-> 0]]
  /\ missed = {} /\ raced = {}

-----------------------------------------------------------------------------
(* The bus                                                                 *)

Room == Len(queue) < MaxQueue

Listening == main # "start"

\* The owner of dbpd's name changes
NameEvent(kind, value) ==
  IF Listening THEN Room /\ queue' = Append(queue, [kind |-> kind, value |-> value])
  ELSE UNCHANGED queue

Heard == Listening /\ running /\ subscription = generation

\* Defect: removals are not announced
Emit_new(kind, n) ==
  IF kind = "NewMeta" /\ announce /\ Heard
  THEN Room /\ queue' = Append(queue, [kind |-> kind, value |-> n])
  ELSE UNCHANGED queue

\* comm_dbus_announce
Emit(kind, n) ==
  IF announce /\ Heard
  THEN Room /\ queue' = Append(queue, [kind |-> kind, value |-> n])
  ELSE UNCHANGED queue

\* A launcher changes, and the change is announced or not
Changed(n, announced) ==
  /\ missed' = IF announced /\ announce /\ Heard THEN missed \ {n} ELSE missed \cup {n}
  /\ raced' = IF main = "copy" THEN raced \cup {n}
              ELSE IF announced /\ announce /\ Heard THEN raced \ {n} ELSE raced

-----------------------------------------------------------------------------
(* dbpd                                                                    *)

Unlocked == op = "idle"

\* The mutex is held until the last file is dealt with.  What is requested before
\* daemon_nuke is left to module Registry.
Lock(kind, p, names) ==
  /\ running /\ nuked /\ Unlocked
  /\ op' = IF names = {} THEN "idle" ELSE kind
  /\ announce' = (names # {} /\ p \in OnDesktop)
  /\ todo' = names
  /\ UNCHANGED <<running, generation, nuked, written, writes, dir>>
  /\ UNCHANGED <<bus, thread_file, main_thread, temp, desktop, history>>

Unlock_if(done) ==
  /\ op' = IF done THEN "idle" ELSE op
  /\ announce' = (~done /\ announce)

\* package_register: the launchers are written one after the other
register(p) ==
  /\ p \notin registered
  /\ writes + Cardinality(Launchers[p]) <= MaxWrites
  /\ registered' = registered \cup {p}
  /\ Lock("register", p, Launchers[p])

\* package_desktop_write opens the file, which truncates it
write_begin(n) ==
  /\ op = "register" /\ written = Absent
  /\ n \in todo
  /\ todo' = todo \ {n} /\ written' = n
  /\ dir' = [dir EXCEPT ![n] = [of |-> n, version |-> 0]]
  /\ Changed(n, FALSE)
  /\ UNCHANGED <<running, generation, nuked, registered, op, announce, writes>>
  /\ UNCHANGED <<bus, thread_file, main_thread, temp, desktop>>

\* Its rest: the file is complete, and announced
write_end ==
  /\ written # Absent
  /\ writes' = writes + 1
  /\ dir' = [dir EXCEPT ![written] = [of |-> written, version |-> writes']]
  /\ written' = Absent
  /\ Emit("NewMeta", written)
  /\ Changed(written, TRUE)
  /\ Unlock_if(todo = {})
  /\ UNCHANGED <<running, generation, nuked, registered, todo>>
  /\ UNCHANGED <<subscription, thread_file, main_thread, temp, desktop>>

\* package_kill: package_kill_prefix goes through the directory
release(p) ==
  /\ p \in registered
  /\ registered' = registered \ {p}
  /\ Lock("release", p, {n \in Matching[p] : dir[n] # Absent})

remove(n) ==
  /\ op = "release"
  /\ n \in todo
  /\ todo' = todo \ {n}
  /\ dir' = [dir EXCEPT ![n] = Absent]
  /\ Emit("RemoveMeta", n)
  /\ Changed(n, TRUE)
  /\ Unlock_if(todo' = {})
  /\ UNCHANGED <<running, generation, nuked, registered, written, writes>>
  /\ UNCHANGED <<subscription, thread_file, main_thread, temp, desktop>>

\* dbpd is stopped, wherever it is.  Its files stay.
die ==
  /\ running
  /\ running' = FALSE
  /\ registered' = {} /\ op' = "idle" /\ announce' = FALSE /\ todo' = {} /\ written' = Absent
  /\ NameEvent("Vanished", 0)
  /\ UNCHANGED <<generation, nuked, writes, dir>>
  /\ UNCHANGED <<subscription, thread_file, main_thread, temp, desktop, history>>

\* comm_dbus_register comes before daemon_nuke
start ==
  /\ ~running
  /\ generation < MaxGeneration
  /\ running' = TRUE /\ generation' = generation + 1 /\ nuked' = FALSE
  /\ NameEvent("Known", generation')
  /\ UNCHANGED <<registered, mutex, writes, dir>>
  /\ UNCHANGED <<subscription, thread_file, main_thread, temp, desktop, history>>

\* Every file goes, and nothing is announced
daemon_nuke ==
  /\ running /\ ~nuked
  /\ nuked' = TRUE
  /\ dir' = [n \in Launcher |-> Absent]
  /\ LET gone == {n \in Launcher : dir[n] # Absent}
     IN /\ missed' = missed \cup gone
        /\ raced' = IF main = "copy" THEN raced \cup gone ELSE raced
  /\ UNCHANGED <<running, generation, registered, mutex, writes>>
  /\ UNCHANGED <<bus, thread_file, main_thread, temp, desktop>>

-----------------------------------------------------------------------------
(* copy_file                                                               *)

\* Defect: one temporary file for both threads
one_temp(t) == 0

own_temp(t) == t

\* The source is copied to a temporary file, if it is there,
copy_begin(t, n) ==
  temp' = IF dir[n] = Absent THEN temp ELSE [temp EXCEPT ![own_temp(t)] = dir[n]]

\* Defect: the temporary file stays
copy_end_linked(t, n) ==
  /\ desktop' = IF temp[own_temp(t)] = Absent THEN desktop ELSE [desktop EXCEPT ![n] = temp[own_temp(t)]]
  /\ UNCHANGED temp

\* which gets the name of the launcher, also when it is there from an earlier session
\* and the source is not: nuke_desktop removes no temporary file.
copy_end(t, n) ==
  LET f == temp[own_temp(t)]
  IN IF f = Absent THEN UNCHANGED <<temp, desktop>>
     ELSE /\ desktop' = [desktop EXCEPT ![n] = f]
          /\ temp' = [temp EXCEPT ![own_temp(t)] = Absent]

-----------------------------------------------------------------------------
(* The signal thread                                                       *)

Next_message(kind) == thread_file = Absent /\ queue # << >> /\ Head(queue).kind = kind

name_known ==
  /\ Next_message("Known")
  /\ subscription' = Head(queue).value
  /\ queue' = Tail(queue)
  /\ UNCHANGED <<dbpd, thread_file, main_thread, temp, desktop, history>>

name_vanished ==
  /\ Next_message("Vanished")
  /\ subscription' = 0
  /\ queue' = Tail(queue)
  /\ UNCHANGED <<dbpd, thread_file, main_thread, temp, desktop, history>>

add_meta_begin ==
  /\ Next_message("NewMeta")
  /\ thread_file' = Head(queue).value
  /\ queue' = Tail(queue)
  /\ copy_begin(1, Head(queue).value)
  /\ UNCHANGED <<dbpd, subscription, main_thread, desktop, history>>

add_meta_end ==
  /\ thread_file # Absent
  /\ thread_file' = Absent
  /\ copy_end(1, thread_file)
  /\ UNCHANGED <<dbpd, bus, main_thread, history>>

remove_meta ==
  /\ Next_message("RemoveMeta")
  /\ queue' = Tail(queue)
  /\ desktop' = [desktop EXCEPT ![Head(queue).value] = Absent]
  /\ UNCHANGED <<dbpd, subscription, thread_file, main_thread, temp, history>>

-----------------------------------------------------------------------------
(* The main thread                                                         *)

\* nuke_desktop, and then dbpmgr_server_signal_listen, which is told at once
\* whether dbpd runs
nuke_desktop ==
  /\ main = "start"
  /\ main' = "connect"
  /\ desktop' = [n \in Launcher |-> Absent]
  /\ queue' = <<IF running THEN [kind |-> "Known", value |-> generation]
                ELSE [kind |-> "Vanished", value |-> 0]>>
  /\ UNCHANGED <<dbpd, subscription, thread_file, list, files, main_file, temp, history>>

\* dbpd must answer a ping, or dbp-desktopd ends
dbpmgr_server_connect ==
  /\ main = "connect"
  /\ main' = IF running THEN "list" ELSE "ended"
  /\ UNCHANGED <<dbpd, bus, thread_file, temp, list, files, main_file, desktop, history>>

LeftToDo(n) == thread_file = n \/ \E i \in 1..Len(queue) : queue[i].value = n

\* Defect: the last package of the list is left out
PackageList_short == IF registered = {} THEN {} ELSE registered \ {CHOOSE p \in registered : TRUE}

PackageList == registered

\* The list is made under the mutex.  What it shows of the launchers that changed
\* unannounced before is not missed, unless the thread is yet to do what an earlier
\* signal of it said.  Without an answer, because dbpd has gone or held the mutex for too
\* long, the list is empty.
dbpmgr_server_package_list ==
  /\ main = "list"
  /\ main' = "copy"
  /\ \/ /\ running /\ Unlocked
        /\ list' = PackageList \cap OnDesktop
        /\ missed' = {n \in missed : dir[n] = Absent \/ LeftToDo(n)}
     \/ /\ ~running \/ ~Unlocked
        /\ list' = {}
        /\ missed' = missed \cup {n \in Launcher : dir[n] # Absent}
  /\ UNCHANGED <<dbpd, bus, thread_file, files, main_file, temp, desktop, raced>>

\* The files of one package, as the directory has them now
add_package_meta(p) ==
  /\ main = "copy" /\ files = {} /\ main_file = Absent
  /\ p \in list
  /\ list' = list \ {p}
  /\ files' = {n \in Matching[p] : dir[n] # Absent}
  /\ UNCHANGED <<dbpd, bus, thread_file, main, main_file, temp, desktop, history>>

main_copy_begin(n) ==
  /\ main = "copy" /\ main_file = Absent
  /\ n \in files
  /\ files' = files \ {n} /\ main_file' = n
  /\ copy_begin(0, n)
  /\ UNCHANGED <<dbpd, bus, thread_file, main, list, desktop, history>>

main_copy_end ==
  /\ main_file # Absent
  /\ main_file' = Absent
  /\ copy_end(0, main_file)
  /\ UNCHANGED <<dbpd, bus, thread_file, main, list, files, history>>

pthread_join ==
  /\ main = "copy" /\ list = {} /\ files = {} /\ main_file = Absent
  /\ main' = "join"
  /\ UNCHANGED <<dbpd, bus, thread_file, list, files, main_file, temp, desktop, history>>

-----------------------------------------------------------------------------

Works ==
  \/ \E n \in Launcher : write_begin(n) \/ remove(n)
  \/ write_end
  \/ daemon_nuke

Mirrors == name_known \/ name_vanished \/ add_meta_begin \/ add_meta_end \/ remove_meta

Main ==
  \/ nuke_desktop \/ dbpmgr_server_connect \/ dbpmgr_server_package_list
  \/ \E p \in Package : add_package_meta(p)
  \/ \E n \in Launcher : main_copy_begin(n)
  \/ main_copy_end \/ pthread_join

\* When dbp-desktopd has ended there is nothing more to see.
Next ==
  /\ main # "ended"
  /\ \/ \E p \in Package : register(p) \/ release(p)
     \/ die \/ start
     \/ Works \/ Mirrors \/ Main

\* Every thread goes on; packages need not come or go, nor dbpd.
Spec ==
  /\ Init /\ [][Next]_vars
  /\ WF_vars(main # "ended" /\ Works) /\ WF_vars(main # "ended" /\ Mirrors) /\ WF_vars(Main)

-----------------------------------------------------------------------------
(* Properties                                                              *)

\* The launchers that belong on the desktop
Shown == UNION {Launchers[p] : p \in OnDesktop}

\* No step is under way, and dbpd is there
Settled ==
  /\ running /\ nuked /\ Unlocked
  /\ main = "join" /\ queue = << >> /\ thread_file = Absent
  /\ subscription = generation

\* A launcher on the desktop holds the contents of the launcher of that name,
\* although two threads copy at the same time (desktopd.c 59-76), or a whole earlier
\* session left in a temporary file.  Each thread passes such a file on only once.
OwnContent ==
  main # "start" =>
    /\ \A n \in Launcher : desktop[n] # Absent => desktop[n].of \in {n, Absent}
    /\ \A t \in 0..1 : \A n \in Launcher : desktop[n] = Leftover(t) =>
         temp[t] # Leftover(t) /\ \A m \in Launcher \ {n} : desktop[m] # Leftover(t)

\* When all is done every launcher is on the desktop that dbpd has and whose last
\* signal was sent to desktopd, whether it came before, while or after main made
\* its list (desktopd.c 134-154).  It may be an older copy if it changed meanwhile.
NothingMissing ==
  Settled => \A n \in Shown \ missed : dir[n] # Absent => desktop[n] # Absent

\* The desktop comes to show what dbpd has: the same versions, and nothing that
\* is gone, apart from launchers that changed while main was listing, or whose
\* signal was not sent to desktopd.
Converges ==
  <>[](main # "ended" /\ running =>
         \A n \in Shown \ (missed \cup raced) : desktop[n] = dir[n])
=============================================================================
