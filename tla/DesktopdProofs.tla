--------------------------- MODULE DesktopdProofs ---------------------------
(***************************************************************************)
(* For every set of packages and launchers: two threads that copy to the   *)
(* desktop at the same time, while dbpd writes and removes what they copy, *)
(* never leave one launcher with the contents of another.                  *)
(***************************************************************************)
EXTENDS Desktopd, SequenceTheorems, TLAPS

\* What dbpd writes under a name is the launcher of that name, completely or not.
SourcesOwn == \A n \in Launcher : dir[n] # Absent => dir[n].of = n

\* Nothing reaches the mirror before it listens.
Quiet == main = "start" => queue = << >> /\ thread_file = Absent /\ main_file = Absent

\* Each start of dbpd has a number from 1 on.
Numbered == running => generation # 0

IInv == TypeOK /\ SourcesOwn /\ OwnContent /\ Quiet /\ Numbered

\* The initial state satisfies it, with what an earlier session left on the desktop.
LEMMA InitIInv ==
  ASSUME DesktopdAssumption, Init
  PROVE  IInv
  <1> USE DEF Init, DesktopdAssumption
  <1>1. MaxGeneration \in Nat /\ MaxQueue \in Nat
    OBVIOUS
  <1>2. DbpdTypeOK
    <2>1. running \in BOOLEAN /\ nuked \in BOOLEAN /\ announce \in BOOLEAN
      BY Zenon
    <2>2. dir \in [Launcher -> File]
      BY DEF File
    <2> QED
      BY <1>1, <2>1, <2>2 DEF DbpdTypeOK
  <1>3. queue \in Seq(Message) /\ Len(queue) = 0
    BY EmptySeq
  <1>4. desktop \in [Launcher -> File] /\ temp \in [0..1 -> File]
        /\ TempOf(0, main_file) /\ TempOf(1, thread_file)
    <2>1. PICK left \in SUBSET (0..1) :
            temp = [t \in 0..1 |-> IF t \in left THEN Leftover(t) ELSE Absent]
      OBVIOUS
    <2>2. \A t \in 0..1 : Leftover(t) \in File
      BY DEF File, Content
    <2>3. temp \in [0..1 -> File] /\ \A t \in 0..1 : temp[t] \in {Absent, Leftover(t)}
      BY <2>1, <2>2 DEF File
    <2>4. desktop \in [Launcher -> File]
      BY DEF File, Content
    <2> QED
      BY <2>3, <2>4 DEF TempOf
  <1>5. MirrorTypeOK
    BY <1>1, <1>3, <1>4 DEF MirrorTypeOK
  <1> QED
    BY <1>2, <1>4, <1>5 DEF IInv, TypeOK, SourcesOwn, OwnContent, Quiet, Numbered

-----------------------------------------------------------------------------
(* Messages                                                                *)

\* A signal is sent while there is room for it.
LEMMA EmitQueue ==
  ASSUME DesktopdAssumption, MirrorTypeOK,
         NEW kind \in {"NewMeta", "RemoveMeta"}, NEW n \in Launcher, Emit(kind, n)
  PROVE  /\ queue' \in Seq(Message) /\ Len(queue') <= MaxQueue
         /\ main = "start" => UNCHANGED queue
  <1> DEFINE m == [kind |-> kind, value |-> n]
  <1>1. m \in Message
    BY DEF Message
  <1>2. /\ queue \in Seq(Message) /\ Len(queue) \in Nat /\ Len(queue) <= MaxQueue
        /\ MaxQueue \in Nat
    BY LenProperties DEF MirrorTypeOK, DesktopdAssumption
  <1>3. UNCHANGED queue \/ (Len(queue) < MaxQueue /\ queue' = Append(queue, m))
    BY DEF Emit, Room
  <1> HIDE DEF m
  <1>4. Append(queue, m) \in Seq(Message) /\ Len(Append(queue, m)) = Len(queue) + 1
    BY <1>1, <1>2, AppendProperties
  <1> QED
    BY <1>2, <1>3, <1>4 DEF Emit, NameEvent, Heard, Listening

\* So is the news of dbpd's name.
LEMMA NameEventQueue ==
  ASSUME DesktopdAssumption, MirrorTypeOK, NEW kind, NEW v, NameEvent(kind, v),
         [kind |-> kind, value |-> v] \in Message
  PROVE  /\ queue' \in Seq(Message) /\ Len(queue') <= MaxQueue
         /\ main = "start" => UNCHANGED queue
  <1> DEFINE m == [kind |-> kind, value |-> v]
  <1>1. m \in Message
    OBVIOUS
  <1>2. /\ queue \in Seq(Message) /\ Len(queue) \in Nat /\ Len(queue) <= MaxQueue
        /\ MaxQueue \in Nat
    BY LenProperties DEF MirrorTypeOK, DesktopdAssumption
  <1>3. UNCHANGED queue \/ (Len(queue) < MaxQueue /\ queue' = Append(queue, m))
    BY DEF NameEvent, Room
  <1> HIDE DEF m
  <1>4. Append(queue, m) \in Seq(Message) /\ Len(Append(queue, m)) = Len(queue) + 1
    BY <1>1, <1>2, AppendProperties
  <1> QED
    BY <1>2, <1>3, <1>4 DEF Emit, NameEvent, Heard, Listening

\* What the signal thread takes from the queue has the type its kind demands.
LEMMA TakeMessage ==
  ASSUME DesktopdAssumption, MirrorTypeOK, NEW kind, Next_message(kind), queue' = Tail(queue)
  PROVE  /\ queue' \in Seq(Message) /\ Len(queue') <= MaxQueue
         /\ kind = "Known" => Head(queue).value \in 0..MaxGeneration
         /\ kind \in {"NewMeta", "RemoveMeta"} => Head(queue).value \in Launcher
  <1>1. queue \in Seq(Message) /\ queue # << >> /\ Head(queue).kind = kind
    BY DEF MirrorTypeOK, Next_message
  <1>2. Head(queue) \in Message /\ Tail(queue) \in Seq(Message) /\ Len(Tail(queue)) = Len(queue) - 1
    BY <1>1, HeadTailProperties
  <1>3. Len(queue) \in Nat /\ Len(queue) <= MaxQueue /\ MaxQueue \in Nat /\ MaxGeneration \in Nat
    BY <1>1, LenProperties DEF MirrorTypeOK, DesktopdAssumption
  <1>4. kind = "Known" => Head(queue).value \in 0..MaxGeneration
    BY <1>1, <1>2, <1>3 DEF Message
  <1>5. kind \in {"NewMeta", "RemoveMeta"} => Head(queue).value \in Launcher
    BY <1>1, <1>2 DEF Message
  <1> QED
    BY <1>2, <1>3, <1>4, <1>5

-----------------------------------------------------------------------------
(* dbpd                                                                    *)

\* What dbpd does leaves the mirror's own state as it is.
MirrorKept ==
  /\ UNCHANGED <<subscription, thread_file, main_thread, temp, desktop>>
  /\ queue' \in Seq(Message) /\ Len(queue') <= MaxQueue
  /\ main = "start" => UNCHANGED queue
  /\ missed' \subseteq Launcher /\ raced' \subseteq Launcher

\* With dbpd's types, and its files still its own, that is all there is to show.
LEMMA DbpdStep ==
  ASSUME IInv, MirrorKept, DbpdTypeOK', SourcesOwn', Numbered'
  PROVE  IInv'
  <1>1. MirrorTypeOK'
    BY DEF IInv, TypeOK, MirrorTypeOK, MirrorKept, main_thread
  <1> QED
    BY <1>1 DEF IInv, TypeOK, TempOf, OwnContent, Quiet, MirrorKept, main_thread

\* History stays within the launchers.
LEMMA ChangedHistory ==
  ASSUME MirrorTypeOK, NEW n \in Launcher, NEW announced \in BOOLEAN, Changed(n, announced)
  PROVE  missed' \subseteq Launcher /\ raced' \subseteq Launcher
  BY DEF MirrorTypeOK, Changed

\* The beginning of a request takes the mutex and changes no file.
LEMMA LockIInv ==
  ASSUME DesktopdAssumption, IInv, NEW kind \in {"register", "release"}, NEW p \in Package,
         NEW names \in SUBSET Launcher, Lock(kind, p, names), registered' \subseteq Package
  PROVE  IInv'
  <1> USE DEF IInv, TypeOK, Lock, bus, history
  <1>1. announce' \in BOOLEAN
    BY Zenon
  <1>2. running' \in BOOLEAN /\ nuked' \in BOOLEAN
    BY Zenon DEF DbpdTypeOK
  <1>3. DbpdTypeOK'
    BY <1>1, <1>2 DEF DbpdTypeOK
  <1>4. MirrorKept
    BY DEF MirrorKept, MirrorTypeOK
  <1>5. SourcesOwn' /\ Numbered'
    BY DEF SourcesOwn, Numbered
  <1> QED
    BY <1>3, <1>4, <1>5, DbpdStep

\* Each step of dbpd
LEMMA DbpdIInv ==
  ASSUME DesktopdAssumption, IInv,
         (\E p \in Package : register(p) \/ release(p)) \/ die \/ start \/ Works
  PROVE  IInv'
  <1> USE DEF IInv, TypeOK
  <1>1. ASSUME NEW p \in Package, register(p) PROVE IInv'
    <2>1. Launchers[p] \subseteq Launcher /\ registered' \subseteq Package
      BY <1>1 DEF register, DesktopdAssumption, DbpdTypeOK
    <2> QED
      BY <1>1, <2>1, LockIInv DEF register
  <1>2. ASSUME NEW p \in Package, release(p) PROVE IInv'
    <2>1. Matching[p] \subseteq Launcher /\ registered' \subseteq Package
      BY <1>2 DEF release, DesktopdAssumption, DbpdTypeOK
    <2>2. {n \in Matching[p] : dir[n] # Absent} \in SUBSET Launcher
      BY <2>1
    <2> QED
      BY <1>2, <2>1, <2>2, LockIInv DEF release
  <1>3. CASE die
    <2>1. MirrorKept
      <3>1. [kind |-> "Vanished", value |-> 0] \in Message
        BY DEF Message
      <3> QED
        BY <1>3, <3>1, NameEventQueue DEF die, MirrorKept, MirrorTypeOK, history
    <2>2. running' \in BOOLEAN /\ nuked' \in BOOLEAN /\ announce' \in BOOLEAN
      BY <1>3, Zenon DEF die, DbpdTypeOK
    <2>3. DbpdTypeOK'
      BY <1>3, <2>2 DEF die, DbpdTypeOK
    <2>4. SourcesOwn' /\ Numbered'
      BY <1>3 DEF die, SourcesOwn, Numbered
    <2> QED
      BY <2>1, <2>3, <2>4, DbpdStep
  <1>4. CASE start
    <2>1. generation' \in 1..MaxGeneration
      BY <1>4 DEF start, DbpdTypeOK, DesktopdAssumption
    <2>2. MirrorKept
      <3>1. [kind |-> "Known", value |-> generation'] \in Message
        BY <2>1 DEF Message
      <3> QED
        BY <1>4, <3>1, NameEventQueue DEF start, MirrorKept, MirrorTypeOK, history
    <2>3. running' \in BOOLEAN /\ nuked' \in BOOLEAN /\ announce' \in BOOLEAN
      BY <1>4, Zenon DEF start, DbpdTypeOK, mutex
    <2>4. DbpdTypeOK'
      BY <1>4, <2>1, <2>3 DEF start, DbpdTypeOK, mutex
    <2>5. SourcesOwn' /\ Numbered'
      BY <1>4 DEF start, SourcesOwn, Numbered, DbpdTypeOK
    <2> QED
      BY <2>2, <2>4, <2>5, DbpdStep
  <1>5. ASSUME NEW n \in Launcher, write_begin(n) PROVE IInv'
    <2>1. MirrorKept
      <3>1. missed' \subseteq Launcher /\ raced' \subseteq Launcher
        BY <1>5, ChangedHistory DEF write_begin
      <3> QED
        BY <1>5, <3>1 DEF write_begin, MirrorKept, MirrorTypeOK, bus
    <2>2. running' \in BOOLEAN /\ nuked' \in BOOLEAN /\ announce' \in BOOLEAN
      BY <1>5, Zenon DEF write_begin, DbpdTypeOK
    <2>3. DbpdTypeOK'
      BY <1>5, <2>2 DEF write_begin, DbpdTypeOK, File, Content
    <2>4. SourcesOwn' /\ Numbered'
      BY <1>5 DEF write_begin, SourcesOwn, Numbered, DbpdTypeOK
    <2> QED
      BY <2>1, <2>3, <2>4, DbpdStep
  <1>6. CASE write_end
    <2>1. written \in Launcher
      BY <1>6 DEF write_end, DbpdTypeOK
    <2>2. MirrorKept
      <3>1. missed' \subseteq Launcher /\ raced' \subseteq Launcher
        BY <1>6, <2>1, ChangedHistory DEF write_end
      <3>2. queue' \in Seq(Message) /\ Len(queue') <= MaxQueue /\ (main = "start" => UNCHANGED queue)
        BY <1>6, <2>1, EmitQueue DEF write_end
      <3> QED
        BY <1>6, <3>1, <3>2 DEF write_end, MirrorKept
    <2>3. running' \in BOOLEAN /\ nuked' \in BOOLEAN /\ announce' \in BOOLEAN
      BY <1>6, Zenon DEF write_end, Unlock_if, DbpdTypeOK
    <2>4. DbpdTypeOK'
      BY <1>6, <2>1, <2>3 DEF write_end, Unlock_if, DbpdTypeOK, File, Content
    <2>5. SourcesOwn' /\ Numbered'
      BY <1>6, <2>1 DEF write_end, SourcesOwn, Numbered, DbpdTypeOK
    <2> QED
      BY <2>2, <2>4, <2>5, DbpdStep
  <1>7. ASSUME NEW n \in Launcher, remove(n) PROVE IInv'
    <2>1. MirrorKept
      <3>1. missed' \subseteq Launcher /\ raced' \subseteq Launcher
        BY <1>7, ChangedHistory DEF remove
      <3>2. queue' \in Seq(Message) /\ Len(queue') <= MaxQueue /\ (main = "start" => UNCHANGED queue)
        BY <1>7, EmitQueue DEF remove
      <3> QED
        BY <1>7, <3>1, <3>2 DEF remove, MirrorKept
    <2>2. running' \in BOOLEAN /\ nuked' \in BOOLEAN /\ announce' \in BOOLEAN
      BY <1>7, Zenon DEF remove, Unlock_if, DbpdTypeOK
    <2>3. DbpdTypeOK'
      BY <1>7, <2>2 DEF remove, Unlock_if, DbpdTypeOK, File
    <2>4. SourcesOwn' /\ Numbered'
      BY <1>7 DEF remove, SourcesOwn, Numbered, DbpdTypeOK
    <2> QED
      BY <2>1, <2>3, <2>4, DbpdStep
  <1>8. CASE daemon_nuke
    <2>1. MirrorKept
      BY <1>8 DEF daemon_nuke, MirrorKept, MirrorTypeOK, bus
    <2>2. running' \in BOOLEAN /\ nuked' \in BOOLEAN /\ announce' \in BOOLEAN
      BY <1>8, Zenon DEF daemon_nuke, DbpdTypeOK, mutex
    <2>3. DbpdTypeOK'
      BY <1>8, <2>2 DEF daemon_nuke, DbpdTypeOK, File, mutex
    <2>4. SourcesOwn' /\ Numbered'
      BY <1>8 DEF daemon_nuke, SourcesOwn, Numbered
    <2> QED
      BY <2>1, <2>3, <2>4, DbpdStep
  <1> QED
    BY <1>1, <1>2, <1>3, <1>4, <1>5, <1>6, <1>7, <1>8 DEF Works

-----------------------------------------------------------------------------
(* The mirror                                                              *)

\* No step of the mirror changes dbpd's state.
LEMMA DbpdKept ==
  ASSUME IInv, UNCHANGED dbpd
  PROVE  DbpdTypeOK' /\ SourcesOwn' /\ Numbered'
  <1> USE DEF IInv, TypeOK, dbpd, mutex
  <1>1. running' \in BOOLEAN /\ nuked' \in BOOLEAN /\ announce' \in BOOLEAN
    BY Zenon DEF DbpdTypeOK
  <1> QED
    BY <1>1 DEF DbpdTypeOK, SourcesOwn, Numbered

\* A leftover is the file of its thread alone, and of no launcher.
LEMMA LeftoverIs ==
  ASSUME DesktopdAssumption
  PROVE  /\ Leftover(0) # Leftover(1)
         /\ \A t \in 0..1 : Leftover(t) # Absent /\ Leftover(t).of = Absent
  <1>1. Leftover(0).version = 0 /\ Leftover(1).version = 1
    BY DEF Leftover
  <1> QED
    BY <1>1 DEF Leftover, DesktopdAssumption

\* A thread copies what has the name of the launcher it copies, or what an earlier
\* session left it.
LEMMA CopyBegin ==
  ASSUME DesktopdAssumption, IInv, NEW t \in 0..1, NEW n \in Launcher, copy_begin(t, n),
         temp[t] \in {Absent, Leftover(t)}
  PROVE  /\ temp' \in [0..1 -> File]
         /\ TempOf(t, n)'
         /\ \A u \in 0..1 : u # t => temp'[u] = temp[u]
         /\ \A u \in 0..1 : temp'[u] = Leftover(u) => temp[u] = Leftover(u)
  <1>1. /\ temp \in [0..1 -> File] /\ dir[n] \in File /\ (dir[n] # Absent => dir[n].of = n)
        /\ n # Absent
    BY DEF IInv, TypeOK, MirrorTypeOK, DbpdTypeOK, SourcesOwn, DesktopdAssumption
  <1>2. dir[n] # Absent => dir[n] # Leftover(t)
    BY <1>1, LeftoverIs
  <1>3. CASE dir[n] = Absent
    BY <1>1, <1>3 DEF copy_begin, TempOf
  <1>4. CASE dir[n] # Absent
    <2>1. temp' = [temp EXCEPT ![t] = dir[n]]
      BY <1>4 DEF copy_begin, own_temp
    <2>2. temp' \in [0..1 -> File] /\ temp'[t] = dir[n] /\ \A u \in 0..1 : u # t => temp'[u] = temp[u]
      BY <1>1, <2>1
    <2>3. TempOf(t, n)'
      BY <1>1, <1>4, <2>2 DEF TempOf
    <2> QED
      BY <1>2, <1>4, <2>2, <2>3
  <1> QED
    BY <1>3, <1>4

\* Each launcher has its own contents, and a leftover is in one place.
LEMMA OwnContentIs ==
  ASSUME IInv, main # "start"
  PROVE  /\ \A n \in Launcher : desktop[n] # Absent => desktop[n].of \in {n, Absent}
         /\ \A t \in 0..1 : \A n \in Launcher : desktop[n] = Leftover(t) =>
              temp[t] # Leftover(t) /\ \A m \in Launcher \ {n} : desktop[m] # Leftover(t)
  BY DEF IInv, OwnContent

\* The launcher then has those contents, and the temporary file is gone.
LEMMA CopyEnd ==
  ASSUME DesktopdAssumption, IInv, NEW t \in 0..1, NEW n \in Launcher, copy_end(t, n),
         TempOf(t, n), main # "start"
  PROVE  /\ temp' \in [0..1 -> File] /\ temp'[t] = Absent
         /\ \A u \in 0..1 : u # t => temp'[u] = temp[u]
         /\ desktop' \in [Launcher -> File]
         /\ OwnContent'
  <1>1. temp \in [0..1 -> File] /\ desktop \in [Launcher -> File] /\ Absent \in File
    BY DEF IInv, TypeOK, MirrorTypeOK, File
  <1>2. temp[t] # Absent => temp[t] = Leftover(t) \/ temp[t].of = n
    BY DEF TempOf
  <1>3. \A u \in 0..1 : Leftover(u).of = Absent
    BY LeftoverIs
  <1>4. Absent \notin Launcher
    BY DEF DesktopdAssumption
  <1>5. CASE temp[t] = Absent
    <2>1. UNCHANGED <<temp, desktop>>
      BY <1>5 DEF copy_end, own_temp
    <2>2. OwnContent'
      BY <2>1, OwnContentIs DEF OwnContent
    <2> QED
      BY <1>1, <1>5, <2>1, <2>2
  <1>6. CASE temp[t] # Absent
    <2>1. /\ desktop' = [desktop EXCEPT ![n] = temp[t]]
          /\ temp' = [temp EXCEPT ![t] = Absent]
      BY <1>6 DEF copy_end, own_temp
    <2>2. /\ temp' \in [0..1 -> File] /\ temp'[t] = Absent
          /\ \A u \in 0..1 : u # t => temp'[u] = temp[u]
          /\ desktop' \in [Launcher -> File] /\ desktop'[n] = temp[t]
          /\ \A m \in Launcher \ {n} : desktop'[m] = desktop[m]
      BY <1>1, <2>1
    <2>3. ASSUME NEW m \in Launcher, desktop'[m] # Absent PROVE desktop'[m].of \in {m, Absent}
      <3>1. CASE m = n
        BY <1>2, <1>3, <2>2, <3>1, <1>6
      <3>2. CASE m # n
        BY <2>2, <2>3, <3>2, OwnContentIs
      <3> QED
        BY <3>1, <3>2
    <2>4. ASSUME NEW u \in 0..1, NEW m \in Launcher, desktop'[m] = Leftover(u)
          PROVE  temp'[u] # Leftover(u) /\ \A k \in Launcher \ {m} : desktop'[k] # Leftover(u)
      <3>1. Leftover(u) # Absent
        BY LeftoverIs
      <3>2. temp[t] = Leftover(u) => u = t
        BY <1>2, <1>3, <1>4, <1>6, <3>1, LeftoverIs
      <3>3. CASE m = n
        BY <1>6, <2>2, <2>4, <3>1, <3>2, <3>3, OwnContentIs
      <3>4. CASE m # n
        BY <1>6, <2>2, <2>4, <3>1, <3>2, <3>4, OwnContentIs
      <3> QED
        BY <3>3, <3>4
    <2>5. OwnContent'
      BY <2>3, <2>4 DEF OwnContent
    <2> QED
      BY <2>2, <2>5
  <1> QED
    BY <1>5, <1>6

\* A temporary file of this session means that its thread is copying.
LEMMA NoTemp ==
  ASSUME DesktopdAssumption, IInv
  PROVE  /\ main_file = Absent => temp[0] \in {Absent, Leftover(0)}
         /\ thread_file = Absent => temp[1] \in {Absent, Leftover(1)}
  BY DEF IInv, TypeOK, TempOf

\* The signal thread's steps
LEMMA MirrorsIInv ==
  ASSUME DesktopdAssumption, IInv, Mirrors
  PROVE  IInv'
  <1> USE DEF IInv, TypeOK, TempOf, Next_message
  <1>1. DbpdTypeOK' /\ SourcesOwn' /\ Numbered'
    BY DbpdKept DEF Mirrors, name_known, name_vanished, add_meta_begin, add_meta_end, remove_meta
  <1>2. CASE name_known
    <2>1. MirrorTypeOK'
      BY <1>2, TakeMessage DEF name_known, MirrorTypeOK, main_thread, history
    <2> QED
      BY <1>1, <1>2, <2>1 DEF name_known, OwnContent, Quiet, main_thread
  <1>3. CASE name_vanished
    <2>1. MirrorTypeOK'
      BY <1>3, TakeMessage DEF name_vanished, MirrorTypeOK, main_thread, history, DesktopdAssumption
    <2> QED
      BY <1>1, <1>3, <2>1 DEF name_vanished, OwnContent, Quiet, main_thread
  <1>4. CASE add_meta_begin
    <2> DEFINE n == Head(queue).value
    <2>1. n \in Launcher /\ queue' \in Seq(Message) /\ Len(queue') <= MaxQueue
      BY <1>4, TakeMessage DEF add_meta_begin
    <2>2. temp[1] \in {Absent, Leftover(1)}
      BY <1>4, NoTemp DEF add_meta_begin, Next_message
    <2>3. /\ temp' \in [0..1 -> File]
          /\ temp'[1] \in {Absent, Leftover(1)} \/ (n # Absent /\ temp'[1].of = n)
          /\ temp'[0] = temp[0]
          /\ \A u \in 0..1 : temp'[u] = Leftover(u) => temp[u] = Leftover(u)
      BY <1>4, <2>1, <2>2, CopyBegin DEF add_meta_begin
    <2>4. thread_file' = n /\ UNCHANGED <<dbpd, subscription, main_thread, desktop, history>>
      BY <1>4 DEF add_meta_begin
    <2> HIDE DEF n
    <2>5. MirrorTypeOK'
      BY <2>1, <2>3, <2>4 DEF MirrorTypeOK, main_thread, history
    <2>6. OwnContent' /\ Quiet'
      BY <1>4, <2>3, <2>4 DEF OwnContent, Quiet, main_thread, add_meta_begin
    <2> QED
      BY <1>1, <2>1, <2>3, <2>4, <2>5, <2>6 DEF main_thread
  <1>5. CASE add_meta_end
    <2>1. thread_file \in Launcher /\ main # "start"
      BY <1>5 DEF add_meta_end, MirrorTypeOK, Quiet
    <2>2. /\ temp' \in [0..1 -> File] /\ temp'[1] = Absent /\ temp'[0] = temp[0]
          /\ desktop' \in [Launcher -> File]
          /\ OwnContent'
      BY <1>5, <2>1, CopyEnd DEF add_meta_end
    <2>3. MirrorTypeOK'
      BY <1>5, <2>2 DEF add_meta_end, MirrorTypeOK, bus, main_thread, history
    <2> QED
      BY <1>1, <1>5, <2>2, <2>3 DEF add_meta_end, OwnContent, Quiet, main_thread
  <1>6. CASE remove_meta
    <2>1. Head(queue).value \in Launcher /\ queue' \in Seq(Message) /\ Len(queue') <= MaxQueue
      BY <1>6, TakeMessage DEF remove_meta
    <2>2. MirrorTypeOK'
      BY <1>6, <2>1 DEF remove_meta, MirrorTypeOK, main_thread, history, File
    <2> QED
      BY <1>1, <1>6, <2>1, <2>2 DEF remove_meta, OwnContent, Quiet, main_thread, MirrorTypeOK
  <1> QED
    BY <1>2, <1>3, <1>4, <1>5, <1>6 DEF Mirrors

\* The main thread's steps
LEMMA MainIInv ==
  ASSUME DesktopdAssumption, IInv, Main
  PROVE  IInv'
  <1> USE DEF IInv, TypeOK, TempOf
  <1>1. DbpdTypeOK' /\ SourcesOwn' /\ Numbered'
    BY DbpdKept DEF Main, nuke_desktop, dbpmgr_server_connect, dbpmgr_server_package_list,
                    add_package_meta, main_copy_begin, main_copy_end, pthread_join
  <1>2. CASE nuke_desktop
    <2> DEFINE m == IF running THEN [kind |-> "Known", value |-> generation]
                    ELSE [kind |-> "Vanished", value |-> 0]
    <2>1. m \in Message
      BY DEF Message, Numbered, DbpdTypeOK, DesktopdAssumption
    <2>2. queue' \in Seq(Message) /\ Len(queue') <= MaxQueue
      BY <1>2, <2>1 DEF nuke_desktop, DesktopdAssumption
    <2>3. MirrorTypeOK'
      BY <1>2, <2>2 DEF nuke_desktop, MirrorTypeOK, File, history
    <2> QED
      BY <1>1, <1>2, <2>3 DEF nuke_desktop, OwnContent, Quiet
  <1>3. CASE dbpmgr_server_connect
    <2>1. MirrorTypeOK'
      BY <1>3 DEF dbpmgr_server_connect, MirrorTypeOK, bus, history
    <2> QED
      BY <1>1, <1>3, <2>1 DEF dbpmgr_server_connect, OwnContent, Quiet
  <1>4. CASE dbpmgr_server_package_list
    <2>1. MirrorTypeOK'
      BY <1>4 DEF dbpmgr_server_package_list, MirrorTypeOK, bus, PackageList, DbpdTypeOK
    <2> QED
      BY <1>1, <1>4, <2>1 DEF dbpmgr_server_package_list, OwnContent, Quiet
  <1>5. ASSUME NEW p \in Package, add_package_meta(p) PROVE IInv'
    <2>1. Matching[p] \subseteq Launcher
      BY DEF DesktopdAssumption
    <2>2. MirrorTypeOK'
      BY <1>5, <2>1 DEF add_package_meta, MirrorTypeOK, bus, history
    <2> QED
      BY <1>1, <1>5, <2>2 DEF add_package_meta, OwnContent, Quiet
  <1>6. ASSUME NEW n \in Launcher, main_copy_begin(n) PROVE IInv'
    <2>1. temp[0] \in {Absent, Leftover(0)}
      BY <1>6, NoTemp DEF main_copy_begin
    <2>2. /\ temp' \in [0..1 -> File]
          /\ TempOf(0, n)'
          /\ temp'[1] = temp[1]
          /\ \A u \in 0..1 : temp'[u] = Leftover(u) => temp[u] = Leftover(u)
      BY <1>6, <2>1, CopyBegin DEF main_copy_begin
    <2>3. MirrorTypeOK'
      BY <1>6, <2>2 DEF main_copy_begin, MirrorTypeOK, bus, history
    <2> QED
      BY <1>1, <1>6, <2>2, <2>3 DEF main_copy_begin, OwnContent, Quiet
  <1>7. CASE main_copy_end
    <2>1. main_file \in Launcher /\ main # "start"
      BY <1>7 DEF main_copy_end, MirrorTypeOK, Quiet
    <2>2. /\ temp' \in [0..1 -> File] /\ temp'[0] = Absent /\ temp'[1] = temp[1]
          /\ desktop' \in [Launcher -> File]
          /\ OwnContent'
      BY <1>7, <2>1, CopyEnd DEF main_copy_end
    <2>3. MirrorTypeOK'
      BY <1>7, <2>2 DEF main_copy_end, MirrorTypeOK, bus, history
    <2> QED
      BY <1>1, <1>7, <2>2, <2>3 DEF main_copy_end, OwnContent, Quiet
  <1>8. CASE pthread_join
    <2>1. MirrorTypeOK'
      BY <1>8 DEF pthread_join, MirrorTypeOK, bus, history
    <2> QED
      BY <1>1, <1>8, <2>1 DEF pthread_join, OwnContent, Quiet
  <1> QED
    BY <1>2, <1>3, <1>4, <1>5, <1>6, <1>7, <1>8 DEF Main

-----------------------------------------------------------------------------

\* DesktopdProofs' invariant is inductive.
THEOREM Invariance == Spec => []IInv
  <1>1. Init => IInv
    BY DesktopdAssumption, InitIInv
  <1>2. IInv /\ [Next]_vars => IInv'
    <2> SUFFICES ASSUME IInv, [Next]_vars PROVE IInv'
      OBVIOUS
    <2>1. CASE Next
      BY <2>1, DesktopdAssumption, DbpdIInv, MirrorsIInv, MainIInv DEF Next
    <2>2. CASE UNCHANGED vars
      <3>1. DbpdTypeOK' /\ SourcesOwn' /\ Numbered'
        BY <2>2, DbpdKept DEF vars
      <3> QED
        BY <2>2, <3>1 DEF IInv, TypeOK, TempOf, MirrorTypeOK, OwnContent, Quiet, vars, bus, main_thread, history
    <2> QED
      BY <2>1, <2>2
  <1> QED
    BY <1>1, <1>2, PTL DEF Spec

\* Every variable keeps its type, and a temporary file its launcher.
THEOREM TypeCorrect == Spec => []TypeOK
  <1>1. IInv => TypeOK
    BY DEF IInv
  <1> QED
    BY <1>1, Invariance, PTL

\* A launcher on the desktop has the contents of the launcher of that name, although
\* two threads copy at once and without a lock (desktopd.c 59-76).
THEOREM ContentIsOwn == Spec => []OwnContent
  <1>1. IInv => OwnContent
    BY DEF IInv
  <1> QED
    BY <1>1, Invariance, PTL

-----------------------------------------------------------------------------
(* Nothing is missing                                                      *)

\* No name is shared by a package that is shown and one that is not.  (If one is,
\* the launcher of the latter is listed under a package that dbp-desktopd leaves out.)
NamesApart ==
  \A p \in OnDesktop, q \in Package \ OnDesktop : Launchers[p] \cap Launchers[q] = {}

\* What dbpd does while it holds the mutex
Locked ==
  /\ op = "idle" => todo = {} /\ written = Absent
  /\ op = "release" => written = Absent
  /\ op = "register" =>
       \A n \in todo \cup {written} : n # Absent => \E p \in registered : n \in Launchers[p]

\* Each file is of a registered package, or of one that is being released.
Owned ==
  running /\ nuked => \A n \in Launcher : dir[n] # Absent =>
    \/ \E p \in registered : n \in Launchers[p]
    \/ op = "release" /\ n \in todo

\* Message i for the signal thread
Says(i, kind, n) == queue[i].kind = kind /\ queue[i].value = n

NewPending(n) == \E i \in 1..Len(queue) : Says(i, "NewMeta", n)

\* A removal that is still to be handled is followed by the news of what replaced it.
Replaced(n) ==
  \A i \in 1..Len(queue) : Says(i, "RemoveMeta", n) =>
    \E j \in i + 1..Len(queue) : Says(j, "NewMeta", n)

MainWill(n) ==
  /\ main = "copy"
  /\ \/ \E p \in list : n \in Matching[p]
     \/ n \in files
     \/ main_file = n /\ temp[0] # Absent

\* A launcher is on the desktop or one of the threads is going to put it there.
Coming(n) ==
  \/ desktop[n] # Absent
  \/ NewPending(n)
  \/ thread_file = n /\ temp[1] # Absent
  \/ MainWill(n)

Fresh(n) == n \notin missed /\ dir[n] # Absent => Replaced(n)

Arrives(n) ==
  /\ main \in {"copy", "join"} /\ running /\ nuked
  /\ n \in Shown \ missed
  /\ dir[n] # Absent
  => Coming(n)

MirrorInv ==
  /\ Locked
  /\ Owned
  /\ \A n \in Launcher : Fresh(n) /\ Arrives(n)

\* A message at the end of the queue
LEMMA QueueAppend ==
  ASSUME NEW m \in Message, queue \in Seq(Message), queue' = Append(queue, m), NEW n
  PROVE  /\ NewPending(n) => NewPending(n)'
         /\ Replaced(n) /\ ~(m.kind = "RemoveMeta" /\ m.value = n) => Replaced(n)'
         /\ m.kind = "NewMeta" /\ m.value = n => NewPending(n)' /\ Replaced(n)'
  <1>1. /\ Len(queue) \in Nat /\ Len(queue') = Len(queue) + 1
        /\ \A i \in 1..Len(queue) : queue'[i] = queue[i]
        /\ queue'[Len(queue) + 1] = m
    BY AppendProperties, LenProperties
  <1>2. NewPending(n) => NewPending(n)'
    BY <1>1 DEF NewPending, Says
  <1>3. ASSUME Replaced(n), ~(m.kind = "RemoveMeta" /\ m.value = n)
        PROVE  Replaced(n)'
    <2> SUFFICES ASSUME NEW i \in 1..Len(queue'), Says(i, "RemoveMeta", n)'
                 PROVE  \E j \in i + 1..Len(queue') : Says(j, "NewMeta", n)'
      BY DEF Replaced
    <2>1. i \in 1..Len(queue) /\ Says(i, "RemoveMeta", n)
      BY <1>1, <1>3 DEF Says
    <2>2. PICK j \in i + 1..Len(queue) : Says(j, "NewMeta", n)
      BY <1>3, <2>1 DEF Replaced
    <2>3. j \in 1..Len(queue) /\ j \in i + 1..Len(queue')
      BY <1>1, <2>1, <2>2
    <2> QED
      BY <1>1, <2>2, <2>3 DEF Says
  <1>4. ASSUME m.kind = "NewMeta", m.value = n
        PROVE  NewPending(n)' /\ Replaced(n)'
    <2> PICK k \in Nat : k = Len(queue) + 1
      BY <1>1
    <2>1. k \in 1..Len(queue') /\ Says(k, "NewMeta", n)'
      BY <1>1, <1>4 DEF Says
    <2>2. ASSUME NEW i \in 1..Len(queue'), Says(i, "RemoveMeta", n)'
          PROVE  k \in i + 1..Len(queue')
      BY <1>1, <1>4, <2>2 DEF Says
    <2> QED
      BY <2>1, <2>2 DEF NewPending, Replaced
  <1> QED
    BY <1>2, <1>3, <1>4

\* The first message is taken from it.
LEMMA QueueTail ==
  ASSUME queue \in Seq(Message), queue # << >>, queue' = Tail(queue), NEW n
  PROVE  /\ Replaced(n) => Replaced(n)'
         /\ NewPending(n) /\ ~(Head(queue).kind = "NewMeta" /\ Head(queue).value = n) => NewPending(n)'
         /\ Replaced(n) /\ Head(queue).kind = "RemoveMeta" /\ Head(queue).value = n => NewPending(n)'
  <1>1. /\ Len(queue) \in Nat \ {0} /\ Len(queue') = Len(queue) - 1
        /\ \A i \in 1..Len(queue') : queue'[i] = queue[i + 1]
        /\ Head(queue) = queue[1]
    BY HeadTailProperties, LenProperties, EmptySeq
  <1>2. \A i \in 2..Len(queue) : i - 1 \in 1..Len(queue') /\ queue'[i - 1] = queue[i]
    BY <1>1
  <1>3. ASSUME Replaced(n) PROVE Replaced(n)'
    <2> SUFFICES ASSUME NEW i \in 1..Len(queue'), Says(i, "RemoveMeta", n)'
                 PROVE  \E j \in i + 1..Len(queue') : Says(j, "NewMeta", n)'
      BY DEF Replaced
    <2>1. i + 1 \in 1..Len(queue) /\ Says(i + 1, "RemoveMeta", n)
      BY <1>1 DEF Says
    <2>2. PICK j \in (i + 1) + 1..Len(queue) : Says(j, "NewMeta", n)
      BY <1>3, <2>1 DEF Replaced
    <2>3. j \in 2..Len(queue) /\ j - 1 \in i + 1..Len(queue')
      BY <1>1, <2>2
    <2> QED
      BY <1>2, <2>2, <2>3 DEF Says
  <1>4. ASSUME NewPending(n), ~(Head(queue).kind = "NewMeta" /\ Head(queue).value = n)
        PROVE  NewPending(n)'
    <2>1. PICK i \in 1..Len(queue) : Says(i, "NewMeta", n)
      BY <1>4 DEF NewPending
    <2>2. i \in 2..Len(queue)
      BY <1>1, <1>4, <2>1 DEF Says
    <2>3. PICK k \in 1..Len(queue') : k = i - 1
      BY <1>2, <2>2
    <2>4. Says(k, "NewMeta", n)'
      BY <1>2, <2>1, <2>2, <2>3 DEF Says
    <2> QED
      BY <2>4 DEF NewPending
  <1>5. ASSUME Replaced(n), Head(queue).kind = "RemoveMeta", Head(queue).value = n
        PROVE  NewPending(n)'
    <2>1. 1 \in 1..Len(queue) /\ Says(1, "RemoveMeta", n)
      BY <1>1, <1>5 DEF Says
    <2>2. PICK j \in 1 + 1..Len(queue) : Says(j, "NewMeta", n)
      BY <1>5, <2>1 DEF Replaced
    <2>3. PICK k \in 1..Len(queue') : k = j - 1
      BY <1>2, <2>2
    <2>4. Says(k, "NewMeta", n)'
      BY <1>2, <2>2, <2>3 DEF Says
    <2> QED
      BY <2>4 DEF NewPending
  <1> QED
    BY <1>3, <1>4, <1>5

\* What dbpd must not do to a launcher that nobody has to put on the desktop
LEMMA Undisturbed ==
  ASSUME IInv, NEW n \in Launcher, Fresh(n), Arrives(n),
         UNCHANGED <<subscription, thread_file, main_thread, temp, desktop>>,
         \/ n \in missed' \/ dir'[n] = Absent
         \/ /\ n \notin missed /\ dir[n] # Absent /\ (running' /\ nuked' => running /\ nuked)
            /\ \/ queue' = queue
               \/ \E m \in Message : /\ queue' = Append(queue, m)
                                     /\ ~(m.kind = "RemoveMeta" /\ m.value = n)
         \/ \E m \in Message : queue' = Append(queue, m) /\ m.kind = "NewMeta" /\ m.value = n
  PROVE  Fresh(n)' /\ Arrives(n)'
  <1>1. queue \in Seq(Message)
    BY DEF IInv, TypeOK, MirrorTypeOK
  <1>2. CASE n \in missed' \/ dir'[n] = Absent
    BY <1>2 DEF Fresh, Arrives
  <1>3. CASE /\ n \notin missed /\ dir[n] # Absent /\ (running' /\ nuked' => running /\ nuked)
             /\ \/ queue' = queue
                \/ \E m \in Message : /\ queue' = Append(queue, m)
                                      /\ ~(m.kind = "RemoveMeta" /\ m.value = n)
    <2>1. Replaced(n)' /\ (NewPending(n) => NewPending(n)')
      <3>1. Replaced(n)
        BY <1>3 DEF Fresh
      <3>2. CASE queue' = queue
        BY <3>1, <3>2 DEF Replaced, NewPending, Says
      <3>3. CASE \E m \in Message : /\ queue' = Append(queue, m)
                                    /\ ~(m.kind = "RemoveMeta" /\ m.value = n)
        BY <1>1, <3>1, <3>3, QueueAppend
      <3> QED
        BY <1>3, <3>2, <3>3
    <2>2. Coming(n) => Coming(n)'
      BY <2>1 DEF Coming, MainWill, main_thread
    <2> QED
      BY <1>3, <2>1, <2>2 DEF Fresh, Arrives, main_thread
  <1>4. CASE \E m \in Message : queue' = Append(queue, m) /\ m.kind = "NewMeta" /\ m.value = n
    <2>1. NewPending(n)' /\ Replaced(n)'
      BY <1>1, <1>4, QueueAppend
    <2> QED
      BY <2>1 DEF Fresh, Arrives, Coming
  <1> QED
    BY <1>2, <1>3, <1>4

\* What a request has to write or remove is its package's.
LEMMA LockMirrorInv ==
  ASSUME DesktopdAssumption, IInv, MirrorInv, NEW p \in Package, register(p) \/ release(p)
  PROVE  MirrorInv'
  <1>1. /\ running /\ nuked /\ op = "idle" /\ todo = {} /\ written = Absent
        /\ \A n \in Launcher : dir[n] # Absent => \E q \in registered : n \in Launchers[q]
    BY DEF register, release, Lock, Unlocked, MirrorInv, Locked, Owned
  <1>2. UNCHANGED <<running, nuked, written, dir, missed, queue, subscription, thread_file,
                    main_thread, temp, desktop>>
    BY DEF register, release, Lock, bus, history
  <1>3. Launchers[p] \subseteq Matching[p] /\ Launchers[p] \subseteq Launcher
    BY DEF DesktopdAssumption
  <1>4. Locked' /\ Owned'
    <2>1. CASE register(p)
      <3>1. /\ registered' = registered \cup {p} /\ todo' = Launchers[p]
            /\ op' = IF Launchers[p] = {} THEN "idle" ELSE "register"
        BY <2>1 DEF register, Lock
      <3> QED
        BY <1>1, <1>2, <3>1 DEF Locked, Owned
    <2>2. CASE release(p)
      <3>1. /\ registered' = registered \ {p} /\ todo' = {n \in Matching[p] : dir[n] # Absent}
            /\ op' = IF todo' = {} THEN "idle" ELSE "release"
        BY <2>2 DEF release, Lock
      <3>2. \A n \in Launcher : dir[n] # Absent =>
              \/ \E q \in registered' : n \in Launchers[q]
              \/ op' = "release" /\ n \in todo'
        BY <1>1, <1>3, <3>1
      <3> QED
        BY <1>1, <1>2, <3>1, <3>2 DEF Locked, Owned
    <2> QED
      BY <2>1, <2>2
  <1>5. ASSUME NEW n \in Launcher PROVE Fresh(n)' /\ Arrives(n)'
    <2>1. Fresh(n) /\ Arrives(n)
      BY DEF MirrorInv
    <2>2. \/ n \in missed' \/ dir'[n] = Absent
          \/ n \notin missed /\ dir[n] # Absent /\ running /\ nuked /\ queue' = queue
      BY <1>1, <1>2
    <2> QED
      BY <1>2, <2>1, <2>2, Undisturbed
  <1> QED
    BY <1>4, <1>5 DEF MirrorInv

\* dbpd is stopped or started: what it leaves is as it was, or will be emptied.
LEMMA RestartMirrorInv ==
  ASSUME DesktopdAssumption, IInv, MirrorInv, die \/ start
  PROVE  MirrorInv'
  <1>1. /\ UNCHANGED <<dir, missed, subscription, thread_file, main_thread, temp, desktop>>
        /\ ~(running' /\ nuked')
    BY DEF die, start, history
  <1>2. queue' = queue \/ \E m \in Message : queue' = Append(queue, m) /\ m.kind # "RemoveMeta"
    <2>1. CASE die
      <3>1. [kind |-> "Vanished", value |-> 0] \in Message
        BY DEF Message
      <3> QED
        BY <2>1, <3>1 DEF die, NameEvent
    <2>2. CASE start
      <3>1. generation' \in 1..MaxGeneration
        BY <2>2 DEF start, IInv, TypeOK, DbpdTypeOK, DesktopdAssumption
      <3>2. [kind |-> "Known", value |-> generation'] \in Message
        BY <3>1 DEF Message
      <3> QED
        BY <2>2, <3>2 DEF start, NameEvent
    <2> QED
      BY <2>1, <2>2
  <1>3. Locked' /\ Owned'
    BY <1>1 DEF die, start, MirrorInv, Locked, Owned, mutex
  <1>4. ASSUME NEW n \in Launcher PROVE Fresh(n)' /\ Arrives(n)'
    <2>1. Fresh(n) /\ Arrives(n)
      BY DEF MirrorInv
    <2> QED
      BY <1>1, <1>2, <2>1, Undisturbed
  <1> QED
    BY <1>3, <1>4 DEF MirrorInv

\* A launcher is written, removed, or removed with all others.
LEMMA WorksMirrorInv ==
  ASSUME DesktopdAssumption, IInv, MirrorInv, Works
  PROVE  MirrorInv'
  <1>1. /\ dir \in [Launcher -> File] /\ written \in Launcher \cup {Absent}
        /\ todo \subseteq Launcher /\ Absent \notin Launcher
        /\ op \in {"idle", "register", "release"}
        /\ Locked /\ Owned /\ \A n \in Launcher : Fresh(n) /\ Arrives(n)
    BY DEF IInv, TypeOK, DbpdTypeOK, MirrorInv, DesktopdAssumption
  <1>2. ASSUME NEW m \in Launcher, write_begin(m) PROVE MirrorInv'
    <2>1. /\ op = "register" /\ m \in todo /\ todo' = todo \ {m} /\ written' = m
          /\ dir' = [dir EXCEPT ![m] = [of |-> m, version |-> 0]]
          /\ missed' = missed \cup {m}
          /\ UNCHANGED <<running, nuked, registered, op, queue>>
          /\ UNCHANGED <<subscription, thread_file, main_thread, temp, desktop>>
      BY <1>2 DEF write_begin, Changed, bus
    <2>2. Locked'
      BY <1>1, <2>1 DEF Locked
    <2>3. Owned'
      BY <1>1, <2>1 DEF Owned, Locked
    <2>4. ASSUME NEW n \in Launcher PROVE Fresh(n)' /\ Arrives(n)'
      BY <1>1, <2>1, Undisturbed
    <2> QED
      BY <2>2, <2>3, <2>4 DEF MirrorInv
  <1>3. CASE write_end
    <2>1. /\ written \in Launcher /\ written' = Absent /\ op = "register"
          /\ op' = (IF todo = {} THEN "idle" ELSE op) /\ todo' = todo
          /\ \E f : dir' = [dir EXCEPT ![written] = f]
          /\ UNCHANGED <<running, nuked, registered>>
          /\ UNCHANGED <<subscription, thread_file, main_thread, temp, desktop>>
      BY <1>1, <1>3 DEF write_end, Unlock_if, Locked
    <2> DEFINE m == [kind |-> "NewMeta", value |-> written]
    <2>2. m \in Message /\ m.kind = "NewMeta" /\ m.value = written
      BY <2>1 DEF Message
    <2>3. \/ queue' = Append(queue, m) /\ missed' = missed \ {written}
          \/ queue' = queue /\ missed' = missed \cup {written}
      BY <1>3 DEF write_end, Emit, Changed
    <2> HIDE DEF m
    <2>4. Locked'
      BY <1>1, <2>1 DEF Locked
    <2>5. Owned'
      BY <1>1, <2>1 DEF Owned, Locked
    <2>6. ASSUME NEW n \in Launcher PROVE Fresh(n)' /\ Arrives(n)'
      <3>1. CASE n = written
        BY <1>1, <2>1, <2>2, <2>3, <3>1, Undisturbed
      <3>2. CASE n # written
        <4>1. dir'[n] = dir[n] /\ (n \in missed' <=> n \in missed)
          BY <1>1, <2>1, <2>3, <3>2
        <4>2. /\ running' /\ nuked' => running /\ nuked
              /\ \/ queue' = queue
                 \/ \E x \in Message : /\ queue' = Append(queue, x)
                                       /\ ~(x.kind = "RemoveMeta" /\ x.value = n)
          BY <2>1, <2>2, <2>3
        <4> QED
          BY <1>1, <2>1, <4>1, <4>2, Undisturbed
      <3> QED
        BY <3>1, <3>2
    <2> QED
      BY <2>4, <2>5, <2>6 DEF MirrorInv
  <1>4. ASSUME NEW m \in Launcher, remove(m) PROVE MirrorInv'
    <2>1. /\ op = "release" /\ m \in todo /\ todo' = todo \ {m}
          /\ op' = (IF todo' = {} THEN "idle" ELSE op)
          /\ dir' = [dir EXCEPT ![m] = Absent]
          /\ UNCHANGED <<running, nuked, registered, written>>
          /\ UNCHANGED <<subscription, thread_file, main_thread, temp, desktop>>
      BY <1>4 DEF remove, Unlock_if
    <2>2. missed' \in {missed \ {m}, missed \cup {m}}
      BY <1>4 DEF remove, Changed
    <2> DEFINE x == [kind |-> "RemoveMeta", value |-> m]
    <2>3. x \in Message /\ x.value = m /\ (queue' = queue \/ queue' = Append(queue, x))
      BY <1>4 DEF remove, Emit, Message
    <2> HIDE DEF x
    <2>4. Locked'
      BY <1>1, <2>1 DEF Locked
    <2>5. Owned'
      BY <1>1, <2>1 DEF Owned
    <2>6. ASSUME NEW n \in Launcher PROVE Fresh(n)' /\ Arrives(n)'
      <3>1. CASE n = m
        BY <1>1, <2>1, <3>1, Undisturbed
      <3>2. CASE n # m
        <4>1. dir'[n] = dir[n] /\ (n \in missed' <=> n \in missed)
          BY <1>1, <2>1, <2>2, <3>2
        <4>2. /\ running' /\ nuked' => running /\ nuked
              /\ \/ queue' = queue
                 \/ \E y \in Message : /\ queue' = Append(queue, y)
                                       /\ ~(y.kind = "RemoveMeta" /\ y.value = n)
          BY <2>1, <2>3, <3>2
        <4> QED
          BY <1>1, <2>1, <4>1, <4>2, Undisturbed
      <3> QED
        BY <3>1, <3>2
    <2> QED
      BY <2>4, <2>5, <2>6 DEF MirrorInv
  <1>5. CASE daemon_nuke
    <2>1. /\ dir' = [n \in Launcher |-> Absent] /\ UNCHANGED mutex /\ UNCHANGED registered
          /\ UNCHANGED <<subscription, thread_file, main_thread, temp, desktop>>
      BY <1>5 DEF daemon_nuke, bus
    <2>2. Locked' /\ Owned'
      BY <1>1, <2>1 DEF Locked, Owned, mutex
    <2>3. ASSUME NEW n \in Launcher PROVE Fresh(n)' /\ Arrives(n)'
      BY <1>1, <2>1, Undisturbed
    <2> QED
      BY <2>2, <2>3 DEF MirrorInv
  <1> QED
    BY <1>2, <1>3, <1>4, <1>5 DEF Works

\* Steps of the mirror leave dbpd's part of the invariant as it is.
LEMMA DbpdSame ==
  ASSUME MirrorInv, UNCHANGED dbpd
  PROVE  Locked' /\ Owned'
  BY DEF MirrorInv, Locked, Owned, dbpd, mutex

\* A message is taken from the queue, and what it says is done.
LEMMA MirrorsMirrorInv ==
  ASSUME DesktopdAssumption, IInv, MirrorInv, Mirrors
  PROVE  MirrorInv'
  <1>1. /\ queue \in Seq(Message) /\ temp \in [0..1 -> File] /\ desktop \in [Launcher -> File]
        /\ thread_file \in Launcher \cup {Absent} /\ Absent \notin Launcher
        /\ dir \in [Launcher -> File]
    BY DEF IInv, TypeOK, MirrorTypeOK, DbpdTypeOK, DesktopdAssumption
  <1>2. UNCHANGED dbpd /\ UNCHANGED main_thread /\ UNCHANGED history
    BY DEF Mirrors, name_known, name_vanished, add_meta_begin, add_meta_end, remove_meta
  <1>3. Locked' /\ Owned'
    BY <1>2, DbpdSame
  <1>4. UNCHANGED <<dir, running, nuked, missed, main, list, files, main_file>>
    BY <1>2 DEF dbpd, main_thread, history
  <1>5. ASSUME NEW n \in Launcher, n \notin missed, dir[n] # Absent,
               Replaced(n), Coming(n) \/ ~(main \in {"copy", "join"} /\ running /\ nuked /\ n \in Shown)
        PROVE  Replaced(n)' /\ (Coming(n) => Coming(n)')
    <2>1. CASE name_known \/ name_vanished
      <3>1. /\ queue # << >> /\ queue' = Tail(queue) /\ Head(queue).kind # "NewMeta"
            /\ UNCHANGED <<thread_file, temp, desktop>>
        BY <2>1 DEF name_known, name_vanished, Next_message
      <3>2. Replaced(n)' /\ (NewPending(n) => NewPending(n)')
        BY <1>1, <1>5, <3>1, QueueTail
      <3> QED
        BY <1>4, <3>1, <3>2 DEF Coming, MainWill
    <2>2. CASE add_meta_begin
      <3>1. /\ queue # << >> /\ queue' = Tail(queue) /\ thread_file = Absent
            /\ thread_file' = Head(queue).value /\ copy_begin(1, Head(queue).value)
            /\ UNCHANGED desktop
        BY <2>2 DEF add_meta_begin, Next_message
      <3>2. Replaced(n)' /\ (NewPending(n) /\ Head(queue).value # n => NewPending(n)')
        BY <1>1, <1>5, <3>1, QueueTail
      <3>3. temp'[0] = temp[0]
        BY <1>1, <3>1 DEF copy_begin, own_temp
      <3>4. Head(queue).value = n => thread_file' = n /\ temp'[1] # Absent
        BY <1>1, <1>5, <3>1 DEF copy_begin, own_temp
      <3> QED
        BY <1>1, <1>4, <3>1, <3>2, <3>3, <3>4 DEF Coming, MainWill
    <2>3. CASE add_meta_end
      <3>1. /\ queue' = queue /\ thread_file \in Launcher /\ copy_end(1, thread_file)
        BY <1>1, <2>3 DEF add_meta_end, bus
      <3>2. Replaced(n)' /\ (NewPending(n) => NewPending(n)')
        BY <1>5, <3>1 DEF Replaced, NewPending, Says
      <3>3. /\ temp'[0] = temp[0]
            /\ desktop[n] # Absent => desktop'[n] # Absent
            /\ thread_file = n /\ temp[1] # Absent => desktop'[n] # Absent
        BY <1>1, <3>1 DEF copy_end, own_temp
      <3> QED
        BY <1>4, <3>2, <3>3 DEF Coming, MainWill
    <2>4. CASE remove_meta
      <3>1. /\ queue # << >> /\ queue' = Tail(queue) /\ Head(queue).kind = "RemoveMeta"
            /\ UNCHANGED <<thread_file, temp>>
            /\ desktop' = [desktop EXCEPT ![Head(queue).value] = Absent]
        BY <2>4 DEF remove_meta, Next_message
      <3>2. /\ Replaced(n)' /\ (NewPending(n) => NewPending(n)')
            /\ Head(queue).value = n => NewPending(n)'
        BY <1>1, <1>5, <3>1, QueueTail
      <3>3. Head(queue).value # n => desktop'[n] = desktop[n]
        BY <1>1, <3>1
      <3> QED
        BY <1>4, <3>1, <3>2, <3>3 DEF Coming, MainWill
    <2> QED
      BY <2>1, <2>2, <2>3, <2>4 DEF Mirrors
  <1>6. ASSUME NEW n \in Launcher PROVE Fresh(n)' /\ Arrives(n)'
    <2>1. Fresh(n) /\ Arrives(n)
      BY DEF MirrorInv
    <2>2. CASE n \in missed \/ dir[n] = Absent
      BY <1>4, <2>2 DEF Fresh, Arrives
    <2>3. CASE n \notin missed /\ dir[n] # Absent
      <3>1. Replaced(n)' /\ (Coming(n) => Coming(n)')
        BY <1>5, <2>1, <2>3 DEF Fresh, Arrives
      <3> QED
        BY <1>4, <2>1, <2>3, <3>1 DEF Fresh, Arrives
    <2> QED
      BY <2>2, <2>3
  <1> QED
    BY <1>3, <1>6 DEF MirrorInv

\* The list main makes leaves out nothing that is shown and not to be missed.
LEMMA ListMirrorInv ==
  ASSUME DesktopdAssumption, NamesApart, IInv, MirrorInv, dbpmgr_server_package_list
  PROVE  MirrorInv'
  <1>1. /\ registered \subseteq Package /\ OnDesktop \subseteq Package
        /\ \A p \in Package : Launchers[p] \subseteq Matching[p]
    BY DEF IInv, TypeOK, DbpdTypeOK, DesktopdAssumption
  <1>2. /\ main' = "copy" /\ UNCHANGED <<dbpd, queue, thread_file, files, main_file, temp, desktop>>
        /\ UNCHANGED <<dir, running, nuked, op, todo>>
    BY DEF dbpmgr_server_package_list, bus, dbpd, mutex
  <1>3. Locked' /\ Owned'
    BY <1>2, DbpdSame
  <1>4. CASE running /\ Unlocked /\ list' = PackageList \cap OnDesktop
             /\ missed' = {n \in missed : dir[n] = Absent \/ LeftToDo(n)}
    <2>1. ASSUME NEW n \in Launcher PROVE Fresh(n)'
      <3>1. (n \notin missed /\ dir[n] # Absent) => Replaced(n)
        BY DEF MirrorInv, Fresh
      <3>2. ~LeftToDo(n) => Replaced(n)
        BY DEF LeftToDo, Replaced, Says
      <3>3. n \notin missed' /\ dir[n] # Absent => Replaced(n)
        BY <1>4, <3>1, <3>2
      <3> QED
        BY <1>2, <3>3 DEF Fresh, Replaced, Says
    <2>2. ASSUME NEW n \in Launcher, nuked, n \in Shown, dir[n] # Absent
          PROVE  Coming(n)'
      <3>1. PICK p \in registered : n \in Launchers[p]
        BY <1>4, <2>2 DEF MirrorInv, Owned, Unlocked
      <3>2. PICK q \in OnDesktop : n \in Launchers[q]
        BY <2>2 DEF Shown
      <3>3. p \in OnDesktop
        BY <1>1, <3>1, <3>2 DEF NamesApart
      <3>4. p \in list' /\ n \in Matching[p]
        BY <1>1, <1>4, <3>1, <3>3 DEF PackageList
      <3> QED
        BY <1>2, <3>4 DEF Coming, MainWill
    <2> QED
      BY <1>2, <1>3, <2>1, <2>2 DEF MirrorInv, Arrives
  <1>5. CASE missed' = missed \cup {n \in Launcher : dir[n] # Absent}
    BY <1>2, <1>3, <1>5 DEF MirrorInv, Fresh, Arrives
  <1> QED
    BY <1>4, <1>5 DEF dbpmgr_server_package_list

\* Main copies what it has listed, and joins the thread when nothing is left.
LEMMA CopyMirrorInv ==
  ASSUME DesktopdAssumption, IInv, MirrorInv,
         \/ \E p \in Package : add_package_meta(p)
         \/ \E n \in Launcher : main_copy_begin(n)
         \/ main_copy_end \/ pthread_join
  PROVE  MirrorInv'
  <1>1. /\ temp \in [0..1 -> File] /\ desktop \in [Launcher -> File] /\ dir \in [Launcher -> File]
        /\ main_file \in Launcher \cup {Absent} /\ Absent \notin Launcher
    BY DEF IInv, TypeOK, MirrorTypeOK, DbpdTypeOK, DesktopdAssumption
  <1>2. UNCHANGED <<dbpd, queue, thread_file, missed>> /\ UNCHANGED <<dir, running, nuked>>
    BY DEF add_package_meta, main_copy_begin, main_copy_end, pthread_join, bus, history, dbpd
  <1>3. Locked' /\ Owned'
    BY <1>2, DbpdSame
  <1>4. main' \in {"copy", "join"} => main \in {"copy", "join"}
    BY DEF add_package_meta, main_copy_begin, main_copy_end, pthread_join
  <1>5. temp'[1] = temp[1] /\ \A n \in Launcher : desktop[n] # Absent => desktop'[n] # Absent
    BY <1>1 DEF add_package_meta, main_copy_begin, main_copy_end, pthread_join,
                copy_begin, copy_end, own_temp
  <1>6. ASSUME NEW n \in Launcher, dir[n] # Absent, MainWill(n)
        PROVE  MainWill(n)' \/ desktop'[n] # Absent
    <2>1. ASSUME NEW p \in Package, add_package_meta(p) PROVE MainWill(n)'
      <3>1. /\ main' = "copy" /\ main_file = Absent /\ files = {} /\ list' = list \ {p}
            /\ files' = {m \in Matching[p] : dir[m] # Absent}
        BY <1>6, <2>1 DEF add_package_meta, MainWill
      <3> QED
        BY <1>1, <1>6, <3>1 DEF MainWill
    <2>2. ASSUME NEW m \in Launcher, main_copy_begin(m) PROVE MainWill(n)'
      <3>1. /\ main' = "copy" /\ main_file = Absent /\ list' = list
            /\ files' = files \ {m} /\ main_file' = m /\ copy_begin(0, m)
        BY <1>6, <2>2 DEF main_copy_begin, MainWill
      <3>2. m = n => temp'[0] # Absent
        BY <1>1, <1>6, <3>1 DEF copy_begin, own_temp
      <3> QED
        BY <1>1, <1>6, <3>1, <3>2 DEF MainWill
    <2>3. CASE main_copy_end
      <3>1. UNCHANGED <<main, list, files>> /\ copy_end(0, main_file) /\ main_file # Absent
        BY <2>3 DEF main_copy_end
      <3>2. main_file = n /\ temp[0] # Absent => desktop'[n] # Absent
        BY <1>1, <3>1 DEF copy_end, own_temp
      <3> QED
        BY <1>6, <3>1, <3>2 DEF MainWill
    <2>4. CASE pthread_join
      BY <1>1, <1>6, <2>4 DEF pthread_join, MainWill
    <2> QED
      BY <2>1, <2>2, <2>3, <2>4
  <1>7. ASSUME NEW n \in Launcher PROVE Fresh(n)' /\ Arrives(n)'
    <2>1. Fresh(n) /\ Arrives(n)
      BY DEF MirrorInv
    <2>2. Fresh(n)' /\ (NewPending(n) => NewPending(n)')
      BY <1>2, <2>1 DEF Fresh, Replaced, NewPending, Says
    <2>3. dir[n] # Absent /\ Coming(n) => Coming(n)'
      BY <1>2, <1>5, <1>6, <2>2 DEF Coming
    <2> QED
      BY <1>2, <1>4, <2>1, <2>2, <2>3 DEF Arrives
  <1> QED
    BY <1>3, <1>7 DEF MirrorInv

\* Each step of the main thread
LEMMA MainMirrorInv ==
  ASSUME DesktopdAssumption, NamesApart, IInv, MirrorInv, Main
  PROVE  MirrorInv'
  <1>1. CASE nuke_desktop
    <2>1. /\ UNCHANGED dbpd /\ main' = "connect"
          /\ \E m \in {[kind |-> "Known", value |-> generation], [kind |-> "Vanished", value |-> 0]} :
               queue' = <<m>>
      BY <1>1 DEF nuke_desktop
    <2>2. Len(queue') = 1 /\ queue'[1].kind # "RemoveMeta"
      BY <2>1
    <2>3. \A n \in Launcher : Replaced(n)'
      BY <2>2 DEF Replaced, Says
    <2> QED
      BY <2>1, <2>3, DbpdSame DEF MirrorInv, Fresh, Arrives
  <1>2. CASE dbpmgr_server_connect
    <2>1. /\ UNCHANGED dbpd /\ main' \notin {"copy", "join"} /\ UNCHANGED <<dir, queue, missed>>
      BY <1>2 DEF dbpmgr_server_connect, bus, history, dbpd
    <2> QED
      BY <2>1, DbpdSame DEF MirrorInv, Fresh, Arrives, Replaced, Says
  <1> QED
    BY <1>1, <1>2, ListMirrorInv, CopyMirrorInv DEF Main

\* When all is done every launcher is on the desktop that dbpd has and whose last
\* signal was sent to dbp-desktopd, before, while or after main made its list
\* (desktopd.c 134-154), provided that no name is shared with a package not shown.
THEOREM NoneIsMissing == ASSUME NamesApart PROVE Spec => []NothingMissing
  <1>1. Init => MirrorInv
    BY DEF Init, MirrorInv, Locked, Owned, Fresh, Arrives
  <1>2. IInv /\ MirrorInv /\ [Next]_vars => MirrorInv'
    <2> SUFFICES ASSUME IInv, MirrorInv, [Next]_vars PROVE MirrorInv'
      OBVIOUS
    <2>1. CASE Next
      BY <2>1, DesktopdAssumption, NamesApart, LockMirrorInv, RestartMirrorInv, WorksMirrorInv,
         MirrorsMirrorInv, MainMirrorInv DEF Next
    <2>2. CASE UNCHANGED vars
      BY <2>2 DEF vars, dbpd, mutex, bus, main_thread, history, MirrorInv, Locked, Owned, Fresh,
                  Arrives, Coming, NewPending, Replaced, Says, MainWill
    <2> QED
      BY <2>1, <2>2
  <1>3. IInv /\ MirrorInv => NothingMissing
    <2> SUFFICES ASSUME IInv, MirrorInv, Settled,
                        NEW n \in Shown \ missed, dir[n] # Absent
                 PROVE  desktop[n] # Absent
      BY DEF NothingMissing
    <2>1. n \in Launcher
      BY DesktopdAssumption DEF Shown
    <2>2. Coming(n)
      BY <2>1 DEF MirrorInv, Arrives, Settled
    <2>3. ~NewPending(n)
      BY DEF NewPending, Settled
    <2> QED
      BY <2>1, <2>2, <2>3, DesktopdAssumption DEF Coming, MainWill, Settled
  <1> QED
    BY <1>1, <1>2, <1>3, Invariance, PTL DEF Spec
=============================================================================
