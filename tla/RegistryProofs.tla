-------------------------- MODULE RegistryProofs --------------------------
(***************************************************************************)
(* Proofs about Registry for every set of package files, with colliding    *)
(* ids, launchers and executables.                                         *)
(***************************************************************************)
EXTENDS Registry, SequenceTheorems, TLAPS

\* An id followed by a file name begins with that id.
LEMMA OwnPrefix ==
  ASSUME RegistryAssumption, NEW f \in File, NEW n \in LauncherNames(f)
  PROVE  n \in Seq(Word) /\ HasPrefix(n, Id[f])
  <1>1. PICK m \in Launchers[f] : n = Id[f] \o m
    BY DEF LauncherNames, NamesOf
  <1>2. Id[f] \in Seq(Word) /\ m \in Seq(Word) /\ m # << >>
    BY DEF RegistryAssumption
  <1>3. Len(Id[f]) \in Nat /\ Len(m) \in Nat \ {0}
    BY <1>2, LenProperties, EmptySeq
  <1>4. n \in Seq(Word) /\ Len(n) = Len(Id[f]) + Len(m)
    BY <1>1, <1>2, ConcatProperties
  <1>5. \A i \in 1..Len(Id[f]) : n[i] = Id[f][i]
    BY <1>1, <1>2, ConcatProperties
  <1>6. SubSeq(n, 1, Len(Id[f])) = Id[f]
    <2> DEFINE s == SubSeq(n, 1, Len(Id[f]))
    <2>1. \A i \in 1..Len(Id[f]) : n[i] \in Word
      BY <1>2, <1>5, LenProperties
    <2>2. /\ s \in Seq(Word)
          /\ Len(s) = IF 1 <= Len(Id[f]) THEN Len(Id[f]) - 1 + 1 ELSE 0
          /\ \A i \in 1..(Len(Id[f]) - 1 + 1) : s[i] = n[1 + i - 1]
      BY <1>3, <2>1, SubSeqProperties
    <2>3. Len(s) = Len(Id[f]) /\ \A i \in 1..Len(s) : s[i] = Id[f][i]
      BY <1>3, <1>5, <2>2
    <2> HIDE DEF s
    <2>4. s = Id[f]
      BY <1>2, <2>2, <2>3, SeqEqual
    <2> QED
      BY <2>4 DEF s
  <1> QED
    BY <1>3, <1>4, <1>6 DEF HasPrefix

-----------------------------------------------------------------------------
(* The inductive invariant: launchers are the writer's own, so releasing   *)
(* the writer removes them; and scripts belong to exactly one entry.       *)

LaunchersNamed == \A n \in DOMAIN launcher : n \in LauncherNames(launcher[n])

IInv ==
  /\ TypeOK
  /\ LaunchersNamed
  /\ NoStaleLauncher
  /\ ~started => crawling = {} /\ doomed = {}

\* The initial states satisfy it.
LEMMA InitIInv ==
  ASSUME RegistryAssumption, Init
  PROVE  IInv
  <1>1. faults \in 0..MaxFaults
    BY DEF Init, RegistryAssumption
  <1>2. started \in BOOLEAN /\ present \subseteq File
    BY DEF Init
  <1>3. TypeOK
    BY <1>1, <1>2 DEF Init, TypeOK, Empty, Registered
  <1> QED
    BY <1>3 DEF Init, IInv, LaunchersNamed, NoStaleLauncher, Empty, Registered

\* What an accepted package leaves behind, if those launchers could be opened, those
\* scripts written and those launchers finished
Accepted(f, opened, emitted, whole) ==
  LET names == NamesOf(f, opened)
      exec == package_meta_exec_export(f, opened)
  IN /\ entry' = [g \in Registered \cup {f} |-> IF g = f THEN exec ELSE entry[g]]
     /\ launcher' = [n \in DOMAIN launcher \cup names |->
                       IF n \in names THEN f ELSE launcher[n]]
     /\ script' = [x \in DOMAIN script \cup emitted |->
                       IF x \in emitted THEN Id[f] ELSE script[x]]
     /\ cut' = IF whole /\ opened = Launchers[f] THEN cut ELSE cut \cup {f}
     /\ spoiled' = spoiled \cup (exec \ emitted)
     /\ kept' = kept \ names

\* A package is accepted, or nothing changes.
LEMMA Registers ==
  ASSUME RegistryAssumption, TypeOK, NEW f \in File, package_register(f)
  PROVE  /\ faults' \in 0..MaxFaults
         /\ \/ UNCHANGED <<entry, launcher, script, cut, spoiled, kept>>
            \/ /\ package_add_accepts(f)
               /\ \E opened \in SUBSET Launchers[f] :
                  \E emitted \in SUBSET package_meta_exec_export(f, opened), whole \in BOOLEAN :
                    Accepted(f, opened, emitted, whole)
  <1>1. CASE UNCHANGED <<entry, launcher, script, suffered>>
    BY <1>1 DEF suffered, TypeOK
  <1>2. CASE ~UNCHANGED <<entry, launcher, script, suffered>>
    <2>1. package_add_accepts(f)
      BY <1>2, Zenon DEF package_register
    <2>2. PICK opened \in SUBSET Launchers[f] :
            \E emitted \in SUBSET package_meta_exec_export(f, opened), whole \in BOOLEAN :
              /\ Fault(\/ opened # Launchers[f] \/ ~whole
                       \/ emitted # package_meta_exec_export(f, opened))
              /\ Accepted(f, opened, emitted, whole)
      BY <1>2, Zenon DEF package_register, Accepted
    <2>3. faults' \in 0..MaxFaults
      BY <2>2 DEF Fault, TypeOK, RegistryAssumption
    <2> QED
      BY <2>1, <2>2, <2>3
  <1> QED
    BY <1>1, <1>2

\* What a package exports
LEMMA Exports ==
  ASSUME RegistryAssumption, NEW f \in File, NEW opened \in SUBSET Launchers[f]
  PROVE  /\ package_meta_exec_export(f, opened) \subseteq Executable \ DOMAIN script
         /\ NamesOf(f, opened) \subseteq LauncherNames(f)
  <1>1. \A n \in opened : Executables[f][n] \subseteq Executable
    BY DEF RegistryAssumption
  <1> QED
    BY <1>1 DEF package_meta_exec_export, NamesOf, LauncherNames

\* Registering a package, whether or not it is accepted
LEMMA RegisterIInv ==
  ASSUME RegistryAssumption, IInv, NEW f \in File, package_register(f),
         UNCHANGED <<started, present, doomed>>,
         crawling' \subseteq crawling
  PROVE  IInv'
  <1>1. CASE UNCHANGED <<entry, launcher, script, cut, spoiled, kept>>
    BY <1>1, Registers DEF IInv, TypeOK, LaunchersNamed, NoStaleLauncher, Registered
  <1>2. CASE ~UNCHANGED <<entry, launcher, script, cut, spoiled, kept>>
    <2>1. PICK opened \in SUBSET Launchers[f] :
            \E emitted \in SUBSET package_meta_exec_export(f, opened), whole \in BOOLEAN :
              Accepted(f, opened, emitted, whole)
      BY <1>2, Registers, Zenon DEF IInv
    <2>2. PICK emitted \in SUBSET package_meta_exec_export(f, opened), whole \in BOOLEAN :
            Accepted(f, opened, emitted, whole)
      BY <2>1
    <2> DEFINE exec == package_meta_exec_export(f, opened)
               names == NamesOf(f, opened)
    <2>3. /\ entry' = [g \in Registered \cup {f} |-> IF g = f THEN exec ELSE entry[g]]
          /\ launcher' = [n \in DOMAIN launcher \cup names |->
                            IF n \in names THEN f ELSE launcher[n]]
          /\ script' = [x \in DOMAIN script \cup emitted |->
                            IF x \in emitted THEN Id[f] ELSE script[x]]
          /\ cut' \subseteq cut \cup {f}
          /\ spoiled' = spoiled \cup (exec \ emitted)
          /\ kept' = kept \ names
      BY <2>2 DEF Accepted
    <2>4. exec \subseteq Executable /\ emitted \subseteq Executable /\ Id[f] \in Seq(Word)
      BY Exports DEF RegistryAssumption
    <2>5. \A n \in names : n \in Seq(Word) /\ n \in LauncherNames(f)
      BY OwnPrefix, Exports
    <2> HIDE DEF exec, names
    <2>6. Registered' = Registered \cup {f}
      BY <2>3 DEF Registered
    <2>7. \A g \in Registered' : entry'[g] \subseteq Executable
      BY <2>3, <2>4, <2>6 DEF IInv, TypeOK
    <2>8. /\ DOMAIN launcher' \subseteq Seq(Word)
          /\ \A n \in DOMAIN launcher' : launcher'[n] \in File
          /\ kept' \subseteq DOMAIN launcher'
      BY <2>3, <2>5 DEF IInv, TypeOK
    <2>9. /\ DOMAIN script' \subseteq Executable
          /\ \A x \in DOMAIN script' : script'[x] \in Seq(Word)
          /\ spoiled' \subseteq Executable
      BY <2>3, <2>4 DEF IInv, TypeOK
    <2>10. TypeOK'
      BY <2>3, <2>6, <2>7, <2>8, <2>9, Registers DEF IInv, TypeOK
    <2>11. LaunchersNamed'
      BY <2>3, <2>5 DEF IInv, LaunchersNamed
    <2>12. NoStaleLauncher'
      BY <2>3, <2>6 DEF IInv, NoStaleLauncher
    <2> QED
      BY <2>10, <2>11, <2>12 DEF IInv
  <1> QED
    BY <1>1, <1>2

\* What a release removes: the launchers that begin with the id, or none of them.
LEMMA Kills ==
  ASSUME RegistryAssumption, TypeOK, NEW f \in Registered, package_kill(f)
  PROVE  /\ faults' \in 0..MaxFaults
         /\ Registered' = Registered \ {f}
         /\ \E removed \in {package_meta_remove(f), {}} :
              /\ launcher' = [n \in DOMAIN launcher \ removed |-> launcher[n]]
              /\ kept' = (kept \cup package_meta_remove(f)) \ removed
         /\ script' = [x \in DOMAIN script \ entry[f] |-> script[x]]
         /\ entry' = [g \in Registered \ {f} |-> entry[g]]
         /\ cut' = cut \ {f}
         /\ spoiled' = {x \in spoiled : \E g \in Registered \ {f} : x \in entry[g]}
  <1>1. entry' = [g \in Registered \ {f} |-> entry[g]]
    BY DEF package_kill
  <1>2. Registered' = Registered \ {f}
    BY <1>1 DEF Registered
  <1>3. faults' \in 0..MaxFaults
    BY DEF package_kill, Fault, TypeOK, RegistryAssumption
  <1> QED
    BY <1>1, <1>2, <1>3 DEF package_kill

\* Releasing a registered package
LEMMA KillIInv ==
  ASSUME RegistryAssumption, IInv, NEW f \in Registered, package_kill(f),
         UNCHANGED <<started, present, crawling>>,
         doomed' \subseteq doomed \ {f}
  PROVE  IInv'
  <1>1. /\ faults' \in 0..MaxFaults
        /\ Registered' = Registered \ {f}
        /\ script' = [x \in DOMAIN script \ entry[f] |-> script[x]]
        /\ entry' = [g \in Registered \ {f} |-> entry[g]]
        /\ cut' = cut \ {f} /\ spoiled' \subseteq spoiled
    BY Kills DEF IInv
  <1>2. PICK removed \in {package_meta_remove(f), {}} :
          /\ launcher' = [n \in DOMAIN launcher \ removed |-> launcher[n]]
          /\ kept' = (kept \cup package_meta_remove(f)) \ removed
    BY Kills DEF IInv
  <1>3. package_meta_remove(f) \subseteq DOMAIN launcher
    BY DEF package_meta_remove
  <1>4. TypeOK'
    <2>1. /\ DOMAIN launcher' \subseteq Seq(Word)
          /\ \A n \in DOMAIN launcher' : launcher'[n] \in File
          /\ kept' \subseteq DOMAIN launcher'
      BY <1>2, <1>3 DEF IInv, TypeOK
    <2> QED
      BY <1>1, <2>1 DEF IInv, TypeOK
  <1>5. LaunchersNamed'
    BY <1>2 DEF IInv, LaunchersNamed
  <1>6. \A n \in DOMAIN launcher' \ kept' : launcher'[n] # f /\ n \notin kept
    <2>1. SUFFICES ASSUME NEW n \in DOMAIN launcher' \ kept'
                   PROVE  launcher'[n] # f /\ n \notin kept
      OBVIOUS
    <2>2. n \in DOMAIN launcher /\ launcher'[n] = launcher[n] /\ n \notin removed
          /\ n \notin package_meta_remove(f) /\ n \notin kept
      BY <1>2, <2>1
    <2>3. ~HasPrefix(n, Id[f])
      BY <2>2 DEF package_meta_remove
    <2>4. n \in LauncherNames(launcher[n]) /\ f \in File
      BY <2>2 DEF IInv, LaunchersNamed, TypeOK
    <2> QED
      BY <2>2, <2>3, <2>4, OwnPrefix
  <1>7. NoStaleLauncher'
    BY <1>1, <1>2, <1>6 DEF IInv, NoStaleLauncher
  <1> QED
    BY <1>4, <1>5, <1>7 DEF IInv

\* Every step keeps the invariant.
LEMMA NextIInv ==
  ASSUME RegistryAssumption, IInv, [Next]_vars
  PROVE  IInv'
  <1>1. CASE UNCHANGED <<entry, launcher, script, started, cut, spoiled, kept>>
             /\ crawling' \subseteq File /\ faults' \in 0..MaxFaults
             /\ present' \subseteq File /\ doomed' \subseteq Registered
             /\ (~started => crawling' = {} /\ doomed' = {})
    BY <1>1 DEF IInv, TypeOK, LaunchersNamed, NoStaleLauncher, Registered
  <1>2. CASE UNCHANGED vars
    BY <1>1, <1>2 DEF vars, suffered, IInv, TypeOK
  <1>3. ASSUME NEW f \in File, package_register_path(f) PROVE IInv'
    BY <1>3, RegisterIInv DEF package_register_path
  <1>4. ASSUME NEW d \in Device, package_crawl_mount(d) PROVE IInv'
    BY <1>1, <1>4 DEF package_crawl_mount, Fault, RegistryAssumption, IInv, TypeOK
  <1>5. ASSUME NEW f \in File, CrawlNext(f) PROVE IInv'
    BY <1>5, RegisterIInv DEF CrawlNext
  <1>6. ASSUME NEW f \in File, package_release_path(f) PROVE IInv'
    <2>1. CASE f \in Registered
      BY <1>6, <2>1, KillIInv DEF package_release_path, MutexFree
    <2>2. CASE f \notin Registered
      BY <1>1, <1>6, <2>2 DEF package_release_path, suffered, IInv, TypeOK
    <2> QED
      BY <2>1, <2>2
  <1>7. ASSUME NEW d \in Device, package_release_mount(d) PROVE IInv'
    BY <1>1, <1>7 DEF package_release_mount, suffered, IInv, TypeOK
  <1>8. ASSUME NEW f \in File, ReleaseNext(f) PROVE IInv'
    BY <1>8, KillIInv DEF ReleaseNext, IInv, TypeOK
  <1>9. CASE daemon_nuke
    BY <1>9 DEF daemon_nuke, IInv, TypeOK, LaunchersNamed, NoStaleLauncher, Empty, Registered
  <1>10. CASE Restart
    BY <1>10 DEF Restart, IInv, TypeOK, LaunchersNamed, NoStaleLauncher, Empty, Registered
  <1>11. ASSUME NEW f \in File, FileChange(f) PROVE IInv'
    BY <1>1, <1>11 DEF FileChange, suffered, IInv, TypeOK
  <1> QED
    BY <1>2, <1>3, <1>4, <1>5, <1>6, <1>7, <1>8, <1>9, <1>10, <1>11 DEF Next

\* Registry never leaves its inductive invariant.
THEOREM Invariance == Spec => []IInv
  <1>1. Init => IInv
    BY RegistryAssumption, InitIInv
  <1>2. IInv /\ [Next]_vars => IInv'
    BY RegistryAssumption, NextIInv
  <1> QED
    BY <1>1, <1>2, PTL DEF Spec

\* Every variable keeps its type; the release of a mount is never left with a package
\* that is not registered any more.
THEOREM TypeCorrect == Spec => []TypeOK
  <1>1. IInv => TypeOK
    BY DEF IInv
  <1> QED
    BY <1>1, Invariance, PTL

\* No launcher outlives its package, even when ids extend one another and
\* packages overwrite each other's launchers.
THEOREM LaunchersFresh == Spec => []NoStaleLauncher
  <1>1. IInv => NoStaleLauncher
    BY DEF IInv
  <1> QED
    BY <1>1, Invariance, PTL

-----------------------------------------------------------------------------
(* Scripts                                                                 *)

\* Before the directories are cleared nothing is registered, unless programs
\* are allowed to be early.
ScriptInv ==
  /\ ScriptsOwned
  /\ ~started /\ ~EarlyRequests => Registered = {}

\* An accepted package takes only scripts nobody has.
LEMMA RegisterScripts ==
  ASSUME RegistryAssumption, IInv, ScriptInv, NEW f \in File, package_register(f),
         started, UNCHANGED started
  PROVE  ScriptInv'
  <1> SUFFICES ASSUME ~EarlyRequests PROVE ScriptInv'
    BY DEF ScriptInv, ScriptsOwned
  <1>1. /\ \A x \in DOMAIN script : \E g \in Registered : x \in entry[g] /\ script[x] = Id[g]
        /\ \A g \in Registered : entry[g] \ spoiled \subseteq DOMAIN script
        /\ \A g, h \in Registered : g # h => entry[g] \cap entry[h] \subseteq spoiled
    BY DEF ScriptInv, ScriptsOwned
  <1>2. CASE UNCHANGED <<entry, launcher, script, cut, spoiled, kept>>
    BY <1>1, <1>2 DEF ScriptInv, ScriptsOwned, Registered
  <1>3. CASE ~UNCHANGED <<entry, launcher, script, cut, spoiled, kept>>
    <2>1. PICK opened \in SUBSET Launchers[f] :
            \E emitted \in SUBSET package_meta_exec_export(f, opened), whole \in BOOLEAN :
              Accepted(f, opened, emitted, whole)
      BY <1>3, Registers, Zenon DEF IInv
    <2>2. PICK emitted \in SUBSET package_meta_exec_export(f, opened), whole \in BOOLEAN :
            Accepted(f, opened, emitted, whole)
      BY <2>1
    <2> DEFINE exec == package_meta_exec_export(f, opened)
    <2>3. /\ entry' = [g \in Registered \cup {f} |-> IF g = f THEN exec ELSE entry[g]]
          /\ script' = [x \in DOMAIN script \cup emitted |->
                            IF x \in emitted THEN Id[f] ELSE script[x]]
          /\ spoiled' = spoiled \cup (exec \ emitted)
      BY <2>2 DEF Accepted
    <2>4. exec \cap DOMAIN script = {} /\ emitted \subseteq exec
      BY Exports
    <2>5. f \notin Registered
      BY <1>3, Registers DEF package_add_accepts, IInv
    <2> HIDE DEF exec
    <2>6. Registered' = Registered \cup {f}
      BY <2>3 DEF Registered
    <2>7. ASSUME NEW x \in DOMAIN script'
          PROVE  \E g \in Registered' : x \in entry'[g] /\ script'[x] = Id[g]
      <3>1. CASE x \in emitted
        BY <2>3, <2>4, <2>6, <3>1
      <3>2. CASE x \notin emitted
        <4>1. x \in DOMAIN script /\ script'[x] = script[x]
          BY <2>3, <2>7, <3>2
        <4>2. PICK g \in Registered : x \in entry[g] /\ script[x] = Id[g]
          BY <1>1, <4>1
        <4>3. entry'[g] = entry[g]
          BY <2>3, <2>5, <4>2
        <4> QED
          BY <2>6, <4>1, <4>2, <4>3
      <3> QED
        BY <3>1, <3>2
    <2>8. \A g \in Registered' : entry'[g] \ spoiled' \subseteq DOMAIN script'
      BY <1>1, <2>3, <2>6
    <2>9. ASSUME NEW g \in Registered', NEW h \in Registered', g # h
          PROVE  entry'[g] \cap entry'[h] \subseteq spoiled'
      <3>1. \A k \in Registered : exec \cap entry[k] \subseteq spoiled
        BY <1>1, <2>4
      <3> QED
        BY <1>1, <2>3, <2>6, <2>9, <3>1
    <2> QED
      BY <2>7, <2>8, <2>9 DEF ScriptInv, ScriptsOwned
  <1> QED
    BY <1>2, <1>3

\* A release deletes the scripts of its own package and no others.
LEMMA KillScripts ==
  ASSUME RegistryAssumption, IInv, ScriptInv, NEW f \in Registered, package_kill(f),
         started, UNCHANGED started
  PROVE  ScriptInv'
  <1> SUFFICES ASSUME ~EarlyRequests PROVE ScriptInv'
    BY DEF ScriptInv, ScriptsOwned
  <1>1. /\ \A x \in DOMAIN script : \E g \in Registered : x \in entry[g] /\ script[x] = Id[g]
        /\ \A g \in Registered : entry[g] \ spoiled \subseteq DOMAIN script
        /\ \A g, h \in Registered : g # h => entry[g] \cap entry[h] \subseteq spoiled
    BY DEF ScriptInv, ScriptsOwned
  <1>2. /\ script' = [x \in DOMAIN script \ entry[f] |-> script[x]]
        /\ entry' = [g \in Registered \ {f} |-> entry[g]]
        /\ Registered' = Registered \ {f}
        /\ spoiled' = {x \in spoiled : \E g \in Registered \ {f} : x \in entry[g]}
    BY Kills DEF IInv
  <1>3. ASSUME NEW x \in DOMAIN script'
        PROVE  \E g \in Registered' : x \in entry'[g] /\ script'[x] = Id[g]
    <2>1. x \in DOMAIN script /\ x \notin entry[f] /\ script'[x] = script[x]
      BY <1>2
    <2>2. PICK g \in Registered : x \in entry[g] /\ script[x] = Id[g]
      BY <1>1, <2>1
    <2>3. g # f
      BY <2>1, <2>2
    <2> QED
      BY <1>2, <2>1, <2>2, <2>3
  <1>4. ASSUME NEW g \in Registered', NEW x \in entry'[g], x \notin spoiled'
        PROVE  x \in DOMAIN script'
    <2>1. entry'[g] = entry[g] /\ g \in Registered \ {f}
      BY <1>2, <1>4
    <2>2. x \notin spoiled
      BY <1>2, <1>4, <2>1
    <2>3. x \in DOMAIN script /\ x \notin entry[f]
      BY <1>1, <1>4, <2>1, <2>2
    <2> QED
      BY <1>2, <2>3
  <1>5. ASSUME NEW g \in Registered', NEW h \in Registered', g # h
        PROVE  entry'[g] \cap entry'[h] \subseteq spoiled'
    <2>1. /\ entry'[g] = entry[g] /\ entry'[h] = entry[h]
          /\ g \in Registered \ {f} /\ h \in Registered \ {f}
      BY <1>2, <1>5
    <2> QED
      BY <1>1, <1>2, <1>5, <2>1
  <1> QED
    BY <1>3, <1>4, <1>5 DEF ScriptInv, ScriptsOwned

\* Every step keeps the ownership of scripts.
LEMMA NextScripts ==
  ASSUME RegistryAssumption, IInv, ScriptInv, [Next]_vars
  PROVE  ScriptInv'
  <1>1. CASE EarlyRequests
    BY <1>1 DEF ScriptInv, ScriptsOwned
  <1>2. CASE ~EarlyRequests
    <2>1. CASE UNCHANGED <<entry, script, spoiled, started>>
      BY <2>1 DEF ScriptInv, ScriptsOwned, Registered
    <2>2. ASSUME NEW f \in File, package_register_path(f) PROVE ScriptInv'
      BY <1>2, <2>2, RegisterScripts DEF package_register_path, DBusMayCall
    <2>3. ASSUME NEW f \in File, CrawlNext(f) PROVE ScriptInv'
      BY <2>3, RegisterScripts DEF CrawlNext, IInv
    <2>4. ASSUME NEW f \in File, package_release_path(f) PROVE ScriptInv'
      BY <1>2, <2>1, <2>4, KillScripts DEF package_release_path, DBusMayCall, suffered
    <2>5. ASSUME NEW f \in File, ReleaseNext(f) PROVE ScriptInv'
      BY <2>5, KillScripts DEF ReleaseNext, IInv, TypeOK
    <2>6. CASE daemon_nuke
      BY <1>2, <2>6 DEF daemon_nuke, ScriptInv, ScriptsOwned, Empty, Registered
    <2>7. CASE Restart
      BY <2>7 DEF Restart, ScriptInv, ScriptsOwned, Empty, Registered
    <2> QED
      BY <2>1, <2>2, <2>3, <2>4, <2>5, <2>6, <2>7
      DEF Next, vars, suffered, package_crawl_mount, package_release_mount, FileChange
  <1> QED
    BY <1>1, <1>2

\* Every script has a package to answer for it, exactly one if no script of that name
\* ever failed to be written (package.c 185-194, 255-258).
THEOREM ScriptsHaveOneOwner == Spec => []ScriptsOwned
  <1>1. Init => ScriptInv
    BY DEF Init, ScriptInv, ScriptsOwned, Empty, Registered
  <1>2. IInv /\ ScriptInv /\ [Next]_vars => ScriptInv'
    BY RegistryAssumption, NextScripts
  <1>3. ScriptInv => ScriptsOwned
    BY DEF ScriptInv
  <1> QED
    BY <1>1, <1>2, <1>3, Invariance, PTL DEF Spec

-----------------------------------------------------------------------------
(* Completeness of the launchers                                           *)

\* If a launcher of one package begins with the id of another, the ids are the
\* same or one extends the other.
LEMMA SharedName ==
  ASSUME RegistryAssumption, NEW f \in File, NEW g \in File, NEW n \in LauncherNames(f),
         HasPrefix(n, Id[g])
  PROVE  Id[f] = Id[g] \/ Related(Id[f], Id[g])
  <1> DEFINE i == Id[f]
             j == Id[g]
  <1>1. i \in Seq(Word) /\ j \in Seq(Word) /\ n \in Seq(Word)
    BY OwnPrefix DEF RegistryAssumption
  <1>2. Len(i) \in Nat /\ Len(j) \in Nat /\ Len(n) \in Nat
    BY <1>1, LenProperties
  <1>3. /\ Len(i) < Len(n) /\ SubSeq(n, 1, Len(i)) = i
        /\ Len(j) < Len(n) /\ SubSeq(n, 1, Len(j)) = j
    BY OwnPrefix DEF HasPrefix
  <1> HIDE DEF i, j
  <1>4. \A k \in 1..Len(n) : n[k] \in Word
    BY <1>1, ElementOfSeq
  <1>5. ASSUME NEW p \in Seq(Word), NEW q \in Seq(Word), Len(p) <= Len(q), Len(q) < Len(n),
               SubSeq(n, 1, Len(p)) = p, SubSeq(n, 1, Len(q)) = q
        PROVE  SubSeq(q, 1, Len(p)) = p
    <2>1. Len(p) \in Nat /\ Len(q) \in Nat
      BY <1>5, LenProperties
    <2>2. \A k \in 1..Len(p) : p[k] = n[k]
      BY <1>2, <1>4, <1>5, <2>1, SubSeqProperties
    <2>3. \A k \in 1..Len(q) : q[k] = n[k]
      BY <1>2, <1>4, <1>5, <2>1, SubSeqProperties
    <2>4. /\ SubSeq(q, 1, Len(p)) \in Seq(Word)
          /\ Len(SubSeq(q, 1, Len(p))) = Len(p)
          /\ \A k \in 1..Len(p) : SubSeq(q, 1, Len(p))[k] = q[k]
      <3>1. \A k \in 1..Len(p) : q[k] \in Word
        BY <1>2, <1>4, <1>5, <2>1, <2>3
      <3> QED
        BY <2>1, <3>1, SubSeqProperties
    <2> DEFINE t == SubSeq(q, 1, Len(p))
    <2>5. t \in Seq(Word) /\ Len(t) = Len(p)
      BY <2>4
    <2>6. \A k \in 1..Len(p) : t[k] = p[k]
      <3>1. Len(p) <= Len(q)
        BY <1>5
      <3> QED
        BY <3>1, <2>1, <2>2, <2>3, <2>4
    <2> HIDE DEF t
    <2>7. t = p
      BY <2>5, <2>6, SeqEqual
    <2> QED
      BY <2>7 DEF t
  <1>6. CASE Len(i) = Len(j)
    BY <1>3, <1>6 DEF i, j
  <1>7. CASE Len(i) < Len(j)
    <2>1. SubSeq(j, 1, Len(i)) = i
      BY <1>1, <1>2, <1>3, <1>5, <1>7
    <2> QED
      BY <1>7, <2>1 DEF Related, HasPrefix, i, j
  <1>8. CASE Len(j) < Len(i)
    <2>1. SubSeq(i, 1, Len(j)) = j
      BY <1>1, <1>2, <1>3, <1>5, <1>8
    <2> QED
      BY <1>8, <2>1 DEF Related, HasPrefix, i, j
  <1> QED
    BY <1>2, <1>6, <1>7, <1>8

\* Each id is registered once; and before the directories are cleared there is
\* nothing to be complete, unless programs are allowed to be early.
CompleteInv ==
  /\ LaunchersComplete
  /\ \A f, g \in Registered : Id[f] = Id[g] => f = g
  /\ ~started /\ ~EarlyRequests => Registered = {}

Alone(f) == \A g \in File : ~Related(Id[f], Id[g])

\* Whoever is registered writes none of the launchers of a package that is alone.
LEMMA RegisterComplete ==
  ASSUME RegistryAssumption, IInv, CompleteInv, NEW f \in File, package_register(f),
         started \/ EarlyRequests, UNCHANGED started
  PROVE  CompleteInv'
  <1>1. CASE UNCHANGED <<entry, launcher, script, cut, spoiled, kept>>
    BY <1>1 DEF CompleteInv, LaunchersComplete, Registered
  <1>2. CASE ~UNCHANGED <<entry, launcher, script, cut, spoiled, kept>>
    <2>1. PICK opened \in SUBSET Launchers[f] :
            \E emitted \in SUBSET package_meta_exec_export(f, opened), whole \in BOOLEAN :
              Accepted(f, opened, emitted, whole)
      BY <1>2, Registers, Zenon DEF IInv
    <2> DEFINE names == NamesOf(f, opened)
    <2>2. /\ DOMAIN entry' = Registered \cup {f}
          /\ launcher' = [n \in DOMAIN launcher \cup names |->
                            IF n \in names THEN f ELSE launcher[n]]
          /\ cut \subseteq cut'
          /\ f \notin cut' => names = LauncherNames(f)
      BY <2>1 DEF Accepted, LauncherNames
    <2>3. names \subseteq LauncherNames(f)
      BY Exports
    <2> HIDE DEF names
    <2>4. Registered' = Registered \cup {f}
      BY <2>2 DEF Registered
    <2>5. \A g \in Registered : Id[g] # Id[f]
      BY <1>2, Registers DEF package_add_accepts, IInv
    <2>6. \A g, h \in Registered' : Id[g] = Id[h] => g = h
      BY <2>4, <2>5 DEF CompleteInv
    <2>7. ASSUME started, ~EarlyRequests, NEW g \in Registered' \ cut', Alone(g),
                 NEW n \in LauncherNames(g)
          PROVE  n \in DOMAIN launcher' /\ launcher'[n] = g
      <3>1. CASE g = f
        BY <2>2, <2>7, <3>1
      <3>2. CASE g # f
        <4>1. g \in Registered \ cut /\ g \in File
          BY <2>2, <2>4, <2>7, <3>2 DEF IInv, TypeOK
        <4>2. n \in DOMAIN launcher /\ launcher[n] = g
          BY <2>7, <4>1 DEF CompleteInv, LaunchersComplete, Alone
        <4>3. n \notin LauncherNames(f)
          BY <2>5, <2>7, <4>1, OwnPrefix, SharedName DEF Alone
        <4> QED
          BY <2>2, <2>3, <4>2, <4>3
      <3> QED
        BY <3>1, <3>2
    <2> QED
      BY <2>6, <2>7 DEF CompleteInv, LaunchersComplete, Alone
  <1> QED
    BY <1>1, <1>2

\* Whoever is released takes none of them away.
LEMMA KillComplete ==
  ASSUME RegistryAssumption, IInv, CompleteInv, NEW f \in Registered, package_kill(f),
         UNCHANGED started
  PROVE  CompleteInv'
  <1>1. PICK removed \in {package_meta_remove(f), {}} :
          launcher' = [n \in DOMAIN launcher \ removed |-> launcher[n]]
    BY Kills DEF IInv
  <1>2. Registered' = Registered \ {f} /\ cut' = cut \ {f}
    BY Kills DEF IInv
  <1>3. ASSUME started, ~EarlyRequests, NEW g \in Registered' \ cut', Alone(g),
               NEW n \in LauncherNames(g)
        PROVE  n \in DOMAIN launcher' /\ launcher'[n] = g
    <2>1. g \in Registered \ cut /\ g # f /\ g \in File /\ f \in File
      BY <1>2, <1>3 DEF IInv, TypeOK
    <2>2. n \in DOMAIN launcher /\ launcher[n] = g
      BY <1>3, <2>1 DEF CompleteInv, LaunchersComplete, Alone
    <2>3. Id[g] # Id[f]
      BY <2>1 DEF CompleteInv
    <2>4. ~HasPrefix(n, Id[f])
      BY <1>3, <2>1, <2>3, SharedName DEF Alone
    <2> QED
      BY <1>1, <2>2, <2>4 DEF package_meta_remove
  <1>4. \A g, h \in Registered' : Id[g] = Id[h] => g = h
    BY <1>2 DEF CompleteInv
  <1>5. ~started' /\ ~EarlyRequests => Registered' = {}
    BY <1>2 DEF CompleteInv
  <1> QED
    BY <1>3, <1>4, <1>5 DEF CompleteInv, LaunchersComplete, Alone

\* Every step keeps the launchers complete.
LEMMA NextComplete ==
  ASSUME RegistryAssumption, IInv, CompleteInv, [Next]_vars
  PROVE  CompleteInv'
  <1>1. CASE UNCHANGED <<entry, launcher, cut, started>>
    BY <1>1 DEF CompleteInv, LaunchersComplete, Registered
  <1>2. ASSUME NEW f \in File, package_register_path(f) PROVE CompleteInv'
    BY <1>2, RegisterComplete DEF package_register_path, DBusMayCall
  <1>3. ASSUME NEW f \in File, CrawlNext(f) PROVE CompleteInv'
    BY <1>3, RegisterComplete DEF CrawlNext, IInv
  <1>4. ASSUME NEW f \in File, package_release_path(f) PROVE CompleteInv'
    BY <1>1, <1>4, KillComplete DEF package_release_path, suffered
  <1>5. ASSUME NEW f \in File, ReleaseNext(f) PROVE CompleteInv'
    BY <1>5, KillComplete DEF ReleaseNext, IInv, TypeOK
  <1>6. CASE daemon_nuke
    BY <1>6 DEF daemon_nuke, CompleteInv, LaunchersComplete, Registered
  <1>7. CASE Restart
    BY <1>7 DEF Restart, CompleteInv, LaunchersComplete, Empty, Registered
  <1> QED
    BY <1>1, <1>2, <1>3, <1>4, <1>5, <1>6, <1>7
    DEF Next, vars, suffered, package_crawl_mount, package_release_mount, FileChange

\* A package whose id no other id extends, and whose launchers could be written, has
\* them all, with its own content, whatever the others do (package.c:456).
THEOREM AloneIsComplete == Spec => []LaunchersComplete
  <1>1. Init => CompleteInv
    BY DEF Init, CompleteInv, LaunchersComplete, Empty, Registered
  <1>2. IInv /\ CompleteInv /\ [Next]_vars => CompleteInv'
    BY RegistryAssumption, NextComplete
  <1>3. CompleteInv => LaunchersComplete
    BY DEF CompleteInv
  <1> QED
    BY <1>1, <1>2, <1>3, Invariance, PTL DEF Spec
=============================================================================
