--------------------------- MODULE DaemonRestart ---------------------------
(***************************************************************************)
(* dbpd/state.c around dbpd/package.c: dbpd is stopped and started again   *)
(* while packages run.  state_dump writes the instances and the next token *)
(* to the state file, state_recover reads them back unless the system was  *)
(* booted in between.  The kernel keeps what is mounted while dbpd is away,*)
(* and loses it when the system is booted.                                 *)
(*                                                                         *)
(* The purgatory is not dumped, so a package that was in it stays mounted  *)
(* without an owner, and its next launch mounts it a second time, on top.  *)
(***************************************************************************)
EXTENDS PackageRun

CONSTANT MaxBoot   \* bound on the number of boots

ASSUME DaemonRestartAssumption == MaxBoot \in Nat \ {0}

VARIABLES
  up,           \* dbpd is running
  state_file,   \* dbp_config_struct.state_file: SystemBootup, RunCnt, Instances
  boot,         \* state_btime(): which boot this is
  client        \* the tokens that programs hold, with their packages

daemon == <<registered, instance, run_cnt, purgatory, todo>>
allvars == <<vars, up, state_file, boot, client>>

StateFile == [boot : Nat, run_cnt : Nat, instance : SUBSET Instance]

\* There is no state file, or none of this or a later boot
NoFile == [boot |-> 0, run_cnt |-> 0, instance |-> {}]

RestartTypeOK ==
  /\ TypeOK
  /\ up \in BOOLEAN
  /\ state_file \in StateFile
  /\ boot \in 1..MaxBoot
  /\ client \subseteq Nat \X Package
  /\ ~up => instance = {} /\ purgatory = {}

RestartInit ==
  /\ Init
  /\ up = TRUE
  /\ state_file = NoFile
  /\ boot = 1
  /\ client = {}

-----------------------------------------------------------------------------
(* dbpd at work                                                            *)

Successful(p) == RunShared(p) \/ RunRevived(p) \/ RunMounted(p)

\* A program launches a package and gets a token
Launch(p) ==
  /\ up
  /\ Successful(p)
  /\ client' = client \cup {<<run_cnt, p>>}
  /\ UNCHANGED <<up, state_file, boot>>

\* A program hands its token back
Return(t) ==
  /\ up
  /\ package_stop(t[1])
  /\ client' = client \ {t}
  /\ UNCHANGED <<up, state_file, boot>>

\* A program ends without handing its token back, or while dbpd is away
Abandon(t) ==
  /\ client' = client \ {t}
  /\ UNCHANGED <<vars, up, state_file, boot>>

\* Failed launches, the sweep, registrations
Serve ==
  /\ up
  /\ \/ \E p \in Package : RunFailed(p)
     \/ package_purgatory_check
     \/ \E e \in todo, result \in States \cup {0} : package_purgatory_reap(e, result)
     \/ RegistryChange
  /\ UNCHANGED <<up, state_file, boot, client>>

Others == OtherProgram /\ UNCHANGED <<up, state_file, boot, client>>

-----------------------------------------------------------------------------
(* Stopping and starting                                                   *)

\* What dbpd has in its memory is gone
MemoryLost ==
  /\ up' = FALSE
  /\ registered' = {}
  /\ instance' = {}
  /\ run_cnt' = 0
  /\ purgatory' = {}
  /\ todo' = {}

\* Defect: the devices are not written, and are -1 when the file is read
DumpWithoutLoop == [boot |-> boot, run_cnt |-> run_cnt,
                    instance |-> {[i EXCEPT !.loop = -1] : i \in instance}]

\* Defect: the loop over the instances ends one too early
DumpAllButLast == [boot |-> boot, run_cnt |-> run_cnt,
                   instance |-> {i \in instance : i.run_id + 1 < run_cnt}]

state_dump == [boot |-> boot, run_cnt |-> run_cnt, instance |-> instance]

\* The shutdown may interrupt a sweep
Shutdown ==
  /\ up
  /\ state_file' = state_dump
  /\ MemoryLost
  /\ UNCHANGED <<kernel, now, boot, client>>

\* Defect: the file is used whichever boot it is from
AnyFile == TRUE

FileIsOfThisBoot == state_file.boot = boot

\* Defect: RunCnt is not read
RecoverInstances ==
  /\ run_cnt' = 0
  /\ instance' = IF FileIsOfThisBoot THEN state_file.instance ELSE {}

\* The file stays where it is.
state_recover ==
  /\ run_cnt' = IF FileIsOfThisBoot THEN state_file.run_cnt ELSE 0
  /\ instance' = IF FileIsOfThisBoot THEN state_file.instance ELSE {}

Start ==
  /\ ~up
  /\ up' = TRUE
  /\ state_recover
  /\ UNCHANGED <<kernel, registered, purgatory, todo, now, state_file, boot, client>>

\* The system goes down, with dbpd or after it, and comes up again without it
Reboot ==
  /\ boot < MaxBoot
  /\ boot' = boot + 1
  /\ MemoryLost
  /\ loopdev' = [l \in Loop |-> Free]
  /\ img' = [p \in Package |-> << >>]
  /\ union' = [p \in Package |-> << >>]
  /\ client' = {}
  /\ UNCHANGED <<now, state_file>>

RestartNext ==
  \/ \E p \in Package : Launch(p)
  \/ \E t \in client : Return(t)
  \/ \E t \in client : Abandon(t)
  \/ Serve
  \/ Others
  \/ Shutdown
  \/ Start
  \/ Reboot

RestartSpec == RestartInit /\ [][RestartNext]_allvars

-----------------------------------------------------------------------------
(* Being killed                                                            *)

\* The part of a mount that was done when dbpd was killed
MountCutShort(p) ==
  /\ Unmounted(p)
  /\ p \in registered
  /\ \E l \in loop_available : DeviceLeft(p, l) \/ ImageLeft(p, l) \/ MountOk(p, l)

\* SIGKILL, which conf/init.d/dbp sends when dbpd takes too long to stop
Kill ==
  /\ up
  /\ UNCHANGED kernel \/ \E p \in Package : MountCutShort(p)
  /\ MemoryLost
  /\ UNCHANGED <<now, state_file, boot, client>>

KillSpec == RestartInit /\ [][RestartNext \/ Kill]_allvars

-----------------------------------------------------------------------------
(* Properties                                                              *)

\* The instances dbpd knows of, or will when it is started again
known == IF up THEN instance
         ELSE IF FileIsOfThisBoot THEN state_file.instance ELSE {}

\* Every token a program holds is good after any number of restarts: dbpd, or
\* the file it will read, has the instance (state_dump, state_recover).
TokensSurvive ==
  \A t \in client : \E i \in known : i.run_id = t[1] /\ i.package_id = t[2]

\* The package of every instance is mounted while dbpd is away and afterwards:
\* its union is the one programs see on union_mount/<id>, over its own image,
\* even when unmounts of other mounts of it were forgotten in a shutdown.
StillMounted ==
  \A i \in known :
    LET u == union[i.package_id]
    IN /\ loopdev[i.loop] = i.package_id
       /\ OnTop(i.package_id, i.loop)
       /\ u # << >> /\ u[Len(u)] = i.loop

RestartPromise == INSTANCE MountPromise WITH
  held    <- {<<i.run_id, i.package_id>> : i \in known},
  mounted <- {p \in Package : union[p] # << >>},
  issued  <- IF up THEN run_cnt ELSE IF FileIsOfThisBoot THEN state_file.run_cnt ELSE 0

\* Restarts cannot be noticed by programs: as long as the system stays up, dbpd
\* keeps the same promise as if it had never been stopped.
RestartsUnnoticed ==
  /\ RestartPromise!Init
  /\ [][boot' = boot => RestartPromise!Next \/ UNCHANGED RestartPromise!promise]_allvars

\* A program that holds a token has the package mounted.  A state file that is
\* stale is ignored (state.c:118).
HoldersMounted == \A t \in client : union[t[2]] # << >>
=============================================================================
