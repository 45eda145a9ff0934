-------------------------- MODULE MCDaemonThreads --------------------------
(* Instances of DaemonThreads for TLC                                      *)
EXTENDS DaemonThreads

\* Where main holds no mutex, mountwatch_init being done
Unlocked == {"wait", "lock", "handle", "apply", "sweep"}

\* The same, or at work under p->mutex
Working == {"wait", "applying", "sweeping"}
=============================================================================
