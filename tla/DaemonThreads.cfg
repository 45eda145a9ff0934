\* The threads with a shutdown that finds the main thread anywhere it holds no
\* mutex, once mountwatch_init is done
CONSTANTS
  SignalAt <- Unlocked
  OpenMayFail = TRUE
  MaxChanged = 2
SPECIFICATION FairSpec
INVARIANTS
  TypeOK
  DumpAlone
  DirAwaited
PROPERTIES
  ShutdownSaves
  EventsRead
  MountsSeen
  SweepsGoOn
