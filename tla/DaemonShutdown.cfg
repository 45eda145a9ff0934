\* A shutdown that finds the main thread at work under p->mutex.  It may come to
\* a standstill: that is a violation of ShutdownSaves.
CONSTANTS
  SignalAt <- Working
  OpenMayFail = FALSE
  MaxChanged = 2
CHECK_DEADLOCK FALSE
SPECIFICATION FairSpec
PROPERTY ShutdownSaves
