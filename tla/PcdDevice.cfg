CONSTANTS
  Threads = {t1, t2}
  MaxSignals = 1
  UseGadget = TRUE
SPECIFICATION FairSpec
INVARIANTS
  TypeOK
  MutexUnlessInterrupted
  UnitsAccounted
  CleanUnload
  SlotChangeNotLost
PROPERTIES
  IoctlReturns
  HostLearns
CHECK_DEADLOCK FALSE
