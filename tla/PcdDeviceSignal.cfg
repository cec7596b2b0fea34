CONSTANTS
  Threads = {t1, t2}
  MaxSignals = 1
  UseGadget = FALSE
SPECIFICATION Spec
INVARIANT MutualExclusion
CHECK_DEADLOCK FALSE
