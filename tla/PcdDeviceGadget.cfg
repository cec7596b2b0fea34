CONSTANTS
  Threads = {t1}
  MaxSignals = 0
  UseGadget = TRUE
SPECIFICATION Spec
INVARIANT OneCommandAtATime
CHECK_DEADLOCK FALSE
