SPECIFICATION Spec
CONSTANTS
  MaxCmd = 1
  MaxRsp = 1
  Threshold = 1
  MaxFaults = 0
  MaxWtx = 0
  MaxTrouble = 1
  Fwi = 9
  Wtxm = 2
  Slack = 0
INVARIANTS SilentIsMute
CHECK_DEADLOCK FALSE
