SPECIFICATION Spec
CONSTANTS
  MaxCmd = 1
  MaxRsp = 1
  Threshold = 1
  MaxFaults = 1
  MaxWtx = 0
  MaxTrouble = 1
  Fwi = 9
  Wtxm = 2
  Slack = 0
INVARIANTS CommandIntact
CHECK_DEADLOCK FALSE
