SPECIFICATION FairSpec
CONSTANTS
  MaxCmd = 2
  MaxRsp = 4
  Threshold = 1
  MaxFaults = 1
  MaxWtx = 2
  MaxTrouble = 2
  Fwi = 9
  Wtxm = 2
  Slack = 0
INVARIANTS TypeOK NumbersInStep AtMostOnce OkMeansDone
PROPERTIES FailsForCause ApduReturns
CHECK_DEADLOCK FALSE
