SPECIFICATION PcscFairSpec
CONSTANTS
  Kinds = {"TYPEA_TCL", "TYPEB_TCL", "MIFARE", "FELICA"}
  MaxNoise = 1
  MaxObjects = 2
INVARIANTS PcscTypeOK SwitchKeepsSession SuccessMeansAll
PROPERTIES  PollHeals
