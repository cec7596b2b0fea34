SPECIFICATION FairSpec
CONSTANTS
  Kinds = {"TYPEA_TCL", "TYPEB_TCL", "MIFARE", "FELICA", "TOPAZ"}
  MaxNoise = 2
INVARIANTS TypeOK ShownIsKnown InSession
PROPERTIES PollTellsCardsApart PollKeepsCard RemovalNoticed CardNoticed
