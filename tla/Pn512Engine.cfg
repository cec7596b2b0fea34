CONSTANTS
  FifoSize = 2
  HiLevel = 1
  MaxAnswer = 3
  NumIds = 2
  Builds = {TRUE, FALSE}
SPECIFICATION FairSpec
INVARIANTS
  TypeOK
  OneCompletion
  NoLostWakeup
  IrqOffUnlessPreempted
  AnswerComplete
PROPERTIES
  ImplementsRequestReply
  RequestReturns
