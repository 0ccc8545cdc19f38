SPECIFICATION Spec
CONSTANTS
  ReqsNum = 3
  MaxLosses = 2
  MaxKills = 1
INVARIANTS
  OnlyLastAnswerAtStake
PROPERTIES
  ImplementsRequestResponse
  BothFinish
CHECK_DEADLOCK FALSE
