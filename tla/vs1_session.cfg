SPECIFICATION FairSpec
CONSTANTS
  Addr <- MCAddr
  Val <- MCVal
  BlockLen = 2
  Period = 4
  MaxDelay = 1
  Spaced = TRUE
  EnvKinds = {"io", "slow", "lose", "change", "cancel", "close"}
  MaxEvents = 2
  MaxCalls = 2
INVARIANTS TypeOK AnswerIsCurrent WriteTookEffect NothingLeft
PROPERTIES ImplementsRegister CallReturns
CHECK_DEADLOCK FALSE
