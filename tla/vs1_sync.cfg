SPECIFICATION Spec
CONSTANTS
  Addr <- MCAddr
  Val <- MCVal
  BlockLen = 2
  Period = 4
  MaxDelay = 3
  Spaced = FALSE
  EnvKinds = {}
  MaxEvents = 0
  MaxCalls = 3
INVARIANT AnswerIsCurrent
CHECK_DEADLOCK FALSE
