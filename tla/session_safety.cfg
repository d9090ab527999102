SPECIFICATION Spec
CONSTANTS
  Addr <- MCAddr
  Constant <- MCConstant
  Val <- MCVal
  BlockLen = 1
  Noise <- MCNoise
  EnvKinds = {"io", "nack", "refuse", "garble", "fallback", "change"}
  MaxEvents = 2
  MaxRx = 2
  Latency = FALSE
  IdAddr = 1
  F0Addr = 2
  MaxCalls = 3
INVARIANTS TypeOK AnswerIsCurrent WriteTookEffect NoLateWrite Quiet
PROPERTY ImplementsRegister
CHECK_DEADLOCK FALSE
