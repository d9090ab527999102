SPECIFICATION FairSpec
CONSTANTS
  Addr <- MCAddr
  Constant <- MCConstant
  Val <- MCOneVal
  BlockLen = 1
  Noise <- MCNoise
  EnvKinds = {"io", "nack", "refuse", "garble", "fallback", "reopen"}
  MaxEvents = 2
  MaxRx = 2
  Latency = FALSE
  IdAddr = 1
  F0Addr = 2
  MaxCalls = 2
PROPERTIES CallReturns ConnectReturns
CHECK_DEADLOCK FALSE
