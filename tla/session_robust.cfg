SPECIFICATION Spec
CONSTANTS
  Addr <- MCAddr
  Constant <- MCConstant
  Val <- MCLeadinVal
  BlockLen = 1
  Noise <- MCNoise
  EnvKinds = {"io", "nack", "fallback", "cancel", "checksum", "lose"}
  MaxEvents = 2
  MaxRx = 2
  Latency = TRUE
  IdAddr = 1
  F0Addr = 2
  MaxCalls = 2
INVARIANT OwnAddress
CHECK_DEADLOCK FALSE
