SPECIFICATION Spec
CONSTANTS
  Addr = {a1, a2}
  Constant = {}
  Setpoint = {a1}
  Val = {v1, v2, v3}
  MaxCalls = 4
INVARIANTS IInv ReadYourWrites SetpointHolds
