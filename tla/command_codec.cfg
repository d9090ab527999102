SPECIFICATION Spec
CONSTANTS
  Commands <- MCCommands
  Inputs <- MCInputs
  Texts <- MCTexts
  Contents <- MCContents
  MaxCalls = 2
INVARIANTS TypeOK RoundTrip
PROPERTIES WriteBack NeighboursKept
CHECK_DEADLOCK FALSE
