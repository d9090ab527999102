SPECIFICATION Spec
CONSTANTS
  Commands <- MCSigned
  Inputs <- MCFew
  Texts <- MCTexts
  Contents <- MCSmall
  MaxCalls = 2
INVARIANTS RoundTrip
CHECK_DEADLOCK FALSE
