SPECIFICATION Spec
CONSTANTS
  Commands <- MCNarrow
  Inputs <- MCFew
  Texts <- MCTexts
  Contents <- MCSmall
  MaxCalls = 2
PROPERTIES NeighboursKept
CHECK_DEADLOCK FALSE
