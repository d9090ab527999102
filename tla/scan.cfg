SPECIFICATION FairSpec
CONSTANTS
  MaxAddr = 5
  Chunk = 2
  SystemCommands <- MCSystem
  DeviceCommands <- MCDevice
  Memory <- MCMemory
  MaxVersion = 2
  MaxErrors = 2
  MaxRuns = 3
INVARIANTS TypeOK Aligned Saved ReportComplete
PROPERTIES AppendOnly RunEnds
CHECK_DEADLOCK FALSE
