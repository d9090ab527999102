SPECIFICATION ReleaseSpec
CONSTANTS
  TranslationFixes <- MCTranslationFixes
  ValueListFixes <- MCValueListFixes
  CleanNames <- MCCleanNames
  UnsupportedDevices <- MCUnsupportedDevices
  UnsupportedCommands <- MCUnsupportedCommands
  KnownConversions <- MCKnownConversions
  Unmarked <- MCUnmarked
  Exports <- MCGroups
INVARIANTS SameGroup
CHECK_DEADLOCK FALSE
