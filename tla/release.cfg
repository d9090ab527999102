SPECIFICATION ReleaseSpec
CONSTANTS
  TranslationFixes <- MCTranslationFixes
  ValueListFixes <- MCValueListFixes
  CleanNames <- MCCleanNames
  UnsupportedDevices <- MCUnsupportedDevices
  UnsupportedCommands <- MCUnsupportedCommands
  KnownConversions <- MCKnownConversions
  Unmarked <- MCUnmarked
  Exports <- MCExports
INVARIANTS TypeOK TextsMeanValues ErrorsMeanDevice BordersCover NothingDangling PayloadFits UniqueMatch BestEffort
PROPERTIES TextsKept
CHECK_DEADLOCK FALSE
