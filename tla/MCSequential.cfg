SPECIFICATION PartSpec
CONSTANTS
  MaxFields = 4
  Focus <- MCFocus
  Numbers <- MCNumbers
  Baseline = 1
  Path <- MCPath
  Names <- MCNames
  Contents <- MCContents
  Digits <- MCDigits
  Sources <- MCSources
  a = a
  b = b
  c = c
  x = x
  Packages <- MCPackages
  Module <- MCModule
  Targets <- MCTargets
  Graphs <- MCGraphs
INVARIANTS
  VerdictFitsCause
  ScanInv
  SettingsInv
  TargetInv
  MeasuresTheOneAsked
  FiltersInv
  NotCoveredNeverRan
  NothingElse
  KillersAreRun
PROPERTY
  EditsElsewhereKeepIds
