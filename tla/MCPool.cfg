SPECIFICATION Spec
CONSTANTS
  Workers = {w1, w2}
  NMutants = 3
  Id <- MCId
  SortKey <- MCSortKey
  Given <- MCGiven
  Verdicts <- MCVerdicts
INVARIANTS
  TypeOK
  TestedAtMostOnce
  StatusIsOwnOutcome
  CompleteUnlessCancelled
PROPERTIES
  EveryGoroutineEnds
  ImplementsTestRun
