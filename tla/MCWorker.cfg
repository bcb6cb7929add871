SPECIFICATION Spec
CONSTANTS
  NPkgs = 3
  HasTests <- MCHasTests
  Links <- MCLinks
  HasMap = TRUE
  Jobs <- MCJobs
  Adaptive = TRUE
  Floor = 2
  Global = 3
  TestEndings <- MCTestEndings
  BuildEndings <- MCBuildEndings
INVARIANTS
  WorkerInv
  LivedPassedEverySuite
  TimedOutUsedItsDeadline
