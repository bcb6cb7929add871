SPECIFICATION Spec
CONSTANTS
  Pkgs = {"a", "b", "c"}
  HasTests = {"a", "b"}
  TestsIn <- MCTestsIn
  MayBeLost = {"a2"}
  Links <- MCLinks
  Lines = {"l1", "l2", "l3"}
  PkgOfLine <- MCPkgOfLine
  Covers <- MCCovers
  MutantLines = {"l1", "l2"}
  NWorkers = 2
INVARIANTS
  MapInv
  RoutedGroupsPassed
  NoRouteLost
  KillersAmongSuites
PROPERTIES
  EveryGoroutineEnds
