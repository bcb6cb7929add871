SPECIFICATION Spec
CONSTANTS
  AllMutants = {m1, m2}
  g1 = g1
  g2 = g2
  AllGenerations <- MCGenerations
  Verdicts <- MCVerdicts
  MaxEdits = 2
  MaxRuns = 3
  Worlds <- PassingWorlds
CHECK_DEADLOCK FALSE
SYMMETRY Symmetric
INVARIANTS
  CacheInv
  NoStaleReplay
  NoStaleProfile
PROPERTIES
  KeepsWhatMatches
  NoRetest
