SPECIFICATION Spec
CONSTANTS
  Mutants = {m1, m2, m3}
  Verdicts <- MCVerdicts
  Percentages <- MCPercentages
SYMMETRY Symmetric
CHECK_DEADLOCK FALSE
INVARIANT InterruptIsNotSuccess
