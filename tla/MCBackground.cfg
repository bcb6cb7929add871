SPECIFICATION Spec
CONSTANTS
  Workers = {w1, w2}
  Half = 1
  Monitors = {m1, m2, m3}
  OutageAfter = 3
  Runs = 2
  Callers = {c1, c2, c3}
  Total = 2
INVARIANTS
  CapInv
  ProbeInv
  HeartbeatInv
PROPERTIES
  FlagFollowsProbe
  EveryCallReturns
