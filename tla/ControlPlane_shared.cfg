\* Two daemons on two ports share the one record.
SPECIFICATION Spec
CONSTANTS
  d1 = d1
  d2 = d2
  p1 = p1
  p2 = p2
  p3 = p3
  Daemons <- TwoDaemons
  Pids <- ThreePids
  MaxDeaths = 1
SYMMETRY PidSymmetry
INVARIANTS
  AnsweredPidStable
CHECK_DEADLOCK TRUE
