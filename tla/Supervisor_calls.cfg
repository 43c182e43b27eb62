\* Two starts and two stops overlap in every way.
SPECIFICATION FairSpec
CONSTANTS
  p1 = p1
  p2 = p2
  t1 = t1
  t2 = t2
  Procs <- TwoProcs
  Stops <- TwoStops
INVARIANTS
  TypeOK
  TakenOnce
  StopIsOver
PROPERTIES
  LostOnlyToAnother
  ExitReconciled
\* The calls of an instance end.
CHECK_DEADLOCK FALSE
