\* One daemon killed and restarted up to twice.
SPECIFICATION FairSpec
CONSTANTS
  d1 = d1
  d2 = d2
  p1 = p1
  p2 = p2
  p3 = p3
  Daemons <- OneDaemon
  Pids <- ThreePids
  MaxDeaths = 2
INVARIANTS
  TypeOK
  RestartWaitsForVms
  NoStrangerBeforeDeath
PROPERTIES
  LostOnlyByStartOrDeath
  ImplementsLauncher
  StopTakesEffect
CHECK_DEADLOCK TRUE
