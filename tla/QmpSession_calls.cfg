\* Every way a call can go: buffer of 5 units, peer sending up to 6.
SPECIFICATION FairSpec
CONSTANTS
  Size = 5
  MaxOut = 6
INVARIANTS
  TypeOK
  NoFdLeak
  WaitsOnlyMidLine
  OutcomeExplained
PROPERTY
  CallReturns
