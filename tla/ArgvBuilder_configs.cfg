\* Vectors with room for 12 arguments: some configurations just fit, some do not.
SPECIFICATION BuildSpec
CONSTANTS
  Configs <- AllConfigs
  Cap = 13
INVARIANTS
  AllOrNothing
  RoomForNull
\* A call returns and is over.
CHECK_DEADLOCK FALSE
