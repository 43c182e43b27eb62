\* Room for two cores, numbers modulo 8.
SPECIFICATION SampleSpec
CONSTANTS
  Files <- AllFiles
  MaxCores = 2
  Width = 8
INVARIANTS
  TypeOK
  MemoryByLines
  RssBehindPairs
  CoresBehindTotal
\* A sample is taken once.
CHECK_DEADLOCK FALSE
