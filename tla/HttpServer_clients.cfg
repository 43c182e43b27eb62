\* Three clients, a backlog of two, requests in up to two pieces.
SPECIFICATION FairSpec
CONSTANTS
  c1 = c1
  c2 = c2
  c3 = c3
  Clients <- ThreeClients
  Backlog = 2
  Whole = 2
INVARIANTS
  TypeOK
  QueueMatches
PROPERTIES
  AnswerOnClose
  WaitsOnlyBehindSilence
