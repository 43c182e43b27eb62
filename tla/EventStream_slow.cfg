\* Two publishing threads, two subscribers, channels of one, three events.
SPECIFICATION FairSpec
CONSTANTS
  t1 = t1
  t2 = t2
  c1 = c1
  c2 = c2
  Threads <- TwoThreads
  Clients <- TwoClients
  Capacity = 1
  MaxEvents = 3
INVARIANTS
  OldestKept
PROPERTIES
  Delivered
  GoneIsForgotten
CHECK_DEADLOCK FALSE
