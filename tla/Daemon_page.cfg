\* One user, one poll at a time, two pids, one death.
SPECIFICATION FairSpec
CONSTANTS
  u1 = u1
  h1 = h1
  p1 = p1
  p2 = p2
  Users <- OneUser
  Polls <- OnePoll
  Pids <- TwoPids
  Backlog = 2
  MaxDeaths = 1
INVARIANTS
  NoStaleRequest
PROPERTIES
  ImplementsParts
  PageNotices
