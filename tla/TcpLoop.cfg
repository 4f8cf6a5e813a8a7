SPECIFICATION FairSpec
CONSTANTS
  Peers = {1, 2}
  Dialed = {3}
  Watched = {1}
  LastFd = 3
  MaxSends = 1
  MaxCalls = 1
  MaxRuns = 1
INVARIANTS
  TableTrue
  OwnData
PROPERTIES
  Served
  JoinReturns
CHECK_DEADLOCK FALSE
