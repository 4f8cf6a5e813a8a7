SPECIFICATION FairSpec
CONSTANTS
  AppCalls = {"connect", "reconnect", "close"}
  MaxCalls = 3
  MaxConns = 2
  MaxSends = 2
  OnCloseDoes = {"nothing", "reconnect", "close"}
INVARIANTS
  NeverStuck
PROPERTIES
  ClosedIsInert
  AttemptAnswered
CHECK_DEADLOCK FALSE
