SPECIFICATION FairSpec
CONSTANTS
  h1 = h1
  h2 = h2
  t1 = t1
  Hosts = {h1, h2}
  N = 3
  Dialer = Dialer
  Loop = Loop
  Resolvers = {t1}
  MaxConns = 5
  AppCalls = {"close", "connect"}
  MaxCalls = 4
  OnCloseDoes = {"reconnect", "close"}
  Failures = {"dns", "timerfd"}
  None = None
INVARIANTS
  NoOrphan
  ReconnectsWhenResolved
PROPERTIES
  ConnectAnswered
CHECK_DEADLOCK FALSE
