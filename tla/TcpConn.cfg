SPECIFICATION FairSpec
CONSTANTS
  Loop = loop
  User = user
  Parts = 2
  Messages = 2
  Calls = 1
  RcvBuf = 3
  SndBuf = 1
  OnMessage = {"take", "reply", "close", "reject"}
INVARIANTS
  MessagesWhole
  StreamIntact
  Released
PROPERTIES
  EndIsNoticed
\* Everything may be closed and done.
CHECK_DEADLOCK FALSE
