SPECIFICATION SocketsFairSpec
CONSTANTS
  Messages = 3
  Window = 4
  MaxReads = 3
  MaxDials = 2
  MaxTheirs = 2
INVARIANTS
  MessagesInOrder
PROPERTIES
  ReaderLeaves
CHECK_DEADLOCK FALSE
