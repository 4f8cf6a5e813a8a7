SPECIFICATION FairSpec
CONSTANTS
  Shapes <- ShapesUsed
  MaxFrames = 2
  MaxAudio = 1
  MaxLost = 1
  MaxQueued = 1
  MaxAlive = 1
INVARIANTS
  Handshake
  
PROPERTIES
  AsksToPlay
CHECK_DEADLOCK FALSE
