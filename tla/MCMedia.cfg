SPECIFICATION MediaSpec
CONSTANTS
  Times = {0, 1, 3}
  Lengths = {1, 5}
  Configs <- ConfigsUsed
  Wide = 50
  MaxOffered = 3
  Payloads <- PayloadsUsed
  Numbers = {0, 1, 2, 3, 6, 7, 14, 15, 30, 31, 62, 63, 254, 255, 1079, 65534}
  AvcSets <- AvcSetsUsed
  HevcSets <- HevcSetsUsed
  Frames <- FramesUsed
  Streams <- StreamsUsed
  ReadSize = 40
  Words <- WordsUsed
INVARIANTS

  BoxesNest
  TablesTrue
  FramesFollow
  SizeRead
  FramesCut
  ReadsBack
CHECK_DEADLOCK FALSE
