SPECIFICATION FairSpec
CONSTANTS
  w1 = w1
  w2 = w2
  r1 = r1
  r2 = r2
  Writers = {w1, w2}
  Readers = {r1, r2}
  RangeReaders = {r1}
  Cap = 1
  Quota = 2
  NoValue = NoValue
INVARIANTS
  SizeAccounting
  NoWriterLeftAsleep
  NoReaderLeftAsleep
  AtMostOneStaleYield
PROPERTIES
  ImplementsFifo
  CloseReleasesReaders
CHECK_DEADLOCK FALSE
