SPECIFICATION Spec
CONSTANTS
  Writers = {w1,w2,w3}
  Readers = {r1}
  RangeReaders = {r1}
  Cap = 1
  Quota = 1
  NoValue = NoValue
  w1 = w1
  w2 = w2
  w3 = w3
  r1 = r1
INVARIANTS
  NoReaderLeftAsleep
SYMMETRY SymWriters
CHECK_DEADLOCK FALSE
