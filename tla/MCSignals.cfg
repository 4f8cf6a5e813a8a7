SPECIFICATION SignalsSpec
CONSTANTS
  s1 = s1
  s2 = s2
  o1 = o1
  o2 = o2
  Sigs = {s1, s2}
  Objects = {o1, o2}
  MaxConns = 3
  MaxDepth = 2
INVARIANTS
  IteratorValid
  BothSidesKnow
PROPERTIES
  EmitReachesEach
CHECK_DEADLOCK FALSE
SYMMETRY Symmetry
