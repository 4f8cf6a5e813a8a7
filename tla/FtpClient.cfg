SPECIFICATION FairSpec
CONSTANTS
  Blocks = 2
  MaxCalls = 3
  Calls = {"connect", "login", "mkdir", "size", "get", "put", "quit"}
  Faults = {"late", "lost", "nodata", "reset", "disk"}
  MaxFaults = 1
INVARIANTS
  InStep
  SuccessTruthful
PROPERTIES
  CallsReturn
CHECK_DEADLOCK FALSE
