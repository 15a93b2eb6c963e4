CONSTANTS
  Keys = {k1, k2}
  Handlers = {h1, h2}
  MaxOffset = 3
  Timeout = 0
  MaxIds = 5
  MaxTime = 0
  MaxFaults = 0
SPECIFICATION ServingSpec
INVARIANTS
  PoolIsPrefix
  FirstIsApproved
PROPERTIES
  EveryClientRegisters
CHECK_DEADLOCK FALSE
