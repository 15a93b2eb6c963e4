CONSTANTS
  Keys = {k1, k2, k3}
  Handlers = {h1}
  MaxOffset = 3
  Timeout = 0
  MaxIds = 3
  MaxTime = 0
  MaxFaults = 0
SPECIFICATION OneByOneSpec
INVARIANTS
  AllocatesAvailable
CHECK_DEADLOCK FALSE
