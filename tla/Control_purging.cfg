CONSTANTS
  Keys = {k1, k2}
  Handlers = {h1, h2}
  MaxOffset = 1
  Timeout = 0
  MaxIds = 2
  MaxTime = 2
  MaxFaults = 0
SPECIFICATION PurgingSpec
INVARIANTS
  AddressPlan
PROPERTIES
  ApprovedKept
  FreshKept
  SilentArePurged
CHECK_DEADLOCK FALSE
