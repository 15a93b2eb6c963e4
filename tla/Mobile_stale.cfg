CONSTANTS
  Keys = {k1, k2, k3}
  MaxIds = 3
  MaxOffset = 1
  MaxQueued = 1
  MaxOutgoing = 1
SPECIFICATION MobileSpec
PROPERTIES
  ToTheHolder
CHECK_DEADLOCK FALSE
