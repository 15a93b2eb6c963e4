CONSTANTS
  Peers = {p1, p2}
  Limits <- MCLimits
  Patience <- MCPatience
SPECIFICATION Spec
PROPERTIES
  CallsReturn
  PeersHeard
CHECK_DEADLOCK FALSE
