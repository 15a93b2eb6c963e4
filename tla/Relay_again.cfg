CONSTANTS
  Devices = {a, b}
  Ports = {p1, p2, p3}
  Relays = {r1}
  Reliable = FALSE
  MaxSends = 0
  MaxFlight = 3
SPECIFICATION RoundsSpec
PROPERTIES
  ReachableAgain
CHECK_DEADLOCK FALSE
