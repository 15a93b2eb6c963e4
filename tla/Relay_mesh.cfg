CONSTANTS
  Devices = {a, b, c}
  Ports = {p1, p2}
  Relays = {r1}
  Reliable = TRUE
  MaxSends = 1
  MaxFlight = 6
SPECIFICATION OnceSpec
INVARIANTS
  Interop
CHECK_DEADLOCK FALSE
