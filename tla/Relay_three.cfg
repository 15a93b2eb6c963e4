CONSTANTS
  Devices = {a, b, c}
  Ports = {p1, p2}
  Relays = {r1}
  Reliable = FALSE
  MaxSends = 1
  MaxFlight = 2
SPECIFICATION OnePayloadSpec

  
PROPERTIES
  ChannelSpec
SYMMETRY Symmetric
CHECK_DEADLOCK FALSE
