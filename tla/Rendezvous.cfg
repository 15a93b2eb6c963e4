CONSTANTS
  Clients = {c1, c2}
  Ports = {1}
  Publics = {5, 6, 12}
  IPv6 = {12}
  Mask <- MCMask
  Cookie = 10
  Extras <- MCExtras
  MaxTx = 2
  MaxFlight = 2
  Devices = {d1}
  Addrs = {a1, a2, a3}
  Gap = 1
  MaxTime = 3
  MaxFaults = 1
  Nats = {"open", "fullCone", "restricted", "portRestricted", "symmetric"}
  Retries = 3
  Skew = 2
  Slow = TRUE
  MaxLost = 1
SPECIFICATION Spec
INVARIANTS
  OwnAddress
  RelayNeeded
PROPERTIES
  CompleteIsRead
  LatestFirst
  OneHears
CHECK_DEADLOCK FALSE
