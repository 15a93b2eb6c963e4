CONSTANTS
  Secrets = {s1}
  Texts = {t1}
  Modulus = 6
  Offset = 3
  MaxPackets = 3
  N = 3
  MaxLatency = 2
  MaxFailures = 3
  Receivers = {r1, r2}
  InitialRetry = 2
  MaxRetry = 15
  MaxFails = 5
  Base = 4
  IdLen = 2
  MaxPayload = 6
  BufferSize = 14
  PeerIds <- MCPeerIds
  Payloads <- MCPayloads
  Rules <- MCRules
  Packets <- MCPackets
  MaxId = 3
  Named = {1, 2}
  Hostnames <- MCHostnames
  Vips = {1, 2}
  Names <- MCNames
  Lower <- MCLower
  Keys = {k1, k2}
  MaxIds = 2
  MaxOffset = 1
  MaxQueued = 2
  MaxOutgoing = 3
SPECIFICATION PartsSpec
INVARIANTS
  
  ActiveIsBest
  StatusTold
  DelayDoubles
  LeastPriorityDecides
  AnswersItsName
  Accounted
  InOrder
PROPERTIES
  WireSpec
  LeavesForBetter
  PoolLeavesSilent
  OnlyItsPackets
CHECK_DEADLOCK FALSE
