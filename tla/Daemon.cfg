CONSTANTS
  Peers = {p1, p2}
  Requests = {r1, r2}
  Kinds = {"status", "diagnostics"}
  MaxChanges = 1
  MaxFaults = 1
SPECIFICATION Spec
INVARIANTS
  StateIsExclusive
  NoLinkIsLost
PROPERTIES
  TunServes
  Answered
  RoutesCatchUp
CHECK_DEADLOCK FALSE
