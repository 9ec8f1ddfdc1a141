SPECIFICATION Spec

CONSTANTS
  i1 = i1
  i2 = i2
  WireIds = {1, 2}
  RequestIds <- MCRequestIds
  Normalized <- MCNormalized
  Items = {i1, i2}
  ItemOf <- TwoItems
  NoWire = NoWire
  NoDecision = NoDecision
  Decisions = {accept}
  Clients = {c1}
  MaxRuns = 1
  MaxResponses = 1
  Reported = {i1}
  TurnWaits = TRUE

CHECK_DEADLOCK FALSE

INVARIANTS
  NoLostApproval
  NoGhostApproval
  AuditListsPending
  CompletedMeansDone
