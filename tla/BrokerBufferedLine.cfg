SPECIFICATION FairSpec

CONSTANTS
  i1 = i1
  i2 = i2
  WireIds = {1}
  RequestIds <- MCRequestIds
  Normalized <- MCNormalized
  Items = {i1}
  ItemOf <- OneItem
  NoWire = NoWire
  NoDecision = NoDecision
  Decisions = {accept}
  Clients = {c1}
  MaxRuns = 1
  MaxResponses = 1
  Reported = {}
  TurnWaits = TRUE

CHECK_DEADLOCK FALSE

PROPERTY ApprovalReachesOperator
