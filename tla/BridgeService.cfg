SPECIFICATION Spec

CONSTANTS
  i1 = i1
  WireIds = {1}
  RequestIds <- MCRequestIds
  Normalized <- MCNormalized
  Items = {i1}
  ItemOf <- OneItem
  NoWire = NoWire
  NoDecision = NoDecision
  Decisions = {accept}
  Offered = {accept, amend}
  Methods <- All
  MaxAsks = 2
  MaxRuns = 1
  Reported = {}
  TurnWaits = FALSE

CHECK_DEADLOCK FALSE

INVARIANTS
  AcceptedIsAnswered
  ViewIsCurrent
  ApprovalKept
  RequestsAnswered

PROPERTY
  BridgeKeepsLedger
