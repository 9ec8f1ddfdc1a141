SPECIFICATION Spec

CONSTANTS
  i1 = i1
  i2 = i2
  WireIds = {1}
  RequestIds <- MCRequestIds
  Normalized <- MCNormalized
  Items = {i1}
  ItemOf <- OneItem
  NoWire = NoWire
  NoDecision = NoDecision
  Decisions = {accept, decline}
  Clients = {c1, c2}
  MaxRuns = 2
  MaxResponses = 2
  Reported = {}
  TurnWaits = FALSE

SYMMETRY Interchangeable

CHECK_DEADLOCK FALSE

INVARIANTS
  AtMostOneAnswer
  PublishedStateCurrent
  AuditMatchesAnswers
  NoResponseDropped
  AnsweredNeverStale

PROPERTY
  ImplementsLedger
