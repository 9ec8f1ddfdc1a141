\* The service with an iMessage handle and a client of the queue: replies that
\* are read late, never or cannot be parsed, and a database that is locked.
SPECIFICATION IMFairSpec

CONSTANTS
  i1 = i1
  WireIds = {1}
  RequestIds <- MCRequestIds
  Normalized <- MCNormalized
  Items = {i1}
  ItemOf <- OneItem
  NoWire = NoWire
  NoDecision = NoDecision
  Decisions = {accept}
  Clients = {c1}
  MaxRuns = 1
  MaxResponses = 1
  Reported = {}
  TurnWaits = TRUE
  Limit = 1
  MaxChat = 2
  Malformed = TRUE

CHECK_DEADLOCK FALSE

INVARIANT
  BothChannelsRecorded

PROPERTIES
  ImplementsLedger
  ReplyHonoured
  NewestRead
