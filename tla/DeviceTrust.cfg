\* Runs of one bridge, two of them killed, and more phones than kills.
SPECIFICATION Spec

CONSTANTS
  Phones = {p1, p2, p3, p4}
  MaxIds = 3
  MaxKills = 2

CHECK_DEADLOCK FALSE

INVARIANT
  TrustSurvives

PROPERTY
  OneIdentity
