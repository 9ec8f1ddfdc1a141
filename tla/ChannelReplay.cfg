SPECIFICATION FairSpec

CONSTANTS
  Phones = {p1}
  None = None
  MaxWire = 3
  Sizes = {1, 2, 4}
  MaxMessages = 2
  MaxBytes = 3
  MaxHellos = 3
  MaxSeq = 5
  MaxCounter = 1
  Repeats = FALSE

CHECK_DEADLOCK FALSE

INVARIANTS
  BufferIsRecent
  NothingMissing

PROPERTY
  AppliesInOrder
  ImplementsLog
  Delivered
  PhoneHeard
