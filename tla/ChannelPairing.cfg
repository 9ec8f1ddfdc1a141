SPECIFICATION Spec

CONSTANTS
  Phones = {p1, p2}
  None = None
  MaxWire = 2
  Sizes = {1}
  MaxMessages = 1
  MaxBytes = 1
  MaxHellos = 4
  MaxSeq = 0
  MaxCounter = 2
  Repeats = TRUE

SYMMETRY AnyPhone

CHECK_DEADLOCK FALSE

INVARIANTS
  OnePhonePerCode
  NoReplay

PROPERTY
  EpochsGrow
