SPECIFICATION Spec
CONSTANTS
  Pins = {a, b}
  MaxMain = 3
  MaxHands = 4
  None = None
SYMMETRY MCSymmetry
INVARIANTS
  TypeOK
  StaleHasARunComing
PROPERTIES
  PersonsHeadStays
  MergesAreDecided
CHECK_DEADLOCK FALSE
