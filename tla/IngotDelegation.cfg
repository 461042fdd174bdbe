SPECIFICATION Spec
CONSTANTS
  Regions = {r1}
  authorize = authorize
  policy = policy
  Lists <- MCLists
  p1 = p1
  p2 = p2
  p3 = p3
  p4 = p4
  Copies <- MCCopies
  MaxKey = 3
  Runs = {run1}
  Legacy <- MCLegacy
  None = None
SYMMETRY MCSymmetry
INVARIANTS
  TypeOK
  ReturnedVerifies
  StampNeverAhead
PROPERTIES
  HandedStays
