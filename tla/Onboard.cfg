CONSTANTS
  r1 = r1
  r2 = r2
  p1 = p1
  p2 = p2
  u1 = u1
  u2 = u2
  d1 = d1
  Regions = {r1, r2}
  Piris = {p1, p2}
  Endpoints = {u1, u2}
  Delegations = {d1}
  Requests <- MCRequests
  Runs = {a}
  HiltAtStart <- MCHiltAtStart
  None = None
SPECIFICATION Spec
INVARIANTS
  TypeOK
  RecordedPirisAreServed
  ReturnedMeansAdmitted
