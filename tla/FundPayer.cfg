SPECIFICATION Spec
CONSTANTS
  Runs = {a}
  Requests <- MCRequests
  Supply = 4
  MaxNonce = 6
  None = None
INVARIANTS
  TypeOK
  DoneMeansFunded
PROPERTIES
  NoNeedlessDeposit
  PlannedDepositsLand
