SPECIFICATION Spec
CONSTANTS
  sprue = sprue
  hilt = hilt
  owner = owner
  locker = locker
  Names = {sprue, hilt, owner, locker}
  Values = {v1, v2, v3}
  Callers = {seed1, seed2}
  Resets = {reset}
  None = None
  NoPassword = NoPassword
  Targets <- MCTargets
  Rotatable = {hilt, locker}
  LoginOnly = {locker}
  Strings <- MCStrings
  RoleOf <- MCRoleOf
SYMMETRY MCSymmetry
INVARIANTS
  TypeOK
  StringsFitTheRoles
  MissingIsAccountedFor
PROPERTIES
  EnsureIsAtomic
  SeedTakesRotationsUp
  ResetRestores
CHECK_DEADLOCK FALSE
