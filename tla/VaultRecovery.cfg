SPECIFICATION BaoSpec
CONSTANTS
  SecretIds = {s1}
  MaxEpoch = 1
  None = None
INVARIANT
  NothingBuiltWithoutRecovery
