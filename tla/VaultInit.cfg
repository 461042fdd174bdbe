SPECIFICATION BaoFairSpec
CONSTANTS
  SecretIds = {s1, s2, s3, s4}
  MaxEpoch = 3
  None = None
INVARIANTS
  BaoTypeOK
  NothingBuiltWithoutRoot
  DoneMeansUsable
PROPERTIES
  WorkingSecretKept
  HiltComesUp
