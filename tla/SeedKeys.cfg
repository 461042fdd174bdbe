CONSTANTS
  sprue = sprue
  payer = payer
  hilt = hilt
  k1 = k1
  k2 = k2
  Identities = {sprue, hilt}
  Wallets = {payer}
  Signers = {sprue}
  Multibase = {sprue}
  Keys = {k1, k2, k3, k4}
  Runs = {a, b}
  StageAtStart <- MCStageAtStart
  None = None
SPECIFICATION Spec
INVARIANTS
  TypeOK
  PublishedKeysSurvive
  SeededIsCoherent
PROPERTIES
  SsmCopiesGoLast
