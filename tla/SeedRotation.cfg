CONSTANTS
  sprue = sprue
  hilt = hilt
  payer = payer
  k1 = k1
  k2 = k2
  Identities = {sprue, hilt}
  Wallets = {payer}
  Signers = {sprue}
  Multibase = {sprue}
  Keys = {k1, k2, k3}
  Runs = {a}
  StageAtStart <- MCRotationStage
  None = None
SPECIFICATION Spec
INVARIANT RotationRepublishes
