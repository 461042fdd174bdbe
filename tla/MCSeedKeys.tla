----------------------------- MODULE MCSeedKeys -----------------------------
(* An identity that signs a proof and has a multibase copy, one that has   *)
(* neither, and one wallet.  The stage starts empty; or with keys in SSM;  *)
(* or with an identity already moved and its SSM copy not yet deleted; or  *)
(* with a wallet in SSM that has no published address, which is refused;   *)
(* or with an identity whose two copies differ, which is refused as well,  *)
(* until its secret is rotated away, and may stop a run that has just      *)
(* minted the other identity.  The keys of two names are never compared,   *)
(* so names share them here.                                               *)
EXTENDS SeedKeys, TLC

CONSTANTS sprue, hilt, payer, k1, k2

Stage(s, l, p) == [secret |-> s, legacy |-> l, published |-> p]
All(a, b, c) == sprue :> a @@ hilt :> b @@ payer :> c
Nothing == All(None, None, None)

MCStageAtStart ==
  { Stage(Nothing, Nothing, Nothing),
    Stage(Nothing, All(k1, None, k2), All(k1, None, k2)),
    Stage(All(k1, None, None), All(k1, None, k2), All(k1, None, k2)),
    Stage(Nothing, All(k1, None, k2), All(k1, None, None)),
    Stage(All(k1, k2, k2), All(k2, None, None), All(k1, k2, k2)),
    Stage(All(k1, k2, k2), All(None, k1, None), All(k1, k1, k2)) }

MCRotationStage ==
  { Stage(All(k1, k1, k2), Nothing, All(k1, k1, k2)) }
=============================================================================
