-------------------------- MODULE MCIngotDelegation --------------------------
(* IngotDelegation on one region, whose parameters no other region's run  *)
(* or retirement touches, with and without a delegation from before the    *)
(* record of who signed it.                                                *)
EXTENDS IngotDelegation, TLC

CONSTANTS authorize, policy, p1, p2, p3, p4

MCCopies == {p1, p2, p3, p4}
MCLists == {{authorize}, {authorize, policy}}
MCLegacy == {[copy |-> p1, key |-> 1, commands |-> {authorize}]}

(* Fresh copies are interchangeable; the legacy one is not.                *)
MCSymmetry == Permutations({p2, p3, p4})

=============================================================================
