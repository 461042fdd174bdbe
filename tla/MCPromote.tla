----------------------------- MODULE MCPromote ------------------------------
(* What stages pin is compared for equality only.                          *)
EXTENDS Promote, TLC

MCSymmetry == Permutations(Pins)
=============================================================================
