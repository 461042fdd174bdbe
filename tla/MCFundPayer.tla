---------------------------- MODULE MCFundPayer -----------------------------
(* FundPayer with two amounts, so that a later run's approve can leave too *)
(* little for a deposit an earlier one left pending.                       *)
EXTENDS FundPayer

MCRequests == {[deposit |-> 1, force |-> FALSE],
               [deposit |-> 2, force |-> FALSE],
               [deposit |-> 2, force |-> TRUE]}

=============================================================================
