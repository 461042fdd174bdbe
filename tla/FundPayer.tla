------------------------------ MODULE FundPayer -------------------------------
(***************************************************************************)
(* Funding the payer: the fund phase reads the chain, plans, and sends     *)
(* approve, deposit and setOperatorApproval, waiting for the receipt of    *)
(* each.  An invocation that ends while it waits leaves its transaction    *)
(* behind: the chain may still execute it, and the next invocation does    *)
(* not look for it.                                                        *)
(***************************************************************************)
EXTENDS Integers

CONSTANTS
  Runs,      \* fund invocations that may overlap
  Requests,  \* what operators ask for
  Supply,    \* bound: USDFC the payer may have at a time
  MaxNonce,  \* bound: transactions the payer may send
  None       \* nothing there

RequestSet == [deposit : Nat \ {0}, force : BOOLEAN]
Kinds == {"approve", "deposit", "operator"}
Transaction == [nonce : 1..MaxNonce, kind : Kinds, amount : Nat \ {0},
                force : BOOLEAN, quiet : BOOLEAN]

ASSUME BoundAssumption == Supply \in Nat /\ MaxNonce \in Nat
ASSUME RequestsAssumption == Requests \subseteq RequestSet
ASSUME NoneAssumption == None \notin Requests \cup Transaction

VARIABLES
  wallet,     \* USDFC the payer holds
  account,    \* USDFC in the payer's FilecoinPay account
  allowance,  \* what FilecoinPay may pull from the wallet
  approved,   \* whether warm storage may lock the account's funds up
  nonce,      \* of the payer's next transaction to execute
  pending,    \* transactions broadcast and not executed
  run,        \* the fund invocations
  drawn       \* drawn from the account since each run planned (history)

vars == <<wallet, account, allowance, approved, nonce, pending, run, drawn>>
chain == <<wallet, account, allowance, approved, nonce, pending>>

(* quiet: no transaction was pending when the run began to read (history). *)
IdleRun == [pc |-> "idle", req |-> None, skip |-> FALSE, sent |-> None,
            receipt |-> "none", quiet |-> FALSE]
RunState == [pc : Kinds \cup {"idle", "balance", "funds", "report"},
             req : Requests \cup {None}, skip : BOOLEAN,
             sent : Transaction \cup {None},
             receipt : {"none", "executed", "reverted"}, quiet : BOOLEAN]

Init ==
  /\ wallet = 0 /\ account = 0 /\ allowance = 0
  /\ approved = FALSE
  /\ nonce = 1
  /\ pending = {}
  /\ run = [i \in Runs |-> IdleRun]
  /\ drawn = [i \in Runs |-> 0]

-----------------------------------------------------------------------------
(* plan, as Prepare and Execute both compute it; a dry run ends here.      *)

StartFund(i, q) ==
  /\ run[i].pc = "idle"
  /\ run' = [run EXCEPT ![i] = [IdleRun EXCEPT !.pc = "balance", !.req = q]]
  /\ UNCHANGED <<chain, drawn>>

(* Some balance, not the whole deposit.                                    *)
HoldsSome(q) == wallet > 0

(* The wallet must already hold the deposit, skipped or not.               *)
HoldsDeposit(q) == wallet >= q.deposit

ReadBalance(i) ==
  /\ run[i].pc = "balance"
  /\ HoldsDeposit(run[i].req)
  /\ run' = [run EXCEPT ![i] = [@ EXCEPT !.pc = "funds", !.quiet = pending = {}]]
  /\ UNCHANGED <<chain, drawn>>

(* A deposit is skipped by an account that holds more than it.             *)
SkipsAbove(q) == account > q.deposit /\ ~q.force

SkipDeposit(q) == account >= q.deposit /\ ~q.force

ReadFunds(i) ==
  /\ run[i].pc = "funds"
  /\ run' = [run EXCEPT ![i] = [@ EXCEPT !.pc = "approve",
                                         !.skip = SkipDeposit(run[i].req)]]
  /\ drawn' = [drawn EXCEPT ![i] = 0]
  /\ UNCHANGED chain

-----------------------------------------------------------------------------
(* Execute's send: broadcast, then wait for the receipt.                   *)

(* The node hands out the first nonce no pending transaction has.          *)
Free(n) == n >= nonce /\ \A tx \in pending : tx.nonce # n
NextNonce(n) == Free(n) /\ \A m \in 1..MaxNonce : Free(m) => n <= m

Broadcast(i) ==
  /\ run[i].pc \in Kinds
  /\ run[i].sent = None
  /\ \E n \in 1..MaxNonce :
       /\ NextNonce(n)
       /\ LET tx == [nonce |-> n, kind |-> run[i].pc,
                     amount |-> run[i].req.deposit, force |-> run[i].req.force,
                     quiet |-> run[i].quiet]
          IN /\ pending' = pending \cup {tx}
             /\ run' = [run EXCEPT ![i].sent = tx]
  /\ UNCHANGED <<wallet, account, allowance, approved, nonce, drawn>>

(* approve, then deposit unless it is skipped, then setOperatorApproval.   *)
After(state) ==
  IF state.pc = "approve" /\ ~state.skip THEN "deposit"
  ELSE IF state.pc = "operator" THEN "report"
  ELSE "operator"

(* Any receipt will do.                                                    *)
ProceedOnAnyReceipt(i) ==
  /\ run[i].pc \in Kinds
  /\ run[i].receipt # "none"
  /\ run' = [run EXCEPT ![i] = [@ EXCEPT !.pc = After(run[i]), !.sent = None,
                                         !.receipt = "none"]]
  /\ UNCHANGED <<chain, drawn>>

(* A reverted transaction is an error, which ends the run (RunAborts).     *)
Proceed(i) ==
  /\ run[i].pc \in Kinds
  /\ run[i].receipt = "executed"
  /\ run' = [run EXCEPT ![i] = [@ EXCEPT !.pc = After(run[i]), !.sent = None,
                                         !.receipt = "none"]]
  /\ UNCHANGED <<chain, drawn>>

ReturnResult(i) ==
  /\ run[i].pc = "report"
  /\ run' = [run EXCEPT ![i] = IdleRun]
  /\ UNCHANGED <<chain, drawn>>

(* A refusal, a failed call, a revert, a time out: the run ends, and what  *)
(* it broadcast stays where it is.                                         *)
RunAborts(i) ==
  /\ run[i].pc # "idle"
  /\ run' = [run EXCEPT ![i] = IdleRun]
  /\ UNCHANGED <<chain, drawn>>

-----------------------------------------------------------------------------
(* The chain executes the payer's transactions in the order of nonces.     *)

Included(tx, receipt) ==
  /\ tx.nonce = nonce
  /\ nonce' = nonce + 1
  /\ pending' = pending \ {tx}
  /\ run' = [i \in Runs |-> IF run[i].sent = tx
                            THEN [run[i] EXCEPT !.receipt = receipt] ELSE run[i]]

ExecuteApprove(tx) ==
  /\ tx.kind = "approve" /\ Included(tx, "executed")
  /\ allowance' = tx.amount
  /\ UNCHANGED <<wallet, account, approved, drawn>>

(* A deposit the allowance covers and the wallet need not.                 *)
ExecuteUncoveredDeposit(tx) ==
  /\ tx.kind = "deposit" /\ Included(tx, "executed")
  /\ allowance >= tx.amount
  /\ wallet' = wallet - tx.amount
  /\ allowance' = allowance - tx.amount
  /\ account' = account + tx.amount
  /\ UNCHANGED <<approved, drawn>>

ExecuteDeposit(tx) ==
  /\ tx.kind = "deposit" /\ Included(tx, "executed")
  /\ wallet >= tx.amount /\ allowance >= tx.amount
  /\ wallet' = wallet - tx.amount
  /\ allowance' = allowance - tx.amount
  /\ account' = account + tx.amount
  /\ UNCHANGED <<approved, drawn>>

RevertDeposit(tx) ==
  /\ tx.kind = "deposit" /\ Included(tx, "reverted")
  /\ wallet < tx.amount \/ allowance < tx.amount
  /\ UNCHANGED <<wallet, account, allowance, approved, drawn>>

ExecuteOperatorApproval(tx) ==
  /\ tx.kind = "operator" /\ Included(tx, "executed")
  /\ approved' = TRUE
  /\ UNCHANGED <<wallet, account, allowance, drawn>>

(* A node forgets a transaction it never executed.                         *)
Drop(tx) ==
  /\ pending' = pending \ {tx}
  /\ UNCHANGED <<wallet, account, allowance, approved, nonce, run, drawn>>

(* The faucet fills the wallet; warm storage is paid from the account.     *)
Faucet ==
  /\ wallet + account < Supply
  /\ wallet' = wallet + 1
  /\ UNCHANGED <<account, allowance, approved, nonce, pending, run, drawn>>

Draw ==
  /\ approved /\ account > 0
  /\ account' = account - 1
  /\ drawn' = [i \in Runs |-> IF run[i].pc \in Kinds \cup {"report"}
                              THEN drawn[i] + 1 ELSE drawn[i]]
  /\ UNCHANGED <<wallet, allowance, approved, nonce, pending, run>>

Next ==
  \/ \E i \in Runs :
       \/ \E q \in Requests : StartFund(i, q)
       \/ ReadBalance(i) \/ ReadFunds(i) \/ Broadcast(i) \/ Proceed(i)
       \/ ReturnResult(i) \/ RunAborts(i)
  \/ \E tx \in pending :
       \/ ExecuteApprove(tx) \/ ExecuteDeposit(tx) \/ RevertDeposit(tx)
       \/ ExecuteOperatorApproval(tx) \/ Drop(tx)
  \/ Faucet \/ Draw

Spec == Init /\ [][Next]_vars

-----------------------------------------------------------------------------
TypeOK ==
  /\ wallet \in Nat /\ account \in Nat /\ allowance \in Nat
  /\ approved \in BOOLEAN
  /\ nonce \in 1..(MaxNonce + 1)
  /\ pending \subseteq Transaction
  /\ run \in [Runs -> RunState]
  /\ drawn \in [Runs -> Nat]

(* A run that reports success leaves an account lockup can draw on: warm   *)
(* storage is approved, and the account holds what was asked for but for   *)
(* what was drawn since the run planned, whatever earlier runs left        *)
(* pending and whichever of it the chain executed or reverted meanwhile.   *)
DoneMeansFunded ==
  \A i \in Runs :
    run[i].pc = "report" => approved /\ account + drawn[i] >= run[i].req.deposit

Executes(tx) == tx \in pending /\ tx.nonce = nonce /\ nonce' = nonce + 1

(* Money is not moved twice: without --force-deposit, a deposit planned    *)
(* with nothing pending is only executed on an account that still lacks    *)
(* the amount, even if its run timed out and others ran since.             *)
NoNeedlessDeposit ==
  [][\A tx \in pending :
       Executes(tx) /\ tx.kind = "deposit" /\ tx.quiet /\ ~tx.force =>
         account < tx.amount]_vars

(* A deposit planned with nothing pending never reverts: the balance was   *)
(* there and its approve was executed first, which is what the wait for    *)
(* each receipt is for.                                                    *)
PlannedDepositsLand ==
  [][\A tx \in pending :
       Executes(tx) /\ tx.kind = "deposit" /\ tx.quiet =>
         account' = account + tx.amount]_vars

=============================================================================
