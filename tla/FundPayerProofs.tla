--------------------------- MODULE FundPayerProofs ---------------------------
(***************************************************************************)
(* What holds of FundPayer for any requests, supply and number of          *)
(* transactions.                                                           *)
(***************************************************************************)
EXTENDS FundPayer, TLAPS

USE DEF chain

-----------------------------------------------------------------------------
TypeInv == TypeOK /\ \A i \in Runs : run[i].pc # "idle" => run[i].req \in Requests

LEMMA IdleType == IdleRun \in RunState /\ IdleRun.pc = "idle"
  BY DEF IdleRun, RunState

LEMMA TypeInit == Init => TypeInv
<1> SUFFICES ASSUME Init PROVE TypeInv
  OBVIOUS
<1>1. /\ run \in [Runs -> RunState]
      /\ \A i \in Runs : run[i].pc = "idle"
  BY IdleType DEF Init
<1>2. nonce \in 1..(MaxNonce + 1)
  BY BoundAssumption DEF BoundAssumption, Init
<1>3. drawn \in [Runs -> Nat] /\ pending \subseteq Transaction
  BY DEF Init
<1>4. QED
  BY <1>1, <1>2, <1>3 DEF Init, TypeInv, TypeOK

LEMMA TypeRunStep ==
  ASSUME TypeInv, NEW i \in Runs,
         \/ \E q \in Requests : StartFund(i, q)
         \/ ReadBalance(i) \/ ReadFunds(i) \/ Broadcast(i) \/ Proceed(i)
         \/ ReturnResult(i) \/ RunAborts(i)
  PROVE  TypeInv'
<1> USE DEF TypeInv, TypeOK
<1>1. run[i] \in RunState /\ (run[i].pc # "idle" => run[i].req \in Requests)
  OBVIOUS
<1>2. ASSUME NEW s \in RunState, s.pc # "idle" => s.req \in Requests,
             run' = [run EXCEPT ![i] = s]
      PROVE  /\ run' \in [Runs -> RunState]
             /\ \A j \in Runs : run'[j].pc # "idle" => run'[j].req \in Requests
  BY <1>2
<1>3. ASSUME NEW q \in Requests, StartFund(i, q)
      PROVE  TypeInv'
  <2> DEFINE s == [IdleRun EXCEPT !.pc = "balance", !.req = q]
  <2>1. s \in RunState /\ (s.pc # "idle" => s.req \in Requests)
    BY DEF RunState, IdleRun, Kinds
  <2>2. run' = [run EXCEPT ![i] = s]
    BY <1>3 DEF StartFund
  <2> HIDE DEF s
  <2>3. QED
    BY <1>2, <1>3, <2>1, <2>2 DEF StartFund
<1>4. CASE ReadBalance(i)
  <2>1. PICK b \in BOOLEAN :
          run' = [run EXCEPT ![i] = [@ EXCEPT !.pc = "funds", !.quiet = b]]
    <3>1. (pending = {}) \in BOOLEAN
      OBVIOUS
    <3>2. QED
      BY <1>4, <3>1, Zenon DEF ReadBalance
  <2> DEFINE s == [run[i] EXCEPT !.pc = "funds", !.quiet = b]
  <2>2. s \in RunState /\ s.req \in Requests
    BY <1>1, <1>4 DEF ReadBalance, RunState, Kinds
  <2>3. run' = [run EXCEPT ![i] = s]
    BY <1>1, <2>1 DEF RunState
  <2> HIDE DEF s
  <2>4. QED
    BY <1>2, <1>4, <2>2, <2>3 DEF ReadBalance
<1>5. CASE ReadFunds(i)
  <2>1. PICK b \in BOOLEAN :
          run' = [run EXCEPT ![i] = [@ EXCEPT !.pc = "approve", !.skip = b]]
    <3>1. SkipDeposit(run[i].req) \in BOOLEAN
      BY DEF SkipDeposit
    <3>2. QED
      BY <1>5, <3>1, Zenon DEF ReadFunds
  <2> DEFINE s == [run[i] EXCEPT !.pc = "approve", !.skip = b]
  <2>2. s \in RunState /\ s.req \in Requests
    BY <1>1, <1>5 DEF ReadFunds, RunState, Kinds
  <2>3. run' = [run EXCEPT ![i] = s]
    BY <1>1, <2>1 DEF RunState
  <2>4. drawn' \in [Runs -> Nat]
    BY <1>5 DEF ReadFunds
  <2> HIDE DEF s
  <2>5. QED
    BY <1>2, <1>5, <2>2, <2>3, <2>4 DEF ReadFunds
<1>6. CASE Broadcast(i)
  <2>1. PICK n \in 1..MaxNonce :
          LET tx == [nonce |-> n, kind |-> run[i].pc,
                     amount |-> run[i].req.deposit, force |-> run[i].req.force,
                     quiet |-> run[i].quiet]
          IN /\ pending' = pending \cup {tx}
             /\ run' = [run EXCEPT ![i].sent = tx]
    BY <1>6 DEF Broadcast
  <2> DEFINE tx == [nonce |-> n, kind |-> run[i].pc,
                    amount |-> run[i].req.deposit, force |-> run[i].req.force,
                    quiet |-> run[i].quiet]
             s == [run[i] EXCEPT !.sent = tx]
  <2>2. tx \in Transaction
    <3>1. run[i].req \in RequestSet /\ run[i].pc \in Kinds /\ run[i].quiet \in BOOLEAN
      BY <1>1, <1>6, RequestsAssumption
         DEF Broadcast, RequestsAssumption, RunState, Kinds
    <3>2. QED
      BY <3>1 DEF Transaction, RequestSet
  <2>3. pending' = pending \cup {tx} /\ run' = [run EXCEPT ![i] = s]
    BY <1>1, <2>1 DEF RunState
  <2> HIDE DEF tx
  <2>4. s \in RunState /\ (s.pc # "idle" => s.req \in Requests)
    BY <1>1, <2>2 DEF RunState
  <2> HIDE DEF s
  <2>5. QED
    BY <1>2, <1>6, <2>2, <2>3, <2>4 DEF Broadcast
<1>7. CASE Proceed(i)
  <2> DEFINE s == [run[i] EXCEPT !.pc = After(run[i]), !.sent = None, !.receipt = "none"]
  <2>1. s \in RunState /\ (s.pc # "idle" => s.req \in Requests)
    BY <1>1, <1>7 DEF Proceed, After, RunState, Kinds
  <2>2. run' = [run EXCEPT ![i] = s]
    BY <1>1, <1>7 DEF Proceed, RunState
  <2> HIDE DEF s
  <2>3. QED
    BY <1>2, <1>7, <2>1, <2>2 DEF Proceed
<1>8. CASE ReturnResult(i) \/ RunAborts(i)
  <2>1. run' = [run EXCEPT ![i] = IdleRun]
    BY <1>8 DEF ReturnResult, RunAborts
  <2>2. QED
    BY <1>2, <1>8, <2>1, IdleType DEF ReturnResult, RunAborts
<1>9. QED
  BY <1>3, <1>4, <1>5, <1>6, <1>7, <1>8

LEMMA TypeIncluded ==
  ASSUME TypeInv, NEW tx \in pending, NEW receipt \in {"executed", "reverted"},
         Included(tx, receipt)
  PROVE  /\ nonce' \in 1..(MaxNonce + 1)
         /\ pending' \subseteq Transaction
         /\ run' \in [Runs -> RunState]
         /\ \A i \in Runs : run'[i].pc # "idle" => run'[i].req \in Requests
<1> USE DEF TypeInv, TypeOK, Included
<1>1. tx.nonce \in 1..MaxNonce
  BY DEF Transaction
<1>2. nonce' \in 1..(MaxNonce + 1)
  BY <1>1, BoundAssumption DEF BoundAssumption
<1>3. ASSUME NEW i \in Runs
      PROVE  run'[i] \in RunState /\ (run'[i].pc # "idle" => run'[i].req \in Requests)
  BY <1>3 DEF RunState
<1>4. QED
  BY <1>2, <1>3

LEMMA TypeChainStep ==
  ASSUME TypeInv,
         \/ \E tx \in pending :
              \/ ExecuteApprove(tx) \/ ExecuteDeposit(tx) \/ RevertDeposit(tx)
              \/ ExecuteOperatorApproval(tx) \/ Drop(tx)
         \/ Faucet \/ Draw \/ UNCHANGED vars
  PROVE  TypeInv'
<1> USE DEF TypeInv, TypeOK
<1>1. \A tx \in pending : tx.amount \in Nat
  BY DEF Transaction
<1>2. ASSUME NEW tx \in pending, ExecuteApprove(tx)
      PROVE  TypeInv'
  BY <1>1, <1>2, TypeIncluded DEF ExecuteApprove
<1>3. ASSUME NEW tx \in pending, ExecuteDeposit(tx)
      PROVE  TypeInv'
  BY <1>1, <1>3, TypeIncluded DEF ExecuteDeposit
<1>4. ASSUME NEW tx \in pending, RevertDeposit(tx)
      PROVE  TypeInv'
  BY <1>4, TypeIncluded DEF RevertDeposit
<1>5. ASSUME NEW tx \in pending, ExecuteOperatorApproval(tx)
      PROVE  TypeInv'
  BY <1>5, TypeIncluded DEF ExecuteOperatorApproval
<1>6. ASSUME NEW tx \in pending, Drop(tx)
      PROVE  TypeInv'
  BY <1>6 DEF Drop
<1>7. CASE Faucet
  BY <1>7 DEF Faucet
<1>8. CASE Draw
  BY <1>8 DEF Draw
<1>9. CASE UNCHANGED vars
  BY <1>9 DEF vars
<1>10. QED
  BY <1>2, <1>3, <1>4, <1>5, <1>6, <1>7, <1>8, <1>9

LEMMA TypeStep == TypeInv /\ [Next]_vars => TypeInv'
  BY TypeRunStep, TypeChainStep DEF Next

(* Every variable keeps its type, whatever runs overlap: no balance goes   *)
(* below nothing.                                                          *)
THEOREM TypesHold == Spec => []TypeOK
<1>1. TypeInv => TypeOK
  BY DEF TypeInv
<1>2. QED
  BY <1>1, TypeInit, TypeStep, PTL DEF Spec

-----------------------------------------------------------------------------
(* Why a run that reports success leaves the account funded, whichever     *)
(* other runs overlap with it.  The receipt a run acts on is that of a     *)
(* transaction of the kind and amount it is waiting for.  From the moment  *)
(* it skips the deposit or has its receipt, the amount is in the account   *)
(* but for what was drawn since the run planned; and no step withdraws the *)
(* approval of warm storage.                                               *)
Sent(i) ==
  LET tx == run[i].sent IN
    /\ tx = None => run[i].receipt = "none"
    /\ tx # None => /\ run[i].pc = tx.kind /\ tx.amount = run[i].req.deposit
                    /\ tx.force = run[i].req.force /\ tx.quiet = run[i].quiet

HasAmount(i) ==
  \/ run[i].pc = "approve" /\ run[i].skip
  \/ run[i].pc = "deposit" /\ run[i].receipt = "executed"
  \/ run[i].pc \in {"operator", "report"}

HasApproval(i) ==
  \/ run[i].pc = "operator" /\ run[i].receipt = "executed"
  \/ run[i].pc = "report"

Funded(i) ==
  /\ HasAmount(i) => account + drawn[i] >= run[i].req.deposit
  /\ HasApproval(i) => approved

FundedInv == TypeInv /\ \A i \in Runs : Sent(i) /\ Funded(i)

LEMMA FundedInit == Init => FundedInv
<1> SUFFICES ASSUME Init PROVE FundedInv
  OBVIOUS
<1>1. \A i \in Runs : /\ run[i].pc = "idle"
                      /\ run[i].sent = None /\ run[i].receipt = "none"
  BY DEF Init, IdleRun
<1>2. QED
  BY <1>1, TypeInit DEF FundedInv, Sent, Funded, HasAmount, HasApproval

(* What is known of a run's record and of the numbers compared with it.    *)
LEMMA FundedTypes ==
  ASSUME TypeInv, NEW i \in Runs
  PROVE  /\ run \in [Runs -> RunState] /\ run[i] \in RunState
         /\ run[i].pc # "idle" => run[i].req \in RequestSet
         /\ account \in Nat /\ drawn \in [Runs -> Nat] /\ drawn[i] \in Nat
         /\ None \notin pending
  BY RequestsAssumption, NoneAssumption
     DEF TypeInv, TypeOK, RequestsAssumption, NoneAssumption

LEMMA FundedRunStep ==
  ASSUME FundedInv, NEW i \in Runs,
         \/ \E q \in Requests : StartFund(i, q)
         \/ ReadBalance(i) \/ ReadFunds(i) \/ Broadcast(i) \/ Proceed(i)
         \/ ReturnResult(i) \/ RunAborts(i)
  PROVE  FundedInv'
<1>1. TypeInv /\ TypeInv'
  BY TypeRunStep DEF FundedInv
<1>2. /\ run \in [Runs -> RunState] /\ run[i] \in RunState
      /\ run[i].pc # "idle" => run[i].req \in RequestSet
      /\ account \in Nat /\ drawn \in [Runs -> Nat] /\ drawn[i] \in Nat
      /\ None \notin pending
  BY <1>1, FundedTypes
<1>3. Sent(i) /\ Funded(i)
  BY DEF FundedInv
<1>4. UNCHANGED <<account, approved>>
  BY DEF StartFund, ReadBalance, ReadFunds, Broadcast, Proceed, ReturnResult, RunAborts
<1>5. ASSUME NEW j \in Runs, j # i
      PROVE  Sent(j)' /\ Funded(j)'
  <2>1. run'[j] = run[j] /\ drawn'[j] = drawn[j]
    BY <1>2, <1>5 DEF StartFund, ReadBalance, ReadFunds, Broadcast, Proceed,
                      ReturnResult, RunAborts
  <2>2. Sent(j) /\ Funded(j)
    BY DEF FundedInv
  <2>3. QED
    BY <1>4, <2>1, <2>2 DEF Sent, Funded, HasAmount, HasApproval
<1>6. Sent(i)' /\ Funded(i)'
  <2>1. CASE \/ \E q \in Requests : StartFund(i, q)
             \/ ReturnResult(i) \/ RunAborts(i)
    <3>1. /\ run'[i].pc \in {"idle", "balance"}
          /\ run'[i].sent = None /\ run'[i].receipt = "none"
      <4>1. ASSUME NEW q \in Requests, StartFund(i, q)
            PROVE  /\ run'[i].pc \in {"idle", "balance"}
                   /\ run'[i].sent = None /\ run'[i].receipt = "none"
        <5>1. run'[i] = [IdleRun EXCEPT !.pc = "balance", !.req = q]
          BY <1>2, <4>1 DEF StartFund
        <5>2. QED
          BY <5>1 DEF IdleRun
      <4>2. ASSUME ReturnResult(i) \/ RunAborts(i)
            PROVE  /\ run'[i].pc \in {"idle", "balance"}
                   /\ run'[i].sent = None /\ run'[i].receipt = "none"
        <5>1. run'[i] = IdleRun
          BY <1>2, <4>2 DEF ReturnResult, RunAborts
        <5>2. QED
          BY <5>1 DEF IdleRun
      <4>3. QED
        BY <2>1, <4>1, <4>2
    <3>2. QED
      BY <3>1 DEF Sent, Funded, HasAmount, HasApproval
  <2>2. CASE ReadBalance(i)
    <3>1. run[i].pc = "balance"
      BY <2>2 DEF ReadBalance
    <3>2. run[i].sent = None /\ run[i].receipt = "none"
      BY <1>2, <1>3, <3>1 DEF Sent, RunState, Transaction, Kinds
    <3>3. run'[i].pc = "funds" /\ run'[i].sent = None /\ run'[i].receipt = "none"
      BY <1>2, <2>2, <3>2 DEF ReadBalance, RunState
    <3>4. QED
      BY <3>3 DEF Sent, Funded, HasAmount, HasApproval
  <2>3. CASE ReadFunds(i)
    <3>1. run[i].pc = "funds" /\ drawn'[i] = 0
      BY <1>2, <2>3 DEF ReadFunds
    <3>2. run[i].sent = None /\ run[i].receipt = "none"
      BY <1>2, <1>3, <3>1 DEF Sent, RunState, Transaction, Kinds
    <3>3. /\ run'[i].pc = "approve" /\ run'[i].req = run[i].req
          /\ run'[i].sent = None /\ run'[i].receipt = "none"
      BY <1>2, <2>3, <3>2 DEF ReadFunds, RunState
    <3>4. run'[i].skip => account >= run[i].req.deposit
      <4>1. PICK b \in BOOLEAN :
              /\ run' = [run EXCEPT ![i] = [@ EXCEPT !.pc = "approve", !.skip = b]]
              /\ b => account >= run[i].req.deposit
        <5>1. /\ SkipDeposit(run[i].req) \in BOOLEAN
              /\ SkipDeposit(run[i].req) => account >= run[i].req.deposit
          BY DEF SkipDeposit
        <5>2. QED
          BY <2>3, <5>1, Zenon DEF ReadFunds
      <4>2. run'[i].skip = b
        BY <1>2, <4>1 DEF RunState
      <4>3. QED
        BY <4>1, <4>2, Zenon
    <3>5. Sent(i)'
      BY <3>3 DEF Sent
    <3>6. Funded(i)'
      BY <1>2, <1>4, <3>1, <3>3, <3>4 DEF Funded, HasAmount, HasApproval
    <3>7. QED
      BY <3>5, <3>6
  <2>4. CASE Broadcast(i)
    <3>1. PICK n \in 1..MaxNonce :
            LET tx == [nonce |-> n, kind |-> run[i].pc,
                       amount |-> run[i].req.deposit, force |-> run[i].req.force,
                       quiet |-> run[i].quiet]
            IN /\ pending' = pending \cup {tx}
               /\ run' = [run EXCEPT ![i].sent = tx]
      BY <2>4 DEF Broadcast
    <3> DEFINE new == [nonce |-> n, kind |-> run[i].pc,
                       amount |-> run[i].req.deposit, force |-> run[i].req.force,
                       quiet |-> run[i].quiet]
    <3>2. /\ new.kind = run[i].pc /\ new.quiet = run[i].quiet
          /\ new.amount = run[i].req.deposit /\ new.force = run[i].req.force
      OBVIOUS
    <3>3. run' = [run EXCEPT ![i].sent = new]
      BY <3>1
    <3> HIDE DEF new
    <3>4. run[i].sent = None /\ UNCHANGED drawn
      BY <2>4 DEF Broadcast
    <3>5. /\ run'[i].pc = run[i].pc /\ run'[i].req = run[i].req
          /\ run'[i].sent = new /\ run'[i].receipt = "none"
          /\ run'[i].quiet = run[i].quiet /\ run'[i].skip = run[i].skip
      BY <1>2, <1>3, <3>3, <3>4 DEF Sent, RunState
    <3>6. Sent(i)'
      BY <3>2, <3>5 DEF Sent
    <3>7. Funded(i)'
      BY <1>3, <1>4, <3>4, <3>5 DEF Funded, HasAmount, HasApproval
    <3>8. QED
      BY <3>6, <3>7
  <2>5. CASE Proceed(i)
    <3>1. /\ run[i].pc \in Kinds /\ run[i].receipt = "executed" /\ UNCHANGED drawn
      BY <2>5 DEF Proceed
    <3>2. /\ run'[i].pc = After(run[i]) /\ run'[i].req = run[i].req
          /\ run'[i].sent = None /\ run'[i].receipt = "none"
      BY <1>2, <2>5 DEF Proceed, RunState
    <3>3. /\ After(run[i]) \in {"deposit", "operator", "report"}
          /\ After(run[i]) # "deposit" => HasAmount(i)
          /\ After(run[i]) = "report" => HasApproval(i)
      BY <3>1 DEF After, HasAmount, HasApproval, Kinds
    <3>4. Sent(i)'
      BY <3>2 DEF Sent
    <3>5. Funded(i)'
      BY <1>3, <1>4, <3>1, <3>2, <3>3 DEF Funded, HasAmount, HasApproval
    <3>6. QED
      BY <3>4, <3>5
  <2>6. QED
    BY <2>1, <2>2, <2>3, <2>4, <2>5
<1>7. QED
  BY <1>1, <1>5, <1>6 DEF FundedInv

(* A receipt reaches exactly the runs that wait for its transaction.       *)
LEMMA FundedIncluded ==
  ASSUME FundedInv, TypeInv', NEW tx \in pending,
         NEW receipt \in {"executed", "reverted"}, Included(tx, receipt),
         UNCHANGED drawn, account' >= account, approved => approved',
         tx.kind = "deposit" /\ receipt = "executed" => account' >= tx.amount,
         tx.kind = "operator" => approved'
  PROVE  FundedInv'
<1> SUFFICES ASSUME NEW i \in Runs
             PROVE  Sent(i)' /\ Funded(i)'
  BY DEF FundedInv
<1>1. /\ run \in [Runs -> RunState] /\ run[i] \in RunState
      /\ run[i].pc # "idle" => run[i].req \in RequestSet
      /\ account \in Nat /\ drawn[i] \in Nat /\ None \notin pending
      /\ account' \in Nat
  BY FundedTypes DEF FundedInv, TypeInv, TypeOK
<1>2. Sent(i) /\ Funded(i)
  BY DEF FundedInv
<1>3. /\ run'[i].pc = run[i].pc /\ run'[i].req = run[i].req
      /\ run'[i].sent = run[i].sent /\ run'[i].quiet = run[i].quiet
      /\ run'[i].skip = run[i].skip
      /\ run'[i].receipt = IF run[i].sent = tx THEN receipt ELSE run[i].receipt
  BY <1>1 DEF Included, RunState
<1>4. Sent(i)'
  BY <1>1, <1>2, <1>3 DEF Sent
<1>5. HasAmount(i)' => HasAmount(i) \/ account' >= run[i].req.deposit
  BY <1>1, <1>2, <1>3 DEF HasAmount, Sent
<1>6. HasApproval(i)' => HasApproval(i) \/ approved'
  BY <1>1, <1>2, <1>3 DEF HasApproval, Sent
<1>7. HasAmount(i)' => account' + drawn[i] >= run[i].req.deposit
  <2>1. HasAmount(i)' => run[i].req.deposit \in Nat
    BY <1>1, <1>3 DEF HasAmount, RequestSet
  <2>2. QED
    BY <1>1, <1>2, <1>5, <2>1 DEF Funded
<1>8. QED
  BY <1>2, <1>3, <1>4, <1>6, <1>7 DEF Funded

LEMMA FundedChainStep ==
  ASSUME FundedInv, TypeInv',
         \/ \E tx \in pending :
              \/ ExecuteApprove(tx) \/ ExecuteDeposit(tx) \/ RevertDeposit(tx)
              \/ ExecuteOperatorApproval(tx) \/ Drop(tx)
         \/ Faucet \/ Draw \/ UNCHANGED vars
  PROVE  FundedInv'
<1>1. account \in Nat /\ \A tx \in pending : tx.amount \in Nat
  BY DEF FundedInv, TypeInv, TypeOK, Transaction
<1>2. ASSUME NEW tx \in pending, ExecuteApprove(tx)
      PROVE  FundedInv'
  BY <1>1, <1>2, FundedIncluded DEF ExecuteApprove
<1>3. ASSUME NEW tx \in pending, ExecuteDeposit(tx)
      PROVE  FundedInv'
  BY <1>1, <1>3, FundedIncluded DEF ExecuteDeposit
<1>4. ASSUME NEW tx \in pending, RevertDeposit(tx)
      PROVE  FundedInv'
  BY <1>1, <1>4, FundedIncluded DEF RevertDeposit
<1>5. ASSUME NEW tx \in pending, ExecuteOperatorApproval(tx)
      PROVE  FundedInv'
  BY <1>1, <1>5, FundedIncluded DEF ExecuteOperatorApproval
<1>6. ASSUME UNCHANGED <<run, drawn, account, approved>>
      PROVE  FundedInv'
  BY <1>6 DEF FundedInv, Sent, Funded, HasAmount, HasApproval
<1>7. CASE \/ \E tx \in pending : Drop(tx)
           \/ Faucet \/ UNCHANGED vars
  BY <1>6, <1>7 DEF Drop, Faucet, vars
<1>8. CASE Draw
  <2> SUFFICES ASSUME NEW i \in Runs
               PROVE  Sent(i)' /\ Funded(i)'
    BY DEF FundedInv
  <2>1. /\ run'[i] = run[i] /\ approved' = approved /\ account' = account - 1
        /\ drawn'[i] = IF run[i].pc \in Kinds \cup {"report"}
                       THEN drawn[i] + 1 ELSE drawn[i]
    BY <1>8 DEF Draw
  <2>2. Sent(i) /\ Funded(i) /\ drawn[i] \in Nat
    BY FundedTypes DEF FundedInv
  <2>3. Sent(i)'
    BY <2>1, <2>2 DEF Sent
  <2>4. HasAmount(i)' <=> HasAmount(i)
    BY <2>1 DEF HasAmount
  <2>5. HasApproval(i)' <=> HasApproval(i)
    BY <2>1 DEF HasApproval
  <2>6. HasAmount(i) => account' + drawn'[i] = account + drawn[i]
    BY <1>1, <2>1, <2>2 DEF HasAmount, Kinds
  <2>7. QED
    BY <2>1, <2>2, <2>3, <2>4, <2>5, <2>6 DEF Funded
<1>9. QED
  BY <1>2, <1>3, <1>4, <1>5, <1>7, <1>8

LEMMA FundedStep == FundedInv /\ [Next]_vars => FundedInv'
<1>1. FundedInv /\ [Next]_vars => TypeInv'
  BY TypeStep DEF FundedInv
<1>2. QED
  BY <1>1, FundedRunStep, FundedChainStep DEF Next

(* A fund run that reports success leaves warm storage approved and the    *)
(* amount in the account, but for what was drawn since the run planned,    *)
(* for any number of overlapping runs and whatever was left pending.       *)
THEOREM ReportedFunded == Spec => []DoneMeansFunded
<1>1. FundedInv => DoneMeansFunded
  BY DEF FundedInv, Funded, HasAmount, HasApproval, DoneMeansFunded
<1>2. QED
  BY <1>1, FundedInit, FundedStep, PTL DEF Spec

-----------------------------------------------------------------------------
(* Why a deposit planned on a quiet chain is needed and lands.  Alone and  *)
(* with nothing pending when it began to read, a run has only its own      *)
(* transaction pending at any time, so what it read stays true until its   *)
(* deposit is executed; and a deposit it leaves behind holds the payer's   *)
(* next nonce, so nothing is executed before it.                           *)
OneRun == \A i, j \in Runs : i = j

Nonces ==
  \A tx \in pending :
    /\ tx.nonce >= nonce
    /\ \A other \in pending : other.nonce = tx.nonce => other = tx

(* What holds for a deposit that is not yet executed.                      *)
Covered(amount) == wallet >= amount
Lacking(amount, force) == force \/ account < amount
Allowed(amount) == allowance >= amount

AboutToDeposit(i) == run[i].pc = "deposit" /\ run[i].sent = None

QuietRun(i) ==
  LET q == run[i].req IN
    run[i].quiet =>
      /\ run[i].pc \notin {"idle", "balance"}
      /\ pending \subseteq {run[i].sent}
      /\ run[i].receipt # "none" => pending = {}
      /\ run[i].pc \in {"funds", "approve"} \/ AboutToDeposit(i) => Covered(q.deposit)
      /\ (run[i].pc = "approve" /\ ~run[i].skip) \/ AboutToDeposit(i) =>
           Lacking(q.deposit, q.force)
      /\ (run[i].pc = "approve" /\ run[i].receipt = "executed") \/ AboutToDeposit(i) =>
           Allowed(q.deposit)

QuietDeposit(tx) ==
  tx.kind = "deposit" /\ tx.quiet =>
    /\ tx.nonce = nonce
    /\ Covered(tx.amount) /\ Lacking(tx.amount, tx.force) /\ Allowed(tx.amount)

QInv ==
  /\ TypeInv
  /\ Nonces
  /\ \A i \in Runs : Sent(i) /\ QuietRun(i)
  /\ \A tx \in pending : QuietDeposit(tx)

LEMMA QInit == Init => QInv
<1> SUFFICES ASSUME Init PROVE QInv
  OBVIOUS
<1>1. TypeInv
  BY TypeInit
<1>2. \A i \in Runs : run[i].sent = None /\ run[i].receipt = "none" /\ ~run[i].quiet
  BY DEF Init, IdleRun
<1>3. pending = {}
  BY DEF Init
<1>4. QED
  BY <1>1, <1>2, <1>3 DEF QInv, Nonces, Sent, QuietRun

(* What a run in hand and the chain are known to be.                       *)
LEMMA QTypes ==
  ASSUME QInv, NEW i \in Runs
  PROVE  /\ run \in [Runs -> RunState] /\ run[i] \in RunState
         /\ run[i].pc # "idle" => run[i].req \in RequestSet
         /\ wallet \in Nat /\ account \in Nat /\ allowance \in Nat
         /\ nonce \in 1..(MaxNonce + 1)
         /\ pending \subseteq Transaction /\ None \notin pending
  BY RequestsAssumption, NoneAssumption
     DEF QInv, TypeInv, TypeOK, RequestsAssumption, NoneAssumption

LEMMA QRunStep ==
  ASSUME OneRun, QInv, NEW i \in Runs,
         \/ \E q \in Requests : StartFund(i, q)
         \/ ReadBalance(i) \/ ReadFunds(i) \/ Broadcast(i) \/ Proceed(i)
         \/ ReturnResult(i) \/ RunAborts(i)
  PROVE  QInv'
<1>1. /\ run \in [Runs -> RunState] /\ run[i] \in RunState
      /\ run[i].pc # "idle" => run[i].req \in RequestSet
      /\ wallet \in Nat /\ account \in Nat /\ allowance \in Nat
      /\ nonce \in 1..(MaxNonce + 1)
      /\ pending \subseteq Transaction /\ None \notin pending
  BY QTypes
<1>2. Nonces /\ Sent(i) /\ QuietRun(i) /\ \A tx \in pending : QuietDeposit(tx)
  BY DEF QInv
<1>3. \A j \in Runs : j = i
  BY DEF OneRun
<1>4. TypeInv'
  BY TypeRunStep DEF QInv
<1>5. SUFFICES /\ Nonces' /\ Sent(i)' /\ QuietRun(i)'
               /\ \A tx \in pending' : QuietDeposit(tx)'
  BY <1>3, <1>4 DEF QInv
<1>6. ASSUME UNCHANGED <<wallet, account, allowance, nonce, pending>>
      PROVE  Nonces' /\ \A tx \in pending' : QuietDeposit(tx)'
  BY <1>2, <1>6 DEF Nonces, QuietDeposit, Covered, Lacking, Allowed
<1>7. CASE \/ \E q \in Requests : StartFund(i, q)
           \/ ReturnResult(i) \/ RunAborts(i)
  <2>1. /\ run'[i].sent = None /\ run'[i].receipt = "none"
        /\ run'[i].quiet = FALSE
    <3>1. ASSUME NEW q \in Requests, StartFund(i, q)
          PROVE  /\ run'[i].sent = None /\ run'[i].receipt = "none"
                 /\ run'[i].quiet = FALSE
      <4>1. run'[i] = [IdleRun EXCEPT !.pc = "balance", !.req = q]
        BY <1>1, <3>1 DEF StartFund
      <4>2. QED
        BY <4>1 DEF IdleRun
    <3>2. ASSUME ReturnResult(i) \/ RunAborts(i)
          PROVE  /\ run'[i].sent = None /\ run'[i].receipt = "none"
                 /\ run'[i].quiet = FALSE
      <4>1. run'[i] = IdleRun
        BY <1>1, <3>2 DEF ReturnResult, RunAborts
      <4>2. QED
        BY <4>1 DEF IdleRun
    <3>3. QED
      BY <1>7, <3>1, <3>2
  <2>2. UNCHANGED <<wallet, account, allowance, nonce, pending>>
    BY <1>7 DEF StartFund, ReturnResult, RunAborts
  <2>3. QED
    BY <1>6, <2>1, <2>2 DEF Sent, QuietRun
<1>8. CASE ReadBalance(i)
  <2>1. /\ run[i].pc = "balance" /\ HoldsDeposit(run[i].req)
        /\ UNCHANGED <<wallet, account, allowance, nonce, pending>>
    BY <1>8 DEF ReadBalance
  <2>2. run[i].sent = None /\ run[i].receipt = "none"
    BY <1>1, <1>2, <2>1 DEF Sent, RunState, Transaction, Kinds
  <2>3. /\ run'[i].pc = "funds" /\ run'[i].req = run[i].req
        /\ run'[i].sent = None /\ run'[i].receipt = "none"
    BY <1>1, <1>8, <2>2 DEF ReadBalance, RunState
  <2>4. run'[i].quiet => pending = {}
    <3>1. PICK b \in BOOLEAN :
            /\ run' = [run EXCEPT ![i] = [@ EXCEPT !.pc = "funds", !.quiet = b]]
            /\ b => pending = {}
      <4>1. (pending = {}) \in BOOLEAN /\ ((pending = {}) => pending = {})
        OBVIOUS
      <4>2. QED
        BY <1>8, <4>1, Zenon DEF ReadBalance
    <3>2. run'[i].quiet = b
      BY <1>1, <3>1 DEF RunState
    <3>3. QED
      BY <3>1, <3>2, Zenon
  <2>5. Sent(i)'
    BY <2>3 DEF Sent
  <2>6. QuietRun(i)'
    BY <2>1, <2>3, <2>4 DEF QuietRun, AboutToDeposit, Covered, HoldsDeposit
  <2>7. QED
    BY <1>6, <2>1, <2>5, <2>6
<1>9. CASE ReadFunds(i)
  <2>1. /\ run[i].pc = "funds"
        /\ UNCHANGED <<wallet, account, allowance, nonce, pending>>
    BY <1>9 DEF ReadFunds
  <2>2. run[i].sent = None /\ run[i].receipt = "none"
    BY <1>1, <1>2, <2>1 DEF Sent, RunState, Transaction, Kinds
  <2>3. /\ run'[i].pc = "approve" /\ run'[i].req = run[i].req
        /\ run'[i].sent = None /\ run'[i].receipt = "none"
        /\ run'[i].quiet = run[i].quiet
    BY <1>1, <1>9, <2>2 DEF ReadFunds, RunState
  <2>4. ~run'[i].skip => ~SkipDeposit(run[i].req)
    <3>1. PICK b \in BOOLEAN :
            /\ run' = [run EXCEPT ![i] = [@ EXCEPT !.pc = "approve", !.skip = b]]
            /\ ~b => ~SkipDeposit(run[i].req)
      <4>1. /\ SkipDeposit(run[i].req) \in BOOLEAN
            /\ ~SkipDeposit(run[i].req) => ~SkipDeposit(run[i].req)
        BY DEF SkipDeposit
      <4>2. QED
        BY <1>9, <4>1, Zenon DEF ReadFunds
    <3>2. run'[i].skip = b
      BY <1>1, <3>1 DEF RunState
    <3>3. QED
      BY <3>1, <3>2, Zenon
  <2>5. ~run'[i].skip => Lacking(run[i].req.deposit, run[i].req.force)
    BY <1>1, <2>1, <2>4 DEF SkipDeposit, Lacking, RequestSet
  <2>6. Sent(i)'
    BY <2>3 DEF Sent
  <2>7. QuietRun(i)'
    BY <1>2, <2>1, <2>2, <2>3, <2>5
       DEF QuietRun, AboutToDeposit, Covered, Lacking
  <2>8. QED
    BY <1>6, <2>1, <2>6, <2>7
<1>10. CASE Broadcast(i)
  <2>1. PICK n \in 1..MaxNonce :
          /\ NextNonce(n)
          /\ LET tx == [nonce |-> n, kind |-> run[i].pc,
                        amount |-> run[i].req.deposit, force |-> run[i].req.force,
                        quiet |-> run[i].quiet]
             IN /\ pending' = pending \cup {tx}
                /\ run' = [run EXCEPT ![i].sent = tx]
    BY <1>10 DEF Broadcast
  <2> DEFINE new == [nonce |-> n, kind |-> run[i].pc,
                     amount |-> run[i].req.deposit, force |-> run[i].req.force,
                     quiet |-> run[i].quiet]
  <2>2. /\ new.nonce = n /\ new.kind = run[i].pc /\ new.quiet = run[i].quiet
        /\ new.amount = run[i].req.deposit /\ new.force = run[i].req.force
    OBVIOUS
  <2>3. pending' = pending \cup {new} /\ run' = [run EXCEPT ![i].sent = new]
    BY <2>1
  <2> HIDE DEF new
  <2>4. /\ run[i].pc \in Kinds /\ run[i].sent = None
        /\ UNCHANGED <<wallet, account, allowance, nonce>>
    BY <1>10 DEF Broadcast
  <2>5. n >= nonce /\ \A tx \in pending : tx.nonce # n
    BY <2>1 DEF NextNonce, Free
  <2>6. /\ run'[i].pc = run[i].pc /\ run'[i].req = run[i].req
        /\ run'[i].sent = new /\ run'[i].receipt = "none"
        /\ run'[i].quiet = run[i].quiet /\ run'[i].skip = run[i].skip
    BY <1>1, <1>2, <2>3, <2>4 DEF Sent, RunState
  <2>7. new # None
    <3>1. new \in pending'
      BY <2>3
    <3>2. None \notin pending'
      BY <1>4, NoneAssumption DEF TypeInv, TypeOK, NoneAssumption
    <3>3. QED
      BY <3>1, <3>2
  <2>8. Nonces'
    BY <1>1, <1>2, <2>2, <2>3, <2>4, <2>5 DEF Nonces
  <2>9. Sent(i)'
    BY <2>2, <2>6, <2>7 DEF Sent
  <2>10. run[i].quiet => pending = {}
    BY <1>1, <1>2, <2>4 DEF QuietRun
  <2>11. QuietRun(i)'
    BY <1>2, <2>3, <2>4, <2>6, <2>7, <2>10
       DEF QuietRun, AboutToDeposit, Covered, Lacking, Allowed, Kinds
  <2>12. ASSUME NEW tx \in pending', tx = new
         PROVE  QuietDeposit(tx)'
    <3>1. ASSUME pending = {}
          PROVE  n = nonce
      <4>1. nonce \in 1..MaxNonce /\ Free(nonce)
        BY <1>1, <2>5, <3>1, BoundAssumption DEF Free
      <4>2. n <= nonce
        BY <2>1, <4>1 DEF NextNonce
      <4>3. QED
        BY <1>1, <2>5, <4>2
    <3>2. run[i].quiet /\ run[i].pc = "deposit" =>
            /\ Covered(new.amount) /\ Lacking(new.amount, new.force)
            /\ Allowed(new.amount)
      BY <1>2, <2>2, <2>4 DEF QuietRun, AboutToDeposit
    <3>3. SUFFICES ASSUME new.kind = "deposit", new.quiet
                   PROVE  /\ new.nonce = nonce'
                          /\ wallet' >= new.amount
                          /\ new.force \/ account' < new.amount
                          /\ allowance' >= new.amount
      BY <2>12 DEF QuietDeposit, Covered, Lacking, Allowed
    <3>4. run[i].quiet /\ run[i].pc = "deposit"
      BY <2>2, <3>3, Zenon
    <3>5. QED
      BY <2>2, <2>4, <2>10, <3>1, <3>2, <3>4 DEF Covered, Lacking, Allowed
  <2>13. ASSUME NEW tx \in pending
         PROVE  QuietDeposit(tx)'
    BY <1>2, <2>4 DEF QuietDeposit, Covered, Lacking, Allowed
  <2>14. QED
    BY <2>3, <2>8, <2>9, <2>11, <2>12, <2>13
<1>11. CASE Proceed(i)
  <2>1. /\ run[i].pc \in Kinds /\ run[i].receipt = "executed"
        /\ UNCHANGED <<wallet, account, allowance, nonce, pending>>
    BY <1>11 DEF Proceed
  <2>2. /\ run'[i].pc = After(run[i]) /\ run'[i].req = run[i].req
        /\ run'[i].sent = None /\ run'[i].receipt = "none"
        /\ run'[i].quiet = run[i].quiet
    BY <1>1, <1>11 DEF Proceed, RunState
  <2>3. Sent(i)'
    BY <2>2 DEF Sent
  <2>4. /\ After(run[i]) \in {"deposit", "operator", "report"}
        /\ After(run[i]) = "deposit" => run[i].pc = "approve" /\ ~run[i].skip
    BY DEF After
  <2>5. QuietRun(i)'
    BY <1>2, <2>1, <2>2, <2>4
       DEF QuietRun, AboutToDeposit, Covered, Lacking, Allowed
  <2>6. QED
    BY <1>6, <2>1, <2>3, <2>5
<1>12. QED
  BY <1>7, <1>8, <1>9, <1>10, <1>11

(* A transaction the chain executes holds the lowest nonce, so a deposit   *)
(* planned on a quiet chain is not there to be disturbed.                  *)
LEMMA QIncluded ==
  ASSUME QInv, TypeInv', NEW tx \in pending,
         NEW receipt \in {"executed", "reverted"}, Included(tx, receipt),
         tx.kind = "approve" => /\ UNCHANGED <<wallet, account>>
                                /\ allowance' = tx.amount
  PROVE  QInv'
<1>1. /\ tx.nonce = nonce /\ nonce' = nonce + 1
      /\ pending' = pending \ {tx}
  BY DEF Included
<1>2. /\ nonce \in Int /\ \A other \in pending : other.nonce \in Int
      /\ tx # None
  BY NoneAssumption DEF QInv, TypeInv, TypeOK, NoneAssumption, Transaction
<1>3. \A other \in pending : other # tx => other.nonce > nonce
  BY <1>1, <1>2 DEF QInv, Nonces
<1>4. Nonces'
  BY <1>1, <1>2, <1>3 DEF QInv, Nonces
<1>5. ASSUME NEW other \in pending'
      PROVE  QuietDeposit(other)'
  <2>1. other \in pending /\ other # tx /\ other.nonce > nonce
    BY <1>1, <1>3
  <2>2. ~(other.kind = "deposit" /\ other.quiet)
    BY <1>2, <2>1 DEF QInv, QuietDeposit
  <2>3. QED
    BY <2>2 DEF QuietDeposit
<1>6. ASSUME NEW i \in Runs
      PROVE  Sent(i)' /\ QuietRun(i)'
  <2>1. run[i] \in RunState /\ Sent(i) /\ QuietRun(i)
    BY DEF QInv, TypeInv, TypeOK
  <2>2. /\ run'[i].pc = run[i].pc /\ run'[i].req = run[i].req
        /\ run'[i].sent = run[i].sent /\ run'[i].quiet = run[i].quiet
        /\ run'[i].skip = run[i].skip
        /\ run'[i].receipt = IF run[i].sent = tx THEN receipt ELSE run[i].receipt
    BY <2>1 DEF Included, RunState
  <2>3. Sent(i)'
    BY <1>2, <2>1, <2>2 DEF Sent
  <2>4. ASSUME run[i].quiet
        PROVE  /\ run[i].pc \notin {"idle", "balance"}
               /\ run[i].sent = tx /\ pending' = {}
               /\ run[i].pc = tx.kind /\ tx.amount = run[i].req.deposit
               /\ run[i].pc = "approve" => Covered(run[i].req.deposit)
               /\ run[i].pc = "approve" /\ ~run[i].skip =>
                    Lacking(run[i].req.deposit, run[i].req.force)
    BY <1>1, <1>2, <2>1, <2>4 DEF QuietRun, Sent
  <2>5. tx.kind \in Kinds /\ tx.amount \in Nat
    BY DEF QInv, TypeInv, TypeOK, Transaction
  <2>6. QuietRun(i)'
    BY <1>2, <2>2, <2>4, <2>5
       DEF QuietRun, AboutToDeposit, Covered, Lacking, Allowed, Kinds
  <2>7. QED
    BY <2>3, <2>6
<1>7. QED
  BY <1>4, <1>5, <1>6 DEF QInv

LEMMA QChainStep ==
  ASSUME QInv, TypeInv',
         \/ \E tx \in pending :
              \/ ExecuteApprove(tx) \/ ExecuteDeposit(tx) \/ RevertDeposit(tx)
              \/ ExecuteOperatorApproval(tx) \/ Drop(tx)
         \/ Faucet \/ Draw \/ UNCHANGED vars
  PROVE  QInv'
<1>1. ASSUME NEW tx \in pending,
             \/ ExecuteApprove(tx) \/ ExecuteDeposit(tx) \/ RevertDeposit(tx)
             \/ ExecuteOperatorApproval(tx)
      PROVE  QInv'
  <2>1. CASE ExecuteApprove(tx)
    BY <2>1, QIncluded DEF ExecuteApprove
  <2>2. CASE ExecuteDeposit(tx)
    BY <2>2, QIncluded DEF ExecuteDeposit
  <2>3. CASE RevertDeposit(tx)
    BY <2>3, QIncluded DEF RevertDeposit
  <2>4. CASE ExecuteOperatorApproval(tx)
    BY <2>4, QIncluded DEF ExecuteOperatorApproval
  <2>5. QED
    BY <1>1, <2>1, <2>2, <2>3, <2>4
<1>2. ASSUME pending' \subseteq pending, UNCHANGED <<nonce, run, allowance>>,
             wallet' >= wallet, account' <= account
      PROVE  QInv'
  <2>1. /\ wallet \in Nat /\ account \in Nat /\ allowance \in Nat
        /\ wallet' \in Nat /\ account' \in Nat
        /\ \A tx \in pending : tx.amount \in Nat
        /\ \A i \in Runs : run[i].pc # "idle" => run[i].req.deposit \in Nat
    BY RequestsAssumption
       DEF QInv, TypeInv, TypeOK, Transaction, RequestsAssumption, RequestSet
  <2>2. Nonces'
    BY <1>2 DEF QInv, Nonces
  <2>3. ASSUME NEW i \in Runs
        PROVE  Sent(i)' /\ QuietRun(i)'
    <3>1. Sent(i) /\ QuietRun(i)
      BY DEF QInv
    <3>2. Sent(i)'
      BY <1>2, <3>1 DEF Sent
    <3>3. QuietRun(i)'
      BY <1>2, <2>1, <3>1 DEF QuietRun, AboutToDeposit, Covered, Lacking, Allowed
    <3>4. QED
      BY <3>2, <3>3
  <2>4. ASSUME NEW tx \in pending'
        PROVE  QuietDeposit(tx)'
    <3>1. tx \in pending /\ QuietDeposit(tx) /\ tx.amount \in Nat
      BY <1>2, <2>1 DEF QInv
    <3>2. QED
      BY <1>2, <2>1, <3>1 DEF QuietDeposit, Covered, Lacking, Allowed
  <2>5. QED
    BY <2>2, <2>3, <2>4 DEF QInv
<1>3. wallet \in Nat /\ account \in Nat
  BY DEF QInv, TypeInv, TypeOK
<1>4. ASSUME NEW tx \in pending, Drop(tx)
      PROVE  QInv'
  BY <1>2, <1>3, <1>4 DEF Drop
<1>5. CASE Faucet
  BY <1>2, <1>3, <1>5 DEF Faucet
<1>6. CASE Draw
  BY <1>2, <1>3, <1>6 DEF Draw
<1>7. CASE UNCHANGED vars
  BY <1>2, <1>3, <1>7 DEF vars
<1>8. QED
  BY <1>1, <1>4, <1>5, <1>6, <1>7

LEMMA QStep ==
  ASSUME OneRun
  PROVE  QInv /\ [Next]_vars => QInv'
<1>1. QInv /\ [Next]_vars => TypeInv'
  BY TypeStep DEF QInv
<1>2. QED
  BY <1>1, QRunStep, QChainStep DEF Next

(* Without --force-deposit, no deposit planned with nothing pending is     *)
(* executed on an account that has the amount by then.                     *)
THEOREM DepositsAreNeeded ==
  ASSUME OneRun
  PROVE  Spec => NoNeedlessDeposit
<1>1. QInv => \A tx \in pending :
        Executes(tx) /\ tx.kind = "deposit" /\ tx.quiet /\ ~tx.force =>
          account < tx.amount
  BY DEF QInv, QuietDeposit, Lacking
<1>2. QED
  BY <1>1, QInit, QStep, PTL DEF Spec, NoNeedlessDeposit

(* No deposit planned with nothing pending reverts.                        *)
THEOREM DepositsLand ==
  ASSUME OneRun
  PROVE  Spec => PlannedDepositsLand
<1>1. ASSUME QInv, Next, NEW tx \in pending,
             Executes(tx), tx.kind = "deposit", tx.quiet
      PROVE  account' = account + tx.amount
  <2>1. /\ tx.nonce = nonce /\ nonce' = nonce + 1 /\ nonce \in Nat
        /\ wallet >= tx.amount /\ allowance >= tx.amount
        /\ wallet \in Nat /\ allowance \in Nat /\ tx.amount \in Nat
        /\ \A other \in pending : other.nonce = nonce => other = tx
    BY <1>1 DEF Executes, QInv, Nonces, QuietDeposit, Covered, Allowed,
                TypeInv, TypeOK, Transaction
  <2>2. nonce' # nonce
    BY <2>1
  <2>3. PICK other \in pending :
          \/ ExecuteApprove(other) \/ ExecuteDeposit(other)
          \/ RevertDeposit(other) \/ ExecuteOperatorApproval(other)
    BY <1>1, <2>2
       DEF Next, StartFund, ReadBalance, ReadFunds, Broadcast, Proceed,
           ReturnResult, RunAborts, Drop, Faucet, Draw, chain
  <2>4. other = tx
    BY <2>1, <2>3 DEF ExecuteApprove, ExecuteDeposit, RevertDeposit,
                      ExecuteOperatorApproval, Included
  <2>5. ExecuteDeposit(tx)
    BY <1>1, <2>1, <2>3, <2>4
       DEF ExecuteApprove, RevertDeposit, ExecuteOperatorApproval
  <2>6. QED
    BY <2>5 DEF ExecuteDeposit
<1>2. QInv /\ [Next]_vars =>
        [\A tx \in pending :
           Executes(tx) /\ tx.kind = "deposit" /\ tx.quiet =>
             account' = account + tx.amount]_vars
  BY <1>1
<1>3. QED
  BY <1>2, QInit, QStep, PTL DEF Spec, PlannedDepositsLand

=============================================================================
