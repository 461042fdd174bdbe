------------------------ MODULE IngotDelegationProofs ------------------------
(***************************************************************************)
(* What holds of IngotDelegation for any regions, keys and command lists.  *)
(***************************************************************************)
EXTENDS IngotDelegation, TLAPS

USE DEF history

-----------------------------------------------------------------------------
(* What an invocation remembers by each step.                              *)
Remembers(state) ==
  /\ state.pc # "idle" => state.region \in Regions /\ state.commands \in Lists
  /\ state.pc \notin {"idle", "key"} => state.key \in 1..MaxKey
  /\ state.pc \in {"issuer", "reissue", "stamp", "return"} =>
       state.proof \in Delegation

TypeInv ==
  /\ TypeOK
  /\ \A i \in Runs : Remembers(run[i])
  /\ retire.pc # "idle" => retire.region \in Regions

LEMMA TypeInit == Init => TypeInv
<1> SUFFICES ASSUME Init PROVE TypeInv
  OBVIOUS
<1> USE LegacyAssumption, MaxKeyAssumption
    DEF LegacyAssumption, MaxKeyAssumption, Init
<1>1. stored \in [Regions -> Delegation \cup {None}]
  OBVIOUS
<1>2. issued \subseteq Copies
  BY <1>1 DEF Delegation
<1>3. /\ run \in [Runs -> RunState]
      /\ \A i \in Runs : Remembers(run[i])
  BY DEF RunState, IdleRun, Steps, Remembers
<1>4. retire \in RetireState /\ retire.pc = "idle"
  BY DEF RetireState, IdleRetire
<1>5. /\ key \in 1..MaxKey
      /\ commands \in Lists
      /\ stamp \in [Regions -> (1..MaxKey) \cup {None}]
      /\ guessed \subseteq Regions
  OBVIOUS
<1>6. QED
  BY <1>1, <1>2, <1>3, <1>4, <1>5 DEF TypeInv, TypeOK

(* A step of one run that leaves it in a state of its type.                *)
LEMMA TypeRun ==
  ASSUME TypeInv, NEW i \in Runs, NEW s \in RunState, Remembers(s),
         run' = [run EXCEPT ![i] = s]
  PROVE  run' \in [Runs -> RunState] /\ \A j \in Runs : Remembers(run'[j])
  BY DEF TypeInv, TypeOK

LEMMA TypeIssueStep ==
  ASSUME TypeInv, NEW i \in Runs, IssueStep(i)
  PROVE  TypeInv'
<1>1. run[i] \in RunState /\ Remembers(run[i])
  BY DEF TypeInv, TypeOK
<1>2. /\ key \in 1..MaxKey /\ commands \in Lists
      /\ stored \in [Regions -> Delegation \cup {None}]
      /\ stamp \in [Regions -> (1..MaxKey) \cup {None}]
  BY DEF TypeInv, TypeOK
<1>3. ASSUME NEW r \in Regions, StartIssue(i, r)
      PROVE  TypeInv'
  <2> DEFINE s == [IdleRun EXCEPT !.pc = "key", !.region = r, !.commands = commands]
  <2>1. s \in RunState /\ Remembers(s)
    BY <1>2 DEF RunState, Remembers, IdleRun, Steps
  <2>2. run' = [run EXCEPT ![i] = s]
    BY <1>3 DEF StartIssue
  <2> HIDE DEF s
  <2>3. run' \in [Runs -> RunState] /\ \A j \in Runs : Remembers(run'[j])
    BY <2>1, <2>2, TypeRun
  <2>4. QED
    BY <1>3, <2>3 DEF StartIssue, TypeInv, TypeOK
<1>4. CASE ReadKey(i)
  <2> DEFINE s == [run[i] EXCEPT !.pc = "ensure", !.key = key]
  <2>1. s \in RunState /\ Remembers(s)
    BY <1>1, <1>2, <1>4 DEF ReadKey, RunState, Remembers, Steps
  <2>2. run' = [run EXCEPT ![i] = s]
    BY <1>1, <1>4 DEF ReadKey, RunState, TypeInv, TypeOK
  <2> HIDE DEF s
  <2>3. run' \in [Runs -> RunState] /\ \A j \in Runs : Remembers(run'[j])
    BY <2>1, <2>2, TypeRun
  <2>4. QED
    BY <1>4, <2>3 DEF ReadKey, TypeInv, TypeOK
<1>5. CASE TakeStored(i)
  <2> DEFINE s == [run[i] EXCEPT !.pc = "issuer", !.proof = stored[run[i].region]]
  <2>1. s \in RunState /\ Remembers(s)
    BY <1>1, <1>2, <1>5 DEF TakeStored, RunState, Remembers, Steps
  <2>2. run' = [run EXCEPT ![i] = s]
    BY <1>1, <1>5 DEF TakeStored, RunState, TypeInv, TypeOK
  <2> HIDE DEF s
  <2>3. run' \in [Runs -> RunState] /\ \A j \in Runs : Remembers(run'[j])
    BY <2>1, <2>2, TypeRun
  <2>4. QED
    BY <1>5, <2>3 DEF TakeStored, TypeInv, TypeOK
<1>6. CASE ReadIssuer(i)
  <2> DEFINE s == [run[i] EXCEPT !.pc = AfterIssuer(run[i], stamp[run[i].region])]
  <2>1. s \in RunState /\ Remembers(s)
    BY <1>1, <1>2, <1>6 DEF ReadIssuer, AfterIssuer, RunState, Remembers, Steps
  <2>2. run' = [run EXCEPT ![i] = s]
    BY <1>1, <1>6 DEF ReadIssuer, RunState, TypeInv, TypeOK
  <2> HIDE DEF s
  <2>3. run' \in [Runs -> RunState] /\ \A j \in Runs : Remembers(run'[j])
    BY <2>1, <2>2, TypeRun
  <2>4. QED
    BY <1>6, <2>3 DEF ReadIssuer, TypeInv, TypeOK
<1>7. ASSUME NEW c \in Copies, CreateProof(i, c) \/ Reissue(i, c)
      PROVE  TypeInv'
  <2> DEFINE s == [run[i] EXCEPT !.pc = "stamp", !.proof = Signed(i, c), !.wrote = TRUE]
  <2>1. Signed(i, c) \in Delegation /\ run[i].region \in Regions
    BY <1>1, <1>7 DEF CreateProof, Reissue, Signed, Delegation, Remembers
  <2>2. s \in RunState /\ Remembers(s)
    BY <1>1, <1>7, <2>1 DEF CreateProof, Reissue, RunState, Remembers, Steps
  <2>3. run' = [run EXCEPT ![i] = s]
    BY <1>1, <1>7 DEF CreateProof, Reissue, RunState, TypeInv, TypeOK
  <2> HIDE DEF s
  <2>4. run' \in [Runs -> RunState] /\ \A j \in Runs : Remembers(run'[j])
    BY <2>2, <2>3, TypeRun
  <2>5. /\ stored' \in [Regions -> Delegation \cup {None}]
        /\ issued' \subseteq Copies
    BY <1>2, <1>7, <2>1 DEF CreateProof, Reissue, TypeInv, TypeOK
  <2>6. QED
    BY <1>7, <2>4, <2>5 DEF CreateProof, Reissue, TypeInv, TypeOK
<1>8. CASE RecordProofIssuer(i)
  <2> DEFINE s == [run[i] EXCEPT !.pc = "return"]
  <2>1. s \in RunState /\ Remembers(s)
    BY <1>1, <1>8 DEF RecordProofIssuer, RunState, Remembers, Steps
  <2>2. run' = [run EXCEPT ![i] = s]
    BY <1>1, <1>8 DEF RecordProofIssuer, RunState, TypeInv, TypeOK
  <2> HIDE DEF s
  <2>3. run' \in [Runs -> RunState] /\ \A j \in Runs : Remembers(run'[j])
    BY <2>1, <2>2, TypeRun
  <2>4. run[i].region \in Regions /\ run[i].key \in 1..MaxKey
    BY <1>1, <1>8 DEF RecordProofIssuer, Remembers
  <2>5. /\ stamp' \in [Regions -> (1..MaxKey) \cup {None}]
        /\ guessed' \subseteq Regions
    BY <1>2, <1>8, <2>4 DEF RecordProofIssuer, TypeInv, TypeOK
  <2>6. QED
    BY <1>8, <2>3, <2>5 DEF RecordProofIssuer, TypeInv, TypeOK
<1>9. IdleRun \in RunState /\ Remembers(IdleRun)
  BY DEF IdleRun, RunState, Remembers, Steps
<1>10. CASE ReturnProof(i)
  <2>1. run' \in [Runs -> RunState] /\ \A j \in Runs : Remembers(run'[j])
    BY <1>9, <1>10, TypeRun DEF ReturnProof
  <2>2. run[i].region \in Regions /\ run[i].proof \in Delegation
    BY <1>1, <1>10 DEF ReturnProof, Remembers
  <2>3. held' \in [Regions -> Delegation \cup {None}]
    BY <1>10, <2>2 DEF ReturnProof, TypeInv, TypeOK
  <2>4. QED
    BY <1>10, <2>1, <2>3 DEF ReturnProof, TypeInv, TypeOK
<1>11. CASE IssueAborts(i)
  <2>1. run' \in [Runs -> RunState] /\ \A j \in Runs : Remembers(run'[j])
    BY <1>9, <1>11, TypeRun DEF IssueAborts
  <2>2. QED
    BY <1>11, <2>1 DEF IssueAborts, TypeInv, TypeOK
<1>12. QED
  BY <1>3, <1>4, <1>5, <1>6, <1>7, <1>8, <1>10, <1>11 DEF IssueStep

LEMMA TypeOtherStep ==
  ASSUME TypeInv,
         \/ Rotate
         \/ \E list \in Lists : Deploy(list)
         \/ \E r \in Regions : StartRetire(r)
         \/ FindProof \/ FindIssuer \/ DeletePresent \/ RetireAborts
         \/ UNCHANGED vars
  PROVE  TypeInv'
<1> USE DEF TypeInv, TypeOK
<1>1. CASE Rotate
  BY <1>1, MaxKeyAssumption DEF Rotate, MaxKeyAssumption
<1>2. CASE \E list \in Lists : Deploy(list)
  BY <1>2 DEF Deploy
<1>3. CASE \E r \in Regions : StartRetire(r)
  BY <1>3 DEF StartRetire, RetireState, IdleRetire
<1>4. CASE FindProof
  BY <1>4 DEF FindProof, RetireState
<1>5. CASE FindIssuer
  <2>1. retire.present \cup {p \in {"issuer"} : stamp[retire.region] # None}
          \subseteq {"proof", "issuer"}
    BY DEF RetireState
  <2>2. QED
    BY <1>5, <2>1 DEF FindIssuer, RetireState
<1>6. CASE DeletePresent
  BY <1>6 DEF DeletePresent, RetireState, IdleRetire
<1>7. CASE RetireAborts
  BY <1>7 DEF RetireAborts, RetireState, IdleRetire
<1>8. CASE UNCHANGED vars
  BY <1>8 DEF vars
<1>9. QED
  BY <1>1, <1>2, <1>3, <1>4, <1>5, <1>6, <1>7, <1>8

LEMMA TypeStep == TypeInv /\ [Next]_vars => TypeInv'
  BY TypeIssueStep, TypeOtherStep DEF Next

(* Every variable keeps its type, whatever runs overlap.                   *)
THEOREM TypesHold == Spec => []TypeOK
<1>1. TypeInv => TypeOK
  BY DEF TypeInv
<1>2. QED
  BY <1>1, TypeInit, TypeStep, PTL DEF Spec

-----------------------------------------------------------------------------
(* What makes a stamp safe to trust.  Keys only grow, and a run that has   *)
(* read its key sees no newer one anywhere: it is alone.  So a stamp is    *)
(* never newer than the delegation beside it, unless it was a guess.       *)
OneRun == \A i, j \in Runs : i = j

Past(i) == run[i].pc \notin {"idle", "key"}
HasProof(i) == run[i].pc \in {"issuer", "reissue", "stamp", "return"}
Clean(r) == r \notin guessed

(* No delegation and no stamp is of a key hilt has not had yet.            *)
KeyBounds ==
  \A r \in Regions :
    /\ stored[r] # None => stored[r].key <= key
    /\ stamp[r] # None => stamp[r] <= key

(* Nor, while a run is under way, of a key later than the run's.           *)
RunBounds(i) ==
  /\ Past(i) =>
       /\ run[i].key <= key
       /\ \A r \in Regions :
            /\ stored[r] # None => stored[r].key <= run[i].key
            /\ stamp[r] # None => stamp[r] <= run[i].key
  /\ HasProof(i) => run[i].proof.key <= run[i].key

Behind ==
  \A r \in Regions :
    Clean(r) /\ stored[r] # None /\ stamp[r] # None => stamp[r] <= stored[r].key

(* What a run holds is what is stored, unless a retirement took it.        *)
InHand(i) ==
  LET r == run[i].region IN
    /\ HasProof(i) => stored[r] \in {run[i].proof, None}
    /\ run[i].pc \in {"key", "ensure", "issuer"} => ~run[i].wrote
    /\ run[i].pc = "issuer" =>
         (Clean(r) /\ stamp[r] # None => stamp[r] <= run[i].proof.key)
    /\ run[i].pc \in {"stamp", "return"} => MissingCommands(run[i]) = {}
    /\ run[i].pc = "stamp" /\ run[i].wrote => run[i].proof.key = run[i].key
    /\ run[i].pc = "return" =>
         /\ Clean(r) => run[i].proof.key = run[i].key
         /\ stamp[r] \in {run[i].key, None}

IInv ==
  /\ TypeInv
  /\ KeyBounds
  /\ Behind
  /\ \A i \in Runs : RunBounds(i) /\ InHand(i)

LEMMA IInit == Init => IInv
<1> SUFFICES ASSUME Init PROVE IInv
  OBVIOUS
<1>1. TypeInv
  BY TypeInit
<1>2. \A i \in Runs : run[i].pc = "idle"
  BY DEF Init, IdleRun
<1>3. \A r \in Regions : stored[r] \in Legacy \cup {None} /\ stamp[r] = None
  BY DEF Init
<1>4. KeyBounds
  BY <1>3, LegacyAssumption DEF LegacyAssumption, KeyBounds, Init
<1>5. QED
  BY <1>1, <1>2, <1>3, <1>4 DEF IInv, RunBounds, Behind, InHand, Past, HasProof, IdleRun

(* A rotation, a deploy, a retirement: keys grow, parameters only go.      *)
LEMMA IOtherStep ==
  ASSUME IInv,
         \/ Rotate
         \/ \E list \in Lists : Deploy(list)
         \/ \E r \in Regions : StartRetire(r)
         \/ FindProof \/ FindIssuer \/ DeletePresent \/ RetireAborts
         \/ UNCHANGED vars
  PROVE  IInv'
<1>1. TypeInv /\ TypeInv'
  BY TypeOtherStep DEF IInv
<1>2. run' = run /\ guessed' = guessed
  BY DEF Rotate, Deploy, StartRetire, FindProof, FindIssuer, DeletePresent,
         RetireAborts, vars
<1>3. key' \in Nat /\ key \in Nat /\ key <= key'
  <2>1. key \in Nat /\ key' \in Nat
    BY <1>1 DEF TypeInv, TypeOK
  <2>2. key' \in {key, key + 1}
    BY DEF Rotate, Deploy, StartRetire, FindProof, FindIssuer, DeletePresent,
           RetireAborts, vars
  <2>3. QED
    BY <2>1, <2>2
<1>4. \A r \in Regions : /\ stored'[r] \in {stored[r], None}
                         /\ stamp'[r] \in {stamp[r], None}
  <2>1. CASE DeletePresent
    BY <1>1, <2>1 DEF TypeInv, TypeOK, DeletePresent
  <2>2. CASE ~DeletePresent
    <3>1. stored' = stored /\ stamp' = stamp
      BY <2>2 DEF Rotate, Deploy, StartRetire, FindProof, FindIssuer,
                  RetireAborts, vars
    <3>2. QED
      BY <3>1
  <2>3. QED
    BY <2>1, <2>2
<1>5. \A r \in Regions : /\ stored[r] # None => stored[r].key \in Nat
                         /\ stamp[r] # None => stamp[r] \in Nat
  BY <1>1 DEF TypeInv, TypeOK, Delegation
<1>6. \A i \in Runs : Past(i) => run[i].region \in Regions /\ run[i].key \in Nat
  BY <1>1 DEF TypeInv, Remembers, Past
<1>7. \A i \in Runs : (Past(i))' = Past(i) /\ (HasProof(i))' = HasProof(i)
  BY <1>2 DEF Past, HasProof
<1>8. KeyBounds'
  BY <1>3, <1>4, <1>5 DEF IInv, KeyBounds
<1>9. Behind'
  BY <1>2, <1>4 DEF IInv, Behind, Clean
<1>10. ASSUME NEW i \in Runs
       PROVE  RunBounds(i)' /\ InHand(i)'
  <2>1. HasProof(i) => Past(i)
    BY DEF HasProof, Past
  <2>2. RunBounds(i)'
    BY <1>2, <1>3, <1>4, <1>6, <1>7 DEF IInv, RunBounds
  <2>3. InHand(i)'
    BY <1>2, <1>4, <1>6, <1>7, <2>1
       DEF IInv, InHand, Clean, HasProof, MissingCommands
  <2>4. QED
    BY <2>2, <2>3
<1>11. QED
  BY <1>1, <1>8, <1>9, <1>10 DEF IInv

LEMMA IIssueStep ==
  ASSUME OneRun, IInv, NEW i \in Runs, IssueStep(i)
  PROVE  IInv'
<1>1. TypeInv /\ TypeInv'
  BY TypeIssueStep DEF IInv
<1>2. /\ key \in Nat
      /\ \A r \in Regions : /\ stored[r] # None => stored[r].key \in Nat
                            /\ stamp[r] # None => stamp[r] \in Nat
      /\ run \in [Runs -> RunState] /\ run[i] \in RunState
      /\ stored \in [Regions -> Delegation \cup {None}]
      /\ stamp \in [Regions -> (1..MaxKey) \cup {None}]
  BY <1>1 DEF TypeInv, TypeOK, Delegation
<1>3. /\ Past(i) => run[i].region \in Regions /\ run[i].key \in Nat
      /\ HasProof(i) => run[i].proof \in Delegation /\ run[i].proof.key \in Nat
      /\ Delegation # {} => None \notin Delegation
  BY <1>1, NoneAssumption DEF TypeInv, Remembers, Past, HasProof, Delegation, NoneAssumption
<1>4. \A j \in Runs : j = i
  BY DEF OneRun
<1>5. IssueStep(i) => key' = key
  BY DEF IssueStep, StartIssue, ReadKey, TakeStored, ReadIssuer, CreateProof,
         Reissue, RecordProofIssuer, ReturnProof, IssueAborts
<1> USE DEF KeyBounds, RunBounds, Behind, InHand, Past, HasProof, Clean
<1>6. SUFFICES KeyBounds' /\ Behind' /\ RunBounds(i)' /\ InHand(i)'
  BY <1>1, <1>4 DEF IInv
<1>7. ASSUME NEW r \in Regions, StartIssue(i, r)
      PROVE  KeyBounds' /\ Behind' /\ RunBounds(i)' /\ InHand(i)'
  <2>1. run'[i].pc = "key" /\ ~run'[i].wrote
    BY <1>2, <1>7 DEF StartIssue, IdleRun
  <2>2. UNCHANGED <<key, stored, stamp, guessed>>
    BY <1>7 DEF StartIssue
  <2>3. QED
    BY <2>1, <2>2 DEF IInv
<1>8. CASE ReturnProof(i) \/ IssueAborts(i)
  <2>1. run'[i].pc = "idle"
    BY <1>2, <1>8 DEF ReturnProof, IssueAborts, IdleRun
  <2>2. UNCHANGED <<key, stored, stamp, guessed>>
    BY <1>8 DEF ReturnProof, IssueAborts
  <2>3. QED
    BY <2>1, <2>2 DEF IInv
<1>9. CASE ReadKey(i)
  <2>1. run'[i].pc = "ensure" /\ run'[i].key = key /\ run'[i].wrote = run[i].wrote
    BY <1>2, <1>9 DEF ReadKey
  <2>2. run[i].pc = "key" /\ UNCHANGED <<key, stored, stamp, guessed>>
    BY <1>9 DEF ReadKey
  <2>3. QED
    BY <1>2, <2>1, <2>2 DEF IInv
<1>10. CASE TakeStored(i)
  <2>1. /\ run'[i].pc = "issuer" /\ run'[i].key = run[i].key
        /\ run'[i].region = run[i].region
        /\ run'[i].proof = stored[run[i].region]
        /\ run'[i].wrote = run[i].wrote
    BY <1>2, <1>10 DEF TakeStored
  <2>2. UNCHANGED <<key, stored, stamp, guessed>>
    BY <1>10 DEF TakeStored
  <2>3. run[i].pc = "ensure" /\ stored[run[i].region] # None /\ run[i].region \in Regions
    BY <1>3, <1>10 DEF TakeStored
  <2>4. QED
    BY <1>2, <2>1, <2>2, <2>3 DEF IInv
<1>11. CASE ReadIssuer(i)
  <2> DEFINE next == AfterIssuer(run[i], stamp[run[i].region])
  <2>1. /\ run'[i].pc = next /\ run'[i].key = run[i].key
        /\ run'[i].region = run[i].region /\ run'[i].proof = run[i].proof
        /\ run'[i].commands = run[i].commands /\ run'[i].wrote = run[i].wrote
    BY <1>2, <1>11 DEF ReadIssuer
  <2>2. UNCHANGED <<key, stored, stamp, guessed>>
    BY <1>11 DEF ReadIssuer
  <2>3. run[i].pc = "issuer" /\ run[i].region \in Regions
    BY <1>3, <1>11 DEF ReadIssuer
  <2>4. /\ next \in {"return", "stamp", "reissue"}
        /\ next # "reissue" => MissingCommands(run[i]) = {}
        /\ next = "return" => stamp[run[i].region] = run[i].key
    BY DEF AfterIssuer
  <2>5. run[i].key # None
    BY <1>1, <2>3, NoneAssumption DEF TypeInv, Remembers, NoneAssumption
  <2>6. MissingCommands(run'[i]) = MissingCommands(run[i])
    BY <2>1 DEF MissingCommands
  <2> HIDE DEF next
  <2>7. KeyBounds' /\ Behind' /\ RunBounds(i)'
    BY <1>2, <2>1, <2>2, <2>3, <2>4 DEF IInv
  <2>8. next = "return" /\ Clean(run[i].region) => run[i].proof.key = run[i].key
    BY <1>2, <1>3, <2>3, <2>4, <2>5 DEF IInv
  <2>9. InHand(i)'
    BY <2>1, <2>2, <2>3, <2>4, <2>6, <2>8 DEF IInv
  <2>10. QED
    BY <2>7, <2>9
<1>12. ASSUME NEW c \in Copies, CreateProof(i, c) \/ Reissue(i, c)
       PROVE  KeyBounds' /\ Behind' /\ RunBounds(i)' /\ InHand(i)'
  <2> DEFINE d == Signed(i, c)
  <2>1. run[i].region \in Regions /\ run[i].pc \in {"ensure", "reissue"} /\ run[i].key \in Nat
    BY <1>3, <1>12 DEF CreateProof, Reissue
  <2>2. d.key = run[i].key /\ d.commands = run[i].commands
    BY DEF Signed
  <2>3. /\ run'[i].pc = "stamp" /\ run'[i].key = run[i].key
        /\ run'[i].region = run[i].region /\ run'[i].proof = d
        /\ run'[i].commands = run[i].commands
    <3>1. run' = [run EXCEPT ![i] = [run[i] EXCEPT !.pc = "stamp", !.proof = d,
                                                   !.wrote = TRUE]]
      BY <1>2, <1>12 DEF CreateProof, Reissue
    <3> HIDE DEF d
    <3>2. QED
      BY <1>2, <3>1 DEF RunState
  <2>4. /\ UNCHANGED <<key, stamp, guessed>>
        /\ \A r \in Regions :
             stored'[r] = IF r = run[i].region THEN d ELSE stored[r]
    BY <1>2, <1>12, <2>1 DEF CreateProof, Reissue
  <2> HIDE DEF d
  <2>5. MissingCommands(run'[i]) = {}
    BY <2>2, <2>3 DEF MissingCommands
  <2>6. KeyBounds' /\ Behind' /\ RunBounds(i)'
    BY <1>2, <2>1, <2>2, <2>3, <2>4 DEF IInv
  <2>7. InHand(i)'
    BY <2>1, <2>2, <2>3, <2>4, <2>5 DEF IInv
  <2>8. QED
    BY <2>6, <2>7
<1>13. CASE RecordProofIssuer(i)
  <2>1. run[i].pc = "stamp" /\ run[i].region \in Regions /\ run[i].key \in Nat
    BY <1>3, <1>13 DEF RecordProofIssuer
  <2>2. /\ run'[i].pc = "return" /\ run'[i].key = run[i].key
        /\ run'[i].region = run[i].region /\ run'[i].proof = run[i].proof
        /\ run'[i].commands = run[i].commands
    BY <1>2, <1>13 DEF RecordProofIssuer
  <2>3. /\ UNCHANGED <<key, stored>>
        /\ \A r \in Regions :
             stamp'[r] = IF r = run[i].region THEN run[i].key ELSE stamp[r]
    BY <1>2, <1>13, <2>1 DEF RecordProofIssuer
  <2>4. /\ \A r \in Regions : r # run[i].region /\ Clean(r)' => Clean(r)
        /\ run[i].region \notin guessed' => run[i].wrote
    BY <1>2, <1>13 DEF RecordProofIssuer, RunState
  <2>5. MissingCommands(run'[i]) = MissingCommands(run[i])
    BY <2>2 DEF MissingCommands
  <2>6. KeyBounds'
    BY <1>2, <2>1, <2>3 DEF IInv
  <2>7. Behind'
    <3>1. run[i].wrote /\ stored[run[i].region] # None =>
            stored[run[i].region].key = run[i].key
      BY <2>1 DEF IInv
    <3>2. SUFFICES ASSUME NEW r \in Regions, r \notin guessed',
                          stored'[r] # None, stamp'[r] # None
                   PROVE  stamp'[r] <= stored'[r].key
      OBVIOUS
    <3>3. CASE r = run[i].region
      BY <2>1, <2>3, <2>4, <3>1, <3>2, <3>3
    <3>4. CASE r # run[i].region
      <4>1. r \notin guessed
        BY <2>4, <3>2, <3>4
      <4>2. stored[r] # None /\ stamp[r] # None
        BY <2>3, <3>2, <3>4
      <4>3. QED
        BY <2>3, <3>4, <4>1, <4>2 DEF IInv
    <3>5. QED
      BY <3>3, <3>4
  <2>8. RunBounds(i)'
    BY <1>2, <2>1, <2>2, <2>3 DEF IInv
  <2>9. InHand(i)'
    BY <2>1, <2>2, <2>3, <2>4, <2>5 DEF IInv
  <2>10. QED
    BY <2>6, <2>7, <2>8, <2>9
<1>14. QED
  BY <1>7, <1>8, <1>9, <1>10, <1>11, <1>12, <1>13 DEF IssueStep

LEMMA IStep == OneRun /\ IInv /\ [Next]_vars => IInv'
  BY IIssueStep, IOtherStep DEF Next

LEMMA Invariance ==
  ASSUME OneRun
  PROVE  Spec => []IInv
  BY OneRun, IInit, IStep, PTL DEF Spec

(* A stamp that is no guess never runs ahead of the delegation beside it,  *)
(* whatever crash, rotation, deploy or retirement comes between any two    *)
(* calls, while onboard runs do not overlap.                               *)
THEOREM StampsHold ==
  ASSUME OneRun
  PROVE  Spec => []StampNeverAhead
<1>1. IInv => StampNeverAhead
  <2> SUFFICES ASSUME IInv, NEW r \in Regions,
                      r \notin guessed, stamp[r] = key, stored[r] # None
               PROVE  stored[r].key = key
    BY DEF StampNeverAhead
  <2>1. key \in Nat /\ stored[r].key \in Nat /\ key # None
    BY NoneAssumption DEF IInv, TypeInv, TypeOK, Delegation, NoneAssumption
  <2>2. key <= stored[r].key /\ stored[r].key <= key
    BY <2>1 DEF IInv, Behind, KeyBounds, Clean
  <2>3. QED
    BY <2>1, <2>2
<1>2. QED
  BY <1>1, Invariance, PTL

(* A returned delegation grants what the code lists and, unless its stamp  *)
(* was a guess, was signed by the key the run read.                        *)
THEOREM ReturnsVerify ==
  ASSUME OneRun
  PROVE  Spec => []ReturnedVerifies
<1>1. IInv => ReturnedVerifies
  BY DEF IInv, InHand, ReturnedVerifies, Clean
<1>2. QED
  BY <1>1, Invariance, PTL

-----------------------------------------------------------------------------
(* Why a handed delegation stays.  A stored copy its node holds has been   *)
(* stamped, if at all, by the key that signed it or, as a guess, a later   *)
(* one; so a stamp that differs from a run's key convicts it.              *)
Seen ==
  /\ \A r \in Regions : /\ stored[r] # None => stored[r].copy \in issued
                        /\ held[r] # None => held[r].copy \in issued
  /\ \A i \in Runs : HasProof(i) => run[i].proof.copy \in issued

Handed ==
  \A r \in Regions :
    stored[r] # None /\ stored[r] = held[r] /\ stamp[r] # None =>
      stored[r].key <= stamp[r]

Cause(i) ==
  LET r == run[i].region IN
    run[i].pc = "reissue" /\ stored[r] # None /\ stored[r] = held[r] =>
      MissingCommands(run[i]) # {} \/ held[r].key < run[i].key

HInv == IInv /\ Seen /\ Handed /\ \A i \in Runs : Cause(i)

LEMMA HInit == Init => HInv
<1> SUFFICES ASSUME Init PROVE HInv
  OBVIOUS
<1>1. IInv
  BY IInit
<1>2. \A i \in Runs : run[i].pc = "idle"
  BY DEF Init, IdleRun
<1>3. \A r \in Regions : stored[r] # None => stored[r].copy \in issued
  BY DEF Init
<1>4. held = stored /\ \A r \in Regions : stamp[r] = None
  BY DEF Init
<1>5. QED
  BY <1>1, <1>2, <1>3, <1>4 DEF HInv, Seen, Handed, Cause, HasProof

LEMMA HOtherStep ==
  ASSUME HInv,
         \/ Rotate
         \/ \E list \in Lists : Deploy(list)
         \/ \E r \in Regions : StartRetire(r)
         \/ FindProof \/ FindIssuer \/ DeletePresent \/ RetireAborts
         \/ UNCHANGED vars
  PROVE  HInv' /\ \A r \in Regions : stored'[r] \in {stored[r], None}
<1>1. IInv /\ IInv'
  BY IOtherStep DEF HInv
<1>2. run' = run /\ held' = held /\ issued' = issued
  BY DEF Rotate, Deploy, StartRetire, FindProof, FindIssuer, DeletePresent,
         RetireAborts, vars
<1>3. \A r \in Regions : /\ stored'[r] \in {stored[r], None}
                         /\ stamp'[r] \in {stamp[r], None}
  <2>1. CASE DeletePresent
    BY <1>1, <2>1 DEF IInv, TypeInv, TypeOK, DeletePresent
  <2>2. CASE ~DeletePresent
    <3>1. stored' = stored /\ stamp' = stamp
      BY <2>2 DEF Rotate, Deploy, StartRetire, FindProof, FindIssuer,
                  RetireAborts, vars
    <3>2. QED
      BY <3>1
  <2>3. QED
    BY <2>1, <2>2
<1>4. Seen'
  BY <1>2, <1>3 DEF HInv, Seen, HasProof
<1>5. Handed'
  BY <1>2, <1>3 DEF HInv, Handed
<1>6. ASSUME NEW i \in Runs
      PROVE  Cause(i)'
  <2>1. run[i].pc = "reissue" => run[i].region \in Regions
    BY <1>1 DEF IInv, TypeInv, Remembers
  <2>2. QED
    BY <1>2, <1>3, <2>1 DEF HInv, Cause, MissingCommands
<1>7. QED
  BY <1>1, <1>3, <1>4, <1>5, <1>6 DEF HInv

LEMMA HIssueStep ==
  ASSUME OneRun, HInv, NEW i \in Runs, IssueStep(i)
  PROVE  HInv'
<1>1. IInv /\ IInv' /\ TypeInv
  BY IIssueStep DEF HInv, IInv
<1>2. /\ \A r \in Regions : /\ stored[r] # None => stored[r].key \in Nat
                            /\ stamp[r] # None => stamp[r] \in Nat
      /\ run \in [Runs -> RunState] /\ run[i] \in RunState
      /\ stored \in [Regions -> Delegation \cup {None}]
      /\ held \in [Regions -> Delegation \cup {None}]
      /\ stamp \in [Regions -> (1..MaxKey) \cup {None}]
  BY <1>1 DEF TypeInv, TypeOK, Delegation
<1>3. /\ run[i].pc # "idle" => run[i].region \in Regions
      /\ Past(i) => run[i].key \in Nat
      /\ HasProof(i) => run[i].proof \in Delegation
  BY <1>1 DEF TypeInv, Remembers, Past, HasProof
<1>4. \A j \in Runs : j = i
  BY DEF OneRun
<1>5. SUFFICES Seen' /\ Handed' /\ Cause(i)'
  BY <1>1, <1>4 DEF HInv
<1>6. Seen /\ Handed /\ Cause(i) /\ RunBounds(i) /\ InHand(i)
  BY <1>1 DEF HInv, IInv
<1>7. ASSUME NEW r \in Regions, StartIssue(i, r)
      PROVE  Seen' /\ Handed' /\ Cause(i)'
  <2>1. run'[i].pc = "key"
    BY <1>2, <1>7 DEF StartIssue, IdleRun
  <2>2. UNCHANGED <<stored, stamp, held, issued>>
    BY <1>7 DEF StartIssue
  <2>3. QED
    BY <1>4, <1>6, <2>1, <2>2 DEF Seen, Handed, Cause, HasProof
<1>8. CASE IssueAborts(i)
  <2>1. run'[i].pc = "idle"
    BY <1>2, <1>8 DEF IssueAborts, IdleRun
  <2>2. UNCHANGED <<stored, stamp, held, issued>>
    BY <1>8 DEF IssueAborts
  <2>3. QED
    BY <1>4, <1>6, <2>1, <2>2 DEF Seen, Handed, Cause, HasProof
<1>9. CASE ReadKey(i)
  <2>1. run'[i].pc = "ensure"
    BY <1>2, <1>9 DEF ReadKey
  <2>2. UNCHANGED <<stored, stamp, held, issued>>
    BY <1>9 DEF ReadKey
  <2>3. QED
    BY <1>4, <1>6, <2>1, <2>2 DEF Seen, Handed, Cause, HasProof
<1>10. CASE TakeStored(i)
  <2>1. run'[i].pc = "issuer" /\ run'[i].proof = stored[run[i].region]
    BY <1>2, <1>10 DEF TakeStored
  <2>2. UNCHANGED <<stored, stamp, held, issued>>
    BY <1>10 DEF TakeStored
  <2>3. stored[run[i].region] # None /\ run[i].region \in Regions
    BY <1>3, <1>10 DEF TakeStored
  <2>4. QED
    BY <1>4, <1>6, <2>1, <2>2, <2>3 DEF Seen, Handed, Cause
<1>11. CASE ReadIssuer(i)
  <2> DEFINE r == run[i].region
             next == AfterIssuer(run[i], stamp[r])
  <2>1. /\ run'[i].pc = next /\ run'[i].key = run[i].key
        /\ run'[i].region = r /\ run'[i].proof = run[i].proof
        /\ run'[i].commands = run[i].commands
    BY <1>2, <1>11 DEF ReadIssuer
  <2>2. UNCHANGED <<stored, stamp, held, issued>>
    BY <1>11 DEF ReadIssuer
  <2>3. run[i].pc = "issuer" /\ r \in Regions
    BY <1>3, <1>11 DEF ReadIssuer
  <2>4. next = "reissue" =>
          MissingCommands(run[i]) # {} \/ stamp[r] \notin {run[i].key, None}
    BY DEF AfterIssuer
  <2>5. MissingCommands(run'[i]) = MissingCommands(run[i])
    BY <2>1 DEF MissingCommands
  <2> HIDE DEF next
  <2>6. Seen' /\ Handed'
    BY <1>4, <1>6, <2>1, <2>2, <2>3 DEF Seen, Handed, HasProof
  <2>7. ASSUME next = "reissue", stored[r] # None, stored[r] = held[r],
               stamp[r] \notin {run[i].key, None}
        PROVE  held[r].key < run[i].key
    <3>1. stored[r].key <= stamp[r] /\ stamp[r] <= run[i].key
      BY <1>6, <2>3, <2>7 DEF Handed, RunBounds, Past
    <3>2. stored[r].key \in Nat /\ stamp[r] \in Nat /\ run[i].key \in Nat
      BY <1>2, <1>3, <2>3, <2>7 DEF Past
    <3>3. QED
      BY <2>7, <3>1, <3>2
  <2>8. Cause(i)'
    BY <2>1, <2>2, <2>4, <2>5, <2>7 DEF Cause
  <2>9. QED
    BY <2>6, <2>8
<1>12. ASSUME NEW c \in Copies, CreateProof(i, c) \/ Reissue(i, c)
       PROVE  Seen' /\ Handed' /\ Cause(i)'
  <2> DEFINE d == Signed(i, c)
  <2>1. run[i].region \in Regions /\ c \notin issued
    BY <1>3, <1>12 DEF CreateProof, Reissue
  <2>2. d.copy = c
    BY DEF Signed
  <2>3. run'[i].pc = "stamp" /\ run'[i].proof = d
    <3>1. run' = [run EXCEPT ![i] = [run[i] EXCEPT !.pc = "stamp", !.proof = d,
                                                   !.wrote = TRUE]]
      BY <1>2, <1>12 DEF CreateProof, Reissue
    <3> HIDE DEF d
    <3>2. QED
      BY <1>2, <3>1 DEF RunState
  <2>4. /\ UNCHANGED <<stamp, held>>
        /\ issued' = issued \cup {c}
        /\ \A r \in Regions :
             stored'[r] = IF r = run[i].region THEN d ELSE stored[r]
    BY <1>2, <1>12, <2>1 DEF CreateProof, Reissue
  <2> HIDE DEF d
  <2>5. held[run[i].region] # None => held[run[i].region] # d
    BY <1>6, <2>1, <2>2 DEF Seen
  <2>6. Seen'
    BY <1>4, <1>6, <2>2, <2>3, <2>4 DEF Seen
  <2>7. Handed'
    BY <1>6, <2>4, <2>5 DEF Handed
  <2>8. QED
    BY <2>3, <2>6, <2>7 DEF Cause
<1>13. CASE RecordProofIssuer(i)
  <2>1. run[i].pc = "stamp" /\ run[i].region \in Regions /\ run[i].key \in Nat
    BY <1>3, <1>13 DEF RecordProofIssuer, Past
  <2>2. run'[i].pc = "return" /\ run'[i].proof = run[i].proof
    BY <1>2, <1>13 DEF RecordProofIssuer
  <2>3. /\ UNCHANGED <<stored, held, issued>>
        /\ \A r \in Regions :
             stamp'[r] = IF r = run[i].region THEN run[i].key ELSE stamp[r]
    BY <1>2, <1>13, <2>1 DEF RecordProofIssuer
  <2>4. Seen'
    BY <1>4, <1>6, <2>1, <2>2, <2>3 DEF Seen, HasProof
  <2>5. Handed'
    BY <1>6, <2>1, <2>3 DEF Handed, RunBounds, Past
  <2>6. QED
    BY <2>2, <2>4, <2>5 DEF Cause
<1>14. CASE ReturnProof(i)
  <2> DEFINE r0 == run[i].region
  <2>1. run[i].pc = "return" /\ r0 \in Regions /\ HasProof(i)
    BY <1>3, <1>14 DEF ReturnProof, HasProof
  <2>2. run'[i].pc = "idle"
    BY <1>2, <1>14 DEF ReturnProof, IdleRun
  <2>3. /\ UNCHANGED <<stored, stamp, issued>>
        /\ \A r \in Regions : held'[r] = IF r = r0 THEN run[i].proof ELSE held[r]
    BY <1>2, <1>14, <2>1 DEF ReturnProof
  <2>4. Seen'
    BY <1>4, <1>6, <2>1, <2>2, <2>3 DEF Seen, HasProof
  <2>5. stamp[r0] # None => stamp[r0] = run[i].key /\ run[i].proof.key <= run[i].key
    BY <1>6, <2>1 DEF InHand, RunBounds
  <2>6. Handed'
    BY <1>6, <2>3, <2>5 DEF Handed
  <2>7. QED
    BY <2>2, <2>4, <2>6 DEF Cause
<1>15. QED
  BY <1>7, <1>8, <1>9, <1>10, <1>11, <1>12, <1>13, <1>14 DEF IssueStep

(* A delegation a node was handed is replaced only when it no longer       *)
(* verifies for the run that replaces it or lacks one of its commands,     *)
(* while onboard runs do not overlap.                                      *)
THEOREM HandedHolds ==
  ASSUME OneRun
  PROVE  Spec => HandedStays
<1> DEFINE Step ==
      \A r \in Regions :
        (stored[r] # None /\ stored[r] = held[r] /\ stored'[r] \notin {stored[r], None}) =>
          \E i \in Runs :
            /\ run[i].region = r
            /\ held[r].key # run[i].key \/ ~(run[i].commands \subseteq held[r].commands)
<1>1. HInv /\ [Next]_vars => HInv'
  BY OneRun, HIssueStep, HOtherStep DEF Next
<1>2. HInv /\ [Next]_vars => [Step]_vars
  <2> SUFFICES ASSUME HInv, Next, NEW r \in Regions, stored[r] # None,
                      stored[r] = held[r], stored'[r] \notin {stored[r], None}
               PROVE  \E i \in Runs :
                        /\ run[i].region = r
                        /\ held[r].key # run[i].key \/ ~(run[i].commands \subseteq held[r].commands)
    OBVIOUS
  <2>1. PICK i \in Runs : IssueStep(i)
    BY HOtherStep DEF Next
  <2>2. TypeInv /\ stored \in [Regions -> Delegation \cup {None}]
    BY DEF HInv, IInv, TypeInv, TypeOK
  <2>3. PICK c \in Copies : CreateProof(i, c) \/ Reissue(i, c)
    BY <2>1 DEF IssueStep, StartIssue, ReadKey, TakeStored, ReadIssuer,
                RecordProofIssuer, ReturnProof, IssueAborts
  <2>4. run[i].region = r
    BY <2>2, <2>3 DEF CreateProof, Reissue
  <2>5. run[i].pc = "reissue" /\ stored[r] = run[i].proof
    <3>1. Reissue(i, c)
      BY <2>3, <2>4 DEF CreateProof
    <3>2. InHand(i)
      BY DEF HInv, IInv
    <3>3. QED
      BY <2>4, <3>1, <3>2 DEF Reissue, InHand, HasProof
  <2>6. MissingCommands(run[i]) # {} \/ held[r].key < run[i].key
    BY <2>4, <2>5 DEF HInv, Cause
  <2>7. held[r].key \in Nat /\ run[i].key \in Nat
    BY <2>2, <2>5 DEF TypeInv, Remembers, Delegation
  <2>8. QED
    BY <2>4, <2>5, <2>6, <2>7 DEF MissingCommands
<1>3. QED
  BY <1>1, <1>2, HInit, PTL DEF Spec, HandedStays

=============================================================================
