---------------------------- MODULE OnboardProofs ---------------------------
(***************************************************************************)
(* What holds of Onboard for any regions, Piris and requests.              *)
(***************************************************************************)
EXTENDS Onboard, TLAPS

USE DEF services

-----------------------------------------------------------------------------
(* A run under way has a request, and a retirement under way a region.     *)
TypeInv ==
  /\ TypeOK
  /\ \A i \in Runs : run[i].pc # "idle" => run[i].req \in Requests
  /\ retire.pc # "idle" => retire.region \in Regions

LEMMA TypeInit == Init => TypeInv
  BY HiltAssumption
     DEF HiltAssumption, Init, TypeInv, TypeOK, RunState, IdleRun, Steps, NoProvider, RetireState,
         IdleRetire

LEMMA TypeOnboardStep ==
  ASSUME TypeInv, NEW i \in Runs, OnboardStep(i)
  PROVE  TypeInv'
<1> USE DEF TypeInv, TypeOK, RunState, Steps
<1>1. run[i] \in RunState
  OBVIOUS
<1>2. run[i].pc # "idle" => run[i].req \in RequestSet
  BY RequestsAssumption DEF RequestsAssumption
<1>3. ASSUME NEW q \in Requests, StartOnboard(i, q)
      PROVE  TypeInv'
  BY <1>1, <1>3 DEF StartOnboard, IdleRun
<1>4. CASE ReadAllowList(i)
  <2>1. PICK b \in BOOLEAN :
          run' = [run EXCEPT ![i] = [@ EXCEPT !.pc = "readSprue", !.allowListed = b]]
    <3>1. (run[i].req.piri \in allowList) \in BOOLEAN
      OBVIOUS
    <3>2. QED
      BY <1>4, <3>1, Zenon DEF ReadAllowList
  <2>2. run' \in [Runs -> RunState]
    BY <1>1, <2>1
  <2>3. QED
    BY <1>1, <1>4, <2>1, <2>2 DEF ReadAllowList
<1>5. CASE ReadSprue(i)
  BY <1>1, <1>2, <1>5 DEF ReadSprue, RequestSet
<1>6. CASE ReadHilt(i)
  BY <1>1, <1>2, <1>6 DEF ReadHilt, RequestSet, HiltState
<1>7. CASE ReadRecord(i)
  BY <1>1, <1>2, <1>7 DEF ReadRecord, RequestSet, IdleRun
<1>8. CASE AddToAllowList(i)
  BY <1>1, <1>2, <1>8 DEF AddToAllowList, Goto, RequestSet
<1>9. CASE RegisterWithSprue(i)
  <2>1. run' \in [Runs -> RunState]
        /\ \A j \in Runs : run'[j].pc # "idle" => run'[j].req \in Requests
    BY <1>1, <1>9 DEF RegisterWithSprue, Goto
  <2>2. sprue' \in [Piris -> [endpoint : Endpoints \cup {None},
                              delegation : Delegations \cup {None},
                              weighted : BOOLEAN]]
    <3> DEFINE S == [endpoint : Endpoints \cup {None},
                     delegation : Delegations \cup {None}, weighted : BOOLEAN]
               p == run[i].req.piri
    <3>1. run[i].req \in RequestSet
      BY <1>2, <1>9 DEF RegisterWithSprue
    <3>2. /\ p \in Piris /\ run[i].req.url \in Endpoints
          /\ run[i].req.proof \in Delegations \cup {None}
      BY <3>1 DEF RequestSet
    <3>3. PICK s \in S : sprue' = [sprue EXCEPT ![p] = s]
      <4>1. \A x \in S, e \in Endpoints, d \in Delegations \cup {None} :
              /\ [x EXCEPT !.endpoint = e, !.delegation = d] \in S
              /\ [x EXCEPT !.delegation = d] \in S
        OBVIOUS
      <4>2. sprue[p] \in S /\ sprue = [sprue EXCEPT ![p] = sprue[p]]
        BY <3>2
      <4> HIDE DEF S
      <4>3. QED
        BY <1>9, <3>2, <4>1, <4>2 DEF RegisterWithSprue
    <3> HIDE DEF S, p
    <3>4. sprue \in [Piris -> S]
      BY DEF S
    <3>5. sprue' \in [Piris -> S]
      BY <3>3, <3>4
    <3>6. QED
      BY <3>5 DEF S
  <2>3. QED
    BY <1>9, <2>1, <2>2 DEF RegisterWithSprue
<1>10. CASE SetWeight(i)
  <2>1. run' \in [Runs -> RunState]
        /\ \A j \in Runs : run'[j].pc # "idle" => run'[j].req \in Requests
    BY <1>1, <1>10 DEF SetWeight, Goto
  <2>2. sprue' \in [Piris -> [endpoint : Endpoints \cup {None},
                              delegation : Delegations \cup {None},
                              weighted : BOOLEAN]]
    <3> DEFINE p == run[i].req.piri
               S == [endpoint : Endpoints \cup {None},
                     delegation : Delegations \cup {None}, weighted : BOOLEAN]
    <3>1. sprue' = [sprue EXCEPT ![p].weighted = TRUE] /\ sprue \in [Piris -> S]
      BY <1>10 DEF SetWeight
    <3>2. \A x \in S : [x EXCEPT !.weighted = TRUE] \in S
      OBVIOUS
    <3> HIDE DEF p, S
    <3>3. sprue' \in [Piris -> S]
      BY <3>1, <3>2
    <3>4. QED
      BY <3>3 DEF S
  <2>3. QED
    BY <1>10, <2>1, <2>2 DEF SetWeight
<1>11. CASE AddProvider(i)
  <2>1. run' \in [Runs -> RunState]
        /\ \A j \in Runs : run'[j].pc # "idle" => run'[j].req \in Requests
    BY <1>1, <1>11 DEF AddProvider, Goto
  <2>2. hilt' \in HiltState
    <3>1. run[i].req.region \in Regions /\ NodeSet(run[i]) \subseteq Piris
      BY <1>1, <1>2, <1>11 DEF AddProvider, RequestSet, NodeSet
    <3>2. CASE hilt[run[i].req.region].region # None
      BY <1>11, <3>2 DEF AddProvider
    <3>3. CASE hilt[run[i].req.region].region = None
      <4>1. hilt' = [hilt EXCEPT ![run[i].req.region] =
                       [region |-> run[i].req.region, policy |-> TRUE,
                        nodes |-> NodeSet(run[i])]]
        BY <1>11, <3>3 DEF AddProvider
      <4>2. QED
        BY <3>1, <4>1 DEF HiltState
    <3>4. QED
      BY <3>2, <3>3
  <2>3. QED
    BY <1>11, <2>1, <2>2 DEF AddProvider
<1>12. CASE VerifyProvider(i)
  BY <1>1, <1>12 DEF VerifyProvider, Goto
<1>13. CASE SetProviderNodes(i)
  <2>1. run' \in [Runs -> RunState]
        /\ \A j \in Runs : run'[j].pc # "idle" => run'[j].req \in Requests
    BY <1>1, <1>13 DEF SetProviderNodes, Goto
  <2>2. hilt' \in HiltState
    <3>1. run[i].req.region \in Regions /\ NodeSet(run[i]) \subseteq Piris
      BY <1>1, <1>2, <1>13 DEF SetProviderNodes, RequestSet, NodeSet
    <3>2. DEFINE r == run[i].req.region
    <3>3. hilt' = [hilt EXCEPT ![r] = [@ EXCEPT !.policy = TRUE, !.nodes = NodeSet(run[i])]]
      BY <1>13 DEF SetProviderNodes
    <3>4. hilt[r] \in [region : Regions \cup {None}, policy : BOOLEAN,
                       nodes : SUBSET Piris]
      BY <3>1 DEF HiltState
    <3>5. [hilt[r] EXCEPT !.policy = TRUE, !.nodes = NodeSet(run[i])]
            \in [region : Regions \cup {None}, policy : BOOLEAN,
                 nodes : SUBSET Piris]
      BY <3>1, <3>4
    <3>6. hilt' = [hilt EXCEPT ![r] =
                     [hilt[r] EXCEPT !.policy = TRUE, !.nodes = NodeSet(run[i])]]
      BY <3>1, <3>3, <3>4 DEF HiltState
    <3>7. QED
      BY <3>1, <3>5, <3>6 DEF HiltState
  <2>3. QED
    BY <1>13, <2>1, <2>2 DEF SetProviderNodes
<1>14. CASE KeepProviderNodes(i)
  BY <1>1, <1>14 DEF KeepProviderNodes, Goto
<1>15. CASE RecordPiri(i)
  BY <1>1, <1>2, <1>15 DEF RecordPiri, Goto, RequestSet
<1>16. CASE IssueProof(i)
  BY <1>1, <1>2, <1>16 DEF IssueProof, Goto, RequestSet
<1>17. CASE ReturnProof(i)
  BY <1>1, <1>17 DEF ReturnProof, IdleRun
<1>18. CASE OnboardAborts(i)
  BY <1>1, <1>18 DEF OnboardAborts, IdleRun
<1>19. QED
  BY <1>3, <1>4, <1>5, <1>6, <1>7, <1>8, <1>9, <1>10, <1>11, <1>12, <1>13,
     <1>14, <1>15, <1>16, <1>17, <1>18 DEF OnboardStep

LEMMA TypeOtherStep ==
  ASSUME TypeInv,
         \/ \E r \in Regions : PlanRetire(r) \/ Provision(r) \/ Decommission(r)
         \/ DeleteRegionRows \/ DeleteProof \/ RetireAborts
         \/ \E p \in Piris : Deregister(p)
  PROVE  TypeInv'
<1> USE DEF TypeInv, TypeOK, RetireState, IdleRetire, Disturb, Active
<1>1. CASE \E r \in Regions : PlanRetire(r)
  BY <1>1 DEF PlanRetire
<1>2. CASE \E r \in Regions : Provision(r)
  BY <1>2 DEF Provision
<1>3. CASE \E r \in Regions : Decommission(r)
  BY <1>3 DEF Decommission
<1>4. CASE DeleteRegionRows
  BY <1>4 DEF DeleteRegionRows, HiltState, NoRow
<1>5. CASE DeleteProof
  BY <1>5 DEF DeleteProof
<1>6. CASE RetireAborts
  BY <1>6 DEF RetireAborts
<1>7. CASE \E p \in Piris : Deregister(p)
  BY <1>7 DEF Deregister, NoProvider
<1>8. QED
  BY <1>1, <1>2, <1>3, <1>4, <1>5, <1>6, <1>7

LEMMA TypeStep == TypeInv /\ [Next]_vars => TypeInv'
<1> SUFFICES ASSUME TypeInv, [Next]_vars PROVE TypeInv'
  OBVIOUS
<1>1. CASE UNCHANGED vars
  BY <1>1 DEF vars, TypeInv, TypeOK
<1>2. QED
  BY <1>1, TypeOnboardStep, TypeOtherStep DEF Next

(* Every variable keeps its type, and every invocation under way knows     *)
(* which appliance or region it is for.                                    *)
THEOREM TypesHold == Spec => []TypeOK
<1>1. Spec => []TypeInv
  BY TypeInit, TypeStep, PTL DEF Spec
<1>2. TypeInv => TypeOK
  BY DEF TypeInv
<1>3. QED
  BY <1>1, <1>2, PTL

-----------------------------------------------------------------------------
(* Why a recorded Piri is served while onboards do not overlap.  The set a *)
(* run will send covers the record as it stands, since nothing but the     *)
(* run itself adds to the record; a row it did not see is still absent,    *)
(* since nothing but the run itself adds rows; and by the time it records  *)
(* its own Piri, hilt has it.                                              *)
OneRun == \A i, j \in Runs : i = j

Deciding == {"readRecord", "allowList", "register", "weight", "hilt"}
Writing == {"allowList", "register", "weight", "hilt"}

PolicyNeedsRow == \A d \in Regions : hilt[d].policy => hilt[d].region # None

RunServes(i) ==
  LET r == run[i].req.region IN
    /\ run[i].pc \in Deciding /\ run[i].hiltRegion = None => hilt[r].region = None
    /\ run[i].pc \in Writing => record[r] \subseteq run[i].recorded
    /\ run[i].pc \in {"verify", "record"} /\ ~Recorded(i) /\ hilt[r].policy
         => run[i].req.piri \in hilt[r].nodes

ServedInv ==
  /\ RecordedPirisAreServed
  /\ PolicyNeedsRow
  /\ \A i \in Runs : RunServes(i)

Inv == TypeInv /\ ServedInv

LEMMA ServedInit == Init => ServedInv
  BY HiltAssumption
     DEF HiltAssumption, Init, ServedInv, RecordedPirisAreServed, PolicyNeedsRow,
         RunServes, IdleRun, Deciding, Writing

LEMMA ServedOnboardStep ==
  ASSUME OneRun, TypeInv, ServedInv, NEW i \in Runs, OnboardStep(i)
  PROVE  ServedInv'
<1> DEFINE r == run[i].req.region
           p == run[i].req.piri
<1> USE DEF ServedInv, RecordedPirisAreServed, PolicyNeedsRow, Recorded
<1>1. /\ run[i] \in RunState
      /\ run[i].pc # "idle" => r \in Regions /\ p \in Piris
      /\ hilt \in HiltState /\ record \in [Regions -> SUBSET Piris]
      /\ run \in [Runs -> RunState]
  BY RequestsAssumption DEF RequestsAssumption, TypeInv, TypeOK, RequestSet
<1>2. Runs = {i}
  BY DEF OneRun
<1>3. ASSUME UNCHANGED <<hilt, record>>, RunServes(i)'
      PROVE  ServedInv'
  BY <1>2, <1>3
<1>4. ASSUME NEW q \in Requests, StartOnboard(i, q)
      PROVE  ServedInv'
  BY <1>1, <1>3, <1>4 DEF StartOnboard, IdleRun, RunServes, Deciding, Writing
<1>5. CASE ReadAllowList(i)
  <2>1. run'[i].pc = "readSprue"
    BY <1>1, <1>5 DEF ReadAllowList
  <2>2. RunServes(i)'
    BY <2>1 DEF RunServes, Deciding, Writing
  <2>3. QED
    BY <1>3, <1>5, <2>2 DEF ReadAllowList
<1>6. CASE ReadSprue(i)
  <2>1. run'[i].pc = "readHilt"
    BY <1>1, <1>6 DEF ReadSprue
  <2>2. RunServes(i)'
    BY <2>1 DEF RunServes, Deciding, Writing
  <2>3. QED
    BY <1>3, <1>6, <2>2 DEF ReadSprue
<1>7. CASE ReadHilt(i)
  <2>1. /\ run'[i].pc = "readRecord" /\ run'[i].req = run[i].req
        /\ run'[i].hiltRegion = hilt[r].region
        /\ UNCHANGED <<hilt, record>>
    BY <1>1, <1>7 DEF ReadHilt, RunState
  <2>2. RunServes(i)'
    BY <2>1 DEF RunServes, Deciding, Writing
  <2>3. QED
    BY <1>3, <2>1, <2>2
<1>8. CASE ReadRecord(i)
  BY <1>1, <1>3, <1>8
     DEF ReadRecord, RunServes, RunState, IdleRun, Deciding, Writing
<1>9. CASE AddToAllowList(i)
  BY <1>1, <1>3, <1>9 DEF AddToAllowList, Goto, RunServes, RunState, Deciding, Writing
<1>10. CASE RegisterWithSprue(i)
  BY <1>1, <1>3, <1>10
     DEF RegisterWithSprue, Goto, RunServes, RunState, Deciding, Writing
<1>11. CASE SetWeight(i)
  BY <1>1, <1>3, <1>11 DEF SetWeight, Goto, RunServes, RunState, Deciding, Writing
<1>12. CASE AddProvider(i)
  <2>1. /\ hilt' = [hilt EXCEPT ![r] = [region |-> r, policy |-> TRUE,
                                       nodes |-> NodeSet(run[i])]]
        /\ UNCHANGED record /\ run' = [run EXCEPT ![i].pc = "verify"]
    BY <1>1, <1>12 DEF AddProvider, Goto, RunServes, Deciding
  <2>2. record[r] \subseteq NodeSet(run[i]) /\ p \in NodeSet(run[i])
    BY <1>12 DEF AddProvider, RunServes, Writing, NodeSet
  <2>3. r \in Regions /\ r # None
    BY <1>1, <1>12, NoneAssumption DEF AddProvider, NoneAssumption
  <2>4. RecordedPirisAreServed' /\ PolicyNeedsRow'
    BY <1>1, <2>1, <2>2, <2>3 DEF HiltState
  <2>5. RunServes(i)'
    BY <1>1, <2>1, <2>2, <2>3 DEF RunServes, RunState, HiltState, Deciding, Writing
  <2>6. QED
    BY <1>2, <2>4, <2>5
<1>13. CASE VerifyProvider(i)
  BY <1>1, <1>3, <1>13 DEF VerifyProvider, Goto, RunServes, RunState, Deciding, Writing
<1>14. CASE SetProviderNodes(i)
  <2>1. /\ \A d \in Regions : d # r => hilt'[d] = hilt[d]
        /\ hilt'[r].region = hilt[r].region /\ hilt[r].region # None
        /\ hilt'[r].nodes = NodeSet(run[i])
        /\ UNCHANGED record
    BY <1>1, <1>14 DEF SetProviderNodes, HiltState
  <2>2. record[r] \subseteq NodeSet(run[i]) /\ p \in NodeSet(run[i])
    BY <1>14 DEF SetProviderNodes, RunServes, Writing, NodeSet
  <2>3. r \in Regions
    BY <1>1, <1>14 DEF SetProviderNodes
  <2>4. RecordedPirisAreServed' /\ PolicyNeedsRow'
    BY <1>1, <2>1, <2>2, <2>3 DEF HiltState
  <2>5. run'[i].pc = "record" /\ run'[i].req = run[i].req
    BY <1>1, <1>14 DEF SetProviderNodes, Goto, RunState
  <2>6. RunServes(i)'
    BY <2>1, <2>2, <2>5 DEF RunServes, Deciding, Writing
  <2>7. QED
    BY <1>2, <2>4, <2>6
<1>15. CASE KeepProviderNodes(i)
  BY <1>1, <1>3, <1>15 DEF KeepProviderNodes, Goto, RunServes, RunState, Deciding, Writing
<1>16. CASE RecordPiri(i)
  <2>1. /\ UNCHANGED hilt /\ run'[i].pc = "issue"
        /\ r \in Regions /\ run[i].pc = "record"
    BY <1>1, <1>16 DEF RecordPiri, Goto, RunState
  <2>2. RunServes(i)' /\ PolicyNeedsRow'
    <3>1. PolicyNeedsRow'
      BY <2>1
    <3>2. RunServes(i)'
      BY ONLY <2>1 DEF RunServes, Deciding, Writing
    <3>3. QED
      BY <3>1, <3>2
  <2>3. CASE Recorded(i)
    <3>1. UNCHANGED record
      BY <1>16, <2>3 DEF RecordPiri
    <3>2. QED
      BY <1>2, <2>1, <2>2, <3>1
  <2>4. CASE ~Recorded(i)
    <3>1. record' = [record EXCEPT ![r] = record[r] \cup {p}]
      BY <1>16, <2>4 DEF RecordPiri
    <3>2. hilt[r].policy => p \in hilt[r].nodes
      BY <2>1, <2>4 DEF RunServes
    <3>3. RecordedPirisAreServed'
      BY <1>1, <2>1, <3>1, <3>2
    <3>4. QED
      BY <1>2, <2>2, <3>3
  <2>5. QED
    BY <2>3, <2>4
<1>17. CASE IssueProof(i)
  BY <1>1, <1>3, <1>17 DEF IssueProof, Goto, RunServes, RunState, Deciding, Writing
<1>18. CASE ReturnProof(i)
  BY <1>1, <1>3, <1>18 DEF ReturnProof, IdleRun, RunServes, Deciding, Writing
<1>19. CASE OnboardAborts(i)
  BY <1>1, <1>3, <1>19 DEF OnboardAborts, IdleRun, RunServes, Deciding, Writing
<1>20. QED
  BY <1>4, <1>5, <1>6, <1>7, <1>8, <1>9, <1>10, <1>11, <1>12, <1>13, <1>14,
     <1>15, <1>16, <1>17, <1>18, <1>19 DEF OnboardStep

(* Retirement only takes rows and records away.                            *)
LEMMA ServedOtherStep ==
  ASSUME TypeInv, ServedInv,
         \/ \E r \in Regions : PlanRetire(r) \/ Provision(r) \/ Decommission(r)
         \/ DeleteRegionRows \/ DeleteProof \/ RetireAborts
         \/ \E p \in Piris : Deregister(p)
  PROVE  ServedInv'
<1> USE DEF ServedInv, RecordedPirisAreServed, PolicyNeedsRow, RunServes, Recorded,
            Writing, Deciding
<1>1. /\ hilt \in HiltState /\ record \in [Regions -> SUBSET Piris]
      /\ \A i \in Runs : run[i].pc # "idle" => run[i].req.region \in Regions
  BY RequestsAssumption DEF RequestsAssumption, TypeInv, TypeOK, RequestSet
<1>2. CASE UNCHANGED <<hilt, record, run>>
  BY <1>2
<1>3. CASE \E r \in Regions : Decommission(r)
  BY <1>1, <1>3 DEF Decommission
<1>4. CASE DeleteRegionRows
  BY <1>1, <1>4 DEF DeleteRegionRows, NoRow
<1>5. QED
  BY <1>2, <1>3, <1>4
     DEF PlanRetire, Provision, DeleteProof, RetireAborts, Deregister

LEMMA ServedStep == OneRun /\ TypeInv /\ ServedInv /\ [Next]_vars => ServedInv'
<1> SUFFICES ASSUME OneRun, TypeInv, ServedInv, [Next]_vars PROVE ServedInv'
  OBVIOUS
<1>1. CASE UNCHANGED vars
  BY <1>1 DEF vars, ServedInv, RecordedPirisAreServed, PolicyNeedsRow, RunServes,
              Recorded
<1>2. QED
  BY <1>1, ServedOnboardStep, ServedOtherStep DEF Next

(* While onboards are run one at a time, a recorded Piri is always one     *)
(* hilt has been told about, wherever runs stop and whatever is retired,   *)
(* decommissioned or deregistered beside them.                             *)
THEOREM RecordedServed ==
  ASSUME OneRun PROVE Spec => []RecordedPirisAreServed
<1>1. Init => Inv
  BY TypeInit, ServedInit DEF Inv
<1>2. Inv /\ [Next]_vars => Inv'
  BY TypeStep, ServedStep DEF Inv
<1>3. Inv => RecordedPirisAreServed
  BY DEF Inv, ServedInv
<1>4. QED
  BY <1>1, <1>2, <1>3, PTL DEF Spec
-----------------------------------------------------------------------------
(* Why a run that returns has admitted its appliance.  What it read stays  *)
(* true for as long as nothing is taken from under it, the plan decided    *)
(* nothing it cannot carry out, and what a step wrote is there after it.   *)
Admitting == {"register", "weight", "hilt", "verify", "record", "issue", "return"}
Planned == {"allowList"} \cup Admitting

KnownMeansDelegated ==
  \A p \in Piris : sprue[p].endpoint # None => sprue[p].delegation # None

PlanHolds(i) ==
  run[i].pc \in Planned =>
    /\ run[i].endpoint = None => run[i].req.proof # None
    /\ run[i].endpoint \in {None, run[i].req.url}
    /\ run[i].hiltRegion \in {None, run[i].req.region}

ReadsHold(i) ==
  LET q == run[i].req IN
    /\ /\ run[i].pc \in {"readSprue", "readHilt", "readRecord", "allowList"}
       /\ run[i].allowListed
       => q.piri \in allowList
    /\ run[i].pc \in {"readHilt", "readRecord", "allowList", "register"} =>
         run[i].endpoint = sprue[q.piri].endpoint
    /\ run[i].pc \in Deciding /\ run[i].hiltRegion = q.region =>
         /\ hilt[q.region].region = q.region
         /\ (run[i].hiltPolicy => hilt[q.region].policy)
    /\ run[i].pc \in Planned /\ Recorded(i) => q.piri \in record[q.region]

WritesHold(i) ==
  LET q == run[i].req IN
    /\ run[i].pc \in Admitting => q.piri \in allowList
    /\ run[i].pc \in Admitting \ {"register"} =>
         /\ sprue[q.piri].endpoint = q.url
         /\ (q.proof # None => sprue[q.piri].delegation = q.proof)
    /\ run[i].pc \in Admitting \ {"register", "weight"} =>
         sprue[q.piri].weighted
    /\ run[i].pc \in {"verify", "record", "issue", "return"} =>
         hilt[q.region].region = q.region /\ q.piri \in hilt[q.region].nodes
    /\ run[i].pc \in {"issue", "return"} => q.piri \in record[q.region]
    /\ run[i].pc = "return" => q.region \in proofs

AdmissionInv ==
  /\ KnownMeansDelegated
  /\ \A i \in Runs :
       PlanHolds(i) /\ (i \notin disturbed => ReadsHold(i) /\ WritesHold(i))


LEMMA AdmissionInit == Init => AdmissionInv
  BY DEF Init, AdmissionInv, KnownMeansDelegated, PlanHolds, ReadsHold, WritesHold,
         IdleRun, NoProvider, Planned, Admitting, Deciding

(* A run that only moves on keeps everything it remembers.                 *)
LEMMA GotoFields ==
  ASSUME run \in [Runs -> RunState], NEW i \in Runs, NEW step \in Steps, Goto(i, step)
  PROVE  /\ run'[i].pc = step /\ run'[i].req = run[i].req
         /\ run'[i].endpoint = run[i].endpoint
         /\ run'[i].hiltRegion = run[i].hiltRegion
         /\ run'[i].recorded = run[i].recorded
  BY DEF Goto, RunState

LEMMA AdmissionOnboardStep ==
  ASSUME OneRun, TypeInv, ServedInv, AdmissionInv, NEW i \in Runs, OnboardStep(i)
  PROVE  AdmissionInv'
<1> DEFINE q == run[i].req
           SprueRow == [endpoint : Endpoints \cup {None},
                        delegation : Delegations \cup {None}, weighted : BOOLEAN]
<1> USE DEF AdmissionInv, PlanHolds, ReadsHold, WritesHold, Recorded,
            Planned, Admitting, Deciding
<1>1. /\ run \in [Runs -> RunState] /\ run[i] \in RunState
      /\ sprue \in [Piris -> SprueRow] /\ hilt \in HiltState
      /\ record \in [Regions -> SUBSET Piris]
      /\ run[i].pc # "idle" =>
           /\ q.region \in Regions /\ q.piri \in Piris /\ q.url \in Endpoints
           /\ q.url # None /\ q.region # None
  BY RequestsAssumption, NoneAssumption
     DEF RequestsAssumption, NoneAssumption, TypeInv, TypeOK, RequestSet
<1>2. Runs = {i}
  BY DEF OneRun
<1>3. ASSUME KnownMeansDelegated', PlanHolds(i)',
             i \notin disturbed' => ReadsHold(i)' /\ WritesHold(i)'
      PROVE  AdmissionInv'
  BY <1>2, <1>3
<1>4. ASSUME UNCHANGED sprue PROVE KnownMeansDelegated'
  BY <1>4 DEF KnownMeansDelegated
<1>0. ASSUME UNCHANGED sprue, run'[i].pc = "idle" PROVE AdmissionInv'
  <2>1. PlanHolds(i)' /\ ReadsHold(i)' /\ WritesHold(i)'
    BY <1>0
  <2>2. QED
    BY <1>0, <1>3, <1>4, <2>1
<1>5. ASSUME NEW rq \in Requests, StartOnboard(i, rq)
      PROVE  AdmissionInv'
  <2>1. run'[i].pc = "readAllowList" /\ UNCHANGED sprue
    BY <1>1, <1>5 DEF StartOnboard, IdleRun
  <2>2. PlanHolds(i)' /\ ReadsHold(i)' /\ WritesHold(i)'
    BY <2>1
  <2>3. QED
    BY <1>3, <1>4, <2>1, <2>2
<1>6. CASE ReadAllowList(i)
  <2>1. PICK b \in BOOLEAN :
          /\ run' = [run EXCEPT ![i] = [@ EXCEPT !.pc = "readSprue", !.allowListed = b]]
          /\ b => q.piri \in allowList
    <3>1. /\ (q.piri \in allowList) \in BOOLEAN
          /\ (q.piri \in allowList) => q.piri \in allowList
      OBVIOUS
    <3>2. QED
      BY <1>6, <3>1, Zenon DEF ReadAllowList
  <2>2. /\ run'[i].pc = "readSprue" /\ run'[i].req = q
        /\ (run'[i].allowListed => q.piri \in allowList)
    BY <1>1, <2>1 DEF RunState
  <2>3. UNCHANGED <<allowList, sprue, disturbed>>
    BY <1>6 DEF ReadAllowList
  <2>4. ReadsHold(i)' /\ WritesHold(i)' /\ PlanHolds(i)'
    BY <2>2, <2>3
  <2>5. QED
    BY <1>3, <1>4, <2>3, <2>4
<1>7. CASE ReadSprue(i)
  <2>1. /\ run'[i].pc = "readHilt" /\ run'[i].req = q
        /\ run'[i].endpoint = sprue[q.piri].endpoint
        /\ (run'[i].allowListed => run[i].allowListed)
        /\ run[i].pc = "readSprue"
        /\ UNCHANGED <<services, disturbed>>
    BY <1>1, <1>7 DEF ReadSprue, RunState
  <2>2. UNCHANGED <<allowList, sprue>>
    BY <2>1 DEF services
  <2>3. PlanHolds(i)' /\ WritesHold(i)'
    BY <2>1
  <2>4. i \notin disturbed' => ReadsHold(i)'
    BY <2>1, <2>2
  <2>5. QED
    BY <1>3, <1>4, <2>2, <2>3, <2>4
<1>8. CASE ReadHilt(i)
  <2>1. /\ run'[i].pc = "readRecord" /\ run'[i].req = q
        /\ run'[i].hiltRegion = hilt[q.region].region
        /\ (run'[i].hiltPolicy => hilt[q.region].policy)
        /\ run'[i].endpoint = run[i].endpoint
        /\ (run'[i].allowListed => run[i].allowListed)
        /\ run[i].pc = "readHilt"
        /\ UNCHANGED <<services, record, disturbed>>
    BY <1>1, <1>8 DEF ReadHilt, RunState
  <2>2. PlanHolds(i)' /\ WritesHold(i)'
    BY <2>1
  <2>3. i \notin disturbed' => ReadsHold(i)'
    BY <2>1
  <2>4. QED
    BY <1>3, <1>4, <2>1, <2>2, <2>3
<1>9. CASE ReadRecord(i)
  <2>1. run[i].pc = "readRecord" /\ UNCHANGED <<services, record, disturbed>>
    BY <1>9 DEF ReadRecord
  <2> DEFINE state == [run[i] EXCEPT !.recorded = record[q.region]]
  <2>2. CASE Blockers(state)
    <3>1. run'[i].pc = "idle"
      BY <1>1, <1>9, <2>2 DEF ReadRecord, IdleRun
    <3>2. PlanHolds(i)' /\ WritesHold(i)' /\ ReadsHold(i)'
      BY <3>1
    <3>3. QED
      BY <1>3, <1>4, <2>1, <3>2
  <2>3. CASE ~Blockers(state)
    <3>1. run'[i] = [state EXCEPT !.pc = "allowList"]
      BY <1>1, <1>9, <2>3 DEF ReadRecord
    <3>2. /\ run'[i].pc = "allowList" /\ run'[i].req = q
          /\ run'[i].hiltRegion = run[i].hiltRegion
          /\ run'[i].hiltPolicy = run[i].hiltPolicy
          /\ run'[i].endpoint = run[i].endpoint
          /\ run'[i].allowListed = run[i].allowListed
          /\ run'[i].recorded = record[q.region]
      BY <1>1, <3>1 DEF RunState
    <3>3. /\ run[i].endpoint = None => q.proof # None
          /\ run[i].endpoint \in {None, q.url}
          /\ run[i].hiltRegion \in {None, q.region}
      BY <1>1, <2>3 DEF Blockers, RunState
    <3>4. PlanHolds(i)' /\ WritesHold(i)'
      BY <3>2, <3>3
    <3>5. i \notin disturbed' => ReadsHold(i)'
      BY <2>1, <3>2
    <3>6. QED
      BY <1>3, <1>4, <2>1, <3>4, <3>5
  <2>4. QED
    BY <2>2, <2>3
<1>10. CASE AddToAllowList(i)
  <2>1. /\ run[i].pc = "allowList" /\ Goto(i, "register")
        /\ UNCHANGED <<sprue, hilt, record, disturbed>>
        /\ allowList' = IF run[i].allowListed THEN allowList
                        ELSE allowList \cup {q.piri}
    BY <1>10 DEF AddToAllowList
  <2>2. /\ run'[i].pc = "register" /\ run'[i].req = q
        /\ run'[i].endpoint = run[i].endpoint
        /\ run'[i].hiltRegion = run[i].hiltRegion
        /\ (run'[i].hiltPolicy => run[i].hiltPolicy)
        /\ run'[i].recorded = run[i].recorded
    BY <1>1, <2>1 DEF Goto, RunState
  <2>3. PlanHolds(i)'
    BY <2>1, <2>2
  <2>4. i \notin disturbed' => q.piri \in allowList'
    BY <2>1
  <2>5. i \notin disturbed' => WritesHold(i)'
    BY <2>2, <2>4
  <2>6. i \notin disturbed' => ReadsHold(i)'
    BY <2>1, <2>2
  <2>7. QED
    BY <1>3, <1>4, <2>1, <2>3, <2>5, <2>6
<1>11. CASE RegisterWithSprue(i)
  <2>1. /\ run'[i] = [run[i] EXCEPT !.pc = "weight"] /\ run[i].pc = "register"
        /\ UNCHANGED <<allowList, hilt, record, disturbed>>
    BY <1>1, <1>11 DEF RegisterWithSprue, Goto
  <2>2. /\ run'[i].pc = "weight" /\ run'[i].req = q
        /\ run'[i].hiltRegion = run[i].hiltRegion
        /\ run'[i].hiltPolicy = run[i].hiltPolicy
        /\ run'[i].endpoint = run[i].endpoint
        /\ run'[i].recorded = run[i].recorded
    BY <1>1, <2>1 DEF RunState
  <2>3. /\ PlanHolds(i)'
        /\ i \notin disturbed' => ReadsHold(i)'
    BY <2>1, <2>2
  <2>4. ASSUME /\ sprue'[q.piri].endpoint = q.url
               /\ sprue'[q.piri].delegation # None
               /\ q.proof # None => sprue'[q.piri].delegation = q.proof
        PROVE  i \notin disturbed' => WritesHold(i)'
    BY <2>1, <2>2, <2>4
  <2>5. CASE run[i].endpoint = None
    <3>1. sprue' = [sprue EXCEPT ![q.piri] =
                      [@ EXCEPT !.endpoint = q.url, !.delegation = q.proof]]
      BY <1>11, <2>5 DEF RegisterWithSprue
    <3>2. /\ sprue'[q.piri].endpoint = q.url /\ sprue'[q.piri].delegation = q.proof
          /\ \A p \in Piris \ {q.piri} : sprue'[p] = sprue[p]
      BY <1>1, <2>1, <3>1
    <3>3. q.proof # None
      BY <2>1, <2>5
    <3>4. KnownMeansDelegated'
      BY <3>2, <3>3 DEF KnownMeansDelegated
    <3>5. QED
      BY <1>3, <2>3, <2>4, <3>2, <3>3, <3>4
  <2>6. CASE run[i].endpoint # None /\ q.proof # None
    <3>1. sprue' = [sprue EXCEPT ![q.piri].delegation = q.proof]
      BY <1>11, <2>6 DEF RegisterWithSprue
    <3>2. /\ sprue'[q.piri].endpoint = sprue[q.piri].endpoint
          /\ sprue'[q.piri].delegation = q.proof
          /\ \A p \in Piris \ {q.piri} : sprue'[p] = sprue[p]
      BY <1>1, <2>1, <3>1
    <3>3. KnownMeansDelegated'
      BY <2>6, <3>2 DEF KnownMeansDelegated
    <3>4. i \notin disturbed => sprue[q.piri].endpoint = q.url
      BY <2>1, <2>6
    <3>5. QED
      BY <1>3, <2>1, <2>3, <2>4, <2>6, <3>2, <3>3, <3>4
  <2>7. CASE run[i].endpoint # None /\ q.proof = None
    <3>1. UNCHANGED sprue
      BY <1>11, <2>7 DEF RegisterWithSprue
    <3>2. i \notin disturbed => sprue[q.piri].endpoint = q.url
      BY <2>1, <2>7
    <3>3. i \notin disturbed => sprue[q.piri].delegation # None
      BY <1>1, <2>1, <3>2 DEF KnownMeansDelegated
    <3>4. QED
      BY <1>3, <1>4, <2>1, <2>3, <2>4, <2>7, <3>1, <3>2, <3>3
  <2>8. QED
    BY <2>5, <2>6, <2>7
<1>12. CASE SetWeight(i)
  <2>1. /\ run[i].pc = "weight" /\ Goto(i, "hilt")
        /\ sprue' = [sprue EXCEPT ![q.piri].weighted = TRUE]
        /\ UNCHANGED <<allowList, hilt, record, disturbed>>
    BY <1>12 DEF SetWeight
  <2>2. /\ run'[i].pc = "hilt" /\ run'[i].req = q
        /\ run'[i].endpoint = run[i].endpoint
        /\ run'[i].hiltRegion = run[i].hiltRegion
        /\ (run'[i].hiltPolicy => run[i].hiltPolicy)
        /\ run'[i].recorded = run[i].recorded
    BY <1>1, <2>1 DEF Goto, RunState
  <2>3. /\ sprue'[q.piri].endpoint = sprue[q.piri].endpoint
        /\ sprue'[q.piri].delegation = sprue[q.piri].delegation
        /\ sprue'[q.piri].weighted
        /\ \A p \in Piris \ {q.piri} : sprue'[p] = sprue[p]
    BY <1>1, <2>1
  <2>4. KnownMeansDelegated'
    BY <2>3 DEF KnownMeansDelegated
  <2>5. PlanHolds(i)'
    BY <2>1, <2>2
  <2>6. i \notin disturbed' => ReadsHold(i)'
    BY <2>1, <2>2
  <2>7. i \notin disturbed' => WritesHold(i)'
    <3>1. i \notin disturbed' =>
            /\ q.piri \in allowList /\ sprue[q.piri].endpoint = q.url
            /\ (q.proof # None => sprue[q.piri].delegation = q.proof)
      BY <2>1
    <3>2. /\ sprue'[q.piri].endpoint = sprue[q.piri].endpoint
          /\ sprue'[q.piri].delegation = sprue[q.piri].delegation
          /\ sprue'[q.piri].weighted
      BY <2>3
    <3>3. UNCHANGED <<allowList, disturbed>>
      BY <2>1
    <3>4. i \notin disturbed' =>
            /\ q.piri \in allowList' /\ sprue'[q.piri].endpoint = q.url
            /\ (q.proof # None => sprue'[q.piri].delegation = q.proof)
      BY <3>1, <3>2, <3>3
    <3>5. QED
      BY <2>2, <3>2, <3>4
  <2>8. QED
    BY <1>3, <2>4, <2>5, <2>6, <2>7
<1>13. CASE AddProvider(i)
  <2>1. /\ run[i].pc = "hilt" /\ run[i].hiltRegion = None /\ Goto(i, "verify")
        /\ UNCHANGED <<allowList, sprue, record, disturbed>>
    BY <1>13 DEF AddProvider
  <2>2. /\ run'[i].pc = "verify" /\ run'[i].req = q
        /\ run'[i].endpoint = run[i].endpoint
        /\ run'[i].hiltRegion = run[i].hiltRegion
        /\ run'[i].recorded = run[i].recorded
    BY <1>1, <2>1, GotoFields DEF Steps
  <2>3. PlanHolds(i)'
    BY <2>1, <2>2
  <2>4. i \notin disturbed' => ReadsHold(i)'
    BY <1>1, <2>1, <2>2
  <2>5. hilt'[q.region].region = q.region /\ q.piri \in hilt'[q.region].nodes
    <3>1. hilt[q.region].region = None
      BY <2>1 DEF ServedInv, RunServes
    <3>2. hilt' = [hilt EXCEPT ![q.region] = [region |-> q.region, policy |-> TRUE,
                                              nodes |-> NodeSet(run[i])]]
      BY <1>13, <3>1 DEF AddProvider
    <3>3. QED
      BY <1>1, <2>1, <3>2 DEF NodeSet, HiltState
  <2>6. i \notin disturbed' => WritesHold(i)'
    BY <2>1, <2>2, <2>5
  <2>7. QED
    BY <1>3, <1>4, <2>1, <2>3, <2>4, <2>6
<1>14. CASE VerifyProvider(i)
  <2>1. /\ run[i].pc = "verify" /\ Goto(i, "record")
        /\ UNCHANGED <<allowList, sprue, hilt, record, disturbed>>
    BY <1>14 DEF VerifyProvider, services
  <2>2. /\ run'[i].pc = "record" /\ run'[i].req = q
        /\ run'[i].endpoint = run[i].endpoint
        /\ run'[i].hiltRegion = run[i].hiltRegion
        /\ run'[i].recorded = run[i].recorded
    BY <1>1, <2>1, GotoFields DEF Steps
  <2>3. PlanHolds(i)'
    BY <2>1, <2>2
  <2>4. i \notin disturbed' => ReadsHold(i)'
    BY <2>1, <2>2
  <2>5. i \notin disturbed' => WritesHold(i)'
    BY <2>1, <2>2
  <2>6. QED
    BY <1>3, <1>4, <2>1, <2>3, <2>4, <2>5
<1>15. CASE SetProviderNodes(i)
  <2>1. /\ run'[i].pc = "record" /\ run'[i].req = q
        /\ run'[i].recorded = run[i].recorded
        /\ run'[i].endpoint = run[i].endpoint
        /\ run'[i].hiltRegion = run[i].hiltRegion
        /\ run[i].pc = "hilt" /\ run[i].hiltRegion # None
        /\ UNCHANGED <<allowList, sprue, record, disturbed>>
    BY <1>1, <1>15 DEF SetProviderNodes, Goto, RunState
  <2>2. hilt'[q.region].region = hilt[q.region].region
        /\ hilt'[q.region].nodes = NodeSet(run[i])
    BY <1>1, <1>15, <2>1 DEF SetProviderNodes, HiltState
  <2>3. PlanHolds(i)'
    BY <2>1
  <2>4. i \notin disturbed' => ReadsHold(i)' /\ WritesHold(i)'
    BY <2>1, <2>2 DEF NodeSet
  <2>5. QED
    BY <1>3, <1>4, <2>1, <2>3, <2>4
<1>16. CASE KeepProviderNodes(i)
  <2>1. /\ run[i].pc = "hilt" /\ Goto(i, "record")
        /\ UNCHANGED <<allowList, sprue, hilt, record, disturbed>>
        /\ run[i].hiltRegion # None /\ run[i].hiltPolicy /\ Recorded(i)
    BY <1>16 DEF KeepProviderNodes, services
  <2>2. /\ run'[i].pc = "record" /\ run'[i].req = q
        /\ run'[i].endpoint = run[i].endpoint
        /\ run'[i].hiltRegion = run[i].hiltRegion
        /\ run'[i].recorded = run[i].recorded
    BY <1>1, <2>1, GotoFields DEF Steps
  <2>3. PlanHolds(i)'
    BY <2>1, <2>2
  <2>4. i \notin disturbed' => ReadsHold(i)'
    BY <2>1, <2>2
  <2>5. i \notin disturbed =>
          hilt[q.region].region = q.region /\ q.piri \in hilt[q.region].nodes
    <3>1. ASSUME i \notin disturbed
          PROVE  /\ hilt[q.region].region = q.region /\ hilt[q.region].policy
                 /\ q.piri \in record[q.region]
      BY <2>1, <3>1
    <3>2. ASSUME hilt[q.region].policy
          PROVE  record[q.region] \subseteq hilt[q.region].nodes
      BY <1>1, <2>1, <3>2 DEF ServedInv, RecordedPirisAreServed
    <3>3. QED
      BY <3>1, <3>2
  <2>6. i \notin disturbed' => WritesHold(i)'
    BY <2>1, <2>2, <2>5
  <2>7. QED
    BY <1>3, <1>4, <2>1, <2>3, <2>4, <2>6
<1>17. CASE RecordPiri(i)
  <2>1. /\ run[i].pc = "record" /\ Goto(i, "issue")
        /\ UNCHANGED <<allowList, sprue, hilt, disturbed>>
        /\ record' = IF Recorded(i) THEN record
                     ELSE [record EXCEPT ![q.region] = @ \cup {q.piri}]
    BY <1>17 DEF RecordPiri, services
  <2>2. /\ run'[i].pc = "issue" /\ run'[i].req = q
        /\ run'[i].endpoint = run[i].endpoint
        /\ run'[i].hiltRegion = run[i].hiltRegion
        /\ run'[i].recorded = run[i].recorded
    BY <1>1, <2>1, GotoFields DEF Steps
  <2>3. PlanHolds(i)'
    BY <2>1, <2>2
  <2>4. i \notin disturbed => q.piri \in record'[q.region]
    BY <1>1, <2>1
  <2>5. i \notin disturbed' => ReadsHold(i)'
    BY <2>1, <2>2, <2>4
  <2>6. i \notin disturbed' => WritesHold(i)'
    BY <2>1, <2>2, <2>4
  <2>7. QED
    BY <1>3, <1>4, <2>1, <2>3, <2>5, <2>6
<1>18. CASE IssueProof(i)
  <2>1. /\ run[i].pc = "issue" /\ Goto(i, "return")
        /\ UNCHANGED <<allowList, sprue, hilt, record, disturbed>>
        /\ proofs' = proofs \cup {q.region}
    BY <1>18 DEF IssueProof, services
  <2>2. /\ run'[i].pc = "return" /\ run'[i].req = q
        /\ run'[i].endpoint = run[i].endpoint
        /\ run'[i].hiltRegion = run[i].hiltRegion
        /\ run'[i].recorded = run[i].recorded
    BY <1>1, <2>1, GotoFields DEF Steps
  <2>3. PlanHolds(i)'
    BY <2>1, <2>2
  <2>4. i \notin disturbed' => ReadsHold(i)'
    BY <2>1, <2>2
  <2>5. i \notin disturbed' => WritesHold(i)'
    BY <2>1, <2>2
  <2>6. QED
    BY <1>3, <1>4, <2>1, <2>3, <2>4, <2>5
<1>19. CASE ReturnProof(i)
  <2>1. run'[i].pc = "idle" /\ UNCHANGED sprue
    BY <1>1, <1>19 DEF ReturnProof, IdleRun, services
  <2>2. QED
    BY <1>0, <2>1
<1>20. CASE OnboardAborts(i)
  <2>1. run'[i].pc = "idle" /\ UNCHANGED sprue
    BY <1>1, <1>20 DEF OnboardAborts, IdleRun, services
  <2>2. QED
    BY <1>0, <2>1
<1> HIDE DEF AdmissionInv
<1>21. QED
  BY <1>5, <1>6, <1>7, <1>8, <1>9, <1>10, <1>11, <1>12, <1>13, <1>14, <1>15,
     <1>16, <1>17, <1>18, <1>19, <1>20 DEF OnboardStep

(* What is taken away elsewhere is taken from a run it concerns only by    *)
(* disturbing it.                                                          *)
LEMMA AdmissionOtherStep ==
  ASSUME TypeInv, AdmissionInv,
         \/ \E r \in Regions : PlanRetire(r) \/ Provision(r) \/ Decommission(r)
         \/ DeleteRegionRows \/ DeleteProof \/ RetireAborts
         \/ \E p \in Piris : Deregister(p)
  PROVE  AdmissionInv'
<1> USE DEF Recorded, Planned, Admitting, Deciding, Disturb, Active
<1>1. /\ hilt \in HiltState /\ record \in [Regions -> SUBSET Piris]
      /\ \A i \in Runs : run[i].pc # "idle" =>
           run[i].req.region \in Regions /\ run[i].req.piri \in Piris
  BY RequestsAssumption DEF RequestsAssumption, TypeInv, TypeOK, RequestSet
<1>2. sprue \in [Piris -> [endpoint : Endpoints \cup {None},
                           delegation : Delegations \cup {None}, weighted : BOOLEAN]]
  BY DEF TypeInv, TypeOK
<1>3. ASSUME UNCHANGED run,
             \A j \in Runs \ disturbed' : ReadsHold(j) /\ WritesHold(j) =>
                                            ReadsHold(j)' /\ WritesHold(j)',
             disturbed \subseteq disturbed', KnownMeansDelegated'
      PROVE  AdmissionInv'
  <2>1. \A j \in Runs : PlanHolds(j)'
    BY <1>3 DEF AdmissionInv, PlanHolds
  <2>2. \A j \in Runs : j \notin disturbed' => ReadsHold(j)' /\ WritesHold(j)'
    BY <1>3 DEF AdmissionInv
  <2>3. QED
    BY <1>3, <2>1, <2>2 DEF AdmissionInv
<1>4. CASE UNCHANGED <<services, record, proofs, run, disturbed>>
  <2>1. UNCHANGED <<allowList, sprue, hilt>>
    BY <1>4 DEF services
  <2>2. KnownMeansDelegated'
    BY <2>1 DEF AdmissionInv, KnownMeansDelegated
  <2>3. \A j \in Runs : ReadsHold(j) /\ WritesHold(j) => ReadsHold(j)' /\ WritesHold(j)'
    BY <1>4, <2>1 DEF ReadsHold, WritesHold
  <2>4. QED
    BY <1>3, <1>4, <2>2, <2>3
<1>5. ASSUME NEW r \in Regions, Decommission(r)
      PROVE  AdmissionInv'
  <2>1. /\ UNCHANGED <<allowList, sprue, hilt, run>>
        /\ record' = [record EXCEPT ![r] = {}] /\ proofs' = proofs \ {r}
        /\ disturbed' = disturbed \cup {j \in Runs : run[j].pc # "idle" /\ run[j].req.region = r}
    BY <1>5 DEF Decommission, services
  <2>2. KnownMeansDelegated'
    BY <2>1 DEF AdmissionInv, KnownMeansDelegated
  <2>3. ASSUME NEW j \in Runs \ disturbed', ReadsHold(j), WritesHold(j)
        PROVE  ReadsHold(j)' /\ WritesHold(j)'
    <3>1. CASE run[j].pc = "idle"
      BY <2>1, <3>1 DEF ReadsHold, WritesHold
    <3>2. CASE run[j].pc # "idle"
      <4>1. run[j].req.region \in Regions /\ run[j].req.region # r
        BY <1>1, <2>1, <3>2
      <4>2. /\ record'[run[j].req.region] = record[run[j].req.region]
            /\ (run[j].req.region \in proofs => run[j].req.region \in proofs')
        BY <1>1, <2>1, <4>1
      <4>3. ReadsHold(j)'
        BY <2>1, <2>3, <4>2 DEF ReadsHold
      <4>4. WritesHold(j)'
        BY <2>1, <2>3, <4>2 DEF WritesHold
      <4>5. QED
        BY <4>3, <4>4
    <3>3. QED
      BY <3>1, <3>2
  <2>4. QED
    BY <1>3, <2>1, <2>2, <2>3
<1>6. CASE DeleteRegionRows
  <2> DEFINE r == retire.region
  <2>1. /\ UNCHANGED <<allowList, sprue, record, proofs, run>>
        /\ hilt' = [d \in Regions |-> IF hilt[d].region = r THEN NoRow ELSE hilt[d]]
        /\ disturbed' = disturbed \cup {j \in Runs : run[j].pc # "idle" /\ run[j].req.region = r}
    BY <1>6 DEF DeleteRegionRows
  <2>2. KnownMeansDelegated'
    BY <2>1 DEF AdmissionInv, KnownMeansDelegated
  <2>3. ASSUME NEW j \in Runs \ disturbed', ReadsHold(j), WritesHold(j)
        PROVE  ReadsHold(j)' /\ WritesHold(j)'
    <3>1. CASE run[j].pc = "idle"
      BY <2>1, <3>1 DEF ReadsHold, WritesHold
    <3>2. CASE run[j].pc # "idle"
      <4>1. run[j].req.region \in Regions /\ run[j].req.region # r
        BY <1>1, <2>1, <3>2
      <4>2. hilt[run[j].req.region].region = run[j].req.region =>
              hilt'[run[j].req.region] = hilt[run[j].req.region]
        BY <1>1, <2>1, <4>1
      <4>3. ReadsHold(j)'
        BY <2>1, <2>3, <4>2 DEF ReadsHold
      <4>4. WritesHold(j)'
        BY <2>1, <2>3, <4>2 DEF WritesHold
      <4>5. QED
        BY <4>3, <4>4
    <3>3. QED
      BY <3>1, <3>2
  <2>4. QED
    BY <1>3, <2>1, <2>2, <2>3
<1>7. CASE DeleteProof
  <2>1. /\ UNCHANGED <<allowList, sprue, hilt, record, run>>
        /\ proofs' = proofs \ {retire.region}
        /\ disturbed' = disturbed \cup
             {j \in Runs : run[j].pc # "idle" /\ run[j].req.region = retire.region}
    BY <1>7 DEF DeleteProof, services
  <2>2. KnownMeansDelegated'
    BY <2>1 DEF AdmissionInv, KnownMeansDelegated
  <2>3. ASSUME NEW j \in Runs \ disturbed', ReadsHold(j), WritesHold(j)
        PROVE  ReadsHold(j)' /\ WritesHold(j)'
    <3>1. run[j].pc # "idle" => (run[j].req.region \in proofs => run[j].req.region \in proofs')
      BY <2>1
    <3>2. ReadsHold(j)'
      BY <2>1, <2>3 DEF ReadsHold
    <3>3. WritesHold(j)'
      BY <2>1, <2>3, <3>1 DEF WritesHold
    <3>4. QED
      BY <3>2, <3>3
  <2>4. QED
    BY <1>3, <2>1, <2>2, <2>3
<1>8. ASSUME NEW p \in Piris, Deregister(p)
      PROVE  AdmissionInv'
  <2>1. /\ UNCHANGED <<hilt, record, proofs, run>>
        /\ sprue' = [sprue EXCEPT ![p] = NoProvider] /\ allowList' = allowList \ {p}
        /\ disturbed' = disturbed \cup {j \in Runs : run[j].pc # "idle" /\ run[j].req.piri = p}
    BY <1>8 DEF Deregister
  <2>2. KnownMeansDelegated'
    BY <1>2, <2>1 DEF NoProvider, AdmissionInv, KnownMeansDelegated
  <2>3. ASSUME NEW j \in Runs \ disturbed', ReadsHold(j), WritesHold(j)
        PROVE  ReadsHold(j)' /\ WritesHold(j)'
    <3>1. CASE run[j].pc = "idle"
      BY <2>1, <3>1 DEF ReadsHold, WritesHold
    <3>2. CASE run[j].pc # "idle"
      <4>1. run[j].req.piri \in Piris /\ run[j].req.piri # p
        BY <1>1, <2>1, <3>2
      <4>2. /\ sprue'[run[j].req.piri] = sprue[run[j].req.piri]
            /\ (run[j].req.piri \in allowList => run[j].req.piri \in allowList')
        BY <1>2, <2>1, <4>1
      <4>3. ReadsHold(j)'
        BY <2>1, <2>3, <4>2 DEF ReadsHold
      <4>4. WritesHold(j)'
        BY <2>1, <2>3, <4>2 DEF WritesHold
      <4>5. QED
        BY <4>3, <4>4
    <3>3. QED
      BY <3>1, <3>2
  <2>4. QED
    BY <1>3, <2>1, <2>2, <2>3
<1>9. QED
  BY <1>4, <1>5, <1>6, <1>7, <1>8 DEF PlanRetire, Provision, RetireAborts

LEMMA AdmissionStep ==
  OneRun /\ TypeInv /\ ServedInv /\ AdmissionInv /\ [Next]_vars => AdmissionInv'
<1> SUFFICES ASSUME OneRun, TypeInv, ServedInv, AdmissionInv, [Next]_vars
             PROVE  AdmissionInv'
  OBVIOUS
<1>1. CASE UNCHANGED vars
  BY <1>1 DEF vars, AdmissionInv, KnownMeansDelegated, PlanHolds, ReadsHold,
              WritesHold, Recorded
<1>2. QED
  BY <1>1, AdmissionOnboardStep, AdmissionOtherStep DEF Next

(* While onboards are run one at a time, a run that returns the proof has  *)
(* admitted the appliance whole, whatever requests failed before it, unless *)
(* something was taken from under it while it ran.                         *)
THEOREM ReturnedAdmitted ==
  ASSUME OneRun PROVE Spec => []ReturnedMeansAdmitted
<1>1. Init => Inv /\ AdmissionInv
  BY TypeInit, ServedInit, AdmissionInit DEF Inv
<1>2. Inv /\ AdmissionInv /\ [Next]_vars => (Inv /\ AdmissionInv)'
  BY TypeStep, ServedStep, AdmissionStep DEF Inv
<1>3. Inv /\ AdmissionInv => ReturnedMeansAdmitted
  <2> SUFFICES ASSUME Inv, AdmissionInv, NEW i \in Runs,
                      run[i].pc = "return", i \notin disturbed
               PROVE  LET q == run[i].req IN
                        /\ q.piri \in allowList
                        /\ sprue[q.piri].endpoint = q.url /\ sprue[q.piri].weighted
                        /\ q.proof # None => sprue[q.piri].delegation = q.proof
                        /\ sprue[q.piri].delegation # None
                        /\ hilt[q.region].region = q.region
                        /\ q.piri \in hilt[q.region].nodes \cap record[q.region]
                        /\ q.region \in proofs
    BY DEF ReturnedMeansAdmitted
  <2>1. WritesHold(i)
    BY DEF AdmissionInv
  <2>2. run[i].req.piri \in Piris /\ run[i].req.url # None
    BY RequestsAssumption, NoneAssumption
       DEF RequestsAssumption, NoneAssumption, Inv, TypeInv, RequestSet
  <2>3. QED
    BY <2>1, <2>2 DEF WritesHold, Admitting, AdmissionInv, KnownMeansDelegated
<1>4. QED
  BY <1>1, <1>2, <1>3, PTL DEF Spec
=============================================================================
