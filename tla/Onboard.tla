------------------------------ MODULE Onboard -------------------------------
(***************************************************************************)
(* Admitting a regional appliance: the onboard phase reads what the        *)
(* delegator, sprue, hilt and central's own record hold, plans, and then   *)
(* writes to each in turn.  The retire phase and the vault phase's         *)
(* retirement take some of it away again.                                  *)
(*                                                                         *)
(* Every remote call is a step.  Nothing serialises invocations, so the    *)
(* number of them that may overlap is a constant.                          *)
(***************************************************************************)
EXTENDS Naturals, FiniteSets

CONSTANTS
  Regions,      \* appliance region labels; each names one derived Ingot DID
  Piris,        \* Piri DIDs
  Endpoints,    \* where a Piri may answer
  Delegations,  \* delegations appliances signed for sprue
  Requests,     \* what appliances may present
  Runs,         \* onboard invocations that may overlap
  HiltAtStart,  \* what hilt may hold before central's record existed
  None          \* nothing there

ASSUME NoneAssumption == None \notin Regions \cup Endpoints \cup Delegations

RequestSet == [region : Regions, piri : Piris, url : Endpoints,
               proof : Delegations \cup {None}]
HiltState == [Regions -> [region : Regions \cup {None},
                          policy : BOOLEAN,
                          nodes : SUBSET Piris]]

ASSUME RequestsAssumption == Requests \subseteq RequestSet
ASSUME HiltAssumption ==
  /\ HiltAtStart \subseteq HiltState
  /\ \A h \in HiltAtStart : \A d \in Regions : ~h[d].policy /\ h[d].nodes = {}

VARIABLES
  allowList,    \* the delegator's allow list
  sprue,        \* sprue's record of each Piri; endpoint None is no record
  hilt,         \* hilt's row for each Ingot DID, named by the DID's own label
  provisioned,  \* regions whose unseal-token accessor is recorded
  record,       \* each region's piri/ parameters
  proofs,       \* regions with a stored hilt-ingot-s3-proof
  run,          \* the onboard invocations
  disturbed,    \* runs something was taken from under (history)
  retire        \* the retire invocation

vars == <<allowList, sprue, hilt, provisioned, record, proofs, run, disturbed,
          retire>>
services == <<allowList, sprue, hilt>>

NoProvider == [endpoint |-> None, delegation |-> None, weighted |-> FALSE]
NoRow == [region |-> None, policy |-> FALSE, nodes |-> {}]

Steps == {"idle", "readAllowList", "readSprue", "readHilt", "readRecord",
          "allowList", "register", "weight", "hilt", "verify", "record",
          "issue", "return"}

(* What an invocation remembers is what Read found: its State.             *)
IdleRun == [pc |-> "idle", req |-> None, allowListed |-> FALSE,
            endpoint |-> None, hiltRegion |-> None, hiltPolicy |-> FALSE,
            recorded |-> {}]
RunState == [pc : Steps, req : Requests \cup {None}, allowListed : BOOLEAN,
             endpoint : Endpoints \cup {None},
             hiltRegion : Regions \cup {None}, hiltPolicy : BOOLEAN,
             recorded : SUBSET Piris]

IdleRetire == [pc |-> "idle", region |-> None]
RetireState == [pc : {"idle", "rows", "proof"}, region : Regions \cup {None}]

Init ==
  /\ allowList = {}
  /\ sprue = [p \in Piris |-> NoProvider]
  /\ hilt \in HiltAtStart
  /\ provisioned = {}
  /\ record = [r \in Regions |-> {}]
  /\ proofs = {}
  /\ run = [i \in Runs |-> IdleRun]
  /\ disturbed = {}
  /\ retire = IdleRetire

-----------------------------------------------------------------------------
(* Read, then PlanFrom.                                                    *)

Goto(i, step) == run' = [run EXCEPT ![i].pc = step]

(* onboardPhase refuses a region no unseal token was ever minted for.      *)
StartOnboard(i, q) ==
  /\ run[i].pc = "idle"
  /\ q.region \in provisioned
  /\ run' = [run EXCEPT ![i] = [IdleRun EXCEPT !.pc = "readAllowList", !.req = q]]
  /\ disturbed' = disturbed \ {i}
  /\ UNCHANGED <<services, provisioned, record, proofs, retire>>

ReadAllowList(i) ==
  /\ run[i].pc = "readAllowList"
  /\ run' = [run EXCEPT ![i] = [@ EXCEPT !.pc = "readSprue",
                                         !.allowListed = run[i].req.piri \in allowList]]
  /\ UNCHANGED <<services, provisioned, record, proofs, disturbed, retire>>

ReadSprue(i) ==
  /\ run[i].pc = "readSprue"
  /\ run' = [run EXCEPT ![i] = [@ EXCEPT !.pc = "readHilt",
                                         !.endpoint = sprue[run[i].req.piri].endpoint]]
  /\ UNCHANGED <<services, provisioned, record, proofs, disturbed, retire>>

ReadHilt(i) ==
  /\ run[i].pc = "readHilt"
  /\ LET row == hilt[run[i].req.region] IN
       run' = [run EXCEPT ![i] = [@ EXCEPT !.pc = "readRecord",
                                           !.hiltRegion = row.region,
                                           !.hiltPolicy = row.policy]]
  /\ UNCHANGED <<services, provisioned, record, proofs, disturbed, retire>>

(* The plan without the refusal to leave a provider at another endpoint.   *)
BlockersIgnoringEndpoint(state) ==
  \/ state.endpoint = None /\ state.req.proof = None
  \/ state.hiltRegion \notin {None, state.req.region}

(* PlanFrom's three blockers: a Piri sprue does not know and no proof to   *)
(* register it with, a Piri registered elsewhere, an Ingot DID held for    *)
(* another region.                                                         *)
Blockers(state) ==
  \/ state.endpoint = None /\ state.req.proof = None
  \/ state.endpoint \notin {None, state.req.url}
  \/ state.hiltRegion \notin {None, state.req.region}

(* A confirmed run with blockers writes nothing.                           *)
ReadRecord(i) ==
  /\ run[i].pc = "readRecord"
  /\ LET state == [run[i] EXCEPT !.recorded = record[run[i].req.region]] IN
       run' = [run EXCEPT ![i] = IF Blockers(state) THEN IdleRun
                                 ELSE [state EXCEPT !.pc = "allowList"]]
  /\ UNCHANGED <<services, provisioned, record, proofs, disturbed, retire>>

-----------------------------------------------------------------------------
(* Apply: what each step writes was decided by the plan.                   *)

AddToAllowList(i) ==
  /\ run[i].pc = "allowList"
  /\ allowList' = IF run[i].allowListed THEN allowList
                  ELSE allowList \cup {run[i].req.piri}
  /\ Goto(i, "register")
  /\ UNCHANGED <<sprue, hilt, provisioned, record, proofs, disturbed, retire>>

(* Register a Piri sprue was not seen to hold, or replace the delegation   *)
(* of one it was; sprue refuses the latter for a provider it does not      *)
(* hold, and a registration moves one it does.                             *)
RegisterWithSprue(i) ==
  /\ run[i].pc = "register"
  /\ LET q == run[i].req IN
       \/ /\ run[i].endpoint = None
          /\ sprue' = [sprue EXCEPT ![q.piri] = [@ EXCEPT !.endpoint = q.url,
                                                          !.delegation = q.proof]]
       \/ /\ run[i].endpoint # None /\ q.proof # None
          /\ sprue[q.piri].endpoint # None
          /\ sprue' = [sprue EXCEPT ![q.piri].delegation = q.proof]
       \/ /\ run[i].endpoint # None /\ q.proof = None
          /\ UNCHANGED sprue
  /\ Goto(i, "weight")
  /\ UNCHANGED <<allowList, hilt, provisioned, record, proofs, disturbed, retire>>

SetWeight(i) ==
  /\ run[i].pc = "weight"
  /\ sprue[run[i].req.piri].endpoint # None
  /\ sprue' = [sprue EXCEPT ![run[i].req.piri].weighted = TRUE]
  /\ Goto(i, "hilt")
  /\ UNCHANGED <<allowList, hilt, provisioned, record, proofs, disturbed, retire>>

(* Only the Piri onboarding now.                                           *)
NodeSetAlone(state) == {state.req.piri}

(* The region's Ingot sent in the place of its Piri.                       *)
NodeSetOfTheIngot(state) == state.recorded \cup {state.req.region}

(* Every Piri recorded for the region plus the one onboarding now.         *)
NodeSet(state) == state.recorded \cup {state.req.piri}

Recorded(i) == run[i].req.piri \in run[i].recorded

(* hilt keeps one row per DID and one per region.  A DID it already holds  *)
(* is "already registered", which the client tolerates and the next step   *)
(* checks; a region another DID holds is an error.                         *)
AddProvider(i) ==
  /\ run[i].pc = "hilt" /\ run[i].hiltRegion = None
  /\ LET r == run[i].req.region IN
       IF hilt[r].region # None
       THEN UNCHANGED hilt
       ELSE /\ \A d \in Regions : hilt[d].region # r
            /\ hilt' = [hilt EXCEPT ![r] = [region |-> r, policy |-> TRUE,
                                            nodes |-> NodeSet(run[i])]]
  /\ Goto(i, "verify")
  /\ UNCHANGED <<allowList, sprue, provisioned, record, proofs, disturbed, retire>>

VerifyProvider(i) ==
  /\ run[i].pc = "verify"
  /\ hilt[run[i].req.region].region = run[i].req.region
  /\ Goto(i, "record")
  /\ UNCHANGED <<services, provisioned, record, proofs, disturbed, retire>>

(* Setting the nodes of a row hilt no longer holds fails.                  *)
SetProviderNodes(i) ==
  /\ run[i].pc = "hilt" /\ run[i].hiltRegion # None
  /\ ~run[i].hiltPolicy \/ ~Recorded(i)
  /\ LET r == run[i].req.region IN
       /\ hilt[r].region # None
       /\ hilt' = [hilt EXCEPT ![r] = [@ EXCEPT !.policy = TRUE,
                                                !.nodes = NodeSet(run[i])]]
  /\ Goto(i, "record")
  /\ UNCHANGED <<allowList, sprue, provisioned, record, proofs, disturbed, retire>>

KeepProviderNodes(i) ==
  /\ run[i].pc = "hilt" /\ run[i].hiltRegion # None
  /\ run[i].hiltPolicy /\ Recorded(i)
  /\ Goto(i, "record")
  /\ UNCHANGED <<services, provisioned, record, proofs, disturbed, retire>>

(* The record is written after hilt, and only if it was seen missing.      *)
RecordPiri(i) ==
  /\ run[i].pc = "record"
  /\ record' = IF Recorded(i) THEN record
               ELSE [record EXCEPT ![run[i].req.region] = @ \cup {run[i].req.piri}]
  /\ Goto(i, "issue")
  /\ UNCHANGED <<services, provisioned, proofs, disturbed, retire>>

IssueProof(i) ==
  /\ run[i].pc = "issue"
  /\ proofs' = proofs \cup {run[i].req.region}
  /\ Goto(i, "return")
  /\ UNCHANGED <<services, provisioned, record, disturbed, retire>>

ReturnProof(i) ==
  /\ run[i].pc = "return"
  /\ run' = [run EXCEPT ![i] = IdleRun]
  /\ UNCHANGED <<services, provisioned, record, proofs, disturbed, retire>>

(* A call fails, or the Lambda dies: the run ends where it is, its last    *)
(* write made or not, and the operator may run it again.                   *)
OnboardAborts(i) ==
  /\ run[i].pc # "idle"
  /\ run' = [run EXCEPT ![i] = IdleRun]
  /\ UNCHANGED <<services, provisioned, record, proofs, disturbed, retire>>

OnboardStep(i) ==
  \/ \E q \in Requests : StartOnboard(i, q)
  \/ ReadAllowList(i) \/ ReadSprue(i) \/ ReadHilt(i) \/ ReadRecord(i)
  \/ AddToAllowList(i) \/ RegisterWithSprue(i) \/ SetWeight(i)
  \/ AddProvider(i) \/ VerifyProvider(i) \/ SetProviderNodes(i)
  \/ KeepProviderNodes(i) \/ RecordPiri(i) \/ IssueProof(i) \/ ReturnProof(i)
  \/ OnboardAborts(i)

-----------------------------------------------------------------------------
(* The retire phase, and what is done to a region from elsewhere.          *)

Active(i) == run[i].pc # "idle"
Disturb(hit(_)) == disturbed' = disturbed \cup {i \in Runs : Active(i) /\ hit(run[i].req)}

HiltHolds(r) == \E d \in Regions : hilt[d].region = r

(* planRetire: a region with neither a row nor a stored proof is empty.    *)
PlanRetire(r) ==
  /\ retire.pc = "idle"
  /\ HiltHolds(r) \/ r \in proofs
  /\ retire' = [pc |-> IF HiltHolds(r) THEN "rows" ELSE "proof", region |-> r]
  /\ UNCHANGED <<services, provisioned, record, proofs, run, disturbed>>

(* deleteRegionRows is one transaction; a row that went away since the     *)
(* plan is an error.                                                       *)
DeleteRegionRows ==
  /\ retire.pc = "rows" /\ HiltHolds(retire.region)
  /\ hilt' = [d \in Regions |->
                IF hilt[d].region = retire.region THEN NoRow ELSE hilt[d]]
  /\ retire' = [retire EXCEPT !.pc = "proof"]
  /\ Disturb(LAMBDA q : q.region = retire.region)
  /\ UNCHANGED <<allowList, sprue, provisioned, record, proofs, run>>

DeleteProof ==
  /\ retire.pc = "proof"
  /\ proofs' = proofs \ {retire.region}
  /\ retire' = IdleRetire
  /\ Disturb(LAMBDA q : q.region = retire.region)
  /\ UNCHANGED <<services, provisioned, record, run>>

RetireAborts ==
  /\ retire.pc # "idle"
  /\ retire' = IdleRetire
  /\ UNCHANGED <<services, provisioned, record, proofs, run, disturbed>>

(* The appliance-token phase records the region's first accessor.          *)
Provision(r) ==
  /\ provisioned' = provisioned \cup {r}
  /\ UNCHANGED <<services, record, proofs, run, disturbed, retire>>

(* The vault phase's retirement deletes the region's whole prefix.         *)
Decommission(r) ==
  /\ r \in provisioned
  /\ provisioned' = provisioned \ {r}
  /\ record' = [record EXCEPT ![r] = {}]
  /\ proofs' = proofs \ {r}
  /\ Disturb(LAMBDA q : q.region = r)
  /\ UNCHANGED <<services, run, retire>>

(* A provider is taken out of sprue and off the allow list by hand.        *)
Deregister(p) ==
  /\ sprue' = [sprue EXCEPT ![p] = NoProvider]
  /\ allowList' = allowList \ {p}
  /\ Disturb(LAMBDA q : q.piri = p)
  /\ UNCHANGED <<hilt, provisioned, record, proofs, run, retire>>

Next ==
  \/ \E i \in Runs : OnboardStep(i)
  \/ \E r \in Regions : PlanRetire(r) \/ Provision(r) \/ Decommission(r)
  \/ DeleteRegionRows \/ DeleteProof \/ RetireAborts
  \/ \E p \in Piris : Deregister(p)

Spec == Init /\ [][Next]_vars

-----------------------------------------------------------------------------
TypeOK ==
  /\ allowList \subseteq Piris
  /\ sprue \in [Piris -> [endpoint : Endpoints \cup {None},
                          delegation : Delegations \cup {None},
                          weighted : BOOLEAN]]
  /\ hilt \in HiltState
  /\ provisioned \subseteq Regions
  /\ record \in [Regions -> SUBSET Piris]
  /\ proofs \subseteq Regions
  /\ run \in [Runs -> RunState]
  /\ disturbed \subseteq Runs
  /\ retire \in RetireState

(* A recorded Piri is one hilt has been told about: while hilt keeps a     *)
(* node set for a region, every Piri central records there is in it.  hilt *)
(* replaces the set on every write, so a set computed from less than the   *)
(* record takes a node out of routing for good: a later run of that node   *)
(* finds it recorded and writes nothing.                                   *)
RecordedPirisAreServed ==
  \A r \in Regions : hilt[r].policy => record[r] \subseteq hilt[r].nodes

(* A run that returns the proof has admitted the appliance whole, unless   *)
(* something was taken from under it while it ran: allow-listed, in sprue  *)
(* where it answers, with its weights and the delegation it sent, among    *)
(* the nodes hilt keeps for this very region, and recorded.                *)
ReturnedMeansAdmitted ==
  \A i \in Runs :
    run[i].pc = "return" /\ i \notin disturbed =>
      LET q == run[i].req IN
        /\ q.piri \in allowList
        /\ sprue[q.piri].endpoint = q.url /\ sprue[q.piri].weighted
        /\ q.proof # None => sprue[q.piri].delegation = q.proof
        /\ sprue[q.piri].delegation # None
        /\ hilt[q.region].region = q.region
        /\ q.piri \in hilt[q.region].nodes \cap record[q.region]
        /\ q.region \in proofs

=============================================================================
