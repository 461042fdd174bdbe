--------------------------- MODULE PromoteProofs ----------------------------
(* Proofs about Promote, for any pins, any length of main and any number   *)
(* of acts by people.                                                      *)
EXTENDS Promote, SequenceTheorems, TLAPS

-----------------------------------------------------------------------------
(* The types, part by part, and that nothing names a commit yet to land.   *)

Commits == [source : Pins, target : Pins]
Deploys == [commit : 0..MaxMain, stage : {"idle", "smoke", "promote"}]
Pulls == [state : {"none", "open", "closed"}, armed : Heads \cup {None}]

MainOK == main \in Seq(Commits) /\ Tip \in 1..MaxMain

DeployOK ==
  /\ deploy \in Deploys /\ queued \in 0..MaxMain
  /\ deploy.commit <= Tip /\ queued <= Tip
  /\ deploy = NoDeploy <=> deploy.commit = 0
  /\ deploy = NoDeploy => queued = 0

RunOK ==
  /\ run \in RunState /\ run.base <= Tip /\ (run.pc # "idle" => run.base > 0)
  /\ waiting \in Request \cup {None}
  /\ waiting # None => waiting.base <= Tip /\ run.pc # "idle"

RepoOK ==
  /\ branch \in Heads \cup {None} /\ pull \in Pulls
  /\ branch # None => branch.base <= Tip
  /\ pull.armed # None => IsOpen
  /\ IsOpen => branch # None

HistoryOK ==
  /\ passed \in BOOLEAN /\ excused \in BOOLEAN /\ slipped \in BOOLEAN
  /\ hands \in 0..MaxHands

TypeInv == MainOK /\ DeployOK /\ RunOK /\ RepoOK /\ HistoryOK

LEMMA TypeCorrect == TypeInv => TypeOK
  BY DEF TypeInv, MainOK, DeployOK, RunOK, RepoOK, HistoryOK, TypeOK, Commits,
         Deploys, Pulls

LEMMA TypeInit == Init => TypeInv
<1> SUFFICES ASSUME Init PROVE TypeInv
  OBVIOUS
<1> USE BoundsAssumption DEF BoundsAssumption, Init
<1>1. PICK p \in Pins, q \in Pins : main = <<[source |-> p, target |-> q]>>
  OBVIOUS
<1>2. [source |-> p, target |-> q] \in Commits
  BY DEF Commits
<1>3. main \in Seq(Commits) /\ Tip = 1
  BY <1>1, <1>2 DEF Tip
<1>4. MainOK
  BY <1>3 DEF MainOK
<1>5. DeployOK
  BY <1>3 DEF DeployOK, Deploys, Smoking, NoDeploy
<1>6. RunOK
  BY <1>3 DEF RunOK, RunState, IdleRun
<1>7. RepoOK
  BY DEF RepoOK, Pulls, NoPull, IsOpen
<1>8. HistoryOK
  <2>1. passed = FALSE /\ excused = FALSE /\ slipped = FALSE /\ hands = 0
    BY DEF Init
  <2>2. hands \in 0..MaxHands
    BY <2>1
  <2>3. passed \in BOOLEAN /\ excused \in BOOLEAN /\ slipped \in BOOLEAN
    BY <2>1, Zenon
  <2>4. QED
    BY <2>2, <2>3, Zenon DEF HistoryOK
<1>9. QED
  BY <1>4, <1>5, <1>6, <1>7, <1>8 DEF TypeInv

(* A commit that lands is the new tip, and the others stay what they are.  *)
LEMMA Lands ==
  ASSUME MainOK, NEW c \in Commits, ToMain(c)
  PROVE  /\ MainOK' /\ Tip' = Tip + 1
         /\ \A k \in 1..Tip : main'[k] = main[k]
         /\ main'[Tip'] = c
<1> USE BoundsAssumption DEF BoundsAssumption, Tip, MainOK
<1>1. main' = Append(main, c) /\ Tip < MaxMain
  BY DEF ToMain
<1>2. main \in Seq(Commits)
  OBVIOUS
<1>3. /\ main' \in Seq(Commits) /\ Len(main') = Len(main) + 1
      /\ \A k \in 1..Len(main) : main'[k] = main[k]
      /\ main'[Len(main) + 1] = c
  BY <1>1, <1>2, AppendProperties
<1>4. QED
  BY <1>1, <1>3

LEMMA LandsACommit ==
  ASSUME TypeInv, Land
  PROVE  \E c \in Commits : ToMain(c) /\ c.source \in Pins
<1>1. PICK p \in Pins, stage \in {"source", "target"} :
        ToMain([main[Tip] EXCEPT ![stage] = p])
  BY DEF Land
<1>2. main[Tip] \in Commits
  BY DEF TypeInv, MainOK, Tip
<1>3. [main[Tip] EXCEPT ![stage] = p] \in Commits
  <2>1. CASE stage = "source"
    BY <1>2, <2>1 DEF Commits
  <2>2. CASE stage = "target"
    BY <1>2, <2>2 DEF Commits
  <2>3. QED
    BY <2>1, <2>2
<1> DEFINE c == [main[Tip] EXCEPT ![stage] = p]
<1>4. ToMain(c) /\ c \in Commits
  BY <1>1, <1>3
<1> HIDE DEF c
<1>5. QED
  BY <1>4 DEF Commits

LEMMA MergesACommit ==
  ASSUME TypeInv, Merge
  PROVE  \E c \in Commits : ToMain(c) /\ c.target = branch.pins
<1>1. main[Tip] \in Commits /\ branch \in Heads
  BY DEF TypeInv, MainOK, RepoOK, Tip, Merge, CanMerge
<1> DEFINE c == [main[Tip] EXCEPT !.target = branch.pins]
<1>2. c \in Commits /\ c.target = branch.pins
  BY <1>1 DEF Commits, Heads
<1>3. ToMain(c)
  BY DEF Merge
<1> HIDE DEF c
<1>4. QED
  BY <1>2, <1>3

LEMMA MainStays ==
  ASSUME MainOK, UNCHANGED main
  PROVE  MainOK' /\ Tip' = Tip /\ Tip \in 1..MaxMain
  BY DEF MainOK, Tip

(* What asking for a deploy does to the queue.                             *)
LEMMA Enqueued ==
  ASSUME DeployOK, MainOK', NEW c \in 1..Tip', Enqueue(c), Tip \in 0..Tip'
  PROVE  /\ DeployOK' /\ deploy' # NoDeploy
         /\ \/ deploy = NoDeploy /\ deploy' = Smoking(c) /\ queued' = 0
            \/ deploy # NoDeploy /\ deploy' = deploy /\ queued' = c
<1> USE BoundsAssumption
        DEF BoundsAssumption, DeployOK, Enqueue, Smoking, NoDeploy, Deploys, MainOK
<1>1. CASE deploy = NoDeploy
  BY <1>1
<1>2. CASE deploy # NoDeploy
  BY <1>2
<1>3. QED
  BY <1>1, <1>2

LEMMA TypeLanding ==
  ASSUME TypeInv, NEW c \in Commits, ToMain(c),
         UNCHANGED <<run, waiting, excused, slipped, hands>>,
         \/ UNCHANGED <<pull, branch>>
         \/ pull' = NoPull /\ branch' \in {branch, None}
  PROVE  TypeInv'
<1> USE BoundsAssumption, NoneAssumption DEF BoundsAssumption, NoneAssumption
<1>1. MainOK' /\ Tip' = Tip + 1 /\ Tip \in 1..MaxMain
  BY Lands DEF TypeInv, MainOK
<1>2. DeployOK'
  BY <1>1, Enqueued DEF TypeInv, ToMain, MainOK
<1>3. RunOK'
  BY <1>1 DEF TypeInv, RunOK, Request, RunState
<1>4. RepoOK'
  BY <1>1 DEF TypeInv, RepoOK, NoPull, Pulls, IsOpen, Heads
<1>5. HistoryOK'
  BY DEF TypeInv, HistoryOK, ToMain
<1>6. QED
  BY <1>1, <1>2, <1>3, <1>4, <1>5 DEF TypeInv

LEMMA TypeMainStep == TypeInv /\ (Land \/ Merge) => TypeInv'
<1>1. ASSUME TypeInv, Land PROVE TypeInv'
  <2>1. UNCHANGED <<run, waiting, excused, slipped, hands, pull, branch>>
    BY <1>1 DEF Land, runs, repo
  <2>2. QED
    BY <1>1, <2>1, LandsACommit, TypeLanding
<1>2. ASSUME TypeInv, Merge PROVE TypeInv'
  <2>1. /\ UNCHANGED <<run, waiting, excused, slipped, hands>>
        /\ pull' = NoPull /\ branch' \in {branch, None}
    BY <1>2 DEF Merge, runs
  <2>2. QED
    BY <1>2, <2>1, MergesACommit, TypeLanding
<1>3. QED
  BY <1>1, <1>2

(* A run that starts.                                                      *)
LEMMA StartedIsARun ==
  ASSUME NEW r \in Request
  PROVE  /\ Started(r) \in RunState /\ Started(r).base = r.base /\ r.base > 0
         /\ Started(r).pc = "fetch" /\ ~Started(r).pushed
         /\ Started(r).manual = r.manual
<1> USE BoundsAssumption DEF BoundsAssumption
<1>1. r.base \in 1..MaxMain /\ r.manual \in BOOLEAN
  BY DEF Request
<1>2. r.base \in 0..MaxMain /\ r.base > 0
  BY <1>1
<1>3. IdleRun \in RunState
  BY DEF IdleRun, RunState
<1>4. PICK b \in 0..MaxMain, m \in BOOLEAN, s \in RunState :
        b = r.base /\ m = r.manual /\ s = IdleRun
  BY <1>1, <1>2, <1>3, Zenon
<1>5. Started(r) = [s EXCEPT !.pc = "fetch", !.base = b, !.manual = m]
  BY <1>4, Zenon DEF Started
<1>6. /\ Started(r) \in RunState
      /\ Started(r).base = b /\ Started(r).pc = "fetch" /\ Started(r).manual = m
  BY <1>5 DEF RunState
<1>7. Started(r).pushed = FALSE
  BY DEF Started, IdleRun
<1>8. QED
  BY <1>2, <1>4, <1>6, <1>7, Zenon

(* What asking for a promote run does to the queue of those.               *)
LEMMA Asked ==
  ASSUME MainOK, RunOK, UNCHANGED main, NEW r \in Request, r.base <= Tip, Ask(r)
  PROVE  /\ RunOK'
         /\ \/ run.pc = "idle" /\ run' = Started(r) /\ waiting' = None
            \/ run.pc # "idle" /\ run' = run /\ waiting' = r
<1> USE BoundsAssumption, NoneAssumption DEF BoundsAssumption, NoneAssumption
<1>1. Tip' = Tip /\ Tip \in 1..MaxMain
  BY MainStays
<1>2. CASE run.pc = "idle"
  BY <1>1, <1>2, StartedIsARun DEF RunOK, Ask
<1>3. CASE run.pc # "idle"
  BY <1>1, <1>3 DEF RunOK, Ask, Request
<1>4. QED
  BY <1>2, <1>3

LEMMA TypeDeployStep ==
  TypeInv /\ (RerunDeploy \/ Dispatch \/ DeployStep) => TypeInv'
<1> SUFFICES ASSUME TypeInv, RerunDeploy \/ Dispatch \/ DeployStep
             PROVE  TypeInv'
  OBVIOUS
<1> USE BoundsAssumption DEF BoundsAssumption, ByHand, runs, repo, deploys
<1>1. UNCHANGED <<main, pull, branch, slipped>>
  BY DEF RerunDeploy, Dispatch, DeployStep, SmokePasses, SmokeFails, DeployEnds
<1>2. MainOK' /\ Tip' = Tip /\ Tip \in 1..MaxMain
  BY <1>1, MainStays DEF TypeInv
<1>3. RepoOK'
  BY <1>1, <1>2 DEF TypeInv, RepoOK, IsOpen
<1>4. HistoryOK'
  <2>1. hands' \in 0..MaxHands
    BY DEF TypeInv, HistoryOK, RerunDeploy, Dispatch, DeployStep, SmokePasses,
           SmokeFails, DeployEnds
  <2>2. passed' \in BOOLEAN
    BY Zenon DEF TypeInv, HistoryOK, RerunDeploy, Dispatch, DeployStep, SmokePasses,
                 SmokeFails, DeployEnds
  <2>3. excused' \in BOOLEAN
    BY Zenon DEF TypeInv, HistoryOK, RerunDeploy, Dispatch, DeployStep, SmokePasses,
                 SmokeFails, DeployEnds
  <2>4. QED
    BY <1>1, <2>1, <2>2, <2>3, Zenon DEF TypeInv, HistoryOK
<1>5. DeployOK'
  <2>1. CASE RerunDeploy
    BY <1>2, <2>1, Enqueued DEF TypeInv, RerunDeploy
  <2>2. CASE Dispatch
    BY <1>2, <2>2 DEF TypeInv, Dispatch, DeployOK
  <2>3. CASE DeployStep
    BY <1>2, <2>3 DEF TypeInv, DeployStep, SmokePasses, SmokeFails, DeployEnds,
                      DeployOK, Deploys, NoDeploy, Smoking
  <2>4. QED
    BY <2>1, <2>2, <2>3
<1>6. RunOK'
  <2>1. CASE RerunDeploy \/ SmokeFails \/ DeployEnds
    BY <1>2, <2>1 DEF TypeInv, RerunDeploy, SmokeFails, DeployEnds, RunOK
  <2>2. CASE Dispatch
    <3>1. [base |-> Tip, manual |-> TRUE] \in Request
      BY <1>2 DEF Request
    <3>2. QED
      BY <1>1, <1>2, <2>2, <3>1, Asked DEF TypeInv, Dispatch
  <2>3. CASE SmokePasses
    <3>1. /\ [base |-> BaseOfRun, manual |-> FALSE] \in Request
          /\ BaseOfRun <= Tip
      BY <1>2, <2>3 DEF TypeInv, DeployOK, Deploys, Request, SmokePasses, BaseOfRun,
                        NoDeploy
    <3>2. QED
      BY <1>1, <1>2, <2>3, <3>1, Asked DEF TypeInv, SmokePasses
  <2>4. QED
    BY <2>1, <2>2, <2>3 DEF DeployStep
<1>7. QED
  BY <1>2, <1>3, <1>4, <1>5, <1>6 DEF TypeInv

(* A run that ends hands over to the one that waits.                       *)
LEMMA Ended ==
  ASSUME MainOK, RunOK, UNCHANGED main, RunEnds
  PROVE  /\ RunOK' /\ waiting' = None
         /\ \/ waiting = None /\ run' = IdleRun
            \/ waiting # None /\ run' = Started(waiting)
<1> USE BoundsAssumption, NoneAssumption DEF BoundsAssumption, NoneAssumption
<1>1. Tip' = Tip /\ Tip \in 1..MaxMain
  BY MainStays
<1>2. CASE waiting = None
  BY <1>1, <1>2 DEF RunOK, RunEnds, IdleRun, RunState
<1>3. CASE waiting # None
  BY <1>1, <1>3, StartedIsARun DEF RunOK, RunEnds
<1>4. QED
  BY <1>2, <1>3

LEMMA BuiltIsAHead ==
  ASSUME TypeInv, run.pc # "idle"
  PROVE  Built \in Heads /\ Built.base = run.base
<1>1. run.base \in 1..Tip /\ run.base \in 1..MaxMain /\ run.manual \in BOOLEAN
  BY DEF TypeInv, MainOK, RunOK, RunState
<1>2. main[run.base] \in Commits
  BY <1>1 DEF TypeInv, MainOK, Tip
<1>3. QED
  BY <1>1, <1>2 DEF Built, Wanted, Heads, Commits

LEMMA TypeRunStep == TypeInv /\ RunStep => TypeInv'
<1> SUFFICES ASSUME TypeInv, RunStep PROVE TypeInv'
  OBVIOUS
<1> USE BoundsAssumption, NoneAssumption
        DEF BoundsAssumption, NoneAssumption, restUnchanged, deploys, repo
<1>1. UNCHANGED <<main, deploy, queued, passed, hands>>
  BY DEF RunStep, Fetch, ListPulls, DeleteBranch, Push, PushRefused, RefreshPull,
         OpenPull, OpenRefused, Disarm, RunDies, Fails
<1>2. MainOK' /\ Tip' = Tip /\ Tip \in 1..MaxMain
  BY <1>1, MainStays DEF TypeInv
<1>3. DeployOK'
  BY <1>1, <1>2 DEF TypeInv, DeployOK
<1>4. HistoryOK'
  BY <1>1, <1>2 DEF TypeInv, HistoryOK, RunStep, Fetch, ListPulls, DeleteBranch, Push,
         PushRefused, RefreshPull, OpenPull, OpenRefused, Disarm, RunDies, Fails
<1>5. RunEnds => RunOK'
  BY <1>1, Ended DEF TypeInv
<1>6. RunOK'
  <2>1. CASE RunEnds
    BY <1>5, <2>1
  <2>2. CASE Fetch
    <3>1. /\ run' = [run EXCEPT !.pc = "list", !.old = branch]
          /\ waiting' = waiting /\ run.pc = "fetch"
      BY <2>2 DEF Fetch
    <3>2. run \in RunState /\ branch \in Heads \cup {None}
      BY DEF TypeInv, RunOK, RepoOK
    <3>3. run' \in RunState /\ run'.base = run.base /\ run'.pc # "idle"
      BY <3>1, <3>2 DEF RunState
    <3>4. QED
      BY <1>2, <3>1, <3>3 DEF TypeInv, RunOK
  <2>3. ASSUME ListPulls, ~RunEnds PROVE RunOK'
    <3>1. PICK pc \in {"delete", "pull", "push"} : Saw(pc)
      BY <2>3 DEF ListPulls
    <3>2. run \in RunState /\ run.pc # "idle"
      BY <2>3 DEF ListPulls, TypeInv, RunOK
    <3>3. run' \in RunState /\ run'.base = run.base /\ run'.pc # "idle"
      BY <3>1, <3>2 DEF Saw, RunState, IsOpen
    <3>4. waiting' = waiting
      BY <3>1 DEF Saw
    <3>5. QED
      BY <1>2, <3>2, <3>3, <3>4 DEF TypeInv, RunOK
  <2>4. CASE Push
    BY <1>2, <2>4 DEF Push, TypeInv, RunOK, RunState
  <2>5. CASE RefreshPull
    BY <1>2, <2>5 DEF RefreshPull, TypeInv, RunOK, RunState
  <2>6. CASE OpenPull
    BY <1>2, <2>6 DEF OpenPull, TypeInv, RunOK, RunState
  <2>7. QED
    BY <2>1, <2>2, <2>3, <2>4, <2>5, <2>6
       DEF RunStep, DeleteBranch, PushRefused, OpenRefused, Disarm, RunDies, Fails
<1>7. RepoOK'
  <2>1. CASE UNCHANGED <<branch, pull>>
    BY <1>2, <2>1 DEF TypeInv, RepoOK, IsOpen
  <2>2. CASE DeleteBranch
    BY <1>2, <2>2 DEF DeleteBranch, TypeInv, RepoOK, IsOpen, NoPull, Pulls
  <2>3. CASE Push
    <3>1. Built \in Heads /\ Built.base <= Tip /\ Built # None
      BY <2>3, BuiltIsAHead DEF Push, TypeInv, RunOK
    <3>2. QED
      BY <1>2, <2>3, <3>1 DEF Push, TypeInv, RepoOK, IsOpen, NoPull, Pulls
  <2>4. CASE OpenPull
    BY <1>2, <2>4 DEF OpenPull, TypeInv, RepoOK, IsOpen, NewPull, Pulls
  <2>5. CASE Disarm
    BY <1>2, <2>5 DEF Disarm, TypeInv, RepoOK, IsOpen, Pulls
  <2>6. QED
    BY <2>1, <2>2, <2>3, <2>4, <2>5
       DEF RunStep, Fetch, ListPulls, PushRefused, RefreshPull, OpenRefused, RunDies,
           Fails
<1>8. QED
  BY <1>2, <1>3, <1>4, <1>6, <1>7 DEF TypeInv

LEMMA TypePeople ==
  TypeInv /\ (PushByHand \/ ClosePull \/ DeleteByHand \/ ReopenPull \/ Arm) => TypeInv'
<1> SUFFICES ASSUME TypeInv,
                    PushByHand \/ ClosePull \/ DeleteByHand \/ ReopenPull \/ Arm
             PROVE  TypeInv'
  OBVIOUS
<1> USE BoundsAssumption, NoneAssumption
        DEF BoundsAssumption, NoneAssumption, others, ByHand, runs, deploys
<1>1. UNCHANGED <<main, deploy, queued, run, waiting, passed, slipped>>
  BY DEF PushByHand, ClosePull, DeleteByHand, ReopenPull, Arm
<1>2. MainOK' /\ Tip' = Tip /\ Tip \in 1..MaxMain
  BY <1>1, MainStays DEF TypeInv
<1>3. DeployOK' /\ RunOK'
  BY <1>1, <1>2 DEF TypeInv, DeployOK, RunOK
<1>4. HistoryOK'
  <2>1. ByHand /\ hands \in 0..MaxHands
    BY DEF TypeInv, HistoryOK, PushByHand, ClosePull, DeleteByHand, ReopenPull, Arm
  <2>2. hands' \in 0..MaxHands
    BY <2>1
  <2>3. excused' \in BOOLEAN
    BY Zenon DEF TypeInv, HistoryOK, PushByHand, ClosePull, DeleteByHand, ReopenPull, Arm
  <2>4. QED
    BY <1>1, <2>2, <2>3, Zenon DEF TypeInv, HistoryOK
<1>5. RepoOK'
  <2>1. CASE PushByHand
    <3>1. PICK p \in Pins :
            \/ branch' = [base |-> Tip, pins |-> p, by |-> "person", manual |-> FALSE]
            \/ /\ branch # None
               /\ \E by \in {"person", "amended"} :
                    branch' = [branch EXCEPT !.pins = p, !.by = by, !.manual = FALSE]
      BY <2>1 DEF PushByHand
    <3>2. CASE branch' = [base |-> Tip, pins |-> p, by |-> "person", manual |-> FALSE]
      <4>1. branch' \in Heads /\ branch'.base <= Tip
        BY <1>2, <3>2 DEF Heads
      <4>2. QED
        BY <1>2, <2>1, <4>1 DEF PushByHand, TypeInv, RepoOK, IsOpen
    <3>3. ASSUME branch # None, NEW by \in {"person", "amended"},
                 branch' = [branch EXCEPT !.pins = p, !.by = by, !.manual = FALSE]
          PROVE  RepoOK'
      <4>1. branch' \in Heads /\ branch'.base <= Tip
        BY <3>3 DEF TypeInv, RepoOK, Heads
      <4>2. QED
        BY <1>2, <2>1, <4>1 DEF PushByHand, TypeInv, RepoOK, IsOpen
    <3>4. QED
      BY <3>1, <3>2, <3>3
  <2>2. CASE ClosePull
    BY <1>2, <2>2 DEF ClosePull, TypeInv, RepoOK, IsOpen, Pulls
  <2>3. CASE DeleteByHand \/ ReopenPull
    BY <1>2, <2>3 DEF DeleteByHand, ReopenPull, TypeInv, RepoOK, IsOpen, Pulls,
                      NoPull, NewPull
  <2>4. CASE Arm
    BY <1>2, <2>4 DEF Arm, TypeInv, RepoOK, IsOpen, Pulls
  <2>5. QED
    BY <2>1, <2>2, <2>3, <2>4
<1>6. QED
  BY <1>2, <1>3, <1>4, <1>5 DEF TypeInv

LEMMA TypeStep == TypeInv /\ [Next]_vars => TypeInv'
<1> SUFFICES ASSUME TypeInv, [Next]_vars PROVE TypeInv'
  OBVIOUS
<1>1. CASE UNCHANGED vars
  BY <1>1 DEF vars, TypeInv, MainOK, DeployOK, RunOK, RepoOK, HistoryOK, Tip, IsOpen
<1>2. QED
  BY <1>1, TypeMainStep, TypeDeployStep, TypeRunStep, TypePeople
     DEF Next, MergeByHand, AutoMerge

LEMMA TypeAlways == Spec => []TypeInv
  BY TypeInit, TypeStep, PTL DEF Spec

(* Every variable keeps its type, and an open pull request has a branch.   *)
THEOREM TypesHold == Spec => []TypeOK
  BY TypeAlways, TypeCorrect, PTL

-----------------------------------------------------------------------------
(* A person's head.  A run that saw the pull request open goes on to push  *)
(* or delete only over a head of the bot's, and over that one alone.       *)
BotsOnly ==
  run.pc \in {"delete", "push"} /\ run.open /\ run.old # None => run.old.by = "bot"

(* What becomes of a run when a step is no step of its own.                *)
LEMMA OthersAsk ==
  ASSUME TypeInv, ~RunStep, [Next]_vars
  PROVE  \/ run' = run
         \/ \E r \in Request : run.pc = "idle" /\ run' = Started(r)
<1> USE DEF runs, repo, deploys, others
<1>1. ASSUME NEW r \in Request, Ask(r)
      PROVE  run' = run \/ (run.pc = "idle" /\ run' = Started(r))
  BY <1>1 DEF Ask
<1>2. CASE Dispatch
  <2>1. [base |-> Tip, manual |-> TRUE] \in Request
    BY DEF Request, TypeInv, MainOK
  <2>2. QED
    BY <1>1, <1>2, <2>1 DEF Dispatch
<1>3. CASE SmokePasses
  <2>1. [base |-> BaseOfRun, manual |-> FALSE] \in Request
    BY <1>3 DEF TypeInv, DeployOK, Deploys, Request, SmokePasses, BaseOfRun, NoDeploy
  <2>2. QED
    BY <1>1, <1>3, <2>1 DEF SmokePasses
<1>4. QED
  BY <1>2, <1>3
     DEF Next, vars, Land, RerunDeploy, DeployStep, SmokeFails, DeployEnds, PushByHand,
         ClosePull, DeleteByHand, ReopenPull, Arm, MergeByHand, AutoMerge, Merge

LEMMA BotsOnlyStep == TypeInv /\ BotsOnly /\ [Next]_vars => BotsOnly'
<1> SUFFICES ASSUME TypeInv, BotsOnly, [Next]_vars PROVE BotsOnly'
  OBVIOUS
<1>1. CASE ~RunStep
  BY <1>1, OthersAsk, StartedIsARun DEF BotsOnly
<1>2. CASE RunEnds /\ UNCHANGED main
  <2>1. run'.pc \in {"idle", "fetch"}
    BY <1>2, Ended, StartedIsARun DEF TypeInv, RunOK, IdleRun
  <2>2. QED
    BY <2>1 DEF BotsOnly
<1>3. ASSUME NEW pc, ListPulls, Saw(pc) PROVE BotsOnly'
  <2>1. \/ run.pc = "list" /\ ~(IsOpen /\ run.old # None /\ ~ByBot(run.old))
        \/ RunEnds /\ UNCHANGED main
    BY <1>3 DEF ListPulls, restUnchanged
  <2>2. CASE run.pc = "list" /\ ~(IsOpen /\ run.old # None /\ ~ByBot(run.old))
    <3>1. run'.open = IsOpen
      BY <1>3 DEF Saw, TypeInv, RunOK, RunState
    <3>2. run'.old # None => run'.old = run.old
      BY <1>3 DEF Saw, TypeInv, RunOK, RunState
    <3>3. QED
      BY <2>2, <3>1, <3>2 DEF BotsOnly, ByBot
  <2>3. QED
    BY <1>2, <2>1, <2>2
<1>4. CASE Fetch \/ Push \/ RefreshPull \/ OpenPull
  <2>1. run'.pc \in {"list", "pull", "disarm"}
    BY <1>4 DEF Fetch, Push, RefreshPull, OpenPull, TypeInv, RunOK, RunState
  <2>2. QED
    BY <2>1 DEF BotsOnly
<1>5. CASE ListPulls
  BY <1>2, <1>3, <1>5 DEF ListPulls, restUnchanged
<1>6. QED
  BY <1>1, <1>2, <1>4, <1>5
     DEF RunStep, DeleteBranch, PushRefused, OpenRefused, Disarm, RunDies, Fails,
         restUnchanged

(* A run that saw the pull request open never deletes or pushes over a     *)
(* head that a person wrote or amended while it is open (promote.sh:23).   *)
THEOREM HeadsStay == Spec => PersonsHeadStays
<1>1. Init => BotsOnly
  BY DEF Init, IdleRun, BotsOnly
<1>2. ASSUME TypeInv, BotsOnly, [Next]_vars
      PROVE  [branch # None /\ branch.by # "bot" /\ IsOpen /\ run' # run =>
                branch' = branch \/ ~run.open]_vars
  <2>1. SUFFICES ASSUME branch # None, branch.by # "bot", run' # run, branch' # branch,
                        run.open
                 PROVE  FALSE
    OBVIOUS
  <2>2. CASE RunStep
    <3>1. (Push \/ DeleteBranch) /\ run.old = branch /\ run.pc \in {"push", "delete"}
      BY <2>1, <2>2
         DEF RunStep, Fetch, ListPulls, DeleteBranch, Push, PushRefused, RefreshPull,
             OpenPull, OpenRefused, Disarm, RunDies, Fails, repo
    <3>2. QED
      BY <1>2, <2>1, <3>1 DEF BotsOnly
  <2>3. CASE ~RunStep
    BY <1>2, <2>1, <2>3
       DEF Next, vars, Land, RerunDeploy, Dispatch, DeployStep, SmokePasses, SmokeFails,
           DeployEnds, PushByHand, ClosePull, DeleteByHand, ReopenPull, Arm,
           MergeByHand, AutoMerge, Merge, repo, runs, others
  <2>4. QED
    BY <2>2, <2>3
<1>3. TypeInv /\ BotsOnly /\ [Next]_vars => (TypeInv /\ BotsOnly)'
  BY TypeStep, BotsOnlyStep
<1>4. QED
  BY <1>1, <1>2, <1>3, TypeInit, PTL DEF Spec, PersonsHeadStays

-----------------------------------------------------------------------------
(* What merges.  A request, a run and a head of the bot's that are for the *)
(* tip were asked for by hand, or the tip passed; and only the run that    *)
(* has just pushed leaves auto-merge armed for the head it pushed over.    *)
BotPins == branch # None /\ branch.by = "bot" => branch.pins = main[branch.base].source

Vouched ==
  /\ run.pc # "idle" /\ run.base = Tip => run.manual \/ passed
  /\ waiting # None /\ waiting.base = Tip => waiting.manual \/ passed
  /\ branch # None /\ branch.by = "bot" /\ branch.base = Tip => branch.manual \/ passed

PushedLate == run.pushed => run.pc \in {"pull", "disarm"}

StaleArming ==
  pull.armed \notin {None, branch} /\ branch # None /\ branch.by = "bot" /\ ~slipped =>
    run.pushed

DecidedInv == TypeInv /\ BotPins /\ Vouched /\ PushedLate /\ StaleArming

LEMMA DecidedInit == Init => DecidedInv
<1> SUFFICES ASSUME Init PROVE DecidedInv
  OBVIOUS
<1>1. /\ run.pc = "idle" /\ run.pushed = FALSE /\ waiting = None /\ branch = None
      /\ pull.armed = None
  BY DEF Init, IdleRun, NoPull
<1>2. QED
  BY <1>1, TypeInit DEF DecidedInv, BotPins, Vouched, PushedLate, StaleArming

(* A commit that lands leaves the promote runs alone.                      *)
LEMMA MainMoves ==
  ASSUME TypeInv, [Next]_vars, main' # main
  PROVE  /\ Land \/ Merge
         /\ Tip \in 1..MaxMain /\ Tip' = Tip + 1
         /\ \A k \in 1..Tip : main'[k] = main[k]
         /\ UNCHANGED <<run, waiting, slipped>>
         /\ \/ UNCHANGED <<pull, branch>>
            \/ pull' = NoPull /\ branch' \in {branch, None}
<1>1. Land \/ Merge
  BY DEF Next, vars, RerunDeploy, Dispatch, DeployStep, SmokePasses, SmokeFails,
         DeployEnds, RunStep, Fetch, ListPulls, DeleteBranch, Push, PushRefused,
         RefreshPull, OpenPull, OpenRefused, Disarm, RunDies, Fails, PushByHand,
         ClosePull, DeleteByHand, ReopenPull, Arm, MergeByHand, AutoMerge,
         restUnchanged, others
<1>2. \E c \in Commits : ToMain(c)
  BY <1>1, LandsACommit, MergesACommit
<1>3. QED
  BY <1>1, <1>2, Lands DEF TypeInv, MainOK, Land, Merge, runs, repo

(* Only a push of the run's or of a person's makes a new head.             *)
LEMMA BranchMoves ==
  ASSUME TypeInv, [Next]_vars, branch' \notin {branch, None}
  PROVE  /\ UNCHANGED main /\ Tip' = Tip
         /\ \/ Push
            \/ /\ PushByHand
               /\ branch'.by \in {"person", "amended"} /\ branch' # None
<1>1. Push \/ PushByHand
  BY DEF Next, vars, Land, RerunDeploy, Dispatch, DeployStep, SmokePasses, SmokeFails,
         DeployEnds, RunStep, Fetch, ListPulls, DeleteBranch, PushRefused,
         RefreshPull, OpenPull, OpenRefused, Disarm, RunDies, Fails,
         ClosePull, DeleteByHand, ReopenPull, Arm, MergeByHand, AutoMerge, Merge,
         repo
<1>2. UNCHANGED main /\ Tip' = Tip
  BY <1>1 DEF Push, PushByHand, restUnchanged, others, Tip
<1>3. PushByHand => branch'.by \in {"person", "amended"}
  <2>1. SUFFICES ASSUME NEW p \in Pins,
                 \/ branch' = [base |-> Tip, pins |-> p, by |-> "person", manual |-> FALSE]
                 \/ /\ branch # None
                    /\ \E by \in {"person", "amended"} :
                         branch' = [branch EXCEPT !.pins = p, !.by = by, !.manual = FALSE]
                 PROVE  branch'.by \in {"person", "amended"}
    BY DEF PushByHand
  <2>2. CASE branch' = [base |-> Tip, pins |-> p, by |-> "person", manual |-> FALSE]
    BY <2>2
  <2>3. ASSUME branch # None, NEW by \in {"person", "amended"},
               branch' = [branch EXCEPT !.pins = p, !.by = by, !.manual = FALSE]
        PROVE  branch'.by = by
    BY <2>3 DEF TypeInv, RepoOK, Heads
  <2>4. QED
    BY <2>1, <2>2, <2>3
<1>4. QED
  BY <1>1, <1>2, <1>3

(* What becomes of the promote runs while main stays.                      *)
LEMMA RunMoves ==
  ASSUME TypeInv, [Next]_vars, main' = main
  PROVE  \/ /\ run' = run /\ waiting' = waiting
         \/ /\ RunStep /\ waiting' = waiting /\ run.pc # "idle" /\ run'.pc # "idle"
            /\ run'.base = run.base /\ run'.manual = run.manual
            /\ run'.pushed = (run.pushed \/ run.pc = "push")
         \/ /\ RunStep /\ waiting' = None /\ run' = IdleRun
         \/ /\ RunStep /\ waiting' = None /\ run' = Started(waiting)
            /\ waiting \in Request
         \/ \E r \in Request :
              /\ Ask(r) /\ (SmokePasses \/ Dispatch)
              /\ SmokePasses => r.base = deploy.commit /\ deploy.commit <= Tip
              /\ Dispatch => r.base = Tip /\ r.manual = TRUE
<1> USE DEF runs, repo, deploys, others, restUnchanged
<1>1. CASE Dispatch
  <2>1. [base |-> Tip, manual |-> TRUE] \in Request
    BY DEF Request, TypeInv, MainOK
  <2>2. PICK r \in Request : r = [base |-> Tip, manual |-> TRUE]
    BY <2>1, Zenon
  <2>3. Ask(r)
    BY <1>1, <2>2, Zenon DEF Dispatch
  <2>4. r.base = Tip /\ r.manual = TRUE
    BY <2>2
  <2>5. ~SmokePasses
    BY <1>1 DEF Dispatch, SmokePasses, DeployOK, TypeInv, Deploys
  <2>6. QED
    BY <1>1, <2>3, <2>4, <2>5, Zenon
<1>2. CASE SmokePasses
  <2>1. [base |-> BaseOfRun, manual |-> FALSE] \in Request /\ deploy.commit <= Tip
    BY <1>2 DEF TypeInv, DeployOK, Deploys, Request, SmokePasses, BaseOfRun, NoDeploy
  <2>2. PICK r \in Request : r = [base |-> BaseOfRun, manual |-> FALSE]
    BY <2>1, Zenon
  <2>3. Ask(r)
    BY <1>2, <2>2, Zenon DEF SmokePasses
  <2>4. r.base = deploy.commit
    BY <2>2 DEF BaseOfRun
  <2>5. ~Dispatch
    BY <1>2 DEF Dispatch, SmokePasses, DeployOK, TypeInv, Deploys
  <2>6. QED
    BY <1>2, <2>1, <2>3, <2>4, <2>5, Zenon
<1>3. CASE RunStep /\ RunEnds
  BY <1>3, Ended DEF TypeInv, RunOK
<1>4. CASE RunStep /\ ~RunEnds
  <2>1. Fetch \/ ListPulls \/ Push \/ RefreshPull \/ OpenPull
    BY <1>4 DEF RunStep, DeleteBranch, PushRefused, OpenRefused, Disarm, RunDies, Fails
  <2>2. waiting' = waiting /\ run.pc # "idle"
    BY <1>4, <2>1 DEF Fetch, ListPulls, Saw, Push, RefreshPull, OpenPull
  <2>3. run \in RunState
    BY DEF TypeInv, RunOK
  <2>4. run'.pc # "idle" /\ run'.base = run.base /\ run'.manual = run.manual
    BY <1>4, <2>1, <2>3 DEF Fetch, ListPulls, Saw, Push, RefreshPull, OpenPull, RunState
  <2>5. run'.pushed = (run.pushed \/ run.pc = "push")
    <3>1. CASE Push
      <4>1. run'.pushed = TRUE /\ run.pc = "push"
        BY <2>3, <3>1 DEF Push, RunState
      <4>2. QED
        BY <4>1, Zenon
    <3>2. CASE ~Push
      <4>1. run'.pushed = run.pushed /\ run.pc # "push"
        BY <1>4, <2>1, <2>3, <3>2
           DEF Fetch, ListPulls, Saw, RefreshPull, OpenPull, RunState
      <4>2. run.pushed \in BOOLEAN
        BY <2>3 DEF RunState
      <4>3. QED
        BY <4>1, <4>2
    <3>3. QED
      BY <3>1, <3>2
  <2>6. QED
    BY <1>4, <2>2, <2>4, <2>5, Zenon
<1>5. CASE ~RunStep /\ ~Dispatch /\ ~SmokePasses
  BY <1>5
     DEF Next, vars, Land, RerunDeploy, DeployStep, SmokeFails, DeployEnds, PushByHand,
         ClosePull, DeleteByHand, ReopenPull, Arm, MergeByHand, AutoMerge, Merge
<1>6. QED
  BY <1>1, <1>2, <1>3, <1>4, <1>5, Zenon

LEMMA BotPinsStep == TypeInv /\ BotPins /\ [Next]_vars => BotPins'
<1> SUFFICES ASSUME TypeInv, BotPins, [Next]_vars,
                    branch' # None, branch'.by = "bot"
             PROVE  branch'.pins = main'[branch'.base].source
  BY DEF BotPins
<1>1. CASE main' # main
  <2>1. branch' = branch
    BY <1>1, MainMoves
  <2>2. branch.base \in 1..Tip
    BY <2>1 DEF TypeInv, RepoOK, Heads, MainOK
  <2>3. main'[branch.base] = main[branch.base]
    BY <1>1, <2>2, MainMoves
  <2>4. QED
    BY <2>1, <2>3 DEF BotPins
<1>2. CASE main' = main /\ branch' = branch
  BY <1>2 DEF BotPins
<1>3. CASE Push
  BY <1>3 DEF Push, restUnchanged, Built, Wanted
<1>4. QED
  BY <1>1, <1>2, <1>3, BranchMoves

LEMMA VouchedStep == TypeInv /\ Vouched /\ [Next]_vars => Vouched'
<1> SUFFICES ASSUME TypeInv, Vouched, [Next]_vars PROVE Vouched'
  OBVIOUS
<1>1. CASE main' # main
  <2>1. /\ UNCHANGED <<run, waiting>> /\ branch' \in {branch, None}
        /\ Tip \in 1..MaxMain /\ Tip' = Tip + 1
    BY <1>1, MainMoves
  <2>2. /\ run.base \in Int /\ run.base <= Tip
        /\ waiting # None => waiting.base \in Int /\ waiting.base <= Tip
        /\ branch # None => branch.base \in Int /\ branch.base <= Tip
    BY DEF TypeInv, RunOK, RepoOK, RunState, Request, Heads
  <2>3. /\ run'.base # Tip'
        /\ waiting' # None => waiting'.base # Tip'
        /\ branch' # None => branch'.base # Tip'
    BY <2>1, <2>2, BoundsAssumption DEF BoundsAssumption
  <2>4. QED
    BY <2>3, Zenon DEF Vouched
<1>2. CASE main' = main
  <2>1. Tip' = Tip
    BY <1>2 DEF Tip
  <2>2. passed => passed'
    <3>1. ~Land /\ ~Merge
      <4>1. ASSUME NEW c \in Commits, ToMain(c) PROVE FALSE
        BY <2>1, <4>1, Lands DEF TypeInv, MainOK
      <4>2. QED
        BY <4>1, LandsACommit, MergesACommit
    <3>2. SmokePasses \/ passed' = passed
      BY <3>1
         DEF Next, vars, RerunDeploy, Dispatch, DeployStep, SmokeFails, DeployEnds,
             RunStep, Fetch, ListPulls, DeleteBranch, Push, PushRefused, RefreshPull,
             OpenPull, OpenRefused, Disarm, RunDies, Fails, PushByHand, ClosePull,
             DeleteByHand, ReopenPull, Arm, MergeByHand, AutoMerge, restUnchanged, others
    <3>3. QED
      BY <3>2, Zenon DEF SmokePasses
  <2>3. /\ run'.pc # "idle" /\ run'.base = Tip => run'.manual \/ passed'
        /\ waiting' # None /\ waiting'.base = Tip => waiting'.manual \/ passed'
    <3>1. CASE run' = run /\ waiting' = waiting
      BY <2>2, <3>1, Zenon DEF Vouched
    <3>2. CASE /\ RunStep /\ waiting' = waiting /\ run.pc # "idle"
               /\ run'.base = run.base /\ run'.manual = run.manual
      BY <2>2, <3>2, Zenon DEF Vouched
    <3>3. CASE RunStep /\ waiting' = None /\ run' = IdleRun
      BY <3>3 DEF IdleRun
    <3>4. CASE RunStep /\ waiting' = None /\ run' = Started(waiting) /\ waiting \in Request
      <4>1. run'.base = waiting.base /\ run'.manual = waiting.manual
        BY <3>4, StartedIsARun
      <4>2. waiting # None
        BY <3>4, NoneAssumption DEF NoneAssumption
      <4>3. QED
        BY <2>2, <3>4, <4>1, <4>2, Zenon DEF Vouched
    <3>5. ASSUME NEW r \in Request, Ask(r), SmokePasses \/ Dispatch,
                 SmokePasses => r.base = deploy.commit,
                 Dispatch => r.manual = TRUE
          PROVE  /\ run'.pc # "idle" /\ run'.base = Tip => run'.manual \/ passed'
                 /\ waiting' # None /\ waiting'.base = Tip => waiting'.manual \/ passed'
      <4>1. r.base = Tip => r.manual \/ passed'
        BY <3>5, Zenon DEF SmokePasses
      <4>2. \/ run' = run
            \/ run'.base = r.base /\ run'.manual = r.manual
        BY <3>5, StartedIsARun DEF Ask
      <4>3. waiting' \in {waiting, r}
        BY <3>5 DEF Ask
      <4>4. run' = run \/ run.pc = "idle"
        BY <3>5 DEF Ask
      <4>5. QED
        BY <2>2, <4>1, <4>2, <4>3, Zenon DEF Vouched
    <3>6. QED
      BY <1>2, <3>1, <3>2, <3>3, <3>4, <3>5, RunMoves, Zenon
  <2>4. branch' # None /\ branch'.by = "bot" /\ branch'.base = Tip =>
          branch'.manual \/ passed'
    <3>1. CASE branch' \in {branch, None}
      BY <2>2, <3>1, Zenon DEF Vouched
    <3>2. CASE Push
      <4>1. branch'.manual = run.manual /\ branch'.base = run.base /\ run.pc # "idle"
        BY <3>2 DEF Push, Built
      <4>2. QED
        BY <2>2, <4>1, Zenon DEF Vouched
    <3>3. CASE branch'.by \in {"person", "amended"}
      BY <3>3
    <3>4. QED
      BY <3>1, <3>2, <3>3, BranchMoves
  <2>5. QED
    BY <2>1, <2>3, <2>4, Zenon DEF Vouched
<1>3. QED
  BY <1>1, <1>2

LEMMA PushedLateStep == TypeInv /\ PushedLate /\ [Next]_vars => PushedLate'
<1> SUFFICES ASSUME TypeInv, PushedLate, [Next]_vars PROVE PushedLate'
  OBVIOUS
<1>1. CASE ~RunStep
  BY <1>1, OthersAsk, StartedIsARun DEF PushedLate
<1>2. CASE RunEnds /\ UNCHANGED main
  <2>1. run'.pushed = FALSE
    <3>1. IdleRun.pushed = FALSE
      BY DEF IdleRun
    <3>2. waiting # None => Started(waiting).pushed = FALSE
      BY DEF Started, IdleRun
    <3>3. QED
      BY <1>2, <3>1, <3>2, Ended DEF TypeInv
  <2>2. QED
    BY <2>1 DEF PushedLate
<1>3. CASE Fetch \/ (ListPulls /\ ~RunEnds)
  <2>1. run'.pushed = run.pushed /\ run.pc \in {"fetch", "list"}
    BY <1>3 DEF Fetch, ListPulls, Saw, TypeInv, RunOK, RunState
  <2>2. QED
    BY <2>1 DEF PushedLate
<1>4. CASE Push \/ RefreshPull \/ OpenPull
  <2>1. run'.pc \in {"pull", "disarm"}
    BY <1>4 DEF Push, RefreshPull, OpenPull, TypeInv, RunOK, RunState
  <2>2. QED
    BY <2>1 DEF PushedLate
<1>5. QED
  BY <1>1, <1>2, <1>3, <1>4
     DEF RunStep, ListPulls, DeleteBranch, PushRefused, OpenRefused, Disarm, RunDies,
         Fails, restUnchanged

LEMMA StaleArmingStep ==
  TypeInv /\ PushedLate /\ StaleArming /\ [Next]_vars => StaleArming'
<1> SUFFICES ASSUME TypeInv, PushedLate, StaleArming, [Next]_vars,
                    pull'.armed \notin {None, branch'}, branch' # None,
                    branch'.by = "bot", ~slipped'
             PROVE  run'.pushed
  BY DEF StaleArming
<1>1. CASE main' # main
  <2>1. UNCHANGED <<run, slipped, pull, branch>>
    BY <1>1, MainMoves DEF NoPull
  <2>2. QED
    BY <2>1, Zenon DEF StaleArming
<1>2. CASE UNCHANGED <<pull, branch, slipped>> /\ (run'.pushed = run.pushed)
  BY <1>2, Zenon DEF StaleArming
<1>3. CASE Fetch \/ (ListPulls /\ ~RunEnds) \/ RefreshPull
  <2>1. run'.pushed = run.pushed /\ UNCHANGED <<pull, branch, slipped>>
    BY <1>3 DEF Fetch, ListPulls, Saw, RefreshPull, TypeInv, RunOK, RunState, repo
  <2>2. QED
    BY <1>2, <2>1
<1>4. CASE ListPulls \/ DeleteBranch
  <2>1. ~run.pushed
    BY <1>4 DEF PushedLate, ListPulls, DeleteBranch
  <2>2. ~UNCHANGED <<pull, branch, slipped>>
    <3>1. SUFFICES ASSUME pull' = pull, branch' = branch, slipped' = slipped PROVE FALSE
      OBVIOUS
    <3>2. QED
      BY <2>1, <3>1 DEF StaleArming
  <2>3. CASE ListPulls
    BY <2>2, <2>3 DEF ListPulls, repo
  <2>4. CASE DeleteBranch
    BY <2>2, <2>4 DEF DeleteBranch, repo
  <2>5. QED
    BY <1>4, <2>3, <2>4
<1>5. CASE Push
  <2>1. run'.pushed = TRUE
    BY <1>5 DEF Push, TypeInv, RunOK, RunState
  <2>2. QED
    BY <2>1, Zenon
<1>6. CASE Fails
  <2>1. pull' = pull /\ branch' = branch
    BY <1>6 DEF Fails, repo
  <2>2. slipped' = (slipped \/ (run.pushed /\ pull.armed # None))
    BY <1>6 DEF Fails
  <2>3. ~slipped /\ ~(run.pushed /\ pull.armed # None)
    BY <2>2, Zenon
  <2>4. pull.armed \notin {None, branch} /\ branch # None /\ branch.by = "bot"
    BY <2>1
  <2>5. QED
    BY <2>3, <2>4 DEF StaleArming
<1>7. CASE OpenPull
  BY <1>7 DEF OpenPull, NewPull
<1>8. CASE Disarm
  <2>1. CASE run.pushed
    <3>1. pull'.armed = None
      BY <1>8, <2>1 DEF Disarm, TypeInv, RepoOK, Pulls
    <3>2. QED
      BY <3>1
  <2>2. CASE ~run.pushed
    <3>1. UNCHANGED <<pull, branch, slipped>>
      BY <1>8, <2>2 DEF Disarm
    <3>2. QED
      BY <2>2, <3>1, Zenon DEF StaleArming
  <2>3. QED
    BY <2>1, <2>2
<1>9. CASE RunStep
  BY <1>3, <1>4, <1>5, <1>6, <1>7, <1>8, <1>9
     DEF RunStep, PushRefused, OpenRefused, RunDies
<1>10. CASE ~RunStep /\ main' = main
  <2>1. run' = run \/ ~run.pushed
    BY <1>10, OthersAsk DEF PushedLate
  <2>2. slipped' = slipped
    BY <1>10 DEF Next, vars, Land, RerunDeploy, Dispatch, DeployStep, SmokePasses,
         SmokeFails, DeployEnds, PushByHand, ClosePull, DeleteByHand, ReopenPull, Arm,
         MergeByHand, AutoMerge, Merge, others
  <2>3. CASE UNCHANGED <<pull, branch>>
    BY <2>1, <2>2, <2>3, Zenon DEF StaleArming
  <2>4. CASE ClosePull \/ DeleteByHand \/ ReopenPull
    BY <2>4 DEF ClosePull, DeleteByHand, ReopenPull, NoPull, NewPull
  <2>5. CASE Arm
    BY <2>5 DEF Arm, TypeInv, RepoOK, Pulls
  <2>6. CASE PushByHand
    <3>1. branch' = branch
      BY BranchMoves, <1>10 DEF RunStep
    <3>2. QED
      BY <2>3, <2>6, <3>1 DEF PushByHand
  <2>7. CASE Merge
    BY <2>7 DEF Merge, NoPull
  <2>8. QED
    BY <1>10, <2>3, <2>4, <2>5, <2>6, <2>7
       DEF Next, vars, Land, RerunDeploy, Dispatch, DeployStep, SmokePasses,
           SmokeFails, DeployEnds, MergeByHand, AutoMerge, repo
<1>11. QED
  BY <1>1, <1>9, <1>10

LEMMA DecidedStep == DecidedInv /\ [Next]_vars => DecidedInv'
  BY TypeStep, BotPinsStep, VouchedStep, PushedLateStep, StaleArmingStep DEF DecidedInv

(* A head of the bot's that merges pins what the source pins at the tip,   *)
(* which passed its smoke test unless a person asked for the run; and      *)
(* auto-merge takes no head but the one it was armed for, unless a run     *)
(* died between its push and its look at auto-merge (promote.sh:355).      *)
THEOREM MergesDecided == Spec => MergesAreDecided
<1>1. ASSUME DecidedInv, [Next]_vars
      PROVE  [main' # main /\ IsOpen /\ pull' # pull /\ branch.by = "bot" =>
                /\ main'[Tip'].target = main[branch.base].source
                /\ passed \/ branch.manual
                /\ pull.armed \in {None, branch} \/ slipped]_vars
  <2> SUFFICES ASSUME main' # main, IsOpen, pull' # pull, branch.by = "bot"
               PROVE  /\ main'[Tip'].target = main[branch.base].source
                      /\ passed \/ branch.manual
                      /\ pull.armed \in {None, branch} \/ slipped
    OBVIOUS
  <2>1. Merge
    BY <1>1, MainMoves DEF DecidedInv, Land, repo
  <2>2. branch # None /\ branch.base = Tip /\ ~run.pushed
    BY <1>1, <2>1 DEF DecidedInv, TypeInv, RepoOK, Merge, CanMerge
  <2>3. main'[Tip'].target = branch.pins
    BY <1>1, <2>1, MergesACommit, Lands DEF DecidedInv, TypeInv
  <2>4. main'[Tip'].target = main[branch.base].source
    BY <1>1, <2>2, <2>3 DEF DecidedInv, BotPins
  <2>5. passed \/ branch.manual
    BY <1>1, <2>2, Zenon DEF DecidedInv, Vouched
  <2>6. pull.armed \in {None, branch} \/ slipped
    BY <1>1, <2>2, Zenon DEF DecidedInv, StaleArming
  <2>7. QED
    BY <2>4, <2>5, <2>6
<1>2. QED
  BY <1>1, DecidedInit, DecidedStep, PTL DEF Spec, MergesAreDecided

-----------------------------------------------------------------------------
(* A run for the tip.  Nothing older than the tip is to come unless the    *)
(* deploy of the tip is to come after it; and the run for the tip that is  *)
(* at work acts on the branch and the pull request as they are.  All of it *)
(* but for what excuses.                                                   *)
DeployComing == queued = Tip \/ deploy = Smoking(Tip)

OlderDeploys ==
  queued \in {0, Tip} /\ (deploy.commit \notin {0, Tip} => queued = Tip)

OlderRuns ==
  /\ run.pc # "idle" /\ run.base # Tip =>
       DeployComing \/ (waiting # None /\ waiting.base = Tip)
  /\ waiting # None /\ waiting.base # Tip => DeployComing

UpToDate == branch.base = Tip /\ branch.pins = main[Tip].source
StagesMatch == main[Tip].source = main[Tip].target

AtWork ==
  run.base = Tip =>
    /\ run.pc \in {"list", "delete", "push"} => run.old = branch
    /\ run.pc = "delete" => StagesMatch
    /\ run.pc = "push" => ~StagesMatch /\ (run.open => IsOpen)
    /\ run.pc = "pull" => ~StagesMatch /\ UpToDate /\ (run.open => IsOpen)
    /\ run.pc = "disarm" => ~StagesMatch /\ UpToDate /\ IsOpen

ComingInv ==
  /\ TypeInv /\ StaleHasARunComing
  /\ excused \/ (OlderDeploys /\ OlderRuns /\ AtWork)

LEMMA ComingInit == Init => ComingInv
<1> SUFFICES ASSUME Init PROVE ComingInv
  OBVIOUS
<1>1. TypeInv
  BY TypeInit
<1>2. Tip = 1
  BY DEF Init, Tip
<1>3. deploy = Smoking(Tip) /\ queued = 0 /\ waiting = None
  BY <1>2 DEF Init
<1>4. run.pc = "idle" /\ run.base = 0
  BY DEF Init, IdleRun
<1>5. QED
  BY <1>1, <1>2, <1>3, <1>4
     DEF ComingInv, StaleHasARunComing, Coming, OlderDeploys, OlderRuns, AtWork,
         DeployComing, Smoking

(* While a deploy of the tip is to come, nothing else has to.              *)
LEMMA ADeployIsComing ==
  ASSUME ComingInv, [Next]_vars, DeployComing', OlderDeploys', run'.base # Tip'
  PROVE  ComingInv'
<1>1. TypeInv'
  BY TypeStep DEF ComingInv
<1>2. QED
  BY <1>1 DEF ComingInv, StaleHasARunComing, Coming, DeployComing, OlderRuns, AtWork

LEMMA ComingLanding ==
  ASSUME ComingInv, [Next]_vars, main' # main
  PROVE  ComingInv'
<1>1. /\ Tip \in 1..MaxMain /\ Tip' = Tip + 1
      /\ run' = run /\ excused' = excused
      /\ \E c \in Commits : ToMain(c)
  BY MainMoves, LandsACommit, MergesACommit DEF ComingInv, Land, Merge
<1>2. Enqueue(Tip + 1) /\ DeployOK /\ MainOK'
  BY <1>1, TypeStep DEF ToMain, ComingInv, TypeInv
<1>3. Tip + 1 \in 1..Tip' /\ Tip \in 0..Tip'
  BY <1>1, BoundsAssumption DEF BoundsAssumption
<1>4. /\ deploy' # NoDeploy
      /\ \/ deploy = NoDeploy /\ deploy' = Smoking(Tip') /\ queued' = 0
         \/ deploy # NoDeploy /\ deploy' = deploy /\ queued' = Tip'
  BY <1>1, <1>2, <1>3, Enqueued
<1>5. DeployComing' /\ OlderDeploys'
  BY <1>4 DEF DeployComing, OlderDeploys, Smoking
<1>6. run'.base # Tip'
  BY <1>1, BoundsAssumption DEF ComingInv, TypeInv, RunOK, RunState, BoundsAssumption
<1>7. QED
  BY <1>5, <1>6, ADeployIsComing

LEMMA ComingDeployStep ==
  ASSUME ComingInv, RerunDeploy \/ Dispatch \/ DeployStep
  PROVE  ComingInv'
<1>1. [Next]_vars
  BY DEF Next
<1>2. TypeInv /\ TypeInv'
  BY <1>1, TypeStep DEF ComingInv
<1>3. UNCHANGED <<main, branch, pull>> /\ Tip' = Tip
  BY DEF RerunDeploy, Dispatch, DeployStep, SmokePasses, SmokeFails, DeployEnds, repo,
         Tip
<1>4. Tip \in 1..MaxMain /\ Tip # 0
  BY <1>2, BoundsAssumption DEF TypeInv, MainOK, BoundsAssumption
<1>5. ASSUME excused' PROVE ComingInv'
  BY <1>2, <1>5 DEF ComingInv, StaleHasARunComing
<1>6. SUFFICES ASSUME ~excused' PROVE ComingInv'
  BY <1>5
<1>7. ~excused /\ ~SmokeFails
  <2>1. ~SmokeFails
    BY <1>6, Zenon DEF SmokeFails
  <2>2. RerunDeploy => ~excused
    BY <1>6, Zenon DEF RerunDeploy
  <2>3. Dispatch \/ SmokePasses \/ DeployEnds => excused' = excused
    BY DEF Dispatch, SmokePasses, DeployEnds
  <2>4. QED
    BY <1>6, <2>1, <2>2, <2>3 DEF DeployStep
<1>8. OlderDeploys /\ OlderRuns /\ AtWork /\ (Settled \/ Coming)
  BY <1>7 DEF ComingInv, StaleHasARunComing
<1>9. run' = run => AtWork'
  BY <1>3, <1>8 DEF AtWork, UpToDate, StagesMatch, IsOpen
<1>10. Settled' = Settled
  BY <1>3 DEF Settled, IsOpen
<1>11. CASE RerunDeploy
  <2>1. Enqueue(Tip) /\ UNCHANGED <<run, waiting>>
    BY <1>6, <1>11 DEF RerunDeploy, runs
  <2>2. /\ deploy' # NoDeploy
        /\ \/ deploy = NoDeploy /\ deploy' = Smoking(Tip) /\ queued' = 0
           \/ deploy # NoDeploy /\ deploy' = deploy /\ queued' = Tip
    BY <1>2, <1>3, <1>4, <2>1, Enqueued, BoundsAssumption
       DEF TypeInv, BoundsAssumption
  <2>3. DeployComing' /\ OlderDeploys'
    BY <1>3, <2>2 DEF DeployComing, OlderDeploys, Smoking
  <2>4. OlderRuns'
    BY <2>3 DEF OlderRuns
  <2>5. QED
    BY <1>2, <1>9, <2>1, <2>3, <2>4
       DEF ComingInv, StaleHasARunComing, Coming, DeployComing
<1>12. CASE DeployEnds
  <2>1. UNCHANGED <<run, waiting>>
    BY <1>12 DEF DeployEnds, runs
  <2>2. OlderDeploys'
    BY <1>3, <1>8, <1>12 DEF DeployEnds, OlderDeploys, NoDeploy, Smoking
  <2>3. DeployComing => DeployComing'
    BY <1>3, <1>4, <1>12 DEF DeployComing, DeployEnds, Smoking
  <2>4. OlderRuns'
    BY <1>3, <1>8, <2>1, <2>3 DEF OlderRuns
  <2>5. (Settled \/ Coming)'
    BY <1>3, <1>8, <1>10, <2>1, <2>3 DEF Coming, DeployComing
  <2>6. QED
    BY <1>2, <1>9, <2>1, <2>2, <2>4, <2>5 DEF ComingInv, StaleHasARunComing
<1>13. ASSUME NEW r \in Request, Ask(r), SmokePasses \/ Dispatch,
              r.base = Tip \/ (SmokePasses /\ r.base = deploy.commit)
       PROVE  ComingInv'
  <2>1. queued' = queued /\ deploy'.commit = deploy.commit
    BY <1>2, <1>13 DEF SmokePasses, Dispatch, deploys, TypeInv, DeployOK, Deploys
  <2>2. OlderDeploys'
    BY <1>3, <1>8, <2>1 DEF OlderDeploys
  <2>3. AtWork'
    <3>1. run' = run \/ run' = Started(r)
      BY <1>13 DEF Ask
    <3>2. Started(r).pc = "fetch"
      BY StartedIsARun
    <3>3. QED
      BY <1>9, <3>1, <3>2 DEF AtWork
  <2>4. CASE r.base = Tip
    <3>1. \/ run' = Started(r) /\ waiting' = None
          \/ run' = run /\ waiting' = r
      BY <1>2, <1>3, <1>4, <1>13, <2>4, Asked, BoundsAssumption
         DEF TypeInv, BoundsAssumption
    <3>2. Started(r).base = Tip /\ Started(r).pc = "fetch" /\ r # None
      BY <2>4, StartedIsARun, NoneAssumption DEF NoneAssumption
    <3>3. OlderRuns' /\ Coming'
      BY <1>3, <2>4, <3>1, <3>2 DEF OlderRuns, Coming
    <3>4. QED
      BY <1>2, <2>2, <2>3, <3>3 DEF ComingInv, StaleHasARunComing
  <2>5. CASE r.base # Tip
    <3>1. deploy.commit # Tip /\ deploy.commit # 0
      BY <1>2, <1>13, <2>5 DEF SmokePasses, TypeInv, DeployOK, NoDeploy
    <3>2. queued' = Tip
      BY <1>8, <2>1, <3>1 DEF OlderDeploys
    <3>3. QED
      BY <1>2, <1>3, <2>2, <2>3, <3>2
         DEF ComingInv, StaleHasARunComing, Coming, OlderRuns, DeployComing
  <2>6. QED
    BY <2>4, <2>5
<1>14. CASE SmokePasses \/ Dispatch
  <2>1. \E r \in Request : /\ Ask(r)
                           /\ r.base = Tip \/ (SmokePasses /\ r.base = deploy.commit)
    <3>1. CASE Dispatch
      <4>1. [base |-> Tip, manual |-> TRUE] \in Request
        BY <1>4 DEF Request
      <4>2. PICK r \in Request : r = [base |-> Tip, manual |-> TRUE]
        BY <4>1, Zenon
      <4>3. Ask(r)
        BY <3>1, <4>2, Zenon DEF Dispatch
      <4>4. r.base = Tip
        BY <4>2
      <4>5. QED
        BY <4>3, <4>4, Zenon
    <3>2. CASE SmokePasses
      <4>1. [base |-> BaseOfRun, manual |-> FALSE] \in Request
        BY <1>2, <3>2 DEF TypeInv, DeployOK, Deploys, Request, SmokePasses, BaseOfRun,
                          NoDeploy
      <4>2. PICK r \in Request : r = [base |-> BaseOfRun, manual |-> FALSE]
        BY <4>1, Zenon
      <4>3. Ask(r)
        BY <3>2, <4>2, Zenon DEF SmokePasses
      <4>4. r.base = deploy.commit
        BY <4>2 DEF BaseOfRun
      <4>5. QED
        BY <3>2, <4>3, <4>4, Zenon
    <3>3. QED
      BY <1>14, <3>1, <3>2
  <2>2. QED
    BY <1>13, <1>14, <2>1
<1>15. QED
  BY <1>7, <1>11, <1>12, <1>14 DEF DeployStep

(* A run that ends leaves the tip settled, or what waits starts.           *)
LEMMA ComingEnds ==
  ASSUME ComingInv, ~excused', RunStep, RunEnds, UNCHANGED <<main, deploy, queued>>,
         excused' = excused, run.pc # "idle", run.base = Tip => Settled'
  PROVE  ComingInv'
<1>1. [Next]_vars
  BY DEF Next
<1>2. TypeInv /\ TypeInv' /\ Tip' = Tip /\ Tip \in 1..MaxMain
  BY <1>1, TypeStep, MainStays DEF ComingInv, TypeInv
<1>3. OlderDeploys /\ OlderRuns
  BY DEF ComingInv
<1>4. /\ waiting' = None
      /\ \/ waiting = None /\ run' = IdleRun
         \/ waiting # None /\ run' = Started(waiting)
  BY <1>2, Ended DEF TypeInv
<1>5. waiting # None => run'.base = waiting.base /\ run'.pc = "fetch"
  BY <1>2, <1>4, StartedIsARun DEF TypeInv, RunOK
<1>6. waiting = None => run'.pc = "idle" /\ run'.base # Tip
  BY <1>2, <1>4, BoundsAssumption DEF IdleRun, BoundsAssumption
<1>7. OlderDeploys' /\ (DeployComing' <=> DeployComing)
  BY <1>2, <1>3 DEF OlderDeploys, DeployComing
<1>8. OlderRuns'
  BY <1>2, <1>3, <1>4, <1>5, <1>6, <1>7 DEF OlderRuns
<1>9. AtWork'
  BY <1>5, <1>6, <1>2 DEF AtWork
<1>10. (Settled \/ Coming)'
  <2>1. CASE run.base = Tip
    BY <2>1
  <2>2. CASE run.base # Tip
    BY <1>2, <1>3, <1>5, <1>7, <2>2 DEF OlderRuns, Coming, DeployComing
  <2>3. QED
    BY <2>1, <2>2
<1>11. QED
  BY <1>2, <1>7, <1>8, <1>9, <1>10 DEF ComingInv, StaleHasARunComing

(* A run that goes on is as much a run to come as it was.                  *)
LEMMA ComingGoesOn ==
  ASSUME ComingInv, ~excused', RunStep, UNCHANGED <<main, deploy, queued, waiting>>,
         excused' = excused, run.pc # "idle", run'.pc # "idle", run'.base = run.base,
         AtWork'
  PROVE  ComingInv'
<1>1. [Next]_vars
  BY DEF Next
<1>2. TypeInv' /\ Tip' = Tip
  BY <1>1, TypeStep, MainStays DEF ComingInv, TypeInv
<1>3. OlderDeploys /\ OlderRuns
  BY DEF ComingInv
<1>4. OlderDeploys' /\ OlderRuns'
  BY <1>2, <1>3 DEF OlderDeploys, OlderRuns, DeployComing
<1>5. Coming'
  BY <1>2, <1>3 DEF OlderRuns, Coming, DeployComing
<1>6. QED
  BY <1>2, <1>4, <1>5 DEF ComingInv, StaleHasARunComing

LEMMA ComingFetch == ASSUME ComingInv, Fetch PROVE ComingInv'
<1>1. [Next]_vars /\ RunStep
  BY DEF Next, RunStep
<1>2. TypeInv /\ TypeInv' /\ UNCHANGED <<main, deploy, queued, waiting>> /\ Tip' = Tip
  BY <1>1, TypeStep DEF ComingInv, Fetch, restUnchanged, deploys, Tip
<1>3. /\ run.pc = "fetch" /\ run'.pc = "list" /\ run'.base = run.base
      /\ run'.old = branch /\ branch' = branch
  BY <1>2 DEF Fetch, TypeInv, RunOK, RunState, repo
<1>4. AtWork'
  BY <1>3 DEF AtWork
<1>5. CASE excused'
  BY <1>2, <1>5 DEF ComingInv, StaleHasARunComing
<1>6. CASE ~excused' /\ ~excused
  <2>1. excused' = excused
    <3>1. excused' \in BOOLEAN /\ excused \in BOOLEAN
      BY <1>2 DEF TypeInv, HistoryOK
    <3>2. QED
      BY <1>6, <3>1
  <2>2. QED
    BY <1>1, <1>2, <1>3, <1>4, <1>6, <2>1, ComingGoesOn
<1>7. CASE ~excused' /\ excused
  <2>1. run.base = Tip /\ ~OlderToCome
    BY <1>7, Zenon DEF Fetch
  <2>2. OlderDeploys'
    BY <1>2, <2>1 DEF OlderToCome, OlderDeploys
  <2>3. OlderRuns'
    BY <1>2, <1>3, <2>1 DEF OlderToCome, OlderRuns
  <2>4. Coming'
    BY <1>2, <1>3, <2>1 DEF Coming
  <2>5. QED
    BY <1>2, <1>4, <2>2, <2>3, <2>4 DEF ComingInv, StaleHasARunComing
<1>8. QED
  BY <1>5, <1>6, <1>7

LEMMA ComingListPulls == ASSUME ComingInv, ListPulls, ~excused' PROVE ComingInv'
<1>1. [Next]_vars /\ RunStep
  BY DEF Next, RunStep
<1>2. /\ TypeInv /\ run \in RunState /\ run.pc = "list" /\ excused' = excused
      /\ UNCHANGED <<main, deploy, queued, branch, pull>> /\ Tip' = Tip
  BY DEF ComingInv, TypeInv, RunOK, ListPulls, restUnchanged, deploys, repo, Tip
<1>3. AtWork
  BY <1>2 DEF ComingInv
<1>4. run.base = Tip => /\ run.old = branch
                        /\ Wanted = main[Tip].source /\ (Matches <=> StagesMatch)
  BY <1>2, <1>3 DEF AtWork, Wanted, Matches, StagesMatch
<1>5. IsOpen => branch # None
  BY <1>2 DEF TypeInv, RepoOK
<1> DEFINE opened == IsOpen /\ run.old # None
           persons == opened /\ ~ByBot(run.old)
<1>6. CASE (persons \/ (Matches /\ ~opened)) /\ RunEnds
  <2>1. run.base = Tip => Settled'
    BY <1>2, <1>4, <1>5, <1>6 DEF Settled, IsOpen, ByBot, StagesMatch
  <2>2. QED
    BY <1>1, <1>2, <1>6, <2>1, ComingEnds
<1>7. ASSUME NEW pc \in {"delete", "push", "pull"}, Saw(pc),
             pc = "delete" => Matches, pc # "delete" => ~Matches,
             pc = "pull" => run.old # None /\ run.old.base = run.base
                            /\ run.old.pins = Wanted
      PROVE  ComingInv'
  <2>1. /\ run'.pc = pc /\ run'.base = run.base /\ waiting' = waiting
        /\ pc # "pull" => run'.old = run.old
    BY <1>2, <1>7 DEF Saw, RunState
  <2>2. run'.open = IsOpen
    BY <1>2, <1>7 DEF Saw, RunState
  <2>3. run'.open => IsOpen'
    BY <1>2, <2>2, Zenon DEF IsOpen
  <2>4. AtWork'
    BY <1>2, <1>4, <1>7, <2>1, <2>3 DEF AtWork, UpToDate, StagesMatch
  <2>5. QED
    BY <1>1, <1>2, <2>1, <2>4, ComingGoesOn
<1>8. CASE ~persons /\ Matches /\ opened /\ Saw("delete")
  BY <1>7, <1>8
<1>9. ASSUME ~Matches, NEW direct \in BOOLEAN,
             Saw(IF IsBuilt(run.old, direct) THEN "pull" ELSE "push")
      PROVE  ComingInv'
  <2>1. CASE IsBuilt(run.old, direct)
    BY <1>7, <1>9, <2>1 DEF IsBuilt
  <2>2. CASE ~IsBuilt(run.old, direct)
    BY <1>7, <1>9, <2>2
  <2>3. QED
    BY <2>1, <2>2
<1>10. QED
  BY <1>6, <1>8, <1>9 DEF ListPulls

LEMMA ComingPushes == ASSUME ComingInv, Push, ~excused' PROVE ComingInv'
<1>1. [Next]_vars /\ RunStep
  BY DEF Next, RunStep
<1>2. /\ TypeInv /\ run \in RunState /\ run.pc = "push" /\ excused' = excused
      /\ UNCHANGED <<main, deploy, queued, waiting>> /\ Tip' = Tip
  BY DEF ComingInv, TypeInv, RunOK, Push, restUnchanged, deploys, Tip
<1>3. AtWork
  BY <1>2 DEF ComingInv
<1>4. run'.pc = "pull" /\ run'.base = run.base
  BY <1>2 DEF Push, RunState
<1>5. run'.open = run.open
  BY <1>2 DEF Push, RunState
<1>6. IsOpen => IsOpen'
  BY DEF Push, IsOpen
<1>7. branch'.base = run.base /\ branch'.pins = main[run.base].source
  BY DEF Push, Built, Wanted
<1>8. AtWork'
  BY <1>2, <1>3, <1>4, <1>5, <1>6, <1>7 DEF AtWork, UpToDate, StagesMatch
<1>9. QED
  BY <1>1, <1>2, <1>4, <1>8, ComingGoesOn

LEMMA ComingPull ==
  ASSUME ComingInv, RefreshPull \/ OpenPull, ~excused' PROVE ComingInv'
<1>1. [Next]_vars /\ RunStep
  BY DEF Next, RunStep
<1>2. /\ TypeInv /\ run \in RunState /\ run.pc = "pull" /\ excused' = excused
      /\ UNCHANGED <<main, deploy, queued, waiting, branch>> /\ Tip' = Tip
  BY DEF ComingInv, TypeInv, RunOK, RefreshPull, OpenPull, restUnchanged, deploys, repo,
         Tip
<1>3. AtWork
  BY <1>2 DEF ComingInv
<1>4. run'.pc = "disarm" /\ run'.base = run.base
  BY <1>2 DEF RefreshPull, OpenPull, RunState
<1>5. run.base = Tip => IsOpen'
  BY <1>2, <1>3 DEF RefreshPull, OpenPull, IsOpen, NewPull, AtWork, repo
<1>6. AtWork'
  BY <1>2, <1>3, <1>4, <1>5 DEF AtWork, UpToDate, StagesMatch
<1>7. QED
  BY <1>1, <1>2, <1>4, <1>6, ComingGoesOn

LEMMA ComingLast ==
  ASSUME ComingInv, DeleteBranch \/ Disarm, ~excused' PROVE ComingInv'
<1>1. [Next]_vars /\ RunStep
  BY DEF Next, RunStep
<1>2. /\ TypeInv /\ run.pc \in {"delete", "disarm"} /\ excused' = excused /\ RunEnds
      /\ UNCHANGED <<main, deploy, queued>> /\ Tip' = Tip
  BY DEF ComingInv, DeleteBranch, Disarm, restUnchanged, deploys, Tip
<1>3. AtWork
  BY <1>2 DEF ComingInv
<1>4. ASSUME run.base = Tip, DeleteBranch PROVE Settled'
  <2>1. StagesMatch /\ ~IsOpen'
    BY <1>3, <1>4 DEF DeleteBranch, AtWork, IsOpen, NoPull
  <2>2. QED
    BY <1>2, <2>1 DEF Settled, StagesMatch
<1>5. ASSUME run.base = Tip, Disarm PROVE Settled'
  <2>1. ~StagesMatch /\ UpToDate /\ IsOpen
    BY <1>3, <1>5 DEF Disarm, AtWork
  <2>2. IsOpen' /\ branch' = branch
    BY <1>2, <1>5, <2>1 DEF Disarm, IsOpen, TypeInv, RepoOK, Pulls
  <2>3. QED
    BY <1>2, <2>1, <2>2 DEF Settled, StagesMatch, UpToDate
<1>6. QED
  BY <1>1, <1>2, <1>4, <1>5, ComingEnds

LEMMA ComingRunStep == ASSUME ComingInv, RunStep PROVE ComingInv'
<1>1. TypeInv'
  BY TypeStep DEF ComingInv, Next
<1>2. CASE excused'
  BY <1>1, <1>2 DEF ComingInv, StaleHasARunComing
<1>3. ~Fails \/ excused'
  BY Zenon DEF Fails
<1>4. QED
  BY <1>2, <1>3, ComingFetch, ComingListPulls, ComingPushes, ComingPull, ComingLast
     DEF RunStep, PushRefused, OpenRefused, RunDies

LEMMA ComingPeople ==
  ASSUME ComingInv, PushByHand \/ ClosePull \/ DeleteByHand \/ ReopenPull \/ Arm
  PROVE  ComingInv'
<1>1. TypeInv /\ TypeInv'
  BY TypeStep DEF ComingInv, Next
<1>2. CASE excused'
  BY <1>1, <1>2 DEF ComingInv, StaleHasARunComing
<1>3. CASE ~Arm
  <2>1. excused'
    BY <1>3, Zenon DEF PushByHand, ClosePull, DeleteByHand, ReopenPull
  <2>2. QED
    BY <1>2, <2>1
<1>4. CASE Arm
  <2>1. /\ UNCHANGED <<main, deploy, queued, run, waiting, branch, excused>>
        /\ Tip' = Tip
    BY <1>4 DEF Arm, others, deploys, runs, Tip
  <2>2. IsOpen' /\ IsOpen
    BY <1>1, <1>4 DEF Arm, IsOpen, TypeInv, RepoOK, Pulls
  <2>3. CASE ~excused'
    <3>1. OlderDeploys /\ OlderRuns /\ AtWork /\ (Settled \/ Coming)
      BY <2>1, <2>3 DEF ComingInv, StaleHasARunComing
    <3>2. OlderDeploys' /\ OlderRuns'
      BY <2>1, <3>1 DEF OlderDeploys, OlderRuns, DeployComing
    <3>3. AtWork'
      BY <2>1, <2>2, <3>1 DEF AtWork, UpToDate, StagesMatch
    <3>4. (Settled \/ Coming)'
      BY <2>1, <2>2, <3>1 DEF Settled, Coming
    <3>5. QED
      BY <1>1, <3>2, <3>3, <3>4 DEF ComingInv, StaleHasARunComing
  <2>4. QED
    BY <1>2, <2>3
<1>5. QED
  BY <1>3, <1>4

LEMMA ComingStep == ComingInv /\ [Next]_vars => ComingInv'
<1> SUFFICES ASSUME ComingInv, [Next]_vars PROVE ComingInv'
  OBVIOUS
<1>1. CASE UNCHANGED vars
  <2>1. TypeInv'
    BY TypeStep DEF ComingInv
  <2>2. QED
    BY <1>1, <2>1
       DEF vars, ComingInv, StaleHasARunComing, Settled, Coming, OlderDeploys, OlderRuns,
           AtWork, DeployComing, UpToDate, StagesMatch, IsOpen, Tip
<1>2. CASE main' = main /\ Next
  <2>1. ~Land /\ ~Merge
    <3>1. ASSUME NEW c \in Commits, ToMain(c) PROVE FALSE
      BY <1>2, <3>1, Lands DEF ComingInv, TypeInv, MainOK, Tip
    <3>2. QED
      BY <3>1, LandsACommit, MergesACommit DEF ComingInv
  <2>2. QED
    BY <1>2, <2>1, ComingDeployStep, ComingRunStep, ComingPeople
       DEF Next, MergeByHand, AutoMerge
<1>3. QED
  BY <1>1, <1>2, ComingLanding

(* While the promotion is not what the tip calls for, a run for the tip is *)
(* at work, queued or to be asked for, unless the tip's smoke test or run  *)
(* failed, a person undid it or an old deploy took its place.              *)
THEOREM ARunIsComing == Spec => []StaleHasARunComing
<1>1. ComingInv => StaleHasARunComing
  BY DEF ComingInv
<1>2. QED
  BY <1>1, ComingInit, ComingStep, PTL DEF Spec
=============================================================================
