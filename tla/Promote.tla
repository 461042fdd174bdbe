------------------------------ MODULE Promote -------------------------------
(***************************************************************************)
(* One hop of promotion, from a source stage to a target: the branch and   *)
(* pull request scripts/promote.sh keeps, as every push to main deploys,   *)
(* passes the source's smoke test or fails it and asks for a promote run,  *)
(* while people land commits, push to the branch, close, reopen, arm and   *)
(* merge the pull request, dispatch runs by hand and re-run old deploys.   *)
(*                                                                         *)
(* The two hops (dev to staging, staging to prod) run the same script on   *)
(* different branches; a commit is what it pins for the two stages of one. *)
(* All the pins of a stage are one value, since a promotion moves all of   *)
(* them.  A head stands for its content: what else two heads differ in     *)
(* nobody compares.                                                        *)
(***************************************************************************)
EXTENDS Naturals, Sequences

CONSTANTS
  Pins,      \* what a stage may pin
  MaxMain,   \* a bound on the commits of main
  MaxHands,  \* a bound on what people do beside landing and merging
  None       \* no branch, no request

ASSUME BoundsAssumption == MaxMain \in Nat \ {0} /\ MaxHands \in Nat

VARIABLES
  main,      \* the commits, as [source, target]
  deploy,    \* the deploy run at work: its commit, and whether it smokes
  queued,    \* the commit of the one that waits, or 0
  run,       \* the promote run at work
  waiting,   \* the request for the one that waits
  branch,    \* the promotion branch's head
  pull,      \* its pull request
  passed,    \* the source stage passed its smoke test on the tip (history)
  hands,     \* what people did (history)
  excused,   \* what may have left the tip without a promotion (history)
  slipped    \* a run ended between its push and its look at auto-merge (history)

vars == <<main, deploy, queued, run, waiting, branch, pull, passed, hands,
          excused, slipped>>

repo == <<branch, pull>>
runs == <<run, waiting>>
deploys == <<deploy, queued>>

Tip == Len(main)

(* The head of a branch: the commit of main it is built on, the target's   *)
(* pins it sets, and who wrote it; a commit the app wrote and a person     *)
(* amended still names the app as its author.                              *)
Heads == [base : 1..MaxMain, pins : Pins,
          by : {"bot", "person", "amended"}, manual : BOOLEAN]

Request == [base : 1..MaxMain, manual : BOOLEAN]

RunState == [pc : {"idle", "fetch", "list", "delete", "push", "pull", "disarm"},
             base : 0..MaxMain, manual : BOOLEAN,
             old : Heads \cup {None},   \* the head it fetched
             open : BOOLEAN,           \* it saw the pull request open
             pushed : BOOLEAN]

ASSUME NoneAssumption == None \notin Heads \cup Request

IdleRun == [pc |-> "idle", base |-> 0, manual |-> FALSE, old |-> None,
            open |-> FALSE, pushed |-> FALSE]

NoPull == [state |-> "none", armed |-> None]
NewPull == [state |-> "open", armed |-> None]
IsOpen == pull.state = "open"

Started(request) ==
  [IdleRun EXCEPT !.pc = "fetch", !.base = request.base, !.manual = request.manual]

NoDeploy == [commit |-> 0, stage |-> "idle"]
Smoking(c) == [commit |-> c, stage |-> "smoke"]

Init ==
  /\ main \in {<<[source |-> p, target |-> q]>> : p \in Pins, q \in Pins}
  /\ deploy = Smoking(1) /\ queued = 0
  /\ run = IdleRun /\ waiting = None
  /\ branch = None /\ pull = NoPull
  /\ passed = FALSE /\ hands = 0 /\ excused = FALSE /\ slipped = FALSE

-----------------------------------------------------------------------------
(* Deploy runs: one at work, one that waits, which a newer one replaces.    *)

Enqueue(c) ==
  IF deploy = NoDeploy THEN deploy' = Smoking(c) /\ UNCHANGED queued
  ELSE queued' = c /\ UNCHANGED deploy

ToMain(commit) ==
  /\ Tip < MaxMain
  /\ main' = Append(main, commit)
  /\ Enqueue(Tip + 1)
  /\ passed' = FALSE

(* A bump of the source's pins, a change to the target's by hand, or       *)
(* anything else.                                                          *)
Land ==
  /\ \E p \in Pins, stage \in {"source", "target"} :
       ToMain([main[Tip] EXCEPT ![stage] = p])
  /\ UNCHANGED <<runs, repo, hands, excused, slipped>>

(* A request dropped because one waits already.                            *)
AskDropped(request) ==
  IF run.pc = "idle" THEN run' = Started(request) /\ UNCHANGED waiting
  ELSE waiting' = (IF waiting = None THEN request ELSE waiting) /\ UNCHANGED run

(* Promote runs queue for the target in the same way.                      *)
Ask(request) ==
  IF run.pc = "idle" THEN run' = Started(request) /\ UNCHANGED waiting
  ELSE waiting' = request /\ UNCHANGED run

(* The commit a deploy run asks for: its own, or main's latest.            *)
BaseOfTip == Tip
BaseOfRun == deploy.commit

SmokePasses ==
  /\ deploy.stage = "smoke"
  /\ passed' = (passed \/ deploy.commit = Tip)
  /\ deploy' = [deploy EXCEPT !.stage = "promote"]
  /\ Ask([base |-> BaseOfRun, manual |-> FALSE])
  /\ UNCHANGED <<main, queued, repo, hands, excused, slipped>>

SmokeFails ==
  /\ deploy.stage = "smoke"
  /\ deploy' = [deploy EXCEPT !.stage = "promote"]
  /\ excused' = TRUE
  /\ UNCHANGED <<main, queued, runs, repo, passed, hands, slipped>>

(* A deploy run ends when its promote job has, by itself or replaced.      *)
DeployEnds ==
  /\ deploy.stage = "promote"
  /\ run.pc # "idle" => run.manual
  /\ waiting # None => waiting.manual
  /\ deploy' = IF queued = 0 THEN NoDeploy ELSE Smoking(queued)
  /\ queued' = 0
  /\ UNCHANGED <<main, runs, repo, passed, hands, excused, slipped>>

ByHand == hands < MaxHands /\ hands' = hands + 1

(* A person re-runs a deploy: it takes the waiting one's place.            *)
RerunDeploy ==
  /\ ByHand
  /\ \E c \in 1..Tip : Enqueue(c) /\ excused' = (excused \/ c # Tip)
  /\ UNCHANGED <<main, runs, repo, passed, slipped>>

Dispatch ==
  /\ ByHand
  /\ Ask([base |-> Tip, manual |-> TRUE])
  /\ UNCHANGED <<main, deploys, repo, passed, excused, slipped>>

-----------------------------------------------------------------------------
(* A promote run.                                                          *)

restUnchanged == UNCHANGED <<main, deploys, passed, hands>>

RunEnds ==
  /\ run' = IF waiting = None THEN IdleRun ELSE Started(waiting)
  /\ waiting' = None

(* The run that takes up the tip settles what came before it, if no older  *)
(* commit's is still to come.                                              *)
OlderToCome ==
  \/ queued \notin {0, Tip} \/ deploy.commit \notin {0, Tip}
  \/ waiting # None /\ waiting.base # Tip

Fetch ==
  /\ run.pc = "fetch"
  /\ run' = [run EXCEPT !.pc = "list", !.old = branch]
  /\ excused' = (excused /\ (run.base # Tip \/ OlderToCome))
  /\ UNCHANGED <<waiting, repo, slipped>> /\ restUnchanged

ByAuthor(head) == head.by # "person"
ByBot(head) == head.by = "bot"

Wanted == main[run.base].source
Matches == Wanted = main[run.base].target
Built == [base |-> run.base, pins |-> Wanted, by |-> "bot", manual |-> run.manual]

(* A person's commit may sit on its base directly or on other commits.     *)
IsBuilt(head, direct) ==
  /\ head # None /\ (head.by = "person" => direct)
  /\ head.base = run.base /\ head.pins = Wanted

Saw(pc) ==
  /\ run' = [run EXCEPT !.pc = pc, !.open = IsOpen,
                       !.old = IF pc = "pull" THEN None ELSE run.old]
  /\ UNCHANGED waiting

(* With the pull request known, what there is to do.                       *)
ListPulls ==
  /\ run.pc = "list"
  /\ LET opened == IsOpen /\ run.old # None
         persons == opened /\ ~ByBot(run.old)
     IN
       \/ (persons \/ (Matches /\ ~opened)) /\ RunEnds
       \/ ~persons /\ Matches /\ opened /\ Saw("delete")
       \/ /\ ~persons /\ ~Matches
          /\ \E direct \in BOOLEAN :
               Saw(IF IsBuilt(run.old, direct) THEN "pull" ELSE "push")
  /\ UNCHANGED <<repo, excused, slipped>> /\ restUnchanged

(* The branch deleted and its pull request left as it was.                 *)
DeleteBranchOnly ==
  /\ run.pc = "delete"
  /\ branch' = (IF branch = run.old THEN None ELSE branch)
  /\ RunEnds
  /\ UNCHANGED <<pull, excused, slipped>> /\ restUnchanged

(* Deleting the branch closes the pull request; a branch that moved stays. *)
DeleteBranch ==
  /\ run.pc = "delete"
  /\ IF branch = run.old THEN branch' = None /\ pull' = NoPull ELSE UNCHANGED repo
  /\ RunEnds
  /\ UNCHANGED <<excused, slipped>> /\ restUnchanged

(* A forced push; a closed pull request cannot be reopened after one.      *)
Push ==
  /\ run.pc = "push" /\ branch = run.old
  /\ branch' = Built
  /\ pull' = IF IsOpen THEN pull ELSE NoPull
  /\ run' = [run EXCEPT !.pc = "pull", !.old = None, !.pushed = TRUE]
  /\ UNCHANGED <<waiting, excused, slipped>> /\ restUnchanged

(* set -e: a call that fails ends the run.                                 *)
Fails ==
  /\ RunEnds
  /\ excused' = TRUE
  /\ slipped' = (slipped \/ (run.pushed /\ pull.armed # None))
  /\ UNCHANGED repo /\ restUnchanged

PushRefused == run.pc = "push" /\ branch # run.old /\ Fails

(* The pull request seen open is refreshed, whatever became of it.         *)
RefreshPull ==
  /\ run.pc = "pull" /\ run.open
  /\ run' = [run EXCEPT !.pc = "disarm", !.open = FALSE]
  /\ UNCHANGED <<waiting, repo, excused, slipped>> /\ restUnchanged

OpenPull ==
  /\ run.pc = "pull" /\ ~run.open
  /\ ~IsOpen /\ branch # None
  /\ pull' = NewPull
  /\ run' = [run EXCEPT !.pc = "disarm"]
  /\ UNCHANGED <<waiting, branch, excused, slipped>> /\ restUnchanged

OpenRefused ==
  /\ run.pc = "pull" /\ ~run.open
  /\ IsOpen \/ branch = None
  /\ Fails

Disarm ==
  /\ run.pc = "disarm"
  /\ pull' = IF run.pushed THEN [pull EXCEPT !.armed = None] ELSE pull
  /\ RunEnds
  /\ UNCHANGED <<branch, excused, slipped>> /\ restUnchanged

RunDies == run.pc # "idle" /\ Fails

-----------------------------------------------------------------------------
(* People and GitHub.                                                      *)

others == ByHand /\ UNCHANGED <<main, deploys, runs, passed, slipped>>

PushByHand ==
  /\ \E p \in Pins :
       \/ branch' = [base |-> Tip, pins |-> p, by |-> "person", manual |-> FALSE]
       \/ /\ branch # None
          /\ branch' = [branch EXCEPT !.pins = p, !.by = "person", !.manual = FALSE]
       \/ /\ branch # None /\ ByBot(branch)
          /\ branch' = [branch EXCEPT !.pins = p, !.by = "amended", !.manual = FALSE]
  /\ excused' = TRUE
  /\ UNCHANGED pull /\ others

ClosePull ==
  /\ IsOpen
  /\ pull' = [state |-> "closed", armed |-> None]
  /\ excused' = TRUE
  /\ UNCHANGED branch /\ others

DeleteByHand ==
  /\ branch # None
  /\ branch' = None /\ pull' = NoPull
  /\ excused' = TRUE
  /\ others

ReopenPull ==
  /\ pull.state = "closed" /\ branch # None
  /\ pull' = NewPull
  /\ excused' = TRUE
  /\ UNCHANGED branch /\ others

(* Auto-merge for the head there is; a head that can merge just does.      *)
Arm ==
  /\ IsOpen
  /\ pull' = [pull EXCEPT !.armed = branch]
  /\ UNCHANGED <<branch, excused>> /\ others

(* The ruleset merges only a branch that is up to date.  The checks of a   *)
(* head take minutes, what is left of the run that pushed it seconds.      *)
CanMerge == IsOpen /\ branch.base = Tip /\ ~run.pushed

Merge ==
  /\ CanMerge
  /\ ToMain([main[Tip] EXCEPT !.target = branch.pins])
  /\ pull' = NoPull /\ branch' \in {branch, None}
  /\ UNCHANGED <<runs, hands, excused, slipped>>

MergeByHand == pull.armed = None /\ Merge
AutoMerge == pull.armed # None /\ Merge

RunStep ==
  \/ Fetch \/ ListPulls \/ DeleteBranch \/ Push \/ PushRefused
  \/ RefreshPull \/ OpenPull \/ OpenRefused \/ Disarm \/ RunDies

DeployStep == SmokePasses \/ SmokeFails \/ DeployEnds

Next ==
  \/ Land \/ RerunDeploy \/ Dispatch \/ DeployStep \/ RunStep
  \/ PushByHand \/ ClosePull \/ DeleteByHand \/ ReopenPull \/ Arm
  \/ MergeByHand \/ AutoMerge

Spec == Init /\ [][Next]_vars
-----------------------------------------------------------------------------
TypeOK ==
  /\ main \in Seq([source : Pins, target : Pins]) /\ Tip \in 1..MaxMain
  /\ deploy \in [commit : 0..MaxMain, stage : {"idle", "smoke", "promote"}]
  /\ queued \in 0..MaxMain
  /\ run \in RunState /\ run.base <= Tip /\ run.pc # "idle" => run.base > 0
  /\ waiting \in Request \cup {None}
  /\ branch \in Heads \cup {None}
  /\ pull.state \in {"none", "open", "closed"} /\ pull.armed \in Heads \cup {None}
  /\ pull.armed # None => IsOpen
  /\ IsOpen => branch # None
  /\ passed \in BOOLEAN
  /\ excused \in BOOLEAN /\ slipped \in BOOLEAN /\ hands \in 0..MaxHands

(* promote.sh:23: a branch a person changed last is left alone while its   *)
(* pull request is open.  A run that saw it open never pushes over it or   *)
(* deletes it, whatever happened since it fetched; one that saw none open  *)
(* may, if it was reopened meanwhile.                                      *)
PersonsHeadStays ==
  [][branch # None /\ branch.by # "bot" /\ IsOpen /\ run' # run =>
       branch' = branch \/ ~run.open]_vars

(* What merges is what somebody decided on.  A head of the bot's pins what *)
(* the source pins at a commit the source passed its smoke test on, unless *)
(* it was built by a manual run (promote.yml:7); and auto-merge takes it   *)
(* only if it was armed for that head (promote.sh:355), unless a run ended *)
(* between its push and its look at auto-merge, which no later run makes   *)
(* up for.                                                                 *)
MergesAreDecided ==
  [][main' # main /\ IsOpen /\ pull' # pull /\ branch.by = "bot" =>
       /\ main'[Tip'].target = main[branch.base].source
       /\ passed \/ branch.manual
       /\ pull.armed \in {None, branch} \/ slipped]_vars

(* Whether the pull request is what it should be for the tip: absent when  *)
(* the stages pin the same, else up to date, or in a person's hands.       *)
Settled ==
  \/ IsOpen /\ branch.by # "bot"
  \/ IF main[Tip].source = main[Tip].target THEN ~IsOpen
     ELSE IsOpen /\ branch.base = Tip /\ branch.pins = main[Tip].source

Coming ==
  \/ queued = Tip \/ deploy = Smoking(Tip)
  \/ run.pc # "idle" /\ run.base = Tip
  \/ waiting # None /\ waiting.base = Tip

(* 2026-10-automated-promotion.md:43: a pull request that fell behind main *)
(* has the run that brings it up to date already queued.  Queues hold one  *)
(* run, pushes and dispatches replace each other's, and still the tip is   *)
(* never left without: unless its smoke test or its promote run failed, a  *)
(* person undid it or an old deploy was re-run in its place.               *)
StaleHasARunComing == Settled \/ Coming \/ excused
=============================================================================
