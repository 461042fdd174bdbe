----------------------------- MODULE ResetApps ------------------------------
(***************************************************************************)
(* Resetting a stage: scripts/reset-apps.sh scales the app services to     *)
(* zero, has the provision Lambda drop and recreate their databases and    *)
(* destroy hilt's tenant secrets, empties the stores outside the VPC and   *)
(* scales up again, while ECS starts and stops tasks, the services write,  *)
(* an apply puts every desired count back, and the script and the Lambda   *)
(* die at any point.  A phase goes on when the script that invoked it is   *)
(* gone, so a rerun may find one at work.                                  *)
(*                                                                         *)
(* The passwords of the recreated databases are in Databases; of a         *)
(* service's data, hilt's rows and the secrets they name are told apart,   *)
(* and of any other store whether it holds anything.                       *)
(***************************************************************************)
EXTENDS Naturals, Sequences

CONSTANTS
  Services,     \* the services the script scales
  Apps,         \* the databases the phase resets, in its order
  Hilt,         \* the one whose rows name secrets
  Outside,      \* tables, buckets and Piri records
  WriterOf,     \* the service that has to run for one to be written
  Tenants,      \* what hilt has a row and a secret for
  Invocations,  \* Lambda invocations at work at one time
  MaxFailures   \* a bound: deaths of the script and of invocations

Databases == {Apps[k] : k \in 1..Len(Apps)}

ASSUME AppsAssumption ==
  /\ Apps \in Seq(Services) /\ Hilt \in Databases
  /\ \A j, k \in 1..Len(Apps) : Apps[j] = Apps[k] => j = k
  /\ Outside \cap Services = {}
ASSUME WritersAssumption == Outside # {} /\ WriterOf \in [Outside -> Services]
ASSUME MaxFailuresAssumption == MaxFailures \in Nat

VARIABLES
  desired,   \* ECS: the services whose desired count is one
  running,   \* ECS: the services with a task
  databases, \* Postgres: the app databases there are
  tenants,   \* hilt's rows
  secrets,   \* OpenBao: hilt's secrets
  stock,     \* the other databases and stores that hold anything
  script,    \* the operator's run of the script
  phase,     \* the reset-apps invocations
  exposed,   \* a service may have been up during a phase (history)
  failures   \* deaths so far (history)

vars == <<desired, running, databases, tenants, secrets, stock, script, phase,
          exposed, failures>>

ecsVars == <<desired, running>>
dataVars == <<databases, tenants, secrets, stock>>

Idle == [pc |-> "idle", left |-> {}]

ScriptState ==
  [pc : {"idle", "failed", "down", "quiet", "invoke", "answer", "empty", "up", "settle"},
   left : SUBSET (Services \cup Outside)]  \* what the loop has still to do

PhaseState == [pc : {"none", "drop", "create", "list", "destroy", "done", "failed"},
               at : Nat, left : SUBSET Tenants,
               answers : BOOLEAN]  \* the script at work waits for this one

NoPhase == [pc |-> "none", at |-> 1, left |-> {}, answers |-> FALSE]

InWindow == script.pc \in {"down", "quiet", "invoke", "answer", "empty"}
AtWork(p) == phase[p].pc \in {"drop", "create", "list", "destroy"}
SomeAtWork == \E p \in Invocations : AtWork(p)

Init ==
  /\ desired = Services /\ running = Services
  /\ databases = Databases
  /\ tenants = {} /\ secrets = {} /\ stock = {}
  /\ script = Idle
  /\ phase = [p \in Invocations |-> NoPhase]
  /\ exposed = FALSE /\ failures = 0

-----------------------------------------------------------------------------
(* The script, from the operator's approval on.                            *)

Start ==
  /\ script.pc \in {"idle", "failed"}
  /\ script' = [pc |-> "down", left |-> Services]
  /\ phase' = [p \in Invocations |-> [phase[p] EXCEPT !.answers = FALSE]]
  /\ exposed' = (exposed \/ SomeAtWork)
  /\ UNCHANGED <<ecsVars, dataVars, failures>>

(* One of a loop's steps done, and what follows the last.                  *)
Looped(x, next, left) ==
  IF script.left = {x} THEN [pc |-> next, left |-> left]
  ELSE [script EXCEPT !.left = @ \ {x}]

ScaleDown(s) ==
  /\ script.pc = "down" /\ s \in script.left
  /\ desired' = desired \ {s}
  /\ script' = Looped(s, "quiet", {})
  /\ UNCHANGED <<running, dataVars, phase, exposed, failures>>

(* The wait asks for what is desired, which need not be zero.              *)
AwaitQuiet ==
  /\ script.pc = "quiet" /\ running = desired
  /\ script' = [script EXCEPT !.pc = "invoke"]
  /\ UNCHANGED <<ecsVars, dataVars, phase, exposed, failures>>

(* The two jobs of a phase, in the order a failed run needs.               *)
JobsSwapped == <<"list", "drop">>
Jobs == <<"drop", "list">>
After(job) == IF Jobs[2] = job THEN "done" ELSE Jobs[2]

Invoke(p) ==
  /\ script.pc = "invoke" /\ ~AtWork(p)
  /\ phase' = [phase EXCEPT ![p] = [NoPhase EXCEPT !.pc = Jobs[1], !.answers = TRUE]]
  /\ script' = [script EXCEPT !.pc = "answer"]
  /\ UNCHANGED <<ecsVars, dataVars, exposed, failures>>

Emptying == [pc |-> "empty", left |-> Outside]

(* A failed phase that does not stop the script: bash drops errexit inside *)
(* a command substitution.                                                 *)
AnsweredAnyhow(p) ==
  /\ script.pc = "answer" /\ phase[p].answers /\ ~AtWork(p)
  /\ script' = Emptying
  /\ UNCHANGED <<ecsVars, dataVars, phase, exposed, failures>>

Answered(p) ==
  /\ script.pc = "answer" /\ phase[p].answers /\ ~AtWork(p)
  /\ script' = IF phase[p].pc = "done" THEN Emptying ELSE [Idle EXCEPT !.pc = "failed"]
  /\ UNCHANGED <<ecsVars, dataVars, phase, exposed, failures>>

EmptyStore(o) ==
  /\ script.pc = "empty" /\ o \in script.left
  /\ stock' = stock \ {o}
  /\ script' = Looped(o, "up", Services)
  /\ UNCHANGED <<ecsVars, databases, tenants, secrets, phase, exposed, failures>>

ScaleUp(s) ==
  /\ script.pc = "up" /\ s \in script.left
  /\ desired' = desired \cup {s}
  /\ script' = Looped(s, "settle", {})
  /\ UNCHANGED <<running, dataVars, phase, exposed, failures>>

AwaitServices ==
  /\ script.pc = "settle" /\ running = desired
  /\ script' = Idle
  /\ UNCHANGED <<ecsVars, dataVars, phase, exposed, failures>>

ScriptDies ==
  /\ script.pc \notin {"idle", "failed"} /\ failures < MaxFailures
  /\ script' = [Idle EXCEPT !.pc = "failed"]
  /\ failures' = failures + 1
  /\ UNCHANGED <<ecsVars, dataVars, phase, exposed>>

-----------------------------------------------------------------------------
(* The phase: each database dropped and recreated, then the secrets        *)
(* listed, and those destroyed one by one.                                 *)

Goto(p, next) ==
  /\ phase' = [phase EXCEPT ![p] = next]
  /\ UNCHANGED <<ecsVars, script, exposed, failures>>

Dropped(p) == [phase[p] EXCEPT !.pc = "create"]

LastOffByOne(p) == phase[p].at > Len(Apps)
Last(p) == phase[p].at = Len(Apps)

Onward(p) == IF Last(p) THEN [phase[p] EXCEPT !.pc = After("drop")]
             ELSE [phase[p] EXCEPT !.pc = "drop", !.at = phase[p].at + 1]

(* A missing database skipped, and not recreated either.                   *)
DropIfThere(p) ==
  /\ phase[p].pc = "drop"
  /\ LET app == Apps[phase[p].at] IN
       /\ databases' = databases \ {app}
       /\ tenants' = IF app = Hilt THEN {} ELSE tenants
       /\ stock' = stock \ {app}
       /\ Goto(p, IF app \in databases THEN Dropped(p) ELSE Onward(p))
  /\ UNCHANGED secrets

DropDatabase(p) ==
  /\ phase[p].pc = "drop"
  /\ LET app == Apps[phase[p].at] IN
       /\ databases' = databases \ {app}
       /\ tenants' = IF app = Hilt THEN {} ELSE tenants
       /\ stock' = stock \ {app}
  /\ Goto(p, Dropped(p))
  /\ UNCHANGED secrets

CreateDatabase(p) ==
  /\ phase[p].pc = "create"
  /\ databases' = databases \cup {Apps[phase[p].at]}
  /\ Goto(p, Onward(p))
  /\ UNCHANGED <<tenants, secrets, stock>>

ListSecrets(p) ==
  /\ phase[p].pc = "list"
  /\ Goto(p, [phase[p] EXCEPT !.pc = IF secrets = {} THEN After("list") ELSE "destroy",
                             !.left = secrets])
  /\ UNCHANGED dataVars

DestroySecret(p, t) ==
  /\ phase[p].pc = "destroy" /\ t \in phase[p].left
  /\ secrets' = secrets \ {t}
  /\ Goto(p, [phase[p] EXCEPT !.pc = IF phase[p].left = {t} THEN After("list") ELSE @,
                             !.left = @ \ {t}])
  /\ UNCHANGED <<databases, tenants, stock>>

PhaseFails(p) ==
  /\ AtWork(p) /\ failures < MaxFailures
  /\ phase' = [phase EXCEPT ![p].pc = "failed"]
  /\ failures' = failures + 1
  /\ UNCHANGED <<ecsVars, dataVars, script, exposed>>

-----------------------------------------------------------------------------
(* ECS, an apply of the apps' root, and what running services write.       *)

StartTask(s) ==
  /\ s \in desired \ running
  /\ running' = running \cup {s}
  /\ UNCHANGED <<desired, dataVars, script, phase, exposed, failures>>

StopTask(s) ==
  /\ s \in running \ desired
  /\ running' = running \ {s}
  /\ UNCHANGED <<desired, dataVars, script, phase, exposed, failures>>

Apply ==
  /\ desired' = Services
  /\ exposed' = (exposed \/ InWindow \/ SomeAtWork)
  /\ UNCHANGED <<running, dataVars, script, phase, failures>>

Provision(t) ==
  /\ Hilt \in running \cap databases
  /\ tenants' = tenants \cup {t}
  /\ secrets' = secrets \cup {t}
  /\ UNCHANGED <<ecsVars, databases, stock, script, phase, exposed, failures>>

Store(x) ==
  /\ \/ x \in (running \cap databases) \ {Hilt}
     \/ x \in Outside /\ WriterOf[x] \in running
  /\ stock' = stock \cup {x}
  /\ UNCHANGED <<ecsVars, databases, tenants, secrets, script, phase, exposed, failures>>

ScriptStep ==
  \/ AwaitQuiet \/ AwaitServices
  \/ \E s \in Services : ScaleDown(s) \/ ScaleUp(s)
  \/ \E p \in Invocations : Invoke(p) \/ Answered(p)
  \/ \E o \in Outside : EmptyStore(o)

PhaseStep(p) ==
  \/ DropDatabase(p) \/ CreateDatabase(p) \/ ListSecrets(p)
  \/ \E t \in Tenants : DestroySecret(p, t)

EcsStep(s) == StartTask(s) \/ StopTask(s)

Rerun == script.pc = "failed" /\ Start

Next ==
  \/ Start \/ ScriptStep \/ ScriptDies
  \/ \E p \in Invocations : PhaseStep(p) \/ PhaseFails(p)
  \/ \E s \in Services : EcsStep(s)
  \/ Apply
  \/ \E t \in Tenants : Provision(t)
  \/ \E x \in Services \cup Outside : Store(x)

(* ECS, the Lambda and the script go on by themselves, and the operator    *)
(* runs a script that stopped again, as it says to.                        *)
Fairness ==
  /\ WF_vars(ScriptStep) /\ WF_vars(Rerun)
  /\ \A p \in Invocations : WF_vars(PhaseStep(p))
  /\ \A s \in Services : WF_vars(EcsStep(s))

Spec == Init /\ [][Next]_vars /\ Fairness
-----------------------------------------------------------------------------
TypeOK ==
  /\ desired \subseteq Services /\ running \subseteq Services
  /\ databases \subseteq Databases
  /\ tenants \subseteq Tenants /\ secrets \subseteq Tenants
  /\ stock \subseteq Databases \cup Outside
  /\ script \in ScriptState
  /\ phase \in [Invocations -> PhaseState]
  /\ \A p \in Invocations : phase[p].at \in 1..Len(Apps)
  /\ exposed \in BOOLEAN /\ failures \in 0..MaxFailures

(* resetapps.go:133: the databases go before the secrets, so whatever dies *)
(* and is run again, hilt has no row whose secret is gone.  What it takes  *)
(* besides the order is that hilt is down meanwhile (docs/reset-apps.md:   *)
(* no push to main in the window) and that no phase of a dead run is still *)
(* at work when the script is run again, which nothing checks.             *)
RowsKeepTheirSecrets == ~exposed => tenants \subseteq secrets

(* reset-apps.sh:253-255: no service is up while a phase is at work.       *)
QuietDuringAPhase == ~exposed /\ SomeAtWork => running = {}

(* reset-apps.sh:27: a run that fails partway can be repeated from the     *)
(* start.  When a run is about to scale up again everything is wiped and   *)
(* every database is there, whatever earlier runs died on.                 *)
Wiped == databases = Databases /\ tenants = {} /\ secrets = {} /\ stock = {}

ResetIsComplete ==
  [][~exposed /\ script.pc # "up" /\ script'.pc = "up" => Wiped']_vars

(* The services come back: once a run has scaled anything down, in the end *)
(* every service runs again and has its database.                          *)
ServicesComeBack ==
  script.pc # "idle" ~> exposed \/ (running = Services /\ databases = Databases)
=============================================================================
