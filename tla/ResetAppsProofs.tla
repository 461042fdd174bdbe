-------------------------- MODULE ResetAppsProofs ---------------------------
(***************************************************************************)
(* What holds of ResetApps for any services, databases, tenants and number *)
(* of deaths: while nothing was exposed, hilt is down from the wait to the *)
(* last store emptied, one phase at most is at work, and it does its jobs  *)
(* in order, so no row loses its secret and a finished run has wiped all.  *)
(***************************************************************************)
EXTENDS ResetApps, TLAPS

(* What the walk over the first n databases has done.                      *)
Cleared(n) ==
  \A m \in 1..n :
    /\ Apps[m] \in databases /\ Apps[m] \notin stock
    /\ Apps[m] = Hilt => tenants = {}

(* How far a phase at work has come.                                       *)
Progress(p) ==
  /\ phase[p].pc \in {"drop", "create"} => Cleared(phase[p].at - 1)
  /\ phase[p].pc = "create" =>
       /\ Apps[phase[p].at] \notin stock
       /\ Apps[phase[p].at] = Hilt => tenants = {}
  /\ phase[p].pc \in {"list", "destroy"} => Cleared(Len(Apps))
  /\ phase[p].pc = "destroy" => secrets \subseteq phase[p].left

(* Where the script waits for an answer, and whose.                        *)
Answers ==
  /\ script.pc \in {"down", "quiet", "invoke"} => \A p \in Invocations : ~phase[p].answers
  /\ \A p, q \in Invocations : phase[p].answers /\ phase[q].answers => p = q

Down == desired = {} /\ running = {}

ScaledDown ==
  /\ script.pc = "down" => desired \subseteq script.left
  /\ script.pc = "quiet" => desired = {}
  /\ script.pc \in {"invoke", "answer", "empty"} => Down

OneAtWork ==
  \A p \in Invocations : AtWork(p) =>
    /\ Down /\ Progress(p)
    /\ \/ script.pc = "failed"
       \/ script.pc = "answer" /\ phase[p].answers
    /\ \A q \in Invocations : AtWork(q) => p = q

AllCleared == Cleared(Len(Apps)) /\ secrets = {}

WipedSoFar ==
  /\ \A p \in Invocations :
       script.pc = "answer" /\ phase[p].answers /\ phase[p].pc = "done" => AllCleared
  /\ script.pc = "empty" => AllCleared /\ stock \subseteq script.left

Calm == ScaledDown /\ OneAtWork /\ WipedSoFar /\ tenants \subseteq secrets

Inv == TypeOK /\ Answers /\ (~exposed => Calm)

-----------------------------------------------------------------------------
LEMMA AppsFacts ==
  /\ Len(Apps) \in Nat \ {0} /\ \A k \in 1..Len(Apps) : Apps[k] \in Databases
  /\ Databases \subseteq Services
  /\ \E k \in 1..Len(Apps) : Apps[k] = Hilt
<1>1. Apps \in Seq(Services) /\ Hilt \in Databases
  BY AppsAssumption DEF AppsAssumption
<1>2. \E k \in 1..Len(Apps) : Apps[k] = Hilt
  BY <1>1 DEF Databases
<1>3. QED
  BY <1>1, <1>2 DEF Databases

(* Every database walked over: nothing is left in any.                     *)
LEMMA ClearedAll ==
  ASSUME TypeOK, Cleared(Len(Apps))
  PROVE  databases = Databases /\ tenants = {} /\ stock \cap Databases = {}
  BY AppsFacts DEF Cleared, TypeOK, Databases

LEMMA GotoType ==
  ASSUME TypeOK, NEW p \in Invocations, NEW r \in PhaseState, r.at \in 1..Len(Apps),
         Goto(p, r)
  PROVE  /\ phase' \in [Invocations -> PhaseState]
         /\ \A q \in Invocations : phase'[q].at \in 1..Len(Apps)
         /\ phase'[p] = r /\ \A q \in Invocations \ {p} : phase'[q] = phase[q]
         /\ UNCHANGED <<desired, running, script, exposed, failures>>
  BY DEF TypeOK, Goto, ecsVars

(* The records a phase goes through.                                       *)
LEMMA Records ==
  ASSUME TypeOK, NEW p \in Invocations
  PROVE  /\ Dropped(p) \in PhaseState /\ Dropped(p).pc = "create"
         /\ Dropped(p).at = phase[p].at /\ Dropped(p).answers = phase[p].answers
         /\ Onward(p) \in PhaseState /\ Onward(p).at \in 1..Len(Apps)
         /\ Onward(p).answers = phase[p].answers
         /\ Last(p) => Onward(p).pc = "list"
         /\ ~Last(p) => Onward(p).pc = "drop" /\ Onward(p).at = phase[p].at + 1
<1>1. phase[p] \in PhaseState /\ phase[p].at \in 1..Len(Apps)
  BY DEF TypeOK
<1>2. /\ Dropped(p) \in PhaseState /\ Dropped(p).pc = "create"
      /\ Dropped(p).at = phase[p].at /\ Dropped(p).answers = phase[p].answers
  BY <1>1 DEF Dropped, PhaseState
<1>3. After("drop") = "list"
  BY DEF After, Jobs
<1>4. CASE Last(p)
  <2>1. Onward(p) = [phase[p] EXCEPT !.pc = "list"]
    BY <1>3, <1>4 DEF Onward
  <2>2. QED
    BY <1>1, <1>2, <1>4, <2>1 DEF PhaseState
<1>5. CASE ~Last(p)
  <2>1. Onward(p) = [phase[p] EXCEPT !.pc = "drop", !.at = phase[p].at + 1]
    BY <1>5 DEF Onward
  <2>2. phase[p].at + 1 \in 1..Len(Apps)
    BY <1>1, <1>5, AppsFacts DEF Last
  <2>3. PICK k \in 1..Len(Apps) : k = phase[p].at + 1
    BY <2>2
  <2>4. Onward(p) = [phase[p] EXCEPT !.pc = "drop", !.at = k]
    BY <2>1, <2>3
  <2>5. /\ Onward(p) \in PhaseState /\ Onward(p).at = k /\ Onward(p).pc = "drop"
        /\ Onward(p).answers = phase[p].answers
    <3>1. k \in Nat
      BY <2>2, <2>3, AppsFacts
    <3>2. QED
      BY <1>1, <2>4, <3>1 DEF PhaseState
  <2>6. QED
    BY <1>2, <1>5, <2>3, <2>5
<1>6. QED
  BY <1>4, <1>5

(* What one step of a phase does to it and to the stores.                  *)
LEMMA PhaseMoves ==
  ASSUME TypeOK, NEW p \in Invocations, PhaseStep(p)
  PROVE  \E r \in PhaseState :
           /\ Goto(p, r) /\ r.at \in 1..Len(Apps) /\ r.answers = phase[p].answers
           /\ AtWork(p)
           /\ \/ /\ phase[p].pc = "drop" /\ r.pc = "create" /\ r.at = phase[p].at
                 /\ DropDatabase(p)
              \/ /\ phase[p].pc = "create" /\ CreateDatabase(p)
                 /\ Last(p) => r.pc = "list"
                 /\ ~Last(p) => r.pc = "drop" /\ r.at = phase[p].at + 1
              \/ /\ phase[p].pc = "list" /\ UNCHANGED dataVars
                 /\ r.left = secrets /\ r.pc = (IF secrets = {} THEN "done" ELSE "destroy")
              \/ /\ phase[p].pc = "destroy" /\ UNCHANGED <<databases, tenants, stock>>
                 /\ \E t \in phase[p].left :
                      /\ secrets' = secrets \ {t} /\ r.left = phase[p].left \ {t}
                      /\ r.pc = (IF phase[p].left = {t} THEN "done" ELSE "destroy")
<1>1. phase[p] \in PhaseState /\ phase[p].at \in 1..Len(Apps) /\ secrets \subseteq Tenants
  BY DEF TypeOK
<1>2. CASE DropDatabase(p)
  <2>1. Goto(p, Dropped(p)) /\ phase[p].pc = "drop" /\ AtWork(p)
    BY <1>2 DEF DropDatabase, AtWork
  <2>2. QED
    BY <1>1, <1>2, <2>1, Records
<1>3. CASE CreateDatabase(p)
  <2>1. Goto(p, Onward(p)) /\ phase[p].pc = "create" /\ AtWork(p)
    BY <1>3 DEF CreateDatabase, AtWork
  <2>2. QED
    BY <1>1, <1>3, <2>1, Records
<1>4. After("list") = "done"
  BY DEF After, Jobs
<1>5. CASE ListSecrets(p)
  <2>1. PICK g \in {"destroy", "done"} : g = IF secrets = {} THEN "done" ELSE "destroy"
    OBVIOUS
  <2>2. PICK r : r = [phase[p] EXCEPT !.pc = g, !.left = secrets]
    OBVIOUS
  <2>3. Goto(p, r) /\ phase[p].pc = "list" /\ AtWork(p) /\ UNCHANGED dataVars
    BY <1>4, <1>5, <2>1, <2>2 DEF ListSecrets, AtWork
  <2>4. /\ r \in PhaseState /\ r.pc = g /\ r.left = secrets
        /\ r.at = phase[p].at /\ r.answers = phase[p].answers
    BY <1>1, <2>2 DEF PhaseState
  <2>5. QED
    BY <1>1, <2>1, <2>3, <2>4
<1>6. ASSUME NEW t \in Tenants, DestroySecret(p, t)
      PROVE  \E r \in PhaseState :
               /\ Goto(p, r) /\ r.at = phase[p].at /\ r.answers = phase[p].answers
               /\ secrets' = secrets \ {t} /\ r.left = phase[p].left \ {t}
               /\ r.pc = (IF phase[p].left = {t} THEN "done" ELSE "destroy")
  <2>1. phase[p].pc = "destroy" /\ secrets' = secrets \ {t}
    BY <1>6 DEF DestroySecret
  <2>2. PICK g \in {"destroy", "done"} :
          g = IF phase[p].left = {t} THEN "done" ELSE "destroy"
    OBVIOUS
  <2>3. PICK S \in SUBSET Tenants : S = phase[p].left \ {t}
    BY <1>1 DEF PhaseState
  <2>4. PICK r : r = [phase[p] EXCEPT !.pc = g, !.left = S]
    OBVIOUS
  <2>5. Goto(p, r)
    <3>1. r = [phase[p] EXCEPT !.pc = IF phase[p].left = {t} THEN After("list") ELSE @,
                               !.left = @ \ {t}]
      BY <1>1, <1>4, <2>1, <2>2, <2>3, <2>4 DEF PhaseState
    <3>2. QED
      BY <1>6, <3>1 DEF DestroySecret
  <2>6. /\ r \in PhaseState /\ r.pc = g /\ r.left = S
        /\ r.at = phase[p].at /\ r.answers = phase[p].answers
    BY <1>1, <2>4 DEF PhaseState
  <2>7. QED
    BY <2>1, <2>2, <2>3, <2>5, <2>6
<1>7. CASE \E t \in Tenants : DestroySecret(p, t)
  <2>1. PICK t \in Tenants : DestroySecret(p, t)
    BY <1>7
  <2>2. /\ phase[p].pc = "destroy" /\ AtWork(p) /\ t \in phase[p].left
        /\ UNCHANGED <<databases, tenants, stock>>
    BY <2>1 DEF DestroySecret, AtWork
  <2>3. QED
    BY <1>1, <1>6, <2>1, <2>2
<1>8. QED
  BY <1>2, <1>3, <1>5, <1>7 DEF PhaseStep

-----------------------------------------------------------------------------
LEMMA TypeInit == Init => TypeOK
<1> SUFFICES ASSUME Init PROVE TypeOK
  OBVIOUS
<1>1. NoPhase \in PhaseState /\ NoPhase.at \in 1..Len(Apps)
  BY AppsFacts DEF NoPhase, PhaseState
<1>2. Idle \in ScriptState
  BY DEF Idle, ScriptState
<1>3. /\ phase \in [Invocations -> PhaseState]
      /\ \A p \in Invocations : phase[p].at \in 1..Len(Apps)
  BY <1>1 DEF Init
<1>4. exposed \in BOOLEAN /\ failures \in 0..MaxFailures
  <2>1. exposed \in BOOLEAN
    BY Zenon DEF Init
  <2>2. failures = 0
    BY DEF Init
  <2>3. failures \in 0..MaxFailures
    BY <2>2, MaxFailuresAssumption DEF MaxFailuresAssumption
  <2>4. QED
    BY <2>1, <2>3
<1>5. /\ desired \subseteq Services /\ running \subseteq Services
      /\ databases \subseteq Databases
      /\ tenants \subseteq Tenants /\ secrets \subseteq Tenants
      /\ stock \subseteq Databases \cup Outside /\ script \in ScriptState
  <2>1. /\ desired = Services /\ running = Services /\ databases = Databases
        /\ tenants = {} /\ secrets = {} /\ stock = {} /\ script = Idle
    BY DEF Init
  <2>2. QED
    BY <1>2, <2>1
<1>6. QED
  BY <1>3, <1>4, <1>5, Zenon DEF TypeOK

(* What a loop leaves of its list.                                         *)
LEMMA LoopedFacts ==
  ASSUME TypeOK, NEW x \in script.left, NEW next \in {"quiet", "up", "settle"},
         NEW left \in SUBSET Services, NEW s, s = Looped(x, next, left)
  PROVE  /\ s \in ScriptState
         /\ script.left = {x} => s.pc = next /\ s.left = left
         /\ script.left # {x} => s.pc = script.pc /\ s.left = script.left \ {x}
<1>1. script \in ScriptState
  BY DEF TypeOK
<1>2. CASE script.left = {x}
  <2>1. s = [pc |-> next, left |-> left]
    BY <1>2 DEF Looped
  <2>2. QED
    BY <1>2, <2>1 DEF ScriptState
<1>3. CASE script.left # {x}
  <2>1. s = [script EXCEPT !.left = script.left \ {x}]
    BY <1>3 DEF Looped
  <2>2. QED
    BY <1>1, <1>3, <2>1 DEF ScriptState
<1>4. QED
  BY <1>2, <1>3

LEMMA TypeScript ==
  ASSUME TypeOK, ScriptStep \/ ScriptDies
  PROVE  TypeOK'
<1>1. script \in ScriptState
  BY DEF TypeOK
<1>2. CASE AwaitQuiet
  BY <1>1, <1>2 DEF AwaitQuiet, TypeOK, ScriptState, ecsVars, dataVars
<1>3. CASE AwaitServices
  BY <1>3 DEF AwaitServices, TypeOK, ScriptState, Idle, ecsVars, dataVars
<1>4. CASE \E s \in Services : ScaleDown(s)
  <2>1. PICK s \in Services : ScaleDown(s)
    BY <1>4
  <2>2. Looped(s, "quiet", {}) \in ScriptState
    BY <2>1, LoopedFacts DEF ScaleDown
  <2>3. QED
    BY <2>1, <2>2 DEF ScaleDown, TypeOK, dataVars
<1>5. CASE \E s \in Services : ScaleUp(s)
  <2>1. PICK s \in Services : ScaleUp(s)
    BY <1>5
  <2>2. Looped(s, "settle", {}) \in ScriptState
    BY <2>1, LoopedFacts DEF ScaleUp
  <2>3. QED
    BY <2>1, <2>2 DEF ScaleUp, TypeOK, dataVars
<1>6. CASE \E o \in Outside : EmptyStore(o)
  <2>1. PICK o \in Outside : EmptyStore(o)
    BY <1>6
  <2>2. Looped(o, "up", Services) \in ScriptState
    BY <2>1, LoopedFacts DEF EmptyStore
  <2>3. QED
    BY <2>1, <2>2 DEF EmptyStore, TypeOK, ecsVars
<1>7. CASE \E p \in Invocations : Invoke(p)
  <2>1. PICK p \in Invocations : Invoke(p)
    BY <1>7
  <2>2. PICK r : r = [NoPhase EXCEPT !.pc = Jobs[1], !.answers = TRUE]
    OBVIOUS
  <2>3. r \in PhaseState /\ r.at \in 1..Len(Apps)
    <3>1. PICK b \in BOOLEAN : b = TRUE
      OBVIOUS
    <3>2. r = [pc |-> "drop", at |-> 1, left |-> {}, answers |-> b]
      BY <2>2, <3>1 DEF NoPhase, Jobs
    <3>3. QED
      BY <3>2, AppsFacts DEF PhaseState
  <2>4. phase' = [phase EXCEPT ![p] = r]
    BY <2>1, <2>2 DEF Invoke
  <2>5. [script EXCEPT !.pc = "answer"] \in ScriptState
    BY <1>1 DEF ScriptState
  <2>6. QED
    BY <2>1, <2>3, <2>4, <2>5 DEF Invoke, TypeOK, ecsVars, dataVars
<1>8. CASE \E p \in Invocations : Answered(p)
  <2>1. PICK p \in Invocations : Answered(p)
    BY <1>8
  <2>2. Emptying \in ScriptState /\ [Idle EXCEPT !.pc = "failed"] \in ScriptState
    BY DEF Emptying, Idle, ScriptState
  <2>3. QED
    BY <2>1, <2>2 DEF Answered, TypeOK, ecsVars, dataVars
<1>9. CASE ScriptDies
  <2>1. [Idle EXCEPT !.pc = "failed"] \in ScriptState
    BY DEF Idle, ScriptState
  <2>2. QED
    BY <1>9, <2>1, MaxFailuresAssumption
       DEF ScriptDies, TypeOK, ecsVars, dataVars, MaxFailuresAssumption
<1>10. QED
  BY <1>2, <1>3, <1>4, <1>5, <1>6, <1>7, <1>8, <1>9 DEF ScriptStep

LEMMA TypeStart ==
  ASSUME TypeOK, Start
  PROVE  /\ TypeOK'
         /\ \A p \in Invocations :
              /\ phase'[p].pc = phase[p].pc /\ phase'[p].at = phase[p].at
              /\ phase'[p].left = phase[p].left /\ ~phase'[p].answers
<1>1. ASSUME NEW p \in Invocations
      PROVE  /\ phase'[p] \in PhaseState /\ phase'[p].at = phase[p].at
             /\ phase'[p].pc = phase[p].pc /\ phase'[p].left = phase[p].left
             /\ ~phase'[p].answers
  <2>1. phase[p] \in PhaseState
    BY DEF TypeOK
  <2>2. phase'[p] = [phase[p] EXCEPT !.answers = FALSE]
    BY DEF Start
  <2>3. QED
    BY <2>1, <2>2 DEF PhaseState
<1>2. phase' \in [Invocations -> PhaseState]
  BY <1>1 DEF Start
<1>3. script' \in ScriptState /\ exposed' \in BOOLEAN
  BY DEF Start, ScriptState, TypeOK, SomeAtWork
<1>4. QED
  BY <1>1, <1>2, <1>3 DEF Start, TypeOK, ecsVars, dataVars

LEMMA TypePhase ==
  ASSUME TypeOK, NEW p \in Invocations, PhaseStep(p)
  PROVE  TypeOK'
<1>1. PICK r \in PhaseState :
        /\ Goto(p, r) /\ r.at \in 1..Len(Apps)
        /\ \/ DropDatabase(p) \/ CreateDatabase(p) \/ UNCHANGED dataVars
           \/ /\ UNCHANGED <<databases, tenants, stock>>
              /\ \E t \in phase[p].left : secrets' = secrets \ {t}
  BY PhaseMoves
<1>2. /\ databases' \subseteq Databases /\ tenants' \subseteq Tenants
      /\ secrets' \subseteq Tenants /\ stock' \subseteq Databases \cup Outside
  <2>1. Apps[phase[p].at] \in Databases
    BY AppsFacts DEF TypeOK
  <2>2. QED
    BY <1>1, <2>1 DEF TypeOK, DropDatabase, CreateDatabase, dataVars
<1>3. QED
  BY <1>1, <1>2, GotoType DEF TypeOK

LEMMA TypeNext == TypeOK /\ [Next]_vars => TypeOK'
<1> SUFFICES ASSUME TypeOK, [Next]_vars PROVE TypeOK'
  OBVIOUS
<1>1. CASE Start
  BY <1>1, TypeStart
<1>2. CASE ScriptStep \/ ScriptDies
  BY <1>2, TypeScript
<1>3. ASSUME NEW p \in Invocations, PhaseFails(p) PROVE TypeOK'
  <2>1. PICK r : r = [phase[p] EXCEPT !.pc = "failed"]
    OBVIOUS
  <2>2. r \in PhaseState /\ r.at = phase[p].at
    BY <2>1 DEF TypeOK, PhaseState
  <2>3. phase' = [phase EXCEPT ![p] = r]
    BY <1>3, <2>1 DEF PhaseFails
  <2>4. QED
    BY <1>3, <2>2, <2>3, MaxFailuresAssumption
       DEF PhaseFails, TypeOK, ecsVars, dataVars, MaxFailuresAssumption
<1>4. ASSUME NEW s \in Services, EcsStep(s) PROVE TypeOK'
  BY <1>4 DEF EcsStep, StartTask, StopTask, TypeOK, dataVars
<1>5. CASE Apply
  BY <1>5 DEF Apply, TypeOK, dataVars, InWindow, SomeAtWork
<1>6. ASSUME NEW t \in Tenants, Provision(t) PROVE TypeOK'
  BY <1>6 DEF Provision, TypeOK, ecsVars
<1>7. ASSUME NEW x \in Services \cup Outside, Store(x) PROVE TypeOK'
  BY <1>7 DEF Store, TypeOK, ecsVars
<1>8. CASE UNCHANGED vars
  BY <1>8 DEF vars, TypeOK
<1>9. QED
  BY <1>1, <1>2, <1>3, <1>4, <1>5, <1>6, <1>7, <1>8, TypePhase DEF Next

(* The stage stays within the names and records the model speaks of.       *)
THEOREM TypeCorrect == Spec => []TypeOK
  BY TypeInit, TypeNext, PTL DEF Spec

-----------------------------------------------------------------------------
LEMMA AnswersNext ==
  ASSUME TypeOK, Answers, [Next]_vars
  PROVE  Answers'
<1>1. CASE Start
  BY <1>1, TypeStart DEF Answers
<1>2. ASSUME NEW p \in Invocations, Invoke(p) PROVE Answers'
  <2>1. \A q \in Invocations : ~phase[q].answers
    BY <1>2 DEF Answers, Invoke
  <2>2. \A q \in Invocations \ {p} : phase'[q] = phase[q]
    BY <1>2 DEF Invoke, TypeOK
  <2>3. script'.pc = "answer"
    BY <1>2 DEF Invoke, TypeOK, ScriptState
  <2>4. \A q \in Invocations : phase'[q].answers => q = p
    BY <2>1, <2>2
  <2>5. QED
    BY <2>3, <2>4 DEF Answers
<1>3. ASSUME NEW p \in Invocations, PhaseStep(p) \/ PhaseFails(p) PROVE Answers'
  <2>1. script' = script /\ \A q \in Invocations : phase'[q].answers = phase[q].answers
    <3>1. CASE PhaseStep(p)
      <4>1. PICK r \in PhaseState : Goto(p, r) /\ r.at \in 1..Len(Apps)
                                    /\ r.answers = phase[p].answers
        BY <3>1, PhaseMoves
      <4>2. QED
        BY <4>1, GotoType
    <3>2. CASE PhaseFails(p)
      <4>1. script' = script /\ phase' = [phase EXCEPT ![p].pc = "failed"]
        BY <3>2 DEF PhaseFails
      <4>2. QED
        BY <4>1 DEF TypeOK, PhaseState
    <3>3. QED
      BY <1>3, <3>1, <3>2
  <2>2. QED
    BY <2>1 DEF Answers
<1>4. CASE phase' = phase /\ (script'.pc \in {"down", "quiet", "invoke"}
                              => script.pc \in {"down", "quiet", "invoke"})
  BY <1>4 DEF Answers
<1>5. CASE UNCHANGED <<phase, script>>
  BY <1>5 DEF Answers
<1>6. CASE ScriptStep \/ ScriptDies
  <2>1. script \in ScriptState
    BY DEF TypeOK
  <2>2. CASE AwaitQuiet
    BY <1>4, <2>2 DEF AwaitQuiet
  <2>3. CASE AwaitServices
    BY <1>4, <2>3 DEF AwaitServices, Idle
  <2>4. CASE ScriptDies
    BY <1>4, <2>4 DEF ScriptDies, Idle
  <2>5. ASSUME NEW s \in Services, ScaleDown(s) \/ ScaleUp(s) PROVE Answers'
    <3>1. CASE ScaleDown(s)
      BY <1>4, <3>1 DEF ScaleDown
    <3>2. CASE ScaleUp(s)
      <4>1. script'.pc \in {"up", "settle"}
        BY <3>2, LoopedFacts DEF ScaleUp
      <4>2. QED
        BY <1>4, <3>2, <4>1 DEF ScaleUp
    <3>3. QED
      BY <2>5, <3>1, <3>2
  <2>6. ASSUME NEW o \in Outside, EmptyStore(o) PROVE Answers'
    <3>1. script'.pc \in {"empty", "up"}
      BY <2>6, LoopedFacts DEF EmptyStore
    <3>2. QED
      BY <1>4, <2>6, <3>1 DEF EmptyStore
  <2>7. ASSUME NEW p \in Invocations, Answered(p) PROVE Answers'
    BY <1>4, <2>7 DEF Answered, Emptying, Idle
  <2>8. QED
    BY <1>2, <1>6, <2>2, <2>3, <2>4, <2>5, <2>6, <2>7 DEF ScriptStep
<1>7. QED
  BY <1>1, <1>3, <1>5, <1>6
     DEF Next, EcsStep, StartTask, StopTask, Apply, Provision, Store, vars

(* A step that takes one phase on and leaves the script and ECS alone.     *)
LEMMA PhaseGoesOn ==
  ASSUME TypeOK, Answers, Calm, NEW p \in Invocations, AtWork(p),
         \A q \in Invocations \ {p} : phase'[q] = phase[q],
         phase'[p].answers = phase[p].answers,
         UNCHANGED <<desired, running, script>>,
         Progress(p)', phase'[p].pc = "done" => AllCleared',
         tenants' \subseteq secrets'
  PROVE  Calm'
<1>1. /\ Down
      /\ script.pc = "failed" \/ (script.pc = "answer" /\ phase[p].answers)
      /\ \A q \in Invocations : AtWork(q) => p = q
  BY DEF Calm, OneAtWork
<1>2. ScaledDown'
  BY DEF Calm, ScaledDown, Down
<1>3. \A q \in Invocations : AtWork(q)' => p = q
  BY <1>1 DEF AtWork
<1>4. OneAtWork'
  BY <1>1, <1>3 DEF OneAtWork, Down
<1>5. WipedSoFar'
  <2>1. script'.pc # "empty"
    BY <1>1
  <2>2. ASSUME NEW q \in Invocations, script'.pc = "answer", phase'[q].answers,
               phase'[q].pc = "done"
        PROVE  AllCleared'
    <3>1. phase[p].answers /\ phase[q].answers
      BY <1>1, <2>2
    <3>2. q = p
      BY <3>1 DEF Answers
    <3>3. QED
      BY <2>2, <3>2
  <2>3. QED
    BY <2>1, <2>2 DEF WipedSoFar
<1>6. QED
  BY <1>2, <1>4, <1>5 DEF Calm

(* A phase takes a step.                                                   *)
LEMMA CalmPhase ==
  ASSUME TypeOK, Answers, Calm, NEW p \in Invocations, PhaseStep(p)
  PROVE  Calm'
<1>1. PICK r \in PhaseState :
        /\ Goto(p, r) /\ r.at \in 1..Len(Apps) /\ r.answers = phase[p].answers
        /\ AtWork(p)
        /\ \/ /\ phase[p].pc = "drop" /\ r.pc = "create" /\ r.at = phase[p].at
              /\ DropDatabase(p)
           \/ /\ phase[p].pc = "create" /\ CreateDatabase(p)
              /\ Last(p) => r.pc = "list"
              /\ ~Last(p) => r.pc = "drop" /\ r.at = phase[p].at + 1
           \/ /\ phase[p].pc = "list" /\ UNCHANGED dataVars
              /\ r.left = secrets /\ r.pc = (IF secrets = {} THEN "done" ELSE "destroy")
           \/ /\ phase[p].pc = "destroy" /\ UNCHANGED <<databases, tenants, stock>>
              /\ \E t \in phase[p].left :
                   /\ secrets' = secrets \ {t} /\ r.left = phase[p].left \ {t}
                   /\ r.pc = (IF phase[p].left = {t} THEN "done" ELSE "destroy")
  BY PhaseMoves
<1>2. /\ Down /\ Progress(p)
      /\ script.pc = "failed" \/ (script.pc = "answer" /\ phase[p].answers)
      /\ \A q \in Invocations : AtWork(q) => p = q
  BY <1>1 DEF Calm, OneAtWork
<1>3. /\ phase'[p] = r /\ \A q \in Invocations \ {p} : phase'[q] = phase[q]
      /\ UNCHANGED <<desired, running, script>>
  BY <1>1, GotoType
<1>4. phase[p].at \in 1..Len(Apps) /\ Len(Apps) \in Nat
  BY AppsFacts DEF TypeOK
<1>5. CASE phase[p].pc = "drop"
  <2>1. DropDatabase(p) /\ r.pc = "create" /\ r.at = phase[p].at
    BY <1>1, <1>5
  <2>2. /\ databases' = databases \ {Apps[r.at]}
        /\ tenants' = IF Apps[r.at] = Hilt THEN {} ELSE tenants
        /\ stock' = stock \ {Apps[r.at]} /\ secrets' = secrets
    BY <2>1 DEF DropDatabase
  <2>3. PICK k \in 1..Len(Apps) : k = phase[p].at
    BY <1>4
  <2>4. Cleared(k - 1) /\ tenants \subseteq secrets
    BY <1>2, <1>5, <2>3 DEF Progress, Calm
  <2>5. \A m \in 1..(k - 1) : Apps[m] # Apps[k]
    BY <1>4, <2>3, AppsAssumption DEF AppsAssumption
  <2>6. Cleared(k - 1)'
    BY <2>1, <2>2, <2>3, <2>4, <2>5 DEF Cleared
  <2>7. Progress(p)'
    BY <1>3, <2>1, <2>2, <2>3, <2>6 DEF Progress
  <2>8. tenants' \subseteq secrets'
    BY <2>2, <2>4
  <2>9. QED
    BY <1>1, <1>3, <2>1, <2>7, <2>8, PhaseGoesOn
<1>6. CASE phase[p].pc = "create"
  <2>1. /\ databases' = databases \cup {Apps[phase[p].at]}
        /\ UNCHANGED <<tenants, secrets, stock>>
        /\ Last(p) => r.pc = "list"
        /\ ~Last(p) => r.pc = "drop" /\ r.at = phase[p].at + 1
    BY <1>1, <1>6 DEF CreateDatabase
  <2>2. PICK k \in 1..Len(Apps) : k = phase[p].at
    BY <1>4
  <2>3. /\ Cleared(k - 1) /\ Apps[k] \notin stock
        /\ Apps[k] = Hilt => tenants = {}
    BY <1>2, <1>6, <2>2 DEF Progress
  <2>4. Cleared(k)'
    <3>1. \A m \in 1..k : m \in 1..(k - 1) \/ m = k
      BY <1>4
    <3>2. QED
      BY <2>1, <2>2, <2>3, <3>1 DEF Cleared
  <2>5. Progress(p)'
    <3>1. CASE Last(p)
      <4>1. k = Len(Apps) /\ r.pc = "list"
        BY <2>1, <2>2, <3>1 DEF Last
      <4>2. Cleared(Len(Apps))'
        BY <2>4, <4>1 DEF Cleared
      <4>3. QED
        BY <1>3, <4>1, <4>2 DEF Progress
    <3>2. CASE ~Last(p)
      <4>1. r.pc = "drop" /\ r.at - 1 = k
        BY <1>4, <2>1, <2>2, <3>2
      <4>2. QED
        BY <1>3, <2>4, <4>1 DEF Progress, Cleared
    <3>3. QED
      BY <3>1, <3>2
  <2>6. r.pc # "done" /\ tenants' \subseteq secrets'
    BY <2>1 DEF Calm
  <2>7. QED
    BY <1>1, <1>3, <2>5, <2>6, PhaseGoesOn
<1>7. CASE phase[p].pc \in {"list", "destroy"}
  <2>1. /\ UNCHANGED <<databases, tenants, stock>>
        /\ r.pc \in {"destroy", "done"}
        /\ secrets' \subseteq r.left
        /\ r.pc = "done" => secrets' = {}
    BY <1>1, <1>2, <1>7 DEF dataVars, Progress
  <2>2. Cleared(Len(Apps)) /\ Cleared(Len(Apps))'
    BY <1>2, <1>7, <2>1 DEF Progress, Cleared
  <2>3. tenants' = {}
    BY <2>1, <2>2, ClearedAll
  <2>4. Progress(p)' /\ (r.pc = "done" => AllCleared')
    BY <1>3, <2>1, <2>2 DEF Progress, AllCleared
  <2>5. tenants' \subseteq secrets'
    BY <2>3
  <2>6. QED
    BY <1>1, <1>3, <2>4, <2>5, PhaseGoesOn
<1>8. QED
  BY <1>1, <1>5, <1>6, <1>7

LEMMA CalmFails ==
  ASSUME TypeOK, Answers, Calm, NEW p \in Invocations, PhaseFails(p)
  PROVE  Calm'
<1>1. PICK r : r = [phase[p] EXCEPT !.pc = "failed"]
  OBVIOUS
<1>2. phase' = [phase EXCEPT ![p] = r]
  BY <1>1 DEF PhaseFails
<1>3. r.pc = "failed" /\ r.answers = phase[p].answers
  BY <1>1 DEF TypeOK, PhaseState
<1>4. phase'[p] = r /\ \A q \in Invocations \ {p} : phase'[q] = phase[q]
  BY <1>2 DEF TypeOK
<1>5. Progress(p)' /\ phase'[p].pc # "done"
  BY <1>3, <1>4 DEF Progress
<1>6. AtWork(p) /\ UNCHANGED <<desired, running, script>> /\ tenants' \subseteq secrets'
  BY DEF PhaseFails, ecsVars, dataVars, Calm
<1>7. QED
  BY <1>3, <1>4, <1>5, <1>6, PhaseGoesOn

(* Nothing is at work, and no answer is being waited for.                  *)
LEMMA CalmAlone ==
  ASSUME \A p \in Invocations : ~AtWork(p)', ScaledDown',
         script'.pc \notin {"answer", "empty"}, tenants' \subseteq secrets'
  PROVE  Calm'
  BY DEF Calm, OneAtWork, WipedSoFar

LEMMA CalmStart ==
  ASSUME TypeOK, Calm, Start, ~exposed'
  PROVE  Calm'
<1>1. \A p \in Invocations : ~AtWork(p)'
  <2>1. \A p \in Invocations : ~AtWork(p)
    BY DEF Start, SomeAtWork
  <2>2. QED
    BY <2>1, TypeStart DEF AtWork
<1>2. script' = [pc |-> "down", left |-> Services] /\ desired' \subseteq Services
  BY DEF Start, TypeOK, ecsVars
<1>3. ScaledDown' /\ script'.pc \notin {"answer", "empty"}
  BY <1>2 DEF ScaledDown
<1>4. tenants' \subseteq secrets'
  BY DEF Start, dataVars, Calm
<1>5. QED
  BY <1>1, <1>3, <1>4, CalmAlone

(* The script's steps before it invokes and after it emptied the stores.   *)
LEMMA CalmScaling ==
  ASSUME TypeOK, Calm,
         \/ AwaitQuiet \/ AwaitServices
         \/ \E s \in Services : ScaleDown(s) \/ ScaleUp(s)
  PROVE  Calm'
<1>1. /\ script.pc \in {"down", "quiet", "up", "settle"}
      /\ UNCHANGED <<dataVars, running, phase>>
  BY DEF AwaitQuiet, AwaitServices, ScaleDown, ScaleUp, ecsVars
<1>2. \A p \in Invocations : ~AtWork(p)'
  <2>1. \A p \in Invocations : ~AtWork(p)
    BY <1>1 DEF Calm, OneAtWork
  <2>2. QED
    BY <1>1, <2>1 DEF AtWork
<1>3. tenants' \subseteq secrets'
  BY <1>1 DEF Calm, dataVars
<1>4. ScaledDown' /\ script'.pc \notin {"answer", "empty"}
  <2>1. CASE AwaitQuiet
    <3>1. script'.pc = "invoke" /\ Down'
      BY <2>1 DEF AwaitQuiet, TypeOK, ScriptState, Calm, ScaledDown, Down, ecsVars
    <3>2. QED
      BY <3>1 DEF ScaledDown
  <2>2. CASE AwaitServices
    BY <2>2 DEF AwaitServices, Idle, ScaledDown
  <2>3. ASSUME NEW s \in Services, ScaleDown(s)
        PROVE  ScaledDown' /\ script'.pc \notin {"answer", "empty"}
    <3>1. script.pc = "down" /\ s \in script.left /\ desired \subseteq script.left
      BY <2>3 DEF ScaleDown, Calm, ScaledDown
    <3>2. desired' = desired \ {s} /\ script' = Looped(s, "quiet", {})
      BY <2>3 DEF ScaleDown
    <3>3. \/ script'.pc = "quiet" /\ desired' = {}
          \/ script'.pc = "down" /\ desired' \subseteq script'.left
      BY <3>1, <3>2, LoopedFacts
    <3>4. QED
      BY <3>3 DEF ScaledDown
  <2>4. ASSUME NEW s \in Services, ScaleUp(s)
        PROVE  ScaledDown' /\ script'.pc \notin {"answer", "empty"}
    <3>1. script'.pc \in {"up", "settle"}
      BY <2>4, LoopedFacts DEF ScaleUp
    <3>2. QED
      BY <3>1 DEF ScaledDown
  <2>5. QED
    BY <2>1, <2>2, <2>3, <2>4
<1>5. QED
  BY <1>2, <1>3, <1>4, CalmAlone

LEMMA CalmInvoke ==
  ASSUME TypeOK, Answers, Calm, NEW p \in Invocations, Invoke(p)
  PROVE  Calm'
<1>1. PICK r : r = [NoPhase EXCEPT !.pc = Jobs[1], !.answers = TRUE]
  OBVIOUS
<1>2. r.pc = "drop" /\ r.at = 1 /\ r.answers
  BY <1>1 DEF NoPhase, Jobs
<1>3. phase'[p] = r /\ \A q \in Invocations \ {p} : phase'[q] = phase[q]
  BY <1>1 DEF Invoke, TypeOK
<1>4. script.pc = "invoke" /\ script'.pc = "answer"
  BY DEF Invoke, TypeOK, ScriptState
<1>5. \A q \in Invocations : ~AtWork(q) /\ ~phase[q].answers
  BY <1>4 DEF Calm, OneAtWork, Answers
<1>6. \A q \in Invocations : AtWork(q)' \/ phase'[q].answers => q = p
  BY <1>3, <1>5 DEF AtWork
<1>7. Down'
  BY <1>4 DEF Invoke, Calm, ScaledDown, Down, ecsVars
<1>8. Progress(p)'
  <2>1. Cleared(0)'
    BY DEF Cleared
  <2>2. PICK k \in {0} : k = r.at - 1
    BY <1>2
  <2>3. QED
    BY <1>2, <1>3, <2>1 DEF Progress, Cleared
<1>9. ScaledDown'
  BY <1>4, <1>7 DEF ScaledDown
<1>10. OneAtWork'
  BY <1>2, <1>3, <1>4, <1>6, <1>7, <1>8 DEF OneAtWork
<1>11. WipedSoFar'
  BY <1>2, <1>3, <1>4, <1>6 DEF WipedSoFar
<1>12. tenants' \subseteq secrets'
  BY DEF Invoke, dataVars, Calm
<1>13. QED
  BY <1>9, <1>10, <1>11, <1>12 DEF Calm

LEMMA CalmAnswered ==
  ASSUME TypeOK, Answers, Calm, NEW p \in Invocations, Answered(p)
  PROVE  Calm'
<1>1. /\ script.pc = "answer" /\ phase[p].answers /\ ~AtWork(p)
      /\ UNCHANGED <<desired, running, databases, tenants, secrets, stock, phase>>
  BY DEF Answered, ecsVars, dataVars
<1>2. \A q \in Invocations : ~AtWork(q)'
  <2>1. ASSUME NEW q \in Invocations, AtWork(q) PROVE FALSE
    <3>1. phase[q].answers
      BY <1>1, <2>1 DEF Calm, OneAtWork
    <3>2. q = p
      BY <1>1, <3>1 DEF Answers
    <3>3. QED
      BY <1>1, <2>1, <3>2
  <2>2. QED
    BY <1>1, <2>1 DEF AtWork
<1>3. CASE phase[p].pc = "done"
  <2>1. AllCleared /\ Down
    BY <1>1, <1>3 DEF Calm, WipedSoFar, ScaledDown
  <2>2. script' = Emptying
    BY <1>3 DEF Answered
  <2>3. stock \subseteq Outside
    BY <2>1, ClearedAll DEF AllCleared, TypeOK
  <2>4. WipedSoFar' /\ ScaledDown'
    <3>1. AllCleared' /\ Down'
      BY <1>1, <2>1 DEF AllCleared, Cleared, Down
    <3>2. script'.pc = "empty" /\ stock' \subseteq script'.left
      BY <1>1, <2>2, <2>3 DEF Emptying
    <3>3. QED
      BY <3>1, <3>2 DEF WipedSoFar, ScaledDown
  <2>5. QED
    BY <1>1, <1>2, <2>4 DEF Calm, OneAtWork
<1>4. CASE phase[p].pc # "done"
  <2>1. script'.pc = "failed"
    BY <1>4 DEF Answered, Idle
  <2>2. ScaledDown'
    BY <2>1 DEF ScaledDown
  <2>3. QED
    BY <1>1, <1>2, <2>1, <2>2, CalmAlone DEF Calm
<1>5. QED
  BY <1>3, <1>4

(* A store emptied: what the phases wiped is wiped still, and after the    *)
(* last of the stores everything is.                                       *)
LEMMA CalmEmptied ==
  ASSUME TypeOK, Calm, NEW o \in Outside, EmptyStore(o)
  PROVE  Calm' /\ (script'.pc = "up" => Wiped')
<1>1. /\ script.pc = "empty" /\ o \in script.left /\ stock' = stock \ {o}
      /\ script' = Looped(o, "up", Services)
      /\ UNCHANGED <<desired, running, databases, tenants, secrets, phase>>
  BY DEF EmptyStore, ecsVars
<1>2. AllCleared /\ stock \subseteq script.left /\ Down
  BY <1>1 DEF Calm, WipedSoFar, ScaledDown
<1>3. AllCleared' /\ Down'
  BY <1>1, <1>2 DEF AllCleared, Cleared, Down
<1>4. \/ script'.pc = "up" /\ stock' = {}
      \/ script'.pc = "empty" /\ stock' \subseteq script'.left
  <2>1. PICK s : s = Looped(o, "up", Services)
    OBVIOUS
  <2>2. /\ script.left = {o} => s.pc = "up"
        /\ script.left # {o} => s.pc = "empty" /\ s.left = script.left \ {o}
    BY <1>1, <2>1, LoopedFacts
  <2>3. QED
    BY <1>1, <1>2, <2>1, <2>2
<1>5. \A p \in Invocations : ~AtWork(p)'
  <2>1. \A p \in Invocations : ~AtWork(p)
    BY <1>1 DEF Calm, OneAtWork
  <2>2. QED
    BY <1>1, <2>1 DEF AtWork
<1>6. ScaledDown' /\ WipedSoFar'
  BY <1>3, <1>4 DEF ScaledDown, WipedSoFar
<1>7. tenants' \subseteq secrets'
  BY <1>1 DEF Calm
<1>8. Calm'
  BY <1>5, <1>6, <1>7 DEF Calm, OneAtWork
<1>9. ASSUME script'.pc = "up" PROVE Wiped'
  <2>1. databases = Databases /\ tenants = {}
    BY <1>2, ClearedAll DEF AllCleared
  <2>2. secrets = {} /\ stock' = {}
    BY <1>2, <1>4, <1>9 DEF AllCleared
  <2>3. QED
    BY <1>1, <2>1, <2>2 DEF Wiped
<1>10. QED
  BY <1>8, <1>9

LEMMA CalmScriptDies ==
  ASSUME TypeOK, Calm, ScriptDies
  PROVE  Calm'
<1>1. /\ script'.pc = "failed"
      /\ UNCHANGED <<desired, running, databases, tenants, secrets, phase, stock>>
  BY DEF ScriptDies, Idle, ecsVars, dataVars
<1>2. ScaledDown' /\ WipedSoFar'
  BY <1>1 DEF ScaledDown, WipedSoFar
<1>3. OneAtWork'
  <2>1. ASSUME NEW p \in Invocations, AtWork(p)'
        PROVE  Down' /\ Progress(p)' /\ \A q \in Invocations : AtWork(q)' => p = q
    <3>1. Down /\ Progress(p) /\ \A q \in Invocations : AtWork(q) => p = q
      BY <1>1, <2>1 DEF Calm, OneAtWork, AtWork
    <3>2. QED
      BY <1>1, <3>1 DEF Down, Progress, Cleared, AtWork
  <2>2. QED
    BY <1>1, <2>1 DEF OneAtWork
<1>4. QED
  BY <1>1, <1>2, <1>3 DEF Calm

(* What needs a service up, or a task started or stopped, happens outside  *)
(* the wait and the work.                                                  *)
LEMMA NotDown ==
  ASSUME Calm, ~Down
  PROVE  /\ \A p \in Invocations : ~AtWork(p)
         /\ script.pc \notin {"invoke", "answer", "empty"}
  BY DEF Calm, OneAtWork, ScaledDown

LEMMA CalmAround ==
  ASSUME TypeOK, Calm,
         \/ \E s \in Services : EcsStep(s)
         \/ \E t \in Tenants : Provision(t)
         \/ \E x \in Services \cup Outside : Store(x)
  PROVE  Calm'
<1>1. ~Down
  BY WritersAssumption
     DEF EcsStep, StartTask, StopTask, Provision, Store, Down, WritersAssumption
<1>2. /\ UNCHANGED <<desired, script, phase>>
      /\ tenants' \subseteq secrets'
  BY DEF EcsStep, StartTask, StopTask, Provision, Store, Calm, ecsVars, dataVars
<1>3. \A p \in Invocations : ~AtWork(p)'
  BY <1>1, <1>2, NotDown DEF AtWork
<1>4. script'.pc \notin {"invoke", "answer", "empty"}
  BY <1>1, <1>2, NotDown
<1>5. ScaledDown'
  BY <1>2, <1>4 DEF ScaledDown, Calm
<1>6. QED
  BY <1>2, <1>3, <1>4, <1>5, CalmAlone

LEMMA CalmApply ==
  ASSUME Calm, Apply, ~exposed'
  PROVE  Calm'
<1>1. /\ UNCHANGED <<dataVars, script, phase>>
      /\ script.pc \notin {"down", "quiet", "invoke", "answer", "empty"}
      /\ \A p \in Invocations : ~AtWork(p)
  BY DEF Apply, InWindow, SomeAtWork
<1>2. \A p \in Invocations : ~AtWork(p)'
  BY <1>1 DEF AtWork
<1>3. ScaledDown' /\ tenants' \subseteq secrets'
  BY <1>1 DEF ScaledDown, dataVars, Calm
<1>4. QED
  BY <1>1, <1>2, <1>3, CalmAlone

LEMMA InvInit == Init => Inv
<1> SUFFICES ASSUME Init PROVE Inv
  OBVIOUS
<1>1. /\ script.pc = "idle" /\ tenants = {} /\ secrets = {}
      /\ \A p \in Invocations : phase[p].pc = "none" /\ ~phase[p].answers
  BY DEF Init, Idle, NoPhase
<1>2. Answers
  BY <1>1 DEF Answers
<1>3. Calm
  BY <1>1 DEF Calm, ScaledDown, OneAtWork, WipedSoFar, AtWork
<1>4. QED
  BY <1>2, <1>3, TypeInit DEF Inv

LEMMA CalmNext ==
  ASSUME TypeOK, Answers, Calm, [Next]_vars, ~exposed'
  PROVE  Calm'
<1>1. CASE Start
  BY <1>1, CalmStart
<1>2. CASE ScriptStep
  BY <1>2, CalmScaling, CalmInvoke, CalmAnswered, CalmEmptied DEF ScriptStep
<1>3. CASE ScriptDies
  BY <1>3, CalmScriptDies
<1>4. CASE \E p \in Invocations : PhaseStep(p) \/ PhaseFails(p)
  BY <1>4, CalmPhase, CalmFails
<1>5. CASE \/ \E s \in Services : EcsStep(s)
           \/ \E t \in Tenants : Provision(t)
           \/ \E x \in Services \cup Outside : Store(x)
  BY <1>5, CalmAround
<1>6. CASE Apply
  BY <1>6, CalmApply
<1>7. CASE UNCHANGED vars
  BY <1>7 DEF vars, Calm, ScaledDown, OneAtWork, WipedSoFar, AllCleared, Cleared,
              Progress, Down, AtWork
<1>8. QED
  BY <1>1, <1>2, <1>3, <1>4, <1>5, <1>6, <1>7 DEF Next

(* What was exposed once stays so.                                         *)
LEMMA ExposedStays ==
  ASSUME [Next]_vars, exposed
  PROVE  exposed'
<1>1. CASE Start
  BY <1>1, Zenon DEF Start
<1>2. CASE Apply
  BY <1>2, Zenon DEF Apply
<1>3. CASE ScriptStep \/ ScriptDies
  BY <1>3 DEF ScriptStep, ScriptDies, AwaitQuiet, AwaitServices, ScaleDown, ScaleUp,
              Invoke, Answered, EmptyStore
<1>4. ASSUME NEW p \in Invocations, PhaseStep(p) \/ PhaseFails(p) PROVE exposed'
  BY <1>4 DEF PhaseStep, PhaseFails, DropDatabase, CreateDatabase, ListSecrets,
              DestroySecret, Goto
<1>5. CASE \/ \E s \in Services : EcsStep(s)
           \/ \E t \in Tenants : Provision(t)
           \/ \E x \in Services \cup Outside : Store(x)
  BY <1>5 DEF EcsStep, StartTask, StopTask, Provision, Store
<1>6. CASE UNCHANGED vars
  BY <1>6 DEF vars
<1>7. QED
  BY <1>1, <1>2, <1>3, <1>4, <1>5, <1>6 DEF Next

LEMMA InvNext == Inv /\ [Next]_vars => Inv'
<1> SUFFICES ASSUME Inv, [Next]_vars PROVE Inv'
  OBVIOUS
<1>1. TypeOK' /\ Answers'
  BY TypeNext, AnswersNext DEF Inv
<1>2. ASSUME ~exposed' PROVE Calm'
  BY <1>2, ExposedStays, CalmNext DEF Inv
<1>3. QED
  BY <1>1, <1>2 DEF Inv

LEMMA Invariant == Spec => []Inv
  BY InvInit, InvNext, PTL DEF Spec

(* No death and no rerun leaves hilt a row whose secret is gone, while the *)
(* conditions of reset-apps.sh were kept: no apply in the window, and no   *)
(* rerun beside a phase still at work.                                     *)
THEOREM RowsKeep == Spec => []RowsKeepTheirSecrets
<1>1. Inv => RowsKeepTheirSecrets
  BY DEF Inv, Calm, RowsKeepTheirSecrets
<1>2. QED
  BY <1>1, Invariant, PTL

(* Under the same conditions no service is up while a phase is at work.    *)
THEOREM Quiet == Spec => []QuietDuringAPhase
<1>1. Inv => QuietDuringAPhase
  BY DEF Inv, Calm, OneAtWork, Down, SomeAtWork, QuietDuringAPhase
<1>2. QED
  BY <1>1, Invariant, PTL

(* And a run about to scale up has wiped every database and every store,   *)
(* and every database is there, whatever the runs before it died on.       *)
THEOREM Complete == Spec => ResetIsComplete
<1>1. ASSUME Inv, [Next]_vars, ~exposed, script.pc # "up", script'.pc = "up"
      PROVE  Wiped'
  <2>1. TypeOK /\ Answers /\ Calm
    BY <1>1 DEF Inv
  <2>2. ~Start /\ ~ScriptDies /\ ~AwaitQuiet /\ ~AwaitServices
    <3>1. script \in ScriptState
      BY <2>1 DEF TypeOK
    <3>2. QED
      BY <1>1, <3>1 DEF Start, ScriptDies, AwaitQuiet, AwaitServices, Idle, ScriptState
  <2>3. script' # script
    BY <1>1
  <2>4. \A s \in Services : ~ScaleUp(s)
    BY <1>1 DEF ScaleUp
  <2>5. ASSUME NEW s \in Services, ScaleDown(s) PROVE FALSE
    <3>1. script'.pc \in {"down", "quiet"}
      BY <2>1, <2>5, LoopedFacts DEF ScaleDown
    <3>2. QED
      BY <1>1, <3>1
  <2>6. ASSUME NEW p \in Invocations, Invoke(p) \/ Answered(p) PROVE FALSE
    <3>1. script'.pc \in {"answer", "empty", "failed"}
      BY <2>1, <2>6 DEF Invoke, Answered, Emptying, Idle, TypeOK, ScriptState
    <3>2. QED
      BY <1>1, <3>1
  <2>7. \E o \in Outside : EmptyStore(o)
    <3>1. ScriptStep
      BY <1>1, <2>2, <2>3
         DEF Next, PhaseStep, PhaseFails, DropDatabase, CreateDatabase, ListSecrets,
             DestroySecret, Goto, EcsStep, StartTask, StopTask, Apply, Provision,
             Store, vars
    <3>2. QED
      BY <2>2, <2>4, <2>5, <2>6, <3>1 DEF ScriptStep
  <2>8. QED
    BY <1>1, <2>1, <2>7, CalmEmptied
<1>2. Inv /\ [Next]_vars
      => [~exposed /\ script.pc # "up" /\ script'.pc = "up" => Wiped']_vars
  BY <1>1
<1>3. QED
  BY <1>2, Invariant, PTL DEF Spec, ResetIsComplete
=============================================================================
