-------------------------- MODULE DatabasesProofs ---------------------------
(***************************************************************************)
(* What holds of Databases for any lists of roles, number of overlapping   *)
(* seeds and resets, and number of random passwords: that ensuring a       *)
(* parameter is one step to who looks on, that the stored connection       *)
(* strings fit the roles, that a missing database is accounted for and a   *)
(* reset that ends restores it, and that a seed takes rotations up.        *)
(***************************************************************************)
EXTENDS Databases, TLAPS

-----------------------------------------------------------------------------
(* What an invocation's record may be, given the lists it walks.           *)
Fits(i, s) ==
  /\ s \in RunState
  /\ s.stage \notin {"idle", "done", "strings"} => s.at \in 1..Len(Walk(i))
  /\ i \in Seeds =>
       /\ s.stage \notin {"read", "drop"}
       /\ s.stage \notin {"idle", "passwords", "done"} =>
            \A r \in Listed : s.password[r] \in Values
  /\ i \in Resets =>
       /\ s.stage \notin {"passwords", "strings"}
       /\ s.stage \notin {"idle", "read", "done"} => s.password[Walk(i)[s.at]] \in Values

(* A seed is in a call of ensure exactly while it collects passwords, and  *)
(* the call is about the role it is at.                                    *)
CallFits(i) ==
  /\ (call[i].pc = "idle") = (run[i].stage # "passwords")
  /\ run[i].stage = "passwords" => call[i].name = At(i)

TypeInv ==
  /\ TypeOK
  /\ \A i \in Walkers : Fits(i, run[i])
  /\ \A i \in Seeds : CallFits(i)

LEMMA TargetType ==
  ASSUME target \in Targets
  PROVE  /\ target.roles \in Seq(Names) /\ Len(target.roles) \in Nat \ {0}
         /\ target.apps \in Seq(Names \ LoginOnly) /\ Len(target.apps) \in Nat
         /\ Listed \subseteq Names
         /\ \A i \in Walkers : Walk(i) \in Seq(Names) /\ Len(Walk(i)) \in Nat
         /\ \A i \in Seeds : Walk(i) = target.roles
         /\ \A i \in Walkers : \A k \in 1..Len(Walk(i)) : Walk(i)[k] \in Names
         /\ \A i \in Seeds : \A k \in 1..Len(Walk(i)) : Walk(i)[k] \in Listed
<1>1. /\ target.roles \in Seq(Names) /\ target.roles # <<>>
      /\ target.apps \in Seq(Names \ LoginOnly)
  BY TargetsAssumption DEF TargetsAssumption
<1>2. Len(target.roles) \in Nat \ {0} /\ Len(target.apps) \in Nat
  BY <1>1
<1>3. target.apps \in Seq(Names)
  BY <1>1
<1>4. \A i \in Seeds : i \notin Resets
  BY ActorsAssumption DEF ActorsAssumption, Seeds
<1>5. QED
  BY <1>1, <1>2, <1>3, <1>4 DEF Walk, Listed

LEMMA IdleFits ==
  ASSUME NEW i \in Walkers
  PROVE  Fits(i, IdleRun) /\ Fits(i, DoneRun)
  BY DEF Fits, IdleRun, DoneRun, RunState, Stages

LEMMA AfterRoleFits ==
  ASSUME TypeInv, NEW i \in Walkers,
         run[i].stage \in {"alter", "database", "createDatabase"}
  PROVE  Fits(i, AfterRole(i)) /\ AfterRole(i).stage # "passwords"
<1>1. /\ Fits(i, run[i]) /\ target \in Targets
      /\ run[i].at \in 1..Len(Walk(i)) /\ Len(Walk(i)) \in Nat
  BY TargetType DEF TypeInv, TypeOK, Fits
<1> DEFINE rest == [run[i] EXCEPT !.dropped = FALSE]
<1>2. /\ rest \in RunState /\ rest.stage = run[i].stage
      /\ rest.at = run[i].at /\ rest.password = run[i].password
  BY <1>1 DEF Fits, RunState
<1> HIDE DEF rest
<1>3. CASE ~Last(i)
  <2>1. AfterRole(i) = [rest EXCEPT !.stage = NextRole(i), !.at = run[i].at + 1]
    BY <1>3 DEF AfterRole, rest
  <2>2. run[i].at + 1 \in 1..Len(Walk(i)) /\ run[i].at + 1 \in Nat
    BY <1>1, <1>3 DEF Last
  <2>3. /\ AfterRole(i) \in RunState /\ AfterRole(i).stage = NextRole(i)
        /\ AfterRole(i).at = run[i].at + 1 /\ AfterRole(i).password = run[i].password
    BY <1>2, <2>1, <2>2 DEF RunState, Stages, NextRole
  <2>4. QED
    BY <1>1, <2>2, <2>3, ActorsAssumption DEF Fits, NextRole, ActorsAssumption, Seeds
<1>4. CASE Last(i) /\ i \in Resets
  BY <1>4, IdleFits DEF AfterRole, DoneRun, IdleRun
<1>5. CASE Last(i) /\ i \notin Resets
  <2>1. AfterRole(i) = [rest EXCEPT !.stage = "strings",
                          !.unwritten = {s \in Strings : RoleOf[s] \in Listed}]
    BY <1>5 DEF AfterRole, rest
  <2>2. /\ AfterRole(i) \in RunState /\ AfterRole(i).stage = "strings"
        /\ AfterRole(i).password = run[i].password
    BY <1>2, <2>1 DEF RunState, Stages
  <2>3. QED
    BY <1>1, <1>5, <2>2 DEF Fits
<1>6. QED
  BY <1>3, <1>4, <1>5

(* To keep TypeInv it is enough to put a fitting record in a run's place.  *)
LEMMA RunKeeps ==
  ASSUME TypeInv, NEW i \in Walkers, NEW s, Fits(i, s),
         run' = [run EXCEPT ![i] = s], target' = target,
         StoreTypeOK', role' \in [Names -> Values \cup {None, NoPassword}],
         databases' \subseteq Names, lost' \subseteq Names,
         strings' \in [Strings -> Values \cup {None}], rotated' \subseteq Names,
         \A j \in Seeds \ {i} : call'[j] = call[j],
         i \in Seeds => CallFits(i)'
  PROVE  TypeInv'
<1>1. run \in [Walkers -> RunState] /\ s \in RunState
  BY DEF TypeInv, TypeOK, Fits
<1>2. /\ run' \in [Walkers -> RunState] /\ run'[i] = s
      /\ \A j \in Walkers \ {i} : run'[j] = run[j]
  BY <1>1
<1>3. \A j \in Walkers : Walk(j)' = Walk(j)
  BY DEF Walk
<1>4. Listed' = Listed
  BY DEF Listed
<1>5. ASSUME NEW j \in Walkers PROVE Fits(j, run[j])'
  <2>1. Fits(j, run'[j])
    BY <1>2 DEF TypeInv
  <2>2. QED
    BY <1>3, <1>4, <2>1 DEF Fits
<1>6. ASSUME NEW j \in Walkers
      PROVE  /\ (Active(j) /\ run[j].stage # "strings" => run[j].at \in 1..Len(Walk(j)))'
             /\ HasPasswords(j)'
  BY <1>5 DEF Fits, Active, HasPasswords, At
<1>7. ASSUME NEW j \in Seeds \ {i} PROVE CallFits(j)'
  <2>1. run'[j] = run[j] /\ call'[j] = call[j] /\ At(j)' = At(j) /\ CallFits(j)
    BY <1>2, <1>3 DEF Walkers, At, TypeInv
  <2>2. QED
    BY <2>1 DEF CallFits
<1>8. QED
  BY <1>2, <1>5, <1>6, <1>7 DEF TypeInv, TypeOK

LEMMA TypeInit == Init => TypeInv
<1> SUFFICES ASSUME Init PROVE TypeInv
  OBVIOUS
<1>1. \A i \in Walkers : run[i] = IdleRun /\ Fits(i, run[i])
  BY IdleFits DEF Init
<1>2. run \in [Walkers -> RunState]
  BY <1>1 DEF Init, Fits
<1>3. \A i \in Walkers : run[i].stage = "idle"
  BY <1>1 DEF IdleRun
<1>4. /\ call \in [Callers -> CallState]
      /\ \A i \in Callers : call[i].pc = "idle"
  BY DEF Init, StoreInit, IdleCall, CallState
<1>5. StoreTypeOK
  BY <1>4 DEF Init, StoreInit, StoreTypeOK
<1>6. \A i \in Seeds : CallFits(i)
  BY <1>3, <1>4 DEF CallFits, Walkers, Seeds
<1>7. \A i \in Walkers : HasPasswords(i) /\ ~Active(i)
  BY <1>3 DEF HasPasswords, Active
<1>8. QED
  BY <1>1, <1>2, <1>5, <1>6, <1>7 DEF Init, TypeInv, TypeOK

(* One step of ensure.                                                     *)
LEMMA EnsureType ==
  ASSUME StoreTypeOK, NEW c \in Callers, EnsureStep(c)
  PROVE  /\ StoreTypeOK'
         /\ call[c].pc # "idle" /\ call'[c].pc # "idle"
         /\ call'[c].name = call[c].name
         /\ \A d \in Callers \ {c} : call'[d] = call[d]
<1>1. call \in [Callers -> CallState] /\ call[c] \in CallState
      /\ param \in [Names -> Values \cup {None}] /\ generated \subseteq Values
  BY DEF StoreTypeOK
<1>2. call[c].pc # "idle" /\ call[c].name \in Names
  BY DEF StoreTypeOK, EnsureStep, Get, Put, PutRefused, ReadBack
<1>3. \A v \in Values \cup {None} : \A b \in BOOLEAN :
        /\ Answered(c, v, b) \in CallState
        /\ Answered(c, v, b).pc = "answered"
        /\ Answered(c, v, b).name = call[c].name
  BY <1>1 DEF Answered, CallState
<1>4. \A s \in CallState :
        call' = [call EXCEPT ![c] = s] /\ s.pc # "idle" /\ s.name = call[c].name =>
          /\ call' \in [Callers -> CallState]
          /\ call'[c].pc # "idle" /\ call'[c].name = call[c].name
          /\ \A d \in Callers \ {c} : call'[d] = call[d]
          /\ \A d \in Callers : call'[d].pc # "idle" => call'[d].name \in Names
  BY <1>1, <1>2 DEF StoreTypeOK
<1>5. \E s \in CallState :
        call' = [call EXCEPT ![c] = s] /\ s.pc # "idle" /\ s.name = call[c].name
  <2>1. CASE Get(c)
    <3>1. CASE param[call[c].name] # None
      BY <1>1, <1>2, <1>3, <2>1, <3>1 DEF Get
    <3>2. CASE param[call[c].name] = None
      <4> DEFINE s == [call[c] EXCEPT !.pc = "put"]
      <4>1. s \in CallState /\ s.pc # "idle" /\ s.name = call[c].name
        BY <1>1 DEF CallState
      <4>2. call' = [call EXCEPT ![c] = s]
        BY <2>1, <3>2 DEF Get
      <4>3. QED
        BY <4>1, <4>2
    <3>3. QED
      BY <3>1, <3>2
  <2>2. CASE Put(c)
    <3>1. PICK v \in Drawn(c) :
             \/ call' = [call EXCEPT ![c] = Answered(c, v, TRUE)]
             \/ call' = [call EXCEPT ![c].value = v]
      BY <2>2 DEF Put
    <3>2. v \in Values
      BY <1>1, <3>1 DEF Drawn, CallState
    <3> DEFINE s == [call[c] EXCEPT !.value = v]
    <3>3. s \in CallState /\ s.pc = "put" /\ s.name = call[c].name
      BY <1>1, <2>2, <3>2 DEF CallState, Put
    <3>4. call' = [call EXCEPT ![c] = s] \/ call' = [call EXCEPT ![c] = Answered(c, v, TRUE)]
      BY <3>1
    <3>5. QED
      BY <1>3, <3>2, <3>3, <3>4
  <2>3. CASE PutRefused(c)
    <3> DEFINE s == [call[c] EXCEPT !.pc = "readBack"]
    <3>1. s \in CallState /\ s.pc # "idle" /\ s.name = call[c].name
      BY <1>1 DEF CallState
    <3>2. call' = [call EXCEPT ![c] = s]
      BY <2>3 DEF PutRefused
    <3>3. QED
      BY <3>1, <3>2
  <2>4. CASE ReadBack(c)
    BY <1>1, <1>2, <1>3, <2>4 DEF ReadBack
  <2>5. QED
    BY <2>1, <2>2, <2>3, <2>4 DEF EnsureStep
<1>6. param' \in [Names -> Values \cup {None}] /\ generated' \subseteq Values
  <2>1. CASE Put(c)
    <3>1. Drawn(c) \subseteq Values
      BY <1>1 DEF Drawn, CallState
    <3>2. QED
      BY <1>1, <1>2, <2>1, <3>1 DEF Put
  <2>2. CASE ~Put(c)
    BY <1>1, <2>2 DEF EnsureStep, Get, PutRefused, ReadBack
  <2>3. QED
    BY <2>1, <2>2
<1>7. QED
  BY <1>2, <1>4, <1>5, <1>6 DEF StoreTypeOK

(* A record at the same place of the walk that only moves on in dbinit.    *)
LEMMA MoveFits ==
  ASSUME TypeInv, NEW i \in Walkers,
         run[i].stage \in {"role", "create", "alter", "database", "createDatabase"},
         NEW g \in {"create", "alter", "database", "createDatabase"}
  PROVE  Fits(i, [run[i] EXCEPT !.stage = g])
<1>1. Fits(i, run[i]) /\ run[i] \in RunState
  BY DEF TypeInv, Fits
<1>2. /\ [run[i] EXCEPT !.stage = g] \in RunState
      /\ [run[i] EXCEPT !.stage = g].stage = g
      /\ [run[i] EXCEPT !.stage = g].at = run[i].at
      /\ [run[i] EXCEPT !.stage = g].password = run[i].password
  BY <1>1 DEF RunState, Stages
<1>3. QED
  BY <1>1, <1>2 DEF Fits

(* The statements of dbinit, taken by a seed or a reset.                   *)
LEMMA TypeDatabaseStep ==
  ASSUME TypeInv, NEW i \in Walkers, DatabaseStep(i)
  PROVE  TypeInv'
<1> DEFINE Walking == {"role", "create", "alter", "database", "createDatabase"}
           Moved == \E s : Fits(i, s) /\ s.stage # "passwords" /\ run' = [run EXCEPT ![i] = s]
<1>1. /\ run[i].stage \in Walking /\ Fits(i, run[i]) /\ target \in Targets
      /\ UNCHANGED <<param, generated, call, target, strings, rotated>>
  BY DEF DatabaseStep, CheckRole, CreateRole, AlterRole, CheckDatabase,
         CreateDatabase, dbUnchanged, storeVars, TypeInv, TypeOK
<1>2. At(i) \in Names
  BY <1>1, TargetType DEF Fits, At
<1>3. Moved
  <2>1. ASSUME NEW g \in {"create", "alter", "database", "createDatabase"},
               run' = [run EXCEPT ![i] = [run[i] EXCEPT !.stage = g]]
        PROVE  Moved
    <3>1. [run[i] EXCEPT !.stage = g].stage = g
      BY <1>1 DEF Fits, RunState
    <3>2. QED
      BY <1>1, <2>1, <3>1, MoveFits
  <2>2. CASE CheckRole(i)
    <3>1. run' = [run EXCEPT ![i] = [run[i] EXCEPT !.stage = "create"]]
          \/ run' = [run EXCEPT ![i] = [run[i] EXCEPT !.stage = "alter"]]
      BY <2>2 DEF CheckRole, Goto
    <3>2. QED
      BY <2>1, <3>1
  <2>3. CASE CreateRole(i)
    <3>1. run' = [run EXCEPT ![i] = [run[i] EXCEPT !.stage = "alter"]]
      BY <2>3 DEF CreateRole, Goto
    <3>2. QED
      BY <2>1, <3>1
  <2>4. CASE AlterRole(i)
    <3>1. run' = [run EXCEPT ![i] = AfterRole(i)]
          \/ run' = [run EXCEPT ![i] = [run[i] EXCEPT !.stage = "database"]]
      BY <2>4 DEF AlterRole
    <3>2. run[i].stage = "alter"
      BY <2>4 DEF AlterRole
    <3>3. QED
      BY <2>1, <3>1, <3>2, AfterRoleFits
  <2>5. CASE CheckDatabase(i)
    <3>1. run' = [run EXCEPT ![i] = AfterRole(i)]
          \/ run' = [run EXCEPT ![i] = [run[i] EXCEPT !.stage = "createDatabase"]]
      BY <2>5 DEF CheckDatabase
    <3>2. run[i].stage = "database"
      BY <2>5 DEF CheckDatabase
    <3>3. QED
      BY <2>1, <3>1, <3>2, AfterRoleFits
  <2>6. CASE CreateDatabase(i)
    <3>1. run' = [run EXCEPT ![i] = AfterRole(i)] /\ run[i].stage = "createDatabase"
      BY <2>6 DEF CreateDatabase
    <3>2. QED
      BY <3>1, AfterRoleFits
  <2>7. QED
    BY <2>2, <2>3, <2>4, <2>5, <2>6 DEF DatabaseStep
<1>4. /\ role' \in [Names -> Values \cup {None, NoPassword}]
      /\ databases' \subseteq Names /\ lost' \subseteq Names
  <2>1. AsPassword(run[i].password[At(i)]) \in Values \cup {NoPassword}
    BY <1>1, <1>2 DEF AsPassword, Fits, RunState
  <2>2. QED
    BY <1>2, <2>1 DEF TypeInv, TypeOK, DatabaseStep, CheckRole, CreateRole, AlterRole,
         CheckDatabase, CreateDatabase
<1>5. StoreTypeOK' /\ strings' \in [Strings -> Values \cup {None}] /\ rotated' \subseteq Names
  BY <1>1 DEF TypeInv, TypeOK, StoreTypeOK
<1>6. PICK s : Fits(i, s) /\ s.stage # "passwords" /\ run' = [run EXCEPT ![i] = s]
  BY <1>3
<1>7. i \in Seeds => CallFits(i)'
  <2>1. run'[i] = s
    BY <1>6 DEF TypeInv, TypeOK
  <2>2. ASSUME i \in Seeds PROVE call[i].pc = "idle"
    BY <1>1, <2>2 DEF TypeInv, CallFits
  <2>3. QED
    BY <1>1, <1>6, <2>1, <2>2 DEF CallFits
<1>8. QED
  BY <1>1, <1>4, <1>5, <1>6, <1>7, RunKeeps

LEMMA StartedFits ==
  ASSUME target \in Targets, NEW i \in Walkers, Walk(i) # <<>>,
         NEW g \in Stages, g = IF i \in Resets THEN "read" ELSE "passwords"
  PROVE  Fits(i, Started(i, g)) /\ Started(i, g).stage = g /\ Started(i, g).at = 1
<1>1. /\ Started(i, g) \in RunState /\ Started(i, g).stage = g /\ Started(i, g).at = 1
  BY DEF Started, IdleRun, RunState
<1>2. Len(Walk(i)) \in Nat \ {0}
  <2>1. Walk(i) \in Seq(Names)
    BY TargetType
  <2>2. QED
    BY <2>1
<1>3. QED
  BY <1>1, <1>2, ActorsAssumption DEF Fits, ActorsAssumption, Seeds

LEMMA TypeSeedStep ==
  ASSUME TypeInv, NEW i \in Seeds, SeedStep(i)
  PROVE  TypeInv'
<1>1. /\ i \in Walkers /\ i \notin Resets /\ i \in Callers
      /\ Fits(i, run[i]) /\ CallFits(i) /\ target \in Targets
      /\ call[i] \in CallState /\ call \in [Callers -> CallState]
  BY ActorsAssumption
     DEF ActorsAssumption, Walkers, Seeds, TypeInv, TypeOK, StoreTypeOK
<1>2. /\ target' = target /\ role' = role /\ databases' = databases /\ lost' = lost
      /\ rotated' = rotated
  BY DEF SeedStep, StartSeed, EnsurePassword, TakePassword, PutString
<1>3. Walk(i) = target.roles /\ Walk(i)' = Walk(i) /\ Len(Walk(i)) \in Nat \ {0}
      /\ Walk(i) \in Seq(Names) /\ Walk(i) # <<>>
      /\ \A k \in 1..Len(Walk(i)) : Walk(i)[k] \in Names /\ Walk(i)[k] \in Listed
  <2>1. Walk(i) = target.roles /\ Walk(i)' = Walk(i)
    BY <1>1, <1>2 DEF Walk
  <2>2. Len(Walk(i)) \in Nat \ {0} /\ Walk(i) \in Seq(Names)
        /\ \A k \in 1..Len(Walk(i)) : Walk(i)[k] \in Names /\ Walk(i)[k] \in Listed
    BY <1>1, <2>1, TargetType
  <2>3. Walk(i) # <<>>
    BY <2>2
  <2>4. QED
    BY <2>1, <2>2, <2>3
<1>4. \A n \in Names : Asking(n) \in CallState /\ Asking(n).pc = "get" /\ Asking(n).name = n
  BY DEF Asking, IdleCall, CallState
<1>5. IdleCall \in CallState /\ IdleCall.pc = "idle"
  BY DEF IdleCall, CallState
<1>6. run \in [Walkers -> RunState]
  BY DEF TypeInv, TypeOK
<1>7. ASSUME NEW s, Fits(i, s), run' = [run EXCEPT ![i] = s],
             NEW q \in CallState, call' = [call EXCEPT ![i] = q],
             (q.pc = "idle") = (s.stage # "passwords"),
             s.stage = "passwords" => q.name = Walk(i)[s.at] /\ q.name \in Names,
             param' = param, generated' = generated, strings' = strings
      PROVE  TypeInv'
  <2>1. call' \in [Callers -> CallState] /\ call'[i] = q
        /\ \A j \in Callers \ {i} : call'[j] = call[j]
    BY <1>1, <1>7
  <2>2. StoreTypeOK'
    <3>1. \A c \in Callers : call'[c].pc # "idle" => call'[c].name \in Names
      BY <1>7, <2>1 DEF TypeInv, TypeOK, StoreTypeOK
    <3>2. QED
      BY <1>7, <2>1, <3>1 DEF TypeInv, TypeOK, StoreTypeOK
  <2>3. run'[i] = s
    BY <1>1, <1>6, <1>7
  <2>4. CallFits(i)'
    BY <1>3, <1>7, <2>1, <2>3 DEF CallFits, At
  <2>5. QED
    BY <1>1, <1>2, <1>7, <2>1, <2>2, <2>4, RunKeeps DEF TypeInv, TypeOK, Seeds
<1>8. CASE StartSeed(i)
  <2>1. "passwords" \in Stages
    BY DEF Stages
  <2>2. /\ Fits(i, Started(i, "passwords")) /\ Started(i, "passwords").stage = "passwords"
        /\ Started(i, "passwords").at = 1
    BY <1>1, <1>3, <2>1, StartedFits
  <2>3. target.roles[1] = Walk(i)[1] /\ target.roles[1] \in Names
    BY <1>3
  <2>4. QED
    BY <1>4, <1>7, <1>8, <2>2, <2>3 DEF StartSeed
<1>9. CASE EnsurePassword(i)
  <2>1. /\ StoreTypeOK' /\ call[i].pc # "idle" /\ call'[i].pc # "idle"
        /\ call'[i].name = call[i].name
        /\ \A d \in Callers \ {i} : call'[d] = call[d]
    BY <1>1, <1>9, EnsureType DEF EnsurePassword, TypeInv, TypeOK
  <2>2. run' = run /\ strings' = strings
    BY <1>9 DEF EnsurePassword
  <2>3. run' = [run EXCEPT ![i] = run[i]]
    BY <1>6, <2>2
  <2>4. CallFits(i)'
    BY <1>1, <1>3, <2>1, <2>2 DEF CallFits, At
  <2>5. QED
    BY <1>1, <1>2, <2>1, <2>2, <2>3, <2>4, RunKeeps DEF TypeInv, TypeOK, Seeds
<1>10. CASE TakePassword(i)
  <2> DEFINE password == [run[i].password EXCEPT ![At(i)] = call[i].answer]
             took == [run[i] EXCEPT !.password = password]
  <2>1. run[i].stage = "passwords" /\ run[i].at \in 1..Len(Walk(i)) /\ run[i].at \in Nat
    BY <1>1, <1>3, <1>10 DEF TakePassword, CallFits, Fits
  <2>2. /\ took \in RunState /\ took.stage = "passwords" /\ took.at = run[i].at
        /\ took.password = password /\ password \in [Names -> Values \cup {None}]
    BY <1>1, <2>1 DEF Fits, RunState, CallState
  <2>3. UNCHANGED <<param, generated, strings>>
    BY <1>10 DEF TakePassword
  <2>4. CASE ~Last(i)
    <3> DEFINE s == [took EXCEPT !.at = run[i].at + 1]
    <3>1. run' = [run EXCEPT ![i] = s]
          /\ call' = [call EXCEPT ![i] = Asking(target.roles[run[i].at + 1])]
      BY <1>10, <2>4 DEF TakePassword
    <3> HIDE DEF took
    <3>2. s \in RunState /\ s.stage = "passwords" /\ s.at = run[i].at + 1
      BY <2>1, <2>2 DEF RunState
    <3>3. run[i].at + 1 \in 1..Len(Walk(i))
      BY <1>3, <2>1, <2>4 DEF Last
    <3>4. Fits(i, s)
      BY <1>1, <3>2, <3>3 DEF Fits
    <3> HIDE DEF s
    <3>5. target.roles[run[i].at + 1] = Walk(i)[s.at] /\ Walk(i)[s.at] \in Names
      BY <1>3, <3>2, <3>3
    <3>6. QED
      BY <1>4, <1>7, <2>3, <3>1, <3>2, <3>4, <3>5
  <2>5. CASE Last(i) /\ ~Valid(password)
    <3>1. run' = [run EXCEPT ![i] = IdleRun] /\ call' = [call EXCEPT ![i] = IdleCall]
      BY <1>10, <2>5 DEF TakePassword
    <3>2. Fits(i, IdleRun) /\ IdleRun.stage = "idle"
      BY <1>1, IdleFits DEF IdleRun
    <3>3. QED
      BY <1>5, <1>7, <2>3, <3>1, <3>2
  <2>6. CASE Last(i) /\ Valid(password)
    <3> DEFINE s == [took EXCEPT !.stage = "role", !.at = 1]
    <3>1. run' = [run EXCEPT ![i] = s] /\ call' = [call EXCEPT ![i] = IdleCall]
      BY <1>10, <2>6 DEF TakePassword
    <3>2. \A r \in Listed : password[r] \in Values
      <4>1. Listed \subseteq Names
        BY <1>1, TargetType
      <4>2. QED
        BY <2>2, <2>6, <4>1 DEF Valid
    <3> HIDE DEF took, password
    <3>3. s \in RunState /\ s.stage = "role" /\ s.at = 1 /\ s.password = password
      BY <2>2 DEF RunState, Stages
    <3>4. Fits(i, s)
      BY <1>1, <1>3, <3>2, <3>3 DEF Fits
    <3> HIDE DEF s
    <3>5. QED
      BY <1>5, <1>7, <2>3, <3>1, <3>3, <3>4
  <2>7. QED
    BY <2>4, <2>5, <2>6
<1>11. CASE PutString(i)
  <2>1. run[i].stage = "strings" /\ UNCHANGED <<param, generated, call>>
    BY <1>11 DEF PutString, storeVars
  <2>2. PICK s \in run[i].unwritten :
          /\ strings' = [strings EXCEPT ![s] = run[i].password[RoleOf[s]]]
          /\ run' = [run EXCEPT ![i] = IF run[i].unwritten = {s} THEN DoneRun
                                       ELSE [run[i] EXCEPT !.unwritten = @ \ {s}]]
    BY <1>11 DEF PutString
  <2>3. s \in Strings /\ RoleOf[s] \in Names
    BY <1>1, <2>2, StringsAssumption DEF StringsAssumption, Fits, RunState
  <2>4. strings' \in [Strings -> Values \cup {None}]
    BY <1>1, <2>2, <2>3 DEF TypeInv, TypeOK, Fits, RunState
  <2> DEFINE rest == [run[i] EXCEPT !.unwritten = @ \ {s}]
  <2>5. /\ rest \in RunState /\ rest.stage = "strings" /\ rest.password = run[i].password
    BY <1>1, <2>1 DEF Fits, RunState
  <2>6. Fits(i, rest)
    BY <1>1, <2>1, <2>5 DEF Fits
  <2>7. \E q : Fits(i, q) /\ q.stage # "passwords" /\ run' = [run EXCEPT ![i] = q]
    <3>1. Fits(i, DoneRun) /\ DoneRun.stage = "done"
      BY <1>1, IdleFits DEF DoneRun, IdleRun
    <3>2. run' = [run EXCEPT ![i] = DoneRun] \/ run' = [run EXCEPT ![i] = rest]
      BY <2>2
    <3>3. QED
      BY <2>5, <2>6, <3>1, <3>2
  <2>8. PICK q : Fits(i, q) /\ q.stage # "passwords" /\ run' = [run EXCEPT ![i] = q]
    BY <2>7
  <2>9. CallFits(i)'
    <3>1. run'[i] = q
      BY <1>1, <1>6, <2>8
    <3>2. QED
      BY <1>1, <2>1, <2>8, <3>1 DEF CallFits
  <2>10. StoreTypeOK'
    BY <2>1 DEF TypeInv, TypeOK, StoreTypeOK
  <2>11. QED
    BY <1>1, <1>2, <2>1, <2>4, <2>8, <2>9, <2>10, RunKeeps DEF TypeInv, TypeOK, Seeds
<1>12. QED
  BY <1>8, <1>9, <1>10, <1>11 DEF SeedStep

LEMMA TypeResetStep ==
  ASSUME TypeInv, NEW i \in Resets, ResetStep(i)
  PROVE  TypeInv'
<1>1. /\ i \in Walkers /\ i \notin Seeds /\ Fits(i, run[i]) /\ target \in Targets
      /\ run \in [Walkers -> RunState]
  BY ActorsAssumption DEF ActorsAssumption, Walkers, Seeds, TypeInv, TypeOK
<1>2. UNCHANGED <<param, generated, call, target, role, strings, rotated, lost>>
  BY DEF ResetStep, StartReset, ReadPassword, DropDatabase, dbUnchanged, storeVars
<1>3. databases' \subseteq Names
  BY DEF ResetStep, StartReset, ReadPassword, DropDatabase, TypeInv, TypeOK
<1>4. StoreTypeOK'
  BY <1>2 DEF TypeInv, TypeOK, StoreTypeOK
<1>5. Fits(i, IdleRun)
  BY <1>1, IdleFits
<1>6. run[i].stage \in {"read", "drop"} => At(i) \in Names
  BY <1>1, TargetType DEF Fits, At
<1> DEFINE Moved == \E s : Fits(i, s) /\ run' = [run EXCEPT ![i] = s]
<1>7. Moved
  <2>1. CASE StartReset(i)
    <3>1. Fits(i, Started(i, "read"))
      BY <1>1, <2>1, StartedFits DEF StartReset, Stages
    <3>2. QED
      BY <2>1, <3>1 DEF StartReset
  <2>2. CASE ReadPassword(i)
    <3>1. run[i].stage = "read"
      BY <2>2 DEF ReadPassword
    <3> DEFINE pw == [IdleRun.password EXCEPT ![At(i)] = param[At(i)]]
               s == [run[i] EXCEPT !.stage = "drop", !.password = pw]
    <3>2. run' = [run EXCEPT ![i] = IF param[At(i)] = None THEN IdleRun ELSE s]
      BY <2>2 DEF ReadPassword
    <3>3. CASE param[At(i)] = None
      BY <1>5, <3>2, <3>3
    <3>4. CASE param[At(i)] # None
      <4>1. param[At(i)] \in Values
        BY <1>6, <3>1, <3>4 DEF TypeInv, TypeOK, StoreTypeOK
      <4>2. pw \in [Names -> Values \cup {None}] /\ pw[At(i)] \in Values
        BY <1>6, <3>1, <4>1 DEF IdleRun
      <4> HIDE DEF pw
      <4>3. s \in RunState /\ s.stage = "drop" /\ s.at = run[i].at /\ s.password = pw
        BY <1>1, <4>2 DEF Fits, RunState, Stages
      <4>4. Fits(i, s)
        BY <1>1, <3>1, <4>2, <4>3 DEF Fits, At
      <4> HIDE DEF s
      <4>5. QED
        BY <3>2, <3>4, <4>4
    <3>5. QED
      BY <3>3, <3>4
  <2>3. CASE DropDatabase(i)
    <3> DEFINE b == At(i) \in databases
               s == [run[i] EXCEPT !.stage = "role", !.dropped = b]
    <3>1. run[i].stage = "drop" /\ run' = [run EXCEPT ![i] = s]
      BY <2>3 DEF DropDatabase
    <3>2. b \in BOOLEAN
      OBVIOUS
    <3> HIDE DEF b
    <3>3. s \in RunState /\ s.stage = "role" /\ s.at = run[i].at
          /\ s.password = run[i].password
      <4>1. run[i] \in RunState /\ "role" \in Stages
        BY <1>1 DEF Fits, Stages
      <4>2. QED
        BY <3>2, <4>1, Zenon DEF RunState
    <3>4. Fits(i, s)
      BY <1>1, <3>1, <3>3 DEF Fits
    <3> HIDE DEF s
    <3>5. QED
      BY <3>1, <3>4
  <2>4. QED
    BY <2>1, <2>2, <2>3 DEF ResetStep
<1>8. PICK s : Fits(i, s) /\ run' = [run EXCEPT ![i] = s]
  BY <1>7
<1>9. QED
  BY <1>1, <1>2, <1>3, <1>4, <1>8, RunKeeps DEF TypeInv, TypeOK

LEMMA TypeDie ==
  ASSUME TypeInv, NEW i \in Walkers, Die(i)
  PROVE  TypeInv'
<1>1. /\ Active(i) /\ run' = [run EXCEPT ![i] = IdleRun]
      /\ call' = IF i \in Seeds THEN [call EXCEPT ![i] = IdleCall] ELSE call
      /\ UNCHANGED <<param, generated, target, role, databases, strings, rotated>>
  BY DEF Die
<1>2. call \in [Callers -> CallState] /\ run \in [Walkers -> RunState]
  BY DEF TypeInv, TypeOK, StoreTypeOK
<1>3. IdleCall \in CallState /\ IdleCall.pc = "idle" /\ IdleRun.stage = "idle"
  BY DEF IdleCall, CallState, IdleRun
<1>4. StoreTypeOK' /\ \A j \in Seeds \ {i} : call'[j] = call[j]
  BY <1>1, <1>2, <1>3 DEF TypeInv, TypeOK, StoreTypeOK, Seeds
<1>5. i \in Seeds => CallFits(i)'
  BY <1>1, <1>2, <1>3 DEF CallFits, Seeds
<1>6. lost' \subseteq Names
  <2>1. CASE i \notin Resets
    BY <2>1 DEF Die, TypeInv, TypeOK
  <2>2. CASE i \in Resets
    <3>1. run[i].stage \notin {"idle", "done", "strings"}
      BY <1>1, <2>2 DEF TypeInv, Fits, Active
    <3>2. At(i) \in Names
      BY <3>1, TargetType DEF TypeInv, TypeOK, Fits, At
    <3>3. QED
      BY <3>2 DEF Die, TypeInv, TypeOK
  <2>3. QED
    BY <2>1, <2>2
<1>7. Fits(i, IdleRun)
  BY IdleFits
<1>8. QED
  BY <1>1, <1>4, <1>5, <1>6, <1>7, RunKeeps DEF TypeInv, TypeOK

LEMMA TypeRotate ==
  ASSUME TypeInv, NEW r \in Names, Rotate(r)
  PROVE  TypeInv'
<1>1. /\ run' = [i \in Walkers |-> [run[i] EXCEPT !.tainted = Active(i)]]
      /\ UNCHANGED <<target, role, databases, strings, lost>>
      /\ rotated' \subseteq Names
  BY DEF Rotate, TypeInv, TypeOK
<1>2. \A i \in Walkers : Walk(i)' = Walk(i)
  BY <1>1 DEF Walk
<1>3. Listed' = Listed
  BY <1>1 DEF Listed
<1>4. run \in [Walkers -> RunState]
  BY DEF TypeInv, TypeOK
<1>5. ASSUME NEW i \in Walkers
      PROVE  /\ run'[i] \in RunState /\ run'[i].stage = run[i].stage
             /\ run'[i].at = run[i].at /\ run'[i].password = run[i].password
  <2>1. run'[i] = [run[i] EXCEPT !.tainted = Active(i)]
    BY <1>1
  <2> DEFINE b == Active(i)
  <2>2. b \in BOOLEAN
    BY DEF Active
  <2>3. run'[i] = [run[i] EXCEPT !.tainted = b]
    BY <2>1
  <2> HIDE DEF b
  <2>4. QED
    BY <1>4, <2>2, <2>3, Zenon DEF RunState
<1>6. run' \in [Walkers -> RunState]
  BY <1>1, <1>5
<1>7. ASSUME NEW i \in Walkers PROVE Fits(i, run[i])'
  <2>1. Fits(i, run'[i])
    BY <1>5 DEF TypeInv, Fits
  <2>2. QED
    BY <1>2, <1>3, <2>1 DEF Fits
<1>8. ASSUME NEW i \in Walkers
      PROVE  /\ (Active(i) /\ run[i].stage # "strings" => run[i].at \in 1..Len(Walk(i)))'
             /\ HasPasswords(i)'
  BY <1>7 DEF Fits, Active, HasPasswords, At
<1>9. /\ call' \in [Callers -> CallState]
      /\ \A c \in Callers : call'[c].pc = call[c].pc /\ call'[c].name = call[c].name
  <2>1. CASE Overwrite(r)
    BY <2>1 DEF Overwrite, TypeInv, TypeOK, StoreTypeOK
  <2>2. CASE Delete(r)
    <3>1. \A c \in Callers :
            /\ [call[c] EXCEPT !.emptied = TRUE] \in CallState
            /\ [call[c] EXCEPT !.emptied = TRUE].pc = call[c].pc
            /\ [call[c] EXCEPT !.emptied = TRUE].name = call[c].name
      BY DEF TypeInv, TypeOK, StoreTypeOK, CallState
    <3>2. QED
      BY <2>2, <3>1 DEF Delete, TypeInv, TypeOK, StoreTypeOK
  <2>3. QED
    BY <2>1, <2>2 DEF Rotate
<1>10. param' \in [Names -> Values \cup {None}] /\ generated' \subseteq Values
  BY DEF Rotate, Delete, Overwrite, TypeInv, TypeOK, StoreTypeOK
<1>11. StoreTypeOK'
  BY <1>9, <1>10 DEF TypeInv, TypeOK, StoreTypeOK
<1>12. ASSUME NEW i \in Seeds PROVE CallFits(i)'
  <2>1. i \in Walkers /\ i \in Callers
    BY DEF Walkers, Seeds
  <2>2. At(i)' = At(i)
    BY <1>2, <1>5, <2>1 DEF At
  <2>3. QED
    BY <1>5, <1>9, <2>1, <2>2 DEF TypeInv, CallFits
<1>13. QED
  BY <1>1, <1>6, <1>7, <1>8, <1>11, <1>12 DEF TypeInv, TypeOK

LEMMA TypeNext == TypeInv /\ [Next]_vars => TypeInv'
<1> SUFFICES ASSUME TypeInv, [Next]_vars PROVE TypeInv'
  OBVIOUS
<1>1. CASE \E i \in Seeds : SeedStep(i)
  BY <1>1, TypeSeedStep
<1>2. CASE \E i \in Resets : ResetStep(i)
  BY <1>2, TypeResetStep
<1>3. CASE \E i \in Walkers : DatabaseStep(i)
  BY <1>3, TypeDatabaseStep
<1>4. CASE \E i \in Walkers : Die(i)
  BY <1>4, TypeDie
<1>5. CASE \E r \in Names : Rotate(r)
  BY <1>5, TypeRotate
<1>6. CASE UNCHANGED vars
  <2>1. UNCHANGED <<param, generated, call, target, role, databases, strings, run,
                    rotated, lost>>
    BY <1>6 DEF vars, storeVars
  <2>2. \A i \in Walkers : Walk(i)' = Walk(i)
    BY <2>1 DEF Walk
  <2>3. Listed' = Listed
    BY <2>1 DEF Listed
  <2>4. TypeOK'
    BY <2>1, <2>2, <2>3 DEF TypeInv, TypeOK, StoreTypeOK, HasPasswords, At, Active
  <2>5. (\A i \in Walkers : Fits(i, run[i]))'
    BY <2>1, <2>2, <2>3 DEF TypeInv, Fits
  <2>6. (\A i \in Seeds : CallFits(i))'
    BY <2>1, <2>2 DEF TypeInv, CallFits, At, Walkers
  <2>7. QED
    BY <2>4, <2>5, <2>6 DEF TypeInv
<1>7. QED
  BY <1>1, <1>2, <1>3, <1>4, <1>5, <1>6 DEF Next

LEMMA TypeAlways == Spec => []TypeInv
BY TypeInit, TypeNext, PTL DEF Spec

(* A seed reaches Postgres with a password for every role it walks, and a  *)
(* reset with the stored one (dbinit.go:97-102, resetapps.go:143-146),     *)
(* and the records, stores and places in the lists stay what they are.     *)
THEOREM TypeCorrect == Spec => []TypeOK
<1>1. TypeInv => TypeOK
  BY DEF TypeInv
<1>2. QED
  BY <1>1, TypeAlways, PTL
-----------------------------------------------------------------------------
(* Ensuring a parameter.  A caller sent back to read finds the parameter,  *)
(* unless it was deleted while the caller waited.                          *)
EmptiedInv ==
  \A c \in Callers :
    call[c].pc = "readBack" /\ param[call[c].name] = None => call[c].emptied

AtomicInv == TypeInv /\ EmptiedInv

(* What a step does to the store and to the calls.                         *)
LEMMA StoreSteps ==
  ASSUME TypeInv, [Next]_vars
  PROVE  \/ \E i \in Callers : EnsureStep(i)
         \/ \E i \in Callers : \E n \in Names :
              call' = [call EXCEPT ![i] = Asking(n)] /\ UNCHANGED <<param, generated>>
         \/ \E i \in Callers :
              call' = [call EXCEPT ![i] = IdleCall] /\ UNCHANGED <<param, generated>>
         \/ \E n \in Names : Delete(n) \/ Overwrite(n)
         \/ UNCHANGED storeVars
<1> USE DEF storeVars
<1>1. ASSUME NEW i \in Seeds, SeedStep(i)
      PROVE  \/ EnsureStep(i)
             \/ \E n \in Names :
                  call' = [call EXCEPT ![i] = Asking(n)] /\ UNCHANGED <<param, generated>>
             \/ call' = [call EXCEPT ![i] = IdleCall] /\ UNCHANGED <<param, generated>>
             \/ UNCHANGED storeVars
  <2>1. i \in Walkers /\ target \in Targets /\ Fits(i, run[i]) /\ CallFits(i)
    BY DEF Walkers, TypeInv, TypeOK
  <2>2. /\ Walk(i) = target.roles /\ Len(Walk(i)) \in Nat \ {0}
        /\ \A k \in 1..Len(Walk(i)) : Walk(i)[k] \in Names
    BY <2>1, TargetType
  <2>3. CASE StartSeed(i)
    <3>1. target.roles[1] \in Names
      BY <2>2
    <3>2. QED
      BY <2>3, <3>1 DEF StartSeed
  <2>4. CASE EnsurePassword(i)
    BY <2>4 DEF EnsurePassword
  <2>5. CASE TakePassword(i)
    <3>1. run[i].at \in 1..Len(Walk(i))
      BY <2>1, <2>5 DEF TakePassword, CallFits, Fits
    <3>2. ~Last(i) => target.roles[run[i].at + 1] \in Names
      BY <2>2, <3>1 DEF Last
    <3>3. QED
      BY <2>5, <3>2 DEF TakePassword
  <2>6. CASE PutString(i)
    BY <2>6 DEF PutString
  <2>7. QED
    BY <1>1, <2>3, <2>4, <2>5, <2>6 DEF SeedStep
<1>2. ASSUME NEW i \in Walkers, ResetStep(i) \/ DatabaseStep(i) PROVE UNCHANGED storeVars
  BY <1>2 DEF ResetStep, StartReset, ReadPassword, DropDatabase, DatabaseStep, CheckRole,
       CreateRole, AlterRole, CheckDatabase, CreateDatabase, dbUnchanged
<1>3. ASSUME NEW i \in Walkers, Die(i)
      PROVE  \/ i \in Callers /\ call' = [call EXCEPT ![i] = IdleCall]
                /\ UNCHANGED <<param, generated>>
             \/ UNCHANGED storeVars
  BY <1>3 DEF Die, Seeds
<1>4. ASSUME NEW r \in Names, Rotate(r) PROVE Delete(r) \/ Overwrite(r)
  BY <1>4 DEF Rotate
<1>5. CASE UNCHANGED vars
  BY <1>5 DEF vars
<1>6. QED
  BY <1>1, <1>2, <1>3, <1>4, <1>5 DEF Next, Seeds, Walkers

LEMMA EmptiedNext ==
  ASSUME AtomicInv, [Next]_vars
  PROVE  EmptiedInv'
<1>1. call \in [Callers -> CallState] /\ param \in [Names -> Values \cup {None}]
  BY DEF AtomicInv, TypeInv, TypeOK, StoreTypeOK
<1>2. \A c \in Callers : call[c].pc # "idle" => call[c].name \in Names
  BY DEF AtomicInv, TypeInv, TypeOK, StoreTypeOK
<1>3. ASSUME NEW i \in Callers, EnsureStep(i) PROVE EmptiedInv'
  <2>1. CASE Get(i)
    <3>1. call'[i].pc # "readBack"
      BY <1>1, <2>1 DEF Get, Answered, CallState
    <3>2. \A c \in Callers \ {i} : call'[c] = call[c]
      BY <1>1, <2>1 DEF Get
    <3>3. QED
      BY <2>1, <3>1, <3>2 DEF Get, AtomicInv, EmptiedInv
  <2>2. CASE Put(i)
    <3>1. PICK v \in Drawn(i) :
             /\ param' = [param EXCEPT ![call[i].name] = v]
             /\ \/ call' = [call EXCEPT ![i] = Answered(i, v, TRUE)]
                \/ call' = [call EXCEPT ![i].value = v]
      BY <2>2 DEF Put
    <3>2. v \in Values
      BY <1>1, <3>1 DEF Drawn, CallState, AtomicInv, TypeInv, TypeOK, StoreTypeOK
    <3>3. call'[i].pc # "readBack"
      <4>1. CASE call' = [call EXCEPT ![i] = Answered(i, v, TRUE)]
        BY <1>1, <4>1 DEF Answered, CallState
      <4>2. CASE call' = [call EXCEPT ![i] = [call[i] EXCEPT !.value = v]]
        <5>1. [call[i] EXCEPT !.value = v].pc = call[i].pc
          BY <1>1 DEF CallState
        <5>2. QED
          BY <1>1, <2>2, <4>2, <5>1 DEF Put
      <4>3. QED
        BY <3>1, <4>1, <4>2
    <3>4. \A c \in Callers \ {i} : call'[c] = call[c]
      BY <1>1, <3>1
    <3>5. \A n \in Names : param'[n] = None => param[n] = None
      BY <1>1, <3>1, <3>2, NoneAssumption DEF NoneAssumption
    <3>6. QED
      BY <1>2, <3>3, <3>4, <3>5 DEF AtomicInv, EmptiedInv
  <2>3. CASE PutRefused(i)
    <3>1. call'[i].name = call[i].name /\ param' = param /\ param[call[i].name] # None
          /\ \A c \in Callers \ {i} : call'[c] = call[c]
      BY <1>1, <2>3 DEF PutRefused, CallState
    <3>2. QED
      BY <3>1 DEF AtomicInv, EmptiedInv
  <2>4. CASE ReadBack(i)
    <3>1. call'[i].pc # "readBack" /\ param' = param
          /\ \A c \in Callers \ {i} : call'[c] = call[c]
      BY <1>1, <2>4 DEF ReadBack, Answered, CallState
    <3>2. QED
      BY <3>1 DEF AtomicInv, EmptiedInv
  <2>5. QED
    BY <1>3, <2>1, <2>2, <2>3, <2>4 DEF EnsureStep
<1>4. ASSUME NEW i \in Callers, NEW s, s.pc # "readBack",
             call' = [call EXCEPT ![i] = s], param' = param
      PROVE  EmptiedInv'
  BY <1>1, <1>4 DEF AtomicInv, EmptiedInv
<1>5. IdleCall.pc # "readBack" /\ \A n \in Names : Asking(n).pc # "readBack"
  BY DEF IdleCall, Asking
<1>6. ASSUME NEW n \in Names, Delete(n) PROVE EmptiedInv'
  <2>1. ASSUME NEW c \in Callers, call[c].pc = "readBack"
        PROVE  /\ call'[c].name = call[c].name
               /\ call[c].name = n => call'[c].emptied
               /\ call[c].name # n => call'[c] = call[c]
    BY <1>1, <1>6, <2>1 DEF Delete, CallState
  <2>2. \A c \in Callers : call'[c].pc = call[c].pc
    BY <1>1, <1>6 DEF Delete, CallState
  <2>3. \A m \in Names \ {n} : param'[m] = param[m]
    BY <1>1, <1>6 DEF Delete
  <2>4. QED
    BY <1>2, <2>1, <2>2, <2>3 DEF AtomicInv, EmptiedInv
<1>7. ASSUME NEW n \in Names, Overwrite(n) PROVE EmptiedInv'
  <2>1. PICK v \in Values : param' = [param EXCEPT ![n] = v] /\ call' = call
    BY <1>7 DEF Overwrite
  <2>2. \A m \in Names : param'[m] = None => param[m] = None
    BY <1>1, <2>1, NoneAssumption DEF NoneAssumption
  <2>3. QED
    BY <1>2, <2>1, <2>2 DEF AtomicInv, EmptiedInv
<1>8. CASE UNCHANGED storeVars
  BY <1>8 DEF storeVars, AtomicInv, EmptiedInv
<1>9. QED
  BY <1>3, <1>4, <1>5, <1>6, <1>7, <1>8, StoreSteps DEF AtomicInv

(* What is seen of a call, field by field.                                 *)
StateOf(pc) == IF pc \in {"get", "put", "readBack"} THEN "asked" ELSE pc

LEMMA SeenFields ==
  ASSUME NEW c, NEW b \in BOOLEAN, NEW e \in BOOLEAN, NEW p, NEW n, NEW a, NEW w,
         call[c] = [pc |-> p, name |-> n, value |-> w, answer |-> a,
                    created |-> b, emptied |-> e]
  PROVE  Seen(c) = [state |-> StateOf(p), name |-> n, answer |-> a,
                    created |-> b, emptied |-> e]
BY DEF Seen, StateOf

LEMMA SeenFieldsNext ==
  ASSUME NEW c, NEW b \in BOOLEAN, NEW e \in BOOLEAN, NEW p, NEW n, NEW a, NEW w,
         call'[c] = [pc |-> p, name |-> n, value |-> w, answer |-> a,
                     created |-> b, emptied |-> e]
  PROVE  Seen(c)' = [state |-> StateOf(p), name |-> n, answer |-> a,
                     created |-> b, emptied |-> e]
BY DEF Seen, StateOf

LEMMA AtomicInit == Init => Atomic!Init
<1> SUFFICES ASSUME Init PROVE Atomic!Init
  OBVIOUS
<1>1. ASSUME NEW c \in Callers
      PROVE  Seen(c) = Atomic!Idle
  <2>1. call[c] = [pc |-> "idle", name |-> None, value |-> None, answer |-> None,
                   created |-> FALSE, emptied |-> FALSE]
    BY DEF Init, StoreInit, IdleCall
  <2>2. Seen(c) = [state |-> StateOf("idle"), name |-> None, answer |-> None,
                   created |-> FALSE, emptied |-> FALSE]
    <3>1. FALSE \in BOOLEAN
      OBVIOUS
    <3>2. QED
      BY <2>1, <3>1, SeenFields, Zenon
  <2>3. StateOf("idle") = "idle"
    BY DEF StateOf
  <2>4. QED
    BY <2>2, <2>3, Zenon DEF Atomic!Idle, Atomic!Call
<1>2. QED
  BY <1>1 DEF Init, StoreInit, Atomic!Init

(* Each step on the store and the calls, as the abstract one it is.        *)
Pending == {"get", "put", "readBack"}

LEMMA SeenEnsure ==
  ASSUME AtomicInv, NEW i \in Callers, EnsureStep(i)
  PROVE  \/ Atomic!Create(i) \/ Atomic!Answer(i)
         \/ UNCHANGED <<param, [c \in Callers |-> Seen(c)]>>
<1> DEFINE bar == [c \in Callers |-> Seen(c)]
           n == call[i].name
           Told(v, b) == Atomic!Call("answered", n, v, b, call[i].emptied)
<1>1. call \in [Callers -> CallState] /\ param \in [Names -> Values \cup {None}]
      /\ generated \subseteq Values /\ call[i] \in CallState
  BY DEF AtomicInv, TypeInv, TypeOK, StoreTypeOK
<1>2. call[i].pc \in Pending /\ n \in Names
  BY DEF EnsureStep, Get, Put, PutRefused, ReadBack, Pending, AtomicInv, TypeInv,
         TypeOK, StoreTypeOK
<1>3. bar[i].state = "asked" /\ bar[i].name = n /\ bar[i].emptied = call[i].emptied
  BY <1>2 DEF Seen, Pending
<1>4. ASSUME NEW v \in Values \cup {None}, NEW b \in BOOLEAN,
             call' = [call EXCEPT ![i] = Answered(i, v, b)]
      PROVE  bar' = [bar EXCEPT ![i] = Told(v, b)]
  <2>1. \A c \in Callers \ {i} : call'[c] = call[c]
    BY <1>1, <1>4
  <2>2. PICK e \in BOOLEAN : e = call[i].emptied
    BY <1>1, Zenon DEF CallState
  <2>3. Seen(i)' = Told(v, b)
    <3> DEFINE w == call[i].value
    <3>a. call'[i] = [pc |-> "answered", name |-> n, value |-> w, answer |-> v,
                      created |-> b, emptied |-> e]
      <4>1. call'[i] = Answered(i, v, b)
        BY <1>1, <1>4
      <4>2. QED
        BY <2>2, <4>1, Zenon DEF Answered
    <3> HIDE DEF w, n
    <3>1. Seen(i)' = [state |-> StateOf("answered"), name |-> n, answer |-> v,
                      created |-> b, emptied |-> e]
      BY <1>4, <3>a DEF Seen, StateOf
    <3>2. StateOf("answered") = "answered"
      BY DEF StateOf
    <3>3. QED
      BY <2>2, <3>1, <3>2, Zenon DEF Atomic!Call
  <2>4. \A c \in Callers \ {i} : Seen(c)' = Seen(c)
    BY <2>1 DEF Seen
  <2>5. QED
    BY <2>3, <2>4
<1>5. ASSUME NEW s \in CallState, call' = [call EXCEPT ![i] = s], s.pc \in Pending,
             s.name = n, s.answer = call[i].answer, s.created = call[i].created,
             s.emptied = call[i].emptied
      PROVE  bar' = bar
  <2>1. call'[i] = s /\ \A c \in Callers \ {i} : call'[c] = call[c]
    BY <1>1, <1>5
  <2>2. Seen(i)' = Seen(i)
    BY <1>2, <1>5, <2>1 DEF Seen, Pending
  <2>3. \A c \in Callers : Seen(c)' = Seen(c)
    BY <2>1, <2>2 DEF Seen
  <2>4. QED
    BY <2>3
<1>6. CASE Get(i)
  <2>1. param' = param
    BY <1>6 DEF Get
  <2>2. CASE param[n] # None
    <3>1. param[n] \in Values /\ call' = [call EXCEPT ![i] = Answered(i, param[n], FALSE)]
      BY <1>1, <1>2, <1>6, <2>2 DEF Get
    <3>2. bar' = [bar EXCEPT ![i] = Told(param[n], FALSE)]
      BY <1>4, <3>1
    <3>3. QED
      BY <1>3, <2>1, <2>2, <3>2 DEF Atomic!Answer, Atomic!Told
  <2>3. CASE param[n] = None
    <3> DEFINE s == [call[i] EXCEPT !.pc = "put"]
    <3>1. /\ s \in CallState /\ s.pc \in Pending /\ s.name = n /\ s.answer = call[i].answer
          /\ s.created = call[i].created /\ s.emptied = call[i].emptied
      BY <1>1 DEF CallState, Pending
    <3>2. call' = [call EXCEPT ![i] = s]
      BY <1>6, <2>3 DEF Get
    <3> HIDE DEF s, bar
    <3>3. bar' = bar
      BY <1>5, <3>1, <3>2
    <3>4. QED
      BY <2>1, <3>3 DEF bar
  <2>4. QED
    BY <2>2, <2>3
<1>7. CASE Put(i)
  <2>1. PICK v \in Drawn(i) :
           /\ param' = [param EXCEPT ![n] = v]
           /\ \/ call' = [call EXCEPT ![i] = Answered(i, v, TRUE)]
              \/ call' = [call EXCEPT ![i].value = v]
    BY <1>7 DEF Put
  <2>2. v \in Values /\ param[n] = None /\ call[i].pc = "put"
    BY <1>1, <1>7, <2>1 DEF Drawn, CallState, Put
  <2>3. CASE call' = [call EXCEPT ![i] = Answered(i, v, TRUE)]
    <3>1. bar' = [bar EXCEPT ![i] = Told(v, TRUE)]
      BY <1>4, <2>2, <2>3
    <3>2. QED
      BY <1>3, <2>1, <2>2, <3>1 DEF Atomic!Create, Atomic!Told
  <2>4. CASE call' = [call EXCEPT ![i].value = v]
    <3> DEFINE s == [call[i] EXCEPT !.value = v]
    <3>1. /\ s \in CallState /\ s.pc \in Pending /\ s.name = n /\ s.answer = call[i].answer
          /\ s.created = call[i].created /\ s.emptied = call[i].emptied
      BY <1>1, <2>2 DEF CallState, Pending
    <3>2. call' = [call EXCEPT ![i] = s]
      BY <2>4
    <3>3. bar' = bar
      <4> HIDE DEF s, bar
      <4>1. QED
        BY <1>5, <3>1, <3>2
    <3>4. QED
      BY <1>3, <2>1, <2>2, <3>3 DEF Atomic!Create
  <2>5. QED
    BY <2>1, <2>3, <2>4
<1>8. CASE PutRefused(i)
  <2> DEFINE s == [call[i] EXCEPT !.pc = "readBack"]
  <2>1. /\ s \in CallState /\ s.pc \in Pending /\ s.name = n /\ s.answer = call[i].answer
        /\ s.created = call[i].created /\ s.emptied = call[i].emptied
    BY <1>1 DEF CallState, Pending
  <2>2. call' = [call EXCEPT ![i] = s] /\ param' = param
    BY <1>8 DEF PutRefused
  <2>3. bar' = bar
    <3> HIDE DEF s, bar
    <3>1. QED
      BY <1>5, <2>1, <2>2
  <2>4. QED
    BY <2>2, <2>3
<1>9. CASE ReadBack(i)
  <2>1. param' = param /\ call[i].pc = "readBack"
        /\ call' = [call EXCEPT ![i] = Answered(i, param[n], FALSE)]
    BY <1>9 DEF ReadBack
  <2>2. param[n] \in Values \cup {None} /\ (param[n] = None => call[i].emptied)
    BY <1>1, <1>2, <2>1 DEF AtomicInv, EmptiedInv
  <2>3. bar' = [bar EXCEPT ![i] = Told(param[n], FALSE)]
    BY <1>4, <2>1, <2>2
  <2>4. QED
    BY <1>3, <2>1, <2>2, <2>3 DEF Atomic!Answer, Atomic!Told
<1>10. QED
  BY <1>6, <1>7, <1>8, <1>9 DEF EnsureStep

LEMMA SeenNext ==
  ASSUME AtomicInv, [Next]_vars
  PROVE  Atomic!Next \/ UNCHANGED Atomic!vars
<1> DEFINE bar == [c \in Callers |-> Seen(c)]
           Emptied(c) == Atomic!Call("asked", Seen(c).name, Seen(c).answer,
                                     Seen(c).created, TRUE)
<1>1. call \in [Callers -> CallState]
  BY DEF AtomicInv, TypeInv, TypeOK, StoreTypeOK
<1>2. ASSUME NEW i \in Callers, EnsureStep(i)
      PROVE  Atomic!Next \/ UNCHANGED Atomic!vars
  BY <1>2, SeenEnsure DEF Atomic!Next, Atomic!vars
<1>3. ASSUME NEW i \in Callers, NEW s, call' = [call EXCEPT ![i] = s]
      PROVE  /\ \A c \in Callers \ {i} : Seen(c)' = Seen(c)
             /\ call'[i] = s
  BY <1>1, <1>3 DEF Seen
<1>4. ASSUME NEW i \in Callers, NEW n \in Names, call' = [call EXCEPT ![i] = Asking(n)],
             UNCHANGED <<param, generated>>
      PROVE  Atomic!Next
  <2>1. Seen(i)' = Atomic!Asking(n)
    <3>1. Seen(i)' = [state |-> StateOf("get"), name |-> n, answer |-> None,
                      created |-> FALSE, emptied |-> FALSE]
      <4>1. FALSE \in BOOLEAN
        OBVIOUS
      <4>2. call'[i] = [pc |-> "get", name |-> n, value |-> None, answer |-> None,
                        created |-> FALSE, emptied |-> FALSE]
        BY <1>3, <1>4 DEF Asking
      <4>3. QED
        BY <4>1, <4>2, SeenFieldsNext, Zenon
    <3>2. StateOf("get") = "asked"
      BY DEF StateOf
    <3>3. QED
      BY <3>1, <3>2, Zenon DEF Atomic!Asking, Atomic!Call
  <2>2. bar' = [bar EXCEPT ![i] = Atomic!Asking(n)]
    BY <1>3, <1>4, <2>1
  <2>3. Atomic!Ask(i)
    BY <1>4, <2>2 DEF Atomic!Ask
  <2>4. QED
    BY <2>3 DEF Atomic!Next
<1>5. ASSUME NEW i \in Callers, call' = [call EXCEPT ![i] = IdleCall],
             UNCHANGED <<param, generated>>
      PROVE  Atomic!Next
  <2>1. Seen(i)' = Atomic!Idle
    <3>1. Seen(i)' = [state |-> StateOf("idle"), name |-> None, answer |-> None,
                      created |-> FALSE, emptied |-> FALSE]
      <4>1. FALSE \in BOOLEAN
        OBVIOUS
      <4>2. call'[i] = [pc |-> "idle", name |-> None, value |-> None, answer |-> None,
                        created |-> FALSE, emptied |-> FALSE]
        BY <1>3, <1>5 DEF IdleCall
      <4>3. QED
        BY <4>1, <4>2, SeenFieldsNext, Zenon
    <3>2. StateOf("idle") = "idle"
      BY DEF StateOf
    <3>3. QED
      BY <3>1, <3>2, Zenon DEF Atomic!Idle, Atomic!Call
  <2>2. bar' = [bar EXCEPT ![i] = Atomic!Idle]
    BY <1>3, <1>5, <2>1
  <2>3. Atomic!Leave(i)
    BY <1>5, <2>2 DEF Atomic!Leave
  <2>4. QED
    BY <2>3 DEF Atomic!Next
<1>6. ASSUME NEW n \in Names, Delete(n) PROVE Atomic!Next
  <2>1. ASSUME NEW c \in Callers
        PROVE  Seen(c)' = IF Seen(c).state = "asked" /\ Seen(c).name = n
                          THEN Emptied(c) ELSE Seen(c)
    <3>1. call[c] \in CallState
      BY <1>1
    <3>2. call'[c] = IF call[c].pc \in Pending /\ call[c].name = n
                     THEN [call[c] EXCEPT !.emptied = TRUE] ELSE call[c]
      BY <1>6 DEF Delete, Pending
    <3>3. CASE call[c].pc \in Pending /\ call[c].name = n
      <4>1. PICK b \in BOOLEAN : b = call[c].created
        BY <3>1, Zenon DEF CallState
      <4>2. PICK e \in BOOLEAN : e = TRUE
        OBVIOUS
      <4>3. call'[c] = [pc |-> call[c].pc, name |-> n, value |-> call[c].value,
                        answer |-> call[c].answer, created |-> b, emptied |-> e]
        BY <3>1, <3>2, <3>3, <4>1, <4>2 DEF CallState
      <4>4. Seen(c)' = [state |-> StateOf(call[c].pc), name |-> n, answer |-> call[c].answer,
                        created |-> b, emptied |-> e]
        BY <4>3 DEF Seen, StateOf
      <4>5. StateOf(call[c].pc) = "asked" /\ Seen(c).state = "asked" /\ Seen(c).name = n
            /\ Seen(c).answer = call[c].answer
        BY <3>3 DEF StateOf, Pending, Seen
      <4>6. Seen(c).created = b
        BY <4>1, Zenon DEF Seen
      <4>7. Seen(c)' = Emptied(c)
        BY <4>2, <4>4, <4>5, <4>6, Zenon DEF Atomic!Call
      <4>8. QED
        BY <4>5, <4>7
    <3>4. CASE ~(call[c].pc \in Pending /\ call[c].name = n)
      <4>1. call'[c] = call[c]
        BY <3>2, <3>4
      <4>2. Seen(c)' = Seen(c)
        BY <4>1 DEF Seen
      <4>3. ~(Seen(c).state = "asked" /\ Seen(c).name = n)
        BY <3>1, <3>4 DEF Seen, Pending, CallState
      <4>4. QED
        BY <4>2, <4>3
    <3>5. QED
      BY <3>3, <3>4
  <2>2. bar' = [c \in Callers |-> IF bar[c].state = "asked" /\ bar[c].name = n
                                  THEN Emptied(c) ELSE bar[c]]
    BY <2>1
  <2>3. Atomic!Empty(n)
    BY <1>6, <2>2 DEF Delete, Atomic!Empty, Atomic!Emptied
  <2>4. QED
    BY <2>3 DEF Atomic!Next
<1>7. ASSUME NEW n \in Names, Overwrite(n) PROVE Atomic!Next
  <2>1. bar' = bar
    BY <1>7 DEF Overwrite, Seen
  <2>2. Atomic!Replace(n)
    BY <1>7, <2>1 DEF Overwrite, Atomic!Replace
  <2>3. QED
    BY <2>2 DEF Atomic!Next
<1>8. CASE UNCHANGED storeVars
  BY <1>8 DEF storeVars, Atomic!vars, Seen
<1>9. QED
  <2>1. TypeInv
    BY DEF AtomicInv
  <2>2. QED
    BY <1>2, <1>4, <1>5, <1>6, <1>7, <1>8, <2>1, StoreSteps

LEMMA AtomicAlways == Spec => []AtomicInv
<1>1. Init => AtomicInv
  <2>1. Init => EmptiedInv
    BY DEF Init, StoreInit, IdleCall, EmptiedInv
  <2>2. QED
    BY <2>1, TypeInit DEF AtomicInv
<1>2. AtomicInv /\ [Next]_vars => AtomicInv'
  BY TypeNext, EmptiedNext DEF AtomicInv
<1>3. QED
  BY <1>1, <1>2, PTL DEF Spec

(* ssmstore.ensure, a read followed by a create that does not overwrite    *)
(* and a second read, is one step to its callers, with any number of them, *)
(* lost answers, deaths and an operator deleting or rewriting parameters.  *)
THEOREM EnsureRefines == Spec => EnsureIsAtomic
<1>1. AtomicInv /\ [Next]_vars => [Atomic!Next]_(Atomic!vars)
  BY SeenNext
<1>2. Spec => Atomic!Init /\ [][Atomic!Next]_(Atomic!vars)
  BY <1>1, AtomicInit, AtomicAlways, PTL DEF Spec
<1>3. QED
  BY <1>2 DEF EnsureIsAtomic, Atomic!Spec
-----------------------------------------------------------------------------
(* The connection strings.  While nobody rotated the password of a role,   *)
(* what any invocation holds for it, what Postgres has and what a string   *)
(* carries is the stored password or nothing yet; and a seed that is past  *)
(* a role has applied its password.                                        *)
Kept == Names \ rotated

HoldsStored(password) ==
  \A r \in Kept : password[r] \in {None, param[r]}

RolesHoldStored == \A r \in Kept : role[r] \in {None, NoPassword, param[r]}

AnswersStored ==
  \A c \in Callers :
    call[c].pc = "answered" /\ call[c].name \in Kept =>
      call[c].answer \in {None, param[call[c].name]}

(* Has the seed with this record applied the password of role r?           *)
Past(s, r) ==
  \/ /\ s.stage \in {"role", "create", "alter", "database", "createDatabase"}
     /\ \E m \in 1..Len(target.roles) : m < s.at /\ target.roles[m] = r
  \/ s.stage \in {"database", "createDatabase"} /\ target.roles[s.at] = r
  \/ s.stage = "strings" /\ r \in Listed

Applied(s) ==
  /\ \A r \in Kept : Past(s, r) => role[r] = s.password[r]
  /\ s.stage = "strings" => \A q \in s.unwritten : RoleOf[q] \in Listed

StringsInv ==
  /\ \A i \in Walkers : HoldsStored(run[i].password)
  /\ RolesHoldStored /\ AnswersStored /\ StringsFitTheRoles
  /\ \A i \in Seeds : Applied(run[i])

LEMMA StringsInit == Init => StringsInv
<1> SUFFICES ASSUME Init PROVE StringsInv
  OBVIOUS
<1>1. \A i \in Walkers : run[i] = IdleRun
  BY DEF Init
<1>2. \A i \in Walkers : run[i].stage = "idle" /\ \A r \in Names : run[i].password[r] = None
  BY <1>1 DEF IdleRun
<1>3. \A i \in Walkers : HoldsStored(run[i].password)
  BY <1>2 DEF HoldsStored, Kept
<1>4. RolesHoldStored /\ StringsFitTheRoles
  BY DEF Init, RolesHoldStored, Kept, StringsFitTheRoles
<1>5. AnswersStored
  BY DEF Init, StoreInit, IdleCall, AnswersStored
<1>6. \A i \in Seeds : Applied(run[i])
  BY <1>2 DEF Applied, Past, Walkers
<1>7. QED
  BY <1>3, <1>4, <1>5, <1>6 DEF StringsInv

(* A seed past a role holds a password for it.                             *)
LEMMA PastHolds ==
  ASSUME TypeInv, NEW i \in Seeds, NEW r \in Names, Past(run[i], r)
  PROVE  run[i].password[r] \in Values
<1>1. i \in Walkers /\ target \in Targets /\ Fits(i, run[i]) /\ Walk(i) = target.roles
  BY TargetType DEF Walkers, TypeInv, TypeOK
<1>2. r \in Listed
  BY <1>1, TargetType DEF Past, Fits, Listed
<1>3. QED
  BY <1>1, <1>2 DEF Fits, Past

(* A step that leaves the store and every password a role has alone, and   *)
(* writes only strings with such a password, keeps the invariant if the    *)
(* record it puts in place does.                                           *)
LEMMA RunKeepsStrings ==
  ASSUME TypeInv, StringsInv, NEW i \in Walkers, NEW s, run' = [run EXCEPT ![i] = s],
         HoldsStored(s.password), i \in Seeds => Applied(s)',
         UNCHANGED <<param, target, rotated>>, AnswersStored',
         \A q \in Strings :
           \/ strings'[q] = strings[q]
           \/ RoleOf[q] \in Kept =>
                role[RoleOf[q]] \in Values /\ strings'[q] = role[RoleOf[q]],
         \A r \in Kept : role[r] \in Values => role'[r] = role[r],
         \A r \in Kept : role'[r] \in {None, NoPassword, param[r]}
  PROVE  StringsInv'
<1>1. run \in [Walkers -> RunState] /\ strings \in [Strings -> Values \cup {None}]
  BY DEF TypeInv, TypeOK
<1>2. run'[i] = s /\ \A j \in Walkers \ {i} : run'[j] = run[j]
  BY <1>1
<1>3. Kept' = Kept /\ Listed' = Listed
  BY DEF Kept, Listed
<1>4. ASSUME NEW j \in Walkers PROVE HoldsStored(run[j].password)'
  <2>1. HoldsStored(run'[j].password)
    BY <1>2 DEF StringsInv, HoldsStored
  <2>2. QED
    BY <1>3, <2>1 DEF HoldsStored
<1>5. ASSUME NEW j \in Seeds PROVE Applied(run[j])'
  <2>1. CASE j = i
    <3>1. run'[j] = s /\ Applied(s)'
      BY <1>2, <2>1
    <3>2. QED
      BY <3>1 DEF Applied, Past, Listed, Kept
  <2>2. CASE j # i
    <3>1. run'[j] = run[j] /\ Applied(run[j])
      BY <1>2, <2>2 DEF StringsInv, Walkers
    <3>2. ASSUME NEW r \in Kept, Past(run[j], r) PROVE role'[r] = run[j].password[r]
      <4>1. run[j].password[r] \in Values /\ role[r] = run[j].password[r]
        BY <3>1, <3>2, PastHolds DEF Kept, Applied
      <4>2. QED
        BY <4>1
    <3>3. \A r \in Kept : Past(run[j], r)' => Past(run[j], r)
      BY <1>3, <3>1 DEF Past
    <3>4. QED
      BY <1>3, <3>1, <3>2, <3>3 DEF Applied
  <2>3. QED
    BY <2>1, <2>2
<1>6. RolesHoldStored'
  BY <1>3 DEF RolesHoldStored
<1>7. StringsFitTheRoles'
  <2>1. ASSUME NEW q \in Strings, strings'[q] # None, RoleOf[q] \notin rotated
        PROVE  strings'[q] = role'[RoleOf[q]] /\ strings'[q] = param[RoleOf[q]]
    <3>1. RoleOf[q] \in Kept
      BY <2>1, StringsAssumption DEF StringsAssumption, Kept
    <3>2. strings'[q] \in Values /\ strings'[q] = role[RoleOf[q]]
      <4>1. CASE strings'[q] = strings[q]
        BY <1>1, <2>1, <4>1 DEF StringsInv, StringsFitTheRoles
      <4>2. CASE strings'[q] # strings[q]
        BY <3>1, <4>2
      <4>3. QED
        BY <4>1, <4>2
    <3>3. role'[RoleOf[q]] = role[RoleOf[q]]
      BY <3>1, <3>2
    <3>4. role[RoleOf[q]] \in {None, NoPassword, param[RoleOf[q]]}
      BY <3>1 DEF StringsInv, RolesHoldStored
    <3>5. QED
      BY <3>2, <3>3, <3>4, NoneAssumption, PasswordAssumption
         DEF NoneAssumption, PasswordAssumption
  <2>2. QED
    BY <2>1 DEF StringsFitTheRoles
<1>8. QED
  BY <1>4, <1>5, <1>6, <1>7 DEF StringsInv

(* The record an invocation has after a role, its own and past ones done.  *)
LEMMA AfterRoleApplied ==
  ASSUME TypeInv, NEW i \in Seeds,
         run[i].stage \in {"alter", "database", "createDatabase"},
         target' = target, rotated' = rotated,
         \A r \in Kept : Past(run[i], r) \/ r = At(i) => role'[r] = run[i].password[r]
  PROVE  \A s : s = AfterRole(i) => Applied(s)' /\ s.password = run[i].password
<1>1. /\ i \in Walkers /\ i \notin Resets /\ Fits(i, run[i]) /\ target \in Targets
      /\ Walk(i) = target.roles /\ Len(target.roles) \in Nat
  BY ActorsAssumption, TargetType DEF ActorsAssumption, Seeds, Walkers, TypeInv, TypeOK
<1>2. run[i].at \in 1..Len(target.roles) /\ At(i) = target.roles[run[i].at]
  BY <1>1 DEF Fits, At
<1>3. Kept' = Kept /\ Listed' = Listed
  BY DEF Kept, Listed
<1> DEFINE rest == [run[i] EXCEPT !.dropped = FALSE]
<1>4. rest \in RunState /\ rest.stage = run[i].stage /\ rest.at = run[i].at
      /\ rest.password = run[i].password
  BY <1>1 DEF Fits, RunState
<1> HIDE DEF rest
<1> TAKE s
<1> HAVE s = AfterRole(i)
<1>5. CASE ~Last(i)
  <2>1. s = [rest EXCEPT !.stage = "role", !.at = run[i].at + 1]
    BY <1>1, <1>5 DEF AfterRole, NextRole, rest
  <2>2. /\ s.stage = "role" /\ s.at = run[i].at + 1 /\ s.password = run[i].password
    BY <1>4, <2>1 DEF RunState
  <2>3. ASSUME NEW r \in Kept, Past(s, r)' PROVE Past(run[i], r) \/ r = At(i)
    <3>1. PICK m \in 1..Len(target.roles) : m < run[i].at + 1 /\ target.roles[m] = r
      BY <2>2, <2>3 DEF Past
    <3>2. CASE m = run[i].at
      BY <1>2, <3>1, <3>2
    <3>3. CASE m < run[i].at
      BY <3>1, <3>3 DEF Past
    <3>4. QED
      BY <1>2, <3>1, <3>2, <3>3
  <2>4. QED
    BY <1>3, <2>2, <2>3 DEF Applied
<1>6. CASE Last(i)
  <2>1. s = [rest EXCEPT !.stage = "strings",
                         !.unwritten = {q \in Strings : RoleOf[q] \in Listed}]
    BY <1>1, <1>6 DEF AfterRole, rest
  <2>2. /\ s.stage = "strings" /\ s.password = run[i].password
        /\ s.unwritten = {q \in Strings : RoleOf[q] \in Listed}
    BY <1>4, <2>1 DEF RunState
  <2>3. ASSUME NEW r \in Kept, Past(s, r)' PROVE Past(run[i], r) \/ r = At(i)
    <3>1. r \in Listed
      BY <1>3, <2>2, <2>3 DEF Past
    <3>2. PICK m \in 1..Len(target.roles) : target.roles[m] = r
      BY <3>1 DEF Listed
    <3>3. CASE m = run[i].at
      BY <1>2, <3>2, <3>3
    <3>4. CASE m < run[i].at
      BY <3>2, <3>4 DEF Past
    <3>5. QED
      BY <1>1, <1>2, <1>6, <3>2, <3>3, <3>4 DEF Last
  <2>4. QED
    BY <1>3, <2>2, <2>3 DEF Applied
<1>7. QED
  BY <1>5, <1>6

(* A record that differs from the one in place in its stage only.          *)
LEMMA MoveApplied ==
  ASSUME TypeInv, StringsInv, NEW i \in Seeds,
         NEW g \in {"create", "alter", "database", "createDatabase"},
         run[i].stage \in {"role", "create", "alter", "database"},
         g \in {"database", "createDatabase"} =>
           \/ run[i].stage = "database"
           \/ role'[At(i)] = run[i].password[At(i)],
         target' = target, rotated' = rotated,
         \A r \in Kept : role[r] \in Values => role'[r] = role[r]
  PROVE  \A s : s = [run[i] EXCEPT !.stage = g] =>
           Applied(s)' /\ s.password = run[i].password
<1>1. /\ i \in Walkers /\ Fits(i, run[i]) /\ Applied(run[i]) /\ target \in Targets
      /\ Walk(i) = target.roles
  BY TargetType DEF Walkers, TypeInv, TypeOK, StringsInv
<1>2. At(i) = target.roles[run[i].at]
  BY <1>1 DEF At
<1>3. Kept' = Kept /\ Listed' = Listed
  BY DEF Kept, Listed
<1> TAKE s
<1> HAVE s = [run[i] EXCEPT !.stage = g]
<1>4. s.stage = g /\ s.at = run[i].at /\ s.password = run[i].password
  BY <1>1 DEF Fits, RunState
<1>5. ASSUME NEW r \in Kept, Past(s, r)' PROVE role'[r] = s.password[r]
  <2>1. CASE Past(run[i], r)
    <3>1. run[i].password[r] \in Values /\ role[r] = run[i].password[r]
      BY <1>1, <2>1, PastHolds DEF Kept, Applied
    <3>2. QED
      BY <1>4, <3>1
  <2>2. CASE ~Past(run[i], r)
    <3>1. g \in {"database", "createDatabase"} /\ r = At(i) /\ run[i].stage # "database"
      BY <1>2, <1>4, <1>5, <2>2 DEF Past
    <3>2. QED
      BY <1>4, <3>1
  <2>3. QED
    BY <2>1, <2>2
<1>6. QED
  BY <1>3, <1>4, <1>5 DEF Applied

LEMMA StringsDatabaseStep ==
  ASSUME TypeInv, StringsInv, NEW i \in Walkers, DatabaseStep(i)
  PROVE  StringsInv'
<1>1. /\ run[i].stage \in {"role", "create", "alter", "database", "createDatabase"}
      /\ Fits(i, run[i]) /\ target \in Targets /\ HoldsStored(run[i].password)
      /\ UNCHANGED <<param, generated, call, target, strings, rotated>>
  BY DEF DatabaseStep, CheckRole, CreateRole, AlterRole, CheckDatabase,
         CreateDatabase, dbUnchanged, storeVars, TypeInv, TypeOK, StringsInv
<1>2. At(i) \in Names /\ run[i].at \in 1..Len(Walk(i))
  BY <1>1, TargetType DEF Fits, At
<1>3. run[i].stage = "alter" => run[i].password[At(i)] \in Values
  <2>1. CASE i \in Seeds
    BY <1>1, <1>2, <2>1, TargetType DEF Fits, At
  <2>2. CASE i \in Resets
    BY <1>1, <2>2 DEF Fits, At
  <2>3. QED
    BY <2>1, <2>2 DEF Walkers
<1>4. AlterRole(i) => role' = [role EXCEPT ![At(i)] = run[i].password[At(i)]]
  BY <1>3, NoneAssumption DEF AlterRole, AsPassword, NoneAssumption
<1>5. role \in [Names -> Values \cup {None, NoPassword}]
  BY DEF TypeInv, TypeOK
<1>6. AlterRole(i) => role'[At(i)] = run[i].password[At(i)]
  BY <1>2, <1>4, <1>5
<1>7. ASSUME NEW r \in Kept
      PROVE  /\ role[r] \in Values => role'[r] = role[r]
             /\ role'[r] \in {None, NoPassword, param[r]}
  <2>1. r \in Names /\ role[r] \in {None, NoPassword, param[r]}
    BY DEF Kept, StringsInv, RolesHoldStored
  <2>2. CASE AlterRole(i) /\ r = At(i)
    <3>1. role'[r] = run[i].password[r] /\ run[i].password[r] \in Values
      BY <1>3, <1>6, <2>2 DEF AlterRole
    <3>2. run[i].password[r] = param[r]
      BY <1>1, <3>1, NoneAssumption DEF HoldsStored, NoneAssumption
    <3>3. role[r] \in Values => role[r] = param[r]
      BY <2>1, NoneAssumption, PasswordAssumption DEF NoneAssumption, PasswordAssumption
    <3>4. QED
      BY <3>1, <3>2, <3>3
  <2>3. CASE CreateRole(i) /\ r = At(i)
    <3>1. role'[r] = IF role[r] = None THEN NoPassword ELSE role[r]
      BY <1>5, <2>1, <2>3 DEF CreateRole
    <3>2. QED
      BY <2>1, <3>1, NoneAssumption DEF NoneAssumption
  <2>4. CASE r # At(i) \/ ~(AlterRole(i) \/ CreateRole(i))
    <3>1. role'[r] = role[r]
      BY <1>2, <1>4, <1>5, <2>1, <2>4
         DEF DatabaseStep, CheckRole, CreateRole, CheckDatabase, CreateDatabase
    <3>2. QED
      BY <2>1, <3>1
  <2>5. QED
    BY <2>2, <2>3, <2>4
<1>8. AnswersStored'
  BY <1>1 DEF StringsInv, AnswersStored, Kept
<1>9. ASSUME NEW s, run' = [run EXCEPT ![i] = s], HoldsStored(s.password),
             i \in Seeds => Applied(s)'
      PROVE  StringsInv'
  BY <1>1, <1>7, <1>8, <1>9, RunKeepsStrings
<1>10. ASSUME NEW g \in {"create", "alter", "database", "createDatabase"},
              run' = [run EXCEPT ![i] = [run[i] EXCEPT !.stage = g]],
              run[i].stage \in {"role", "create", "alter", "database"},
              g \in {"database", "createDatabase"} =>
                run[i].stage = "database" \/ AlterRole(i)
       PROVE  StringsInv'
  <2>1. PICK s : s = [run[i] EXCEPT !.stage = g]
    OBVIOUS
  <2>2. s.password = run[i].password
    BY <1>1, <2>1 DEF Fits, RunState
  <2>3. i \in Seeds => Applied(s)'
    BY <1>1, <1>6, <1>7, <1>10, <2>1, MoveApplied
  <2>4. QED
    BY <1>1, <1>9, <1>10, <2>1, <2>2, <2>3
<1>11. ASSUME run' = [run EXCEPT ![i] = AfterRole(i)],
              run[i].stage \in {"database", "createDatabase"} \/ AlterRole(i)
       PROVE  StringsInv'
  <2>1. PICK s : s = AfterRole(i)
    OBVIOUS
  <2>2. run[i].stage \in {"alter", "database", "createDatabase"}
    BY <1>11 DEF AlterRole
  <2>3. CASE i \in Seeds
    <3>1. ASSUME NEW r \in Kept, Past(run[i], r) \/ r = At(i)
          PROVE  role'[r] = run[i].password[r]
      <4>1. CASE AlterRole(i) /\ r = At(i)
        BY <1>6, <4>1
      <4>2. CASE ~(AlterRole(i) /\ r = At(i))
        <5>1. Past(run[i], r)
          BY <1>11, <2>3, <3>1, <4>2, TargetType, <1>1 DEF Past, At, AlterRole
        <5>2. run[i].password[r] \in Values /\ role[r] = run[i].password[r]
          BY <2>3, <5>1, PastHolds DEF Kept, Applied, StringsInv
        <5>3. QED
          BY <1>7, <5>2
      <4>3. QED
        BY <4>1, <4>2
    <3>2. Applied(s)' /\ s.password = run[i].password
      BY <1>1, <2>1, <2>2, <2>3, <3>1, AfterRoleApplied
    <3>3. QED
      BY <1>1, <1>9, <1>11, <2>1, <3>2
  <2>4. CASE i \notin Seeds
    <3>1. HoldsStored(s.password)
      <4>1. CASE Last(i)
        <5>1. s = DoneRun
          BY <2>1, <2>4, <4>1 DEF AfterRole, Walkers
        <5>2. \A r \in Names : s.password[r] = None
          BY <5>1 DEF DoneRun, IdleRun
        <5>3. QED
          BY <5>2 DEF HoldsStored, Kept
      <4>2. CASE ~Last(i)
        <5>1. s.password = run[i].password
          BY <1>1, <2>1, <4>2 DEF AfterRole, Fits, RunState
        <5>2. QED
          BY <1>1, <5>1
      <4>3. QED
        BY <4>1, <4>2
    <3>2. QED
      BY <1>9, <1>11, <2>1, <2>4, <3>1
  <2>5. QED
    BY <2>3, <2>4
<1>12. CASE CheckRole(i)
  BY <1>10, <1>12 DEF CheckRole, Goto
<1>13. CASE CreateRole(i)
  BY <1>10, <1>13 DEF CreateRole, Goto
<1>14. CASE AlterRole(i)
  BY <1>10, <1>11, <1>14 DEF AlterRole
<1>15. CASE CheckDatabase(i)
  BY <1>10, <1>11, <1>15 DEF CheckDatabase
<1>16. CASE CreateDatabase(i)
  BY <1>11, <1>16 DEF CreateDatabase
<1>17. QED
  BY <1>12, <1>13, <1>14, <1>15, <1>16 DEF DatabaseStep

(* A call of ensure only fills a parameter that held nothing.              *)
LEMMA EnsureStored ==
  ASSUME TypeInv, StringsInv, NEW i \in Seeds, EnsurePassword(i)
  PROVE  /\ \A r \in Names : param'[r] = param[r] \/ param[r] = None
         /\ call'[i].pc = "answered" /\ call'[i].name \in Names =>
              call'[i].answer = param'[call'[i].name]
<1>1. /\ i \in Callers /\ call \in [Callers -> CallState]
      /\ param \in [Names -> Values \cup {None}] /\ EnsureStep(i)
  BY DEF EnsurePassword, TypeInv, TypeOK, StoreTypeOK, Seeds
<1>2. call[i].pc # "idle" /\ call[i].name \in Names /\ call[i] \in CallState
  BY <1>1 DEF TypeInv, TypeOK, StoreTypeOK, EnsureStep, Get, Put, PutRefused, ReadBack
<1>3. ASSUME NEW v, NEW s, s = Answered(i, v, TRUE) \/ s = Answered(i, v, FALSE),
             call' = [call EXCEPT ![i] = s]
      PROVE  call'[i].name = call[i].name /\ call'[i].answer = v
  <2>1. s.name = call[i].name /\ s.answer = v
    BY <1>3 DEF Answered
  <2>2. call'[i] = s
    BY <1>1, <1>3
  <2>3. QED
    BY <2>1, <2>2
<1>4. CASE Get(i)
  <2>1. CASE param[call[i].name] # None
    <3>1. call' = [call EXCEPT ![i] = Answered(i, param[call[i].name], FALSE)]
          /\ param' = param
      BY <1>4, <2>1 DEF Get
    <3>2. QED
      BY <1>3, <3>1
  <2>2. CASE param[call[i].name] = None
    <3>1. call'[i].pc = "put" /\ param' = param
      BY <1>1, <1>2, <1>4, <2>2 DEF Get, CallState
    <3>2. QED
      BY <3>1
  <2>3. QED
    BY <2>1, <2>2
<1>5. CASE Put(i)
  <2>1. PICK v \in Drawn(i) :
          /\ param' = [param EXCEPT ![call[i].name] = v]
          /\ \/ call' = [call EXCEPT ![i] = Answered(i, v, TRUE)]
             \/ call' = [call EXCEPT ![i].value = v]
    BY <1>5 DEF Put
  <2>2. \A r \in Names : param'[r] = param[r] \/ param[r] = None
    BY <1>1, <1>2, <1>5, <2>1 DEF Put
  <2>3. param'[call[i].name] = v
    BY <1>1, <1>2, <2>1
  <2>4. CASE call' = [call EXCEPT ![i] = Answered(i, v, TRUE)]
    <3>1. call'[i].name = call[i].name /\ call'[i].answer = v
      BY <1>3, <2>4
    <3>2. QED
      BY <2>2, <2>3, <3>1
  <2>5. CASE call' = [call EXCEPT ![i].value = v]
    <3>1. call'[i].pc = "put"
      BY <1>1, <1>2, <1>5, <2>5 DEF Put, CallState
    <3>2. QED
      BY <2>2, <3>1
  <2>6. QED
    BY <2>1, <2>4, <2>5
<1>6. CASE PutRefused(i)
  <2>1. call'[i].pc = "readBack" /\ param' = param
    BY <1>1, <1>2, <1>6 DEF PutRefused, CallState
  <2>2. QED
    BY <2>1
<1>7. CASE ReadBack(i)
  <2>1. call' = [call EXCEPT ![i] = Answered(i, param[call[i].name], FALSE)]
        /\ param' = param
    BY <1>7 DEF ReadBack
  <2>2. QED
    BY <1>3, <2>1
<1>8. QED
  BY <1>1, <1>4, <1>5, <1>6, <1>7 DEF EnsureStep

LEMMA StringsEnsure ==
  ASSUME TypeInv, StringsInv, NEW i \in Seeds, EnsurePassword(i)
  PROVE  StringsInv'
<1>1. /\ UNCHANGED <<target, role, strings, run, rotated>>
      /\ \A d \in Callers \ {i} : call'[d] = call[d]
  BY EnsureType DEF EnsurePassword, Seeds, TypeInv, TypeOK
<1>2. \A r \in Names : param'[r] = param[r] \/ param[r] = None
  BY EnsureStored
<1>3. Kept' = Kept /\ Kept \subseteq Names /\ Listed' = Listed
  BY <1>1 DEF Kept, Listed
<1>4. \A j \in Walkers : HoldsStored(run[j].password)'
  BY <1>1, <1>2, <1>3 DEF StringsInv, HoldsStored
<1>5. RolesHoldStored'
  BY <1>1, <1>2, <1>3 DEF StringsInv, RolesHoldStored
<1>6. AnswersStored'
  <2>1. ASSUME NEW c \in Callers, call'[c].pc = "answered", call'[c].name \in Kept
        PROVE  call'[c].answer \in {None, param'[call'[c].name]}
    <3>1. CASE c = i
      BY <1>3, <2>1, <3>1, EnsureStored
    <3>2. CASE c # i
      BY <1>1, <1>2, <1>3, <2>1, <3>2 DEF StringsInv, AnswersStored
    <3>3. QED
      BY <3>1, <3>2
  <2>2. QED
    BY <1>3, <2>1 DEF AnswersStored
<1>7. StringsFitTheRoles'
  <2>1. ASSUME NEW s \in Strings, strings[s] # None, RoleOf[s] \notin rotated
        PROVE  strings[s] = role[RoleOf[s]] /\ strings[s] = param'[RoleOf[s]]
    <3>1. RoleOf[s] \in Names /\ strings[s] = role[RoleOf[s]] /\ strings[s] = param[RoleOf[s]]
      BY <2>1, StringsAssumption DEF StringsAssumption, StringsInv, StringsFitTheRoles
    <3>2. QED
      BY <1>2, <2>1, <3>1
  <2>2. QED
    BY <1>1, <2>1 DEF StringsFitTheRoles
<1>8. \A j \in Seeds : Applied(run[j])'
  BY <1>1, <1>3 DEF StringsInv, Applied, Past
<1>9. QED
  BY <1>4, <1>5, <1>6, <1>7, <1>8 DEF StringsInv

LEMMA StringsPut ==
  ASSUME TypeInv, StringsInv, NEW i \in Seeds, PutString(i)
  PROVE  StringsInv'
<1>1. /\ i \in Walkers /\ Fits(i, run[i]) /\ Applied(run[i]) /\ run[i].stage = "strings"
      /\ HoldsStored(run[i].password) /\ strings \in [Strings -> Values \cup {None}]
      /\ UNCHANGED <<param, generated, call, target, role, rotated>>
  BY DEF PutString, Walkers, TypeInv, TypeOK, StringsInv, storeVars
<1>2. PICK q \in run[i].unwritten :
        /\ strings' = [strings EXCEPT ![q] = run[i].password[RoleOf[q]]]
        /\ run' = [run EXCEPT ![i] = IF run[i].unwritten = {q} THEN DoneRun
                                     ELSE [run[i] EXCEPT !.unwritten = @ \ {q}]]
  BY DEF PutString
<1>3. q \in Strings /\ RoleOf[q] \in Listed /\ RoleOf[q] \in Names
  BY <1>1, <1>2, StringsAssumption DEF StringsAssumption, Fits, RunState, Applied
<1>4. RoleOf[q] \in Kept =>
        role[RoleOf[q]] \in Values /\ strings'[q] = role[RoleOf[q]]
  <2>1. Past(run[i], RoleOf[q])
    BY <1>1, <1>3 DEF Past
  <2>2. run[i].password[RoleOf[q]] \in Values
    BY <1>3, <2>1, PastHolds
  <2>3. strings'[q] = run[i].password[RoleOf[q]]
    BY <1>1, <1>2, <1>3
  <2>4. QED
    BY <1>1, <2>1, <2>2, <2>3 DEF Applied
<1>5. \A p \in Strings \ {q} : strings'[p] = strings[p]
  BY <1>1, <1>2
<1>6. AnswersStored'
  BY <1>1 DEF StringsInv, AnswersStored, Kept
<1>7. \A r \in Kept : role'[r] \in {None, NoPassword, param[r]}
  BY <1>1 DEF StringsInv, RolesHoldStored
<1>8. ASSUME NEW s, run' = [run EXCEPT ![i] = s], HoldsStored(s.password), Applied(s)'
      PROVE  StringsInv'
  BY <1>1, <1>4, <1>5, <1>6, <1>7, <1>8, RunKeepsStrings
<1>9. CASE run[i].unwritten = {q}
  <2>1. PICK s : s = DoneRun
    OBVIOUS
  <2>2. s.stage = "done" /\ \A r \in Names : s.password[r] = None
    BY <2>1 DEF DoneRun, IdleRun
  <2>3. HoldsStored(s.password) /\ Applied(s)'
    BY <2>2 DEF HoldsStored, Kept, Applied, Past
  <2>4. QED
    BY <1>2, <1>8, <1>9, <2>1, <2>3
<1>10. CASE run[i].unwritten # {q}
  <2>1. PICK s : s = [run[i] EXCEPT !.unwritten = run[i].unwritten \ {q}]
    OBVIOUS
  <2>2. /\ s.stage = "strings" /\ s.password = run[i].password
        /\ s.unwritten \subseteq run[i].unwritten
    BY <1>1, <2>1 DEF Fits, RunState
  <2>3. Applied(s)'
    BY <1>1, <2>2 DEF Applied, Past, Kept, Listed
  <2>4. QED
    BY <1>1, <1>2, <1>8, <1>10, <2>1, <2>2, <2>3
<1>11. QED
  BY <1>9, <1>10

LEMMA StringsSeedStep ==
  ASSUME TypeInv, StringsInv, NEW i \in Seeds, SeedStep(i)
  PROVE  StringsInv'
<1>1. /\ i \in Walkers /\ i \in Callers /\ Fits(i, run[i]) /\ CallFits(i)
      /\ HoldsStored(run[i].password) /\ target \in Targets
      /\ call \in [Callers -> CallState]
  BY DEF Walkers, Seeds, TypeInv, TypeOK, StoreTypeOK, StringsInv
<1>2. \A r \in Kept : role[r] \in {None, NoPassword, param[r]}
  BY DEF StringsInv, RolesHoldStored
<1>3. ASSUME NEW s, run' = [run EXCEPT ![i] = s], HoldsStored(s.password),
             s.stage \in {"idle", "passwords"} \/ (s.stage = "role" /\ s.at = 1),
             NEW q, call' = [call EXCEPT ![i] = q], q.pc # "answered",
             UNCHANGED <<param, target, role, strings, rotated>>
      PROVE  StringsInv'
  <2>1. AnswersStored'
    <3>1. call'[i] = q /\ \A d \in Callers \ {i} : call'[d] = call[d]
      BY <1>1, <1>3
    <3>2. QED
      BY <1>3, <3>1 DEF StringsInv, AnswersStored, Kept
  <2>2. \A r : ~Past(s, r)'
    <3>1. ASSUME NEW m \in 1..Len(target.roles), m < s.at
          PROVE  s.stage # "role"
      BY <1>1, <1>3, <3>1, TargetType
    <3>2. QED
      BY <1>3, <3>1 DEF Past
  <2>3. Applied(s)'
    BY <1>3, <2>2 DEF Applied
  <2>4. QED
    BY <1>1, <1>2, <1>3, <2>1, <2>3, RunKeepsStrings
<1>4. \A n : Asking(n).pc = "get"
  BY DEF Asking
<1>5. IdleCall.pc = "idle" /\ IdleRun.stage = "idle" /\ HoldsStored(IdleRun.password)
  BY DEF IdleCall, IdleRun, HoldsStored, Kept
<1>6. CASE StartSeed(i)
  <2>1. PICK s : s = Started(i, "passwords")
    OBVIOUS
  <2>2. s.stage = "passwords" /\ s.password = IdleRun.password
    BY <2>1 DEF Started, IdleRun
  <2>3. QED
    BY <1>3, <1>4, <1>5, <1>6, <2>1, <2>2 DEF StartSeed
<1>7. CASE TakePassword(i)
  <2>1. PICK password : password = [run[i].password EXCEPT ![At(i)] = call[i].answer]
    OBVIOUS
  <2>2. PICK took : took = [run[i] EXCEPT !.password = password]
    OBVIOUS
  <2>3. /\ run[i].stage = "passwords" /\ call[i].name = At(i) /\ At(i) \in Names
        /\ call[i].pc = "answered"
    BY <1>1, <1>7, TargetType DEF TakePassword, CallFits, Fits, At
  <2>4. HoldsStored(password)
    <3>1. At(i) \in Kept => call[i].answer \in {None, param[At(i)]}
      BY <1>1, <2>3 DEF StringsInv, AnswersStored
    <3>2. \A r \in Names : password[r] = IF r = At(i) THEN call[i].answer ELSE run[i].password[r]
      BY <1>1, <2>1, <2>3 DEF Fits, RunState
    <3>3. QED
      BY <1>1, <3>1, <3>2 DEF HoldsStored, Kept
  <2>5. /\ UNCHANGED <<param, target, role, strings, rotated>>
        /\ \/ /\ run' = [run EXCEPT ![i] = [took EXCEPT !.at = run[i].at + 1]]
              /\ call' = [call EXCEPT ![i] = Asking(target.roles[run[i].at + 1])]
           \/ /\ \/ run' = [run EXCEPT ![i] = [took EXCEPT !.stage = "role", !.at = 1]]
                 \/ run' = [run EXCEPT ![i] = IdleRun]
              /\ call' = [call EXCEPT ![i] = IdleCall]
    BY <1>7, <2>1, <2>2 DEF TakePassword
  <2>6. took \in [stage : Stages, at : Nat, password : {password},
                  unwritten : SUBSET Strings, dropped : BOOLEAN, tainted : BOOLEAN]
        /\ took.stage = "passwords"
    BY <1>1, <2>2, <2>3 DEF Fits, RunState
  <2>7. CASE /\ run' = [run EXCEPT ![i] = [took EXCEPT !.at = run[i].at + 1]]
             /\ call' = [call EXCEPT ![i] = Asking(target.roles[run[i].at + 1])]
    <3>1. PICK s : s = [took EXCEPT !.at = run[i].at + 1]
      OBVIOUS
    <3>2. s.stage = "passwords" /\ s.password = password
      BY <2>6, <3>1
    <3>3. QED
      BY <1>3, <1>4, <2>4, <2>5, <2>7, <3>1, <3>2
  <2>8. CASE /\ run' = [run EXCEPT ![i] = [took EXCEPT !.stage = "role", !.at = 1]]
             /\ call' = [call EXCEPT ![i] = IdleCall]
    <3>1. PICK s : s = [took EXCEPT !.stage = "role", !.at = 1]
      OBVIOUS
    <3>2. s.stage = "role" /\ s.at = 1 /\ s.password = password
      BY <2>6, <3>1
    <3>3. QED
      BY <1>3, <1>5, <2>4, <2>5, <2>8, <3>1, <3>2
  <2>9. CASE /\ run' = [run EXCEPT ![i] = IdleRun]
             /\ call' = [call EXCEPT ![i] = IdleCall]
    BY <1>3, <1>5, <2>5, <2>9
  <2>10. QED
    BY <2>5, <2>7, <2>8, <2>9
<1>8. QED
  BY <1>6, <1>7, StringsEnsure, StringsPut DEF SeedStep

LEMMA StringsResetStep ==
  ASSUME TypeInv, StringsInv, NEW i \in Resets, ResetStep(i)
  PROVE  StringsInv'
<1>1. /\ i \in Walkers /\ i \notin Seeds /\ Fits(i, run[i]) /\ target \in Targets
      /\ HoldsStored(run[i].password)
  BY ActorsAssumption DEF ActorsAssumption, Walkers, Seeds, TypeInv, TypeOK, StringsInv
<1>2. UNCHANGED <<param, generated, call, target, role, strings, rotated>>
  BY DEF ResetStep, StartReset, ReadPassword, DropDatabase, dbUnchanged, storeVars
<1>3. AnswersStored' /\ \A r \in Kept : role'[r] \in {None, NoPassword, param[r]}
  BY <1>2 DEF StringsInv, AnswersStored, RolesHoldStored, Kept
<1>4. ASSUME NEW s, run' = [run EXCEPT ![i] = s], HoldsStored(s.password)
      PROVE  StringsInv'
  BY <1>1, <1>2, <1>3, <1>4, RunKeepsStrings
<1>5. HoldsStored(IdleRun.password)
  BY DEF IdleRun, HoldsStored, Kept
<1>6. CASE StartReset(i)
  <2>1. Started(i, "read").password = IdleRun.password
    BY DEF Started, IdleRun
  <2>2. QED
    BY <1>4, <1>5, <1>6, <2>1 DEF StartReset
<1>7. CASE ReadPassword(i)
  <2>1. PICK password : password = [IdleRun.password EXCEPT ![At(i)] = param[At(i)]]
    OBVIOUS
  <2>2. PICK s : s = [run[i] EXCEPT !.stage = "drop", !.password = password]
    OBVIOUS
  <2>3. \A r \in Names : password[r] \in {None, param[r]}
    BY <2>1 DEF IdleRun
  <2>4. s.password = password
    BY <1>1, <2>2 DEF Fits, RunState
  <2>5. HoldsStored(s.password)
    BY <2>3, <2>4 DEF HoldsStored, Kept
  <2>6. run' = [run EXCEPT ![i] = IdleRun] \/ run' = [run EXCEPT ![i] = s]
    BY <1>7, <2>1, <2>2 DEF ReadPassword
  <2>7. QED
    BY <1>4, <1>5, <2>5, <2>6
<1>8. CASE DropDatabase(i)
  <2>1. PICK s : s = [run[i] EXCEPT !.stage = "role", !.dropped = At(i) \in databases]
    OBVIOUS
  <2>2. s.password = run[i].password
    BY <1>1, <2>1, Zenon DEF Fits, RunState
  <2>3. run' = [run EXCEPT ![i] = s]
    BY <1>8, <2>1 DEF DropDatabase
  <2>4. QED
    BY <1>1, <1>4, <2>2, <2>3
<1>9. QED
  BY <1>6, <1>7, <1>8 DEF ResetStep

LEMMA StringsDie ==
  ASSUME TypeInv, StringsInv, NEW i \in Walkers, Die(i)
  PROVE  StringsInv'
<1>1. /\ run' = [run EXCEPT ![i] = IdleRun]
      /\ call' = IF i \in Seeds THEN [call EXCEPT ![i] = IdleCall] ELSE call
      /\ UNCHANGED <<param, generated, target, role, databases, strings, rotated>>
  BY DEF Die
<1>2. IdleCall.pc = "idle" /\ IdleRun.stage = "idle" /\ HoldsStored(IdleRun.password)
  BY DEF IdleCall, IdleRun, HoldsStored, Kept
<1>3. AnswersStored'
  BY <1>1, <1>2 DEF TypeInv, TypeOK, StoreTypeOK, StringsInv, AnswersStored, Kept
<1>4. PICK s : s = IdleRun
  OBVIOUS
<1>5. Applied(s)'
  BY <1>2, <1>4 DEF Applied, Past
<1>6. \A r \in Kept : role'[r] \in {None, NoPassword, param[r]}
  BY <1>1 DEF StringsInv, RolesHoldStored
<1>7. QED
  BY <1>1, <1>2, <1>3, <1>4, <1>5, <1>6, RunKeepsStrings

(* A rotation takes its role out of what the invariant speaks of.          *)
LEMMA StringsRotate ==
  ASSUME TypeInv, StringsInv, NEW r \in Names, Rotate(r)
  PROVE  StringsInv'
<1>1. /\ UNCHANGED <<target, role, strings>>
      /\ run' = [i \in Walkers |-> [run[i] EXCEPT !.tainted = Active(i)]]
      /\ rotated' = rotated \cup {r}
  BY DEF Rotate
<1>2. \A n \in Names \ {r} : param'[n] = param[n]
  BY DEF Rotate, Delete, Overwrite, TypeInv, TypeOK, StoreTypeOK
<1>3. Kept' \subseteq Kept /\ r \notin Kept' /\ Kept' \subseteq Names /\ Listed' = Listed
  BY <1>1 DEF Kept, Listed
<1>4. ASSUME NEW i \in Walkers
      PROVE  /\ run'[i].stage = run[i].stage /\ run'[i].at = run[i].at
             /\ run'[i].password = run[i].password /\ run'[i].unwritten = run[i].unwritten
  <2>1. PICK b : b = Active(i)
    OBVIOUS
  <2>2. run'[i] = [run[i] EXCEPT !.tainted = b] /\ run[i] \in RunState
    BY <1>1, <2>1 DEF TypeInv, TypeOK
  <2>3. QED
    BY <2>2, Zenon DEF RunState
<1>5. \A i \in Walkers : HoldsStored(run[i].password)'
  BY <1>2, <1>3, <1>4 DEF StringsInv, HoldsStored
<1>6. RolesHoldStored'
  BY <1>1, <1>2, <1>3 DEF StringsInv, RolesHoldStored
<1>7. AnswersStored'
  <2>1. ASSUME NEW c \in Callers, call'[c].pc = "answered"
        PROVE  call'[c] = call[c]
    <3>1. CASE Delete(r)
      <4>1. call'[c] = IF call[c].pc \in {"get", "put", "readBack"} /\ call[c].name = r
                       THEN [call[c] EXCEPT !.emptied = TRUE] ELSE call[c]
        BY <3>1 DEF Delete
      <4>2. [call[c] EXCEPT !.emptied = TRUE].pc = call[c].pc
        BY DEF TypeInv, TypeOK, StoreTypeOK, CallState
      <4>3. QED
        BY <2>1, <4>1, <4>2
    <3>2. CASE Overwrite(r)
      BY <3>2 DEF Overwrite
    <3>3. QED
      BY <3>1, <3>2 DEF Rotate
  <2>2. QED
    BY <1>2, <1>3, <2>1 DEF StringsInv, AnswersStored
<1>8. StringsFitTheRoles'
  <2>1. ASSUME NEW s \in Strings, strings[s] # None, RoleOf[s] \notin rotated'
        PROVE  strings[s] = role[RoleOf[s]] /\ strings[s] = param'[RoleOf[s]]
    <3>1. RoleOf[s] \in Names \ {r} /\ RoleOf[s] \notin rotated
      BY <1>1, <2>1, StringsAssumption DEF StringsAssumption
    <3>2. QED
      BY <1>2, <2>1, <3>1 DEF StringsInv, StringsFitTheRoles
  <2>2. QED
    BY <1>1, <2>1 DEF StringsFitTheRoles
<1>9. ASSUME NEW i \in Seeds PROVE Applied(run[i])'
  <2>1. i \in Walkers /\ Applied(run[i])
    BY DEF Walkers, StringsInv
  <2>2. QED
    BY <1>1, <1>3, <1>4, <2>1 DEF Applied, Past
<1>10. QED
  BY <1>5, <1>6, <1>7, <1>8, <1>9 DEF StringsInv

LEMMA StringsNext == TypeInv /\ StringsInv /\ [Next]_vars => StringsInv'
<1> SUFFICES ASSUME TypeInv, StringsInv, [Next]_vars PROVE StringsInv'
  OBVIOUS
<1>1. CASE UNCHANGED vars
  BY <1>1 DEF vars, storeVars, StringsInv, HoldsStored, RolesHoldStored, AnswersStored,
     StringsFitTheRoles, Applied, Past, Kept, Listed
<1>2. CASE Next
  BY <1>2, StringsSeedStep, StringsResetStep, StringsDatabaseStep, StringsDie, StringsRotate
     DEF Next
<1>3. QED
  BY <1>1, <1>2

(* A stored connection string of a role whose password was never rotated   *)
(* carries the stored password, and Postgres has it, for any roles, any    *)
(* strings, and any number of overlapping and dying seeds and resets.      *)
THEOREM StringsFit == Spec => []StringsFitTheRoles
<1>1. Init => TypeInv /\ StringsInv
  BY TypeInit, StringsInit
<1>2. TypeInv /\ StringsInv /\ [Next]_vars => (TypeInv /\ StringsInv)'
  BY TypeNext, StringsNext
<1>3. StringsInv => StringsFitTheRoles
  BY DEF StringsInv
<1>4. QED
  BY <1>1, <1>2, <1>3, PTL DEF Spec

(* A role that has a password keeps one: an ALTER ROLE never runs with the *)
(* empty string that ensure may return.                                    *)
THEOREM PasswordsStay == Spec => PasswordStays
<1>1. TypeInv /\ [Next]_vars => \A r \in Names : role[r] \in Values => role'[r] \in Values
  <2> SUFFICES ASSUME TypeInv, [Next]_vars, NEW r \in Names, role[r] \in Values
               PROVE  role'[r] \in Values
    OBVIOUS
  <2>1. role \in [Names -> Values \cup {None, NoPassword}] /\ target \in Targets
    BY DEF TypeInv, TypeOK
  <2>2. ASSUME NEW i \in Walkers, CreateRole(i) PROVE role'[r] = role[r]
    BY <2>1, <2>2, NoneAssumption DEF CreateRole, NoneAssumption
  <2>3. ASSUME NEW i \in Walkers, AlterRole(i)
        PROVE  role'[r] \in Values
    <3>1. Fits(i, run[i]) /\ run[i].stage = "alter"
      BY <2>3 DEF TypeInv, AlterRole
    <3>2. run[i].password[At(i)] \in Values
      <4>1. CASE i \in Seeds
        BY <2>1, <3>1, <4>1, TargetType DEF Fits, At
      <4>2. CASE i \in Resets
        BY <3>1, <4>2 DEF Fits, At
      <4>3. QED
        BY <4>1, <4>2 DEF Walkers
    <3>3. role' = [role EXCEPT ![At(i)] = run[i].password[At(i)]]
      BY <2>3, <3>2, NoneAssumption DEF AlterRole, AsPassword, NoneAssumption
    <3>4. QED
      BY <2>1, <3>2, <3>3
  <2>4. CASE \E i \in Walkers : DatabaseStep(i)
    BY <2>2, <2>3, <2>4 DEF DatabaseStep, CheckRole, CheckDatabase, CreateDatabase
  <2>5. CASE role' = role
    BY <2>5
  <2>6. role' = role \/ \E i \in Walkers : DatabaseStep(i)
    BY DEF Next, SeedStep, StartSeed, EnsurePassword, TakePassword, PutString,
           ResetStep, StartReset, ReadPassword, DropDatabase, Die, Rotate, vars
  <2>7. QED
    BY <2>4, <2>5, <2>6
<1>2. QED
  BY <1>1, TypeAlways, PTL DEF Spec, PasswordStays
-----------------------------------------------------------------------------
(* The databases.  A database a seed or a reset has seen to stays, but for *)
(* what a reset has dropped and is to recreate, or died on before it could. *)
Walking == {"role", "create", "alter", "database", "createDatabase"}

Accounted(r) ==
  \/ r \in databases \cup lost
  \/ \E j \in Resets : run[j].dropped /\ At(j) = r

(* Has the seed with this record seen to the database of role r?           *)
Walked(s, r) ==
  \/ s.stage \in Walking /\ \E m \in 1..Len(target.roles) : m < s.at /\ target.roles[m] = r
  \/ s.stage = "strings" /\ r \in Listed

(* Of the apps a lone reset is past, none lacks its database, unless the   *)
(* list names it again and the reset is at it.                             *)
Restored(s) ==
  s.stage \in Walking \cup {"read", "drop"} =>
    \A k \in 1..Len(target.apps) :
      k < s.at => \/ target.apps[k] \in databases
                  \/ target.apps[k] = target.apps[s.at] /\ s.stage \in Walking

PlacesInv ==
  /\ \A i \in Resets : run[i].dropped => run[i].stage \in Walking
  /\ \A i \in Seeds : \A r \in Names \ LoginOnly : Walked(run[i], r) => Accounted(r)
  /\ \A i \in Resets : Resets = {i} => Restored(run[i])
  /\ MissingIsAccountedFor

LEMMA PlacesInit == Init => PlacesInv
<1> SUFFICES ASSUME Init PROVE PlacesInv
  OBVIOUS
<1>1. \A i \in Walkers : run[i].stage = "idle" /\ ~run[i].dropped
  BY DEF Init, IdleRun
<1>2. \A q \in Strings : strings[q] = None
  BY DEF Init
<1>3. QED
  BY <1>1, <1>2 DEF PlacesInv, Walked, Walking, Restored, MissingIsAccountedFor, Walkers

(* Who recreates a database answers for it until it is there.              *)
LEMMA AccountedKeeps ==
  ASSUME TypeInv, NEW i \in Walkers, NEW s, run' = [run EXCEPT ![i] = s],
         target' = target, NEW r, Accounted(r),
         NEW here, here = (i \in Resets /\ s.dropped /\ Walk(i)[s.at] = r),
         r \in databases \cup lost => r \in databases' \cup lost' \/ here,
         i \in Resets /\ run[i].dropped /\ At(i) = r => r \in databases' \cup lost' \/ here
  PROVE  Accounted(r)'
<1>1. run'[i] = s /\ \A j \in Walkers \ {i} : run'[j] = run[j]
  BY DEF TypeInv, TypeOK
<1>2. \A j \in Walkers : Walk(j)' = Walk(j)
  BY DEF Walk
<1>3. Resets \subseteq Walkers
  BY DEF Walkers
<1>4. here => Accounted(r)'
  BY <1>1, <1>2, <1>3 DEF Accounted, At
<1>5. CASE r \in databases \cup lost
  BY <1>4, <1>5 DEF Accounted
<1>6. ASSUME NEW j \in Resets, run[j].dropped, At(j) = r
      PROVE  Accounted(r)'
  <2>1. CASE j = i
    BY <1>4, <1>6, <2>1 DEF Accounted
  <2>2. CASE j # i
    <3>1. run'[j].dropped /\ At(j)' = r
      BY <1>1, <1>2, <1>3, <1>6, <2>2 DEF At
    <3>2. QED
      BY <3>1 DEF Accounted
  <2>3. QED
    BY <2>1, <2>2
<1>7. QED
  BY <1>5, <1>6 DEF Accounted

(* A step that loses no database from account and puts a sound record in   *)
(* place keeps the invariant.                                              *)
LEMMA PlacesKeeps ==
  ASSUME TypeInv, PlacesInv, NEW i \in Walkers, NEW s, run' = [run EXCEPT ![i] = s],
         target' = target,
         i \in Resets /\ s.dropped => s.stage \in Walking,
         \A r \in Names \ LoginOnly : Accounted(r) => Accounted(r)',
         i \in Seeds => \A r \in Names \ LoginOnly :
                          Walked(s, r) => Walked(run[i], r) \/ Accounted(r)',
         databases \subseteq databases' \/ i \in Resets,
         Resets = {i} => Restored(s)',
         \A q \in Strings :
           strings'[q] = strings[q] \/ RoleOf[q] \in LoginOnly \/ Accounted(RoleOf[q])
  PROVE  PlacesInv'
<1>1. run'[i] = s /\ \A j \in Walkers \ {i} : run'[j] = run[j]
  BY DEF TypeInv, TypeOK
<1>2. Resets \subseteq Walkers /\ Seeds \subseteq Walkers
  BY DEF Walkers
<1>3. \A j \in Resets : run'[j].dropped => run'[j].stage \in Walking
  BY <1>1, <1>2 DEF PlacesInv
<1>4. ASSUME NEW j \in Seeds, NEW r \in Names \ LoginOnly, Walked(run[j], r)'
      PROVE  Accounted(r)'
  <2>1. Walked(run'[j], r)
    BY <1>4 DEF Walked, Listed
  <2>2. CASE j = i
    BY <1>1, <2>1, <2>2 DEF PlacesInv
  <2>3. CASE j # i
    BY <1>1, <1>2, <2>1, <2>3 DEF PlacesInv
  <2>4. QED
    BY <2>2, <2>3
<1>5. ASSUME NEW j \in Resets, Resets = {j} PROVE Restored(run[j])'
  <2>1. CASE j = i
    BY <1>1, <1>5, <2>1 DEF Restored
  <2>2. CASE j # i
    <3>1. run'[j] = run[j] /\ databases \subseteq databases'
      BY <1>1, <1>2, <1>5, <2>2
    <3>2. Restored(run[j])
      BY <1>5 DEF PlacesInv
    <3>3. QED
      BY <3>1, <3>2 DEF Restored
  <2>3. QED
    BY <2>1, <2>2
<1>6. MissingIsAccountedFor'
  <2>1. ASSUME NEW q \in Strings, strings'[q] # None, RoleOf[q] \notin LoginOnly
        PROVE  Accounted(RoleOf[q])'
    <3>1. RoleOf[q] \in Names \ LoginOnly
      BY <2>1, StringsAssumption DEF StringsAssumption
    <3>2. Accounted(RoleOf[q])
      BY <2>1 DEF PlacesInv, MissingIsAccountedFor, Accounted
    <3>3. QED
      BY <3>1, <3>2
  <2>2. QED
    BY <2>1 DEF MissingIsAccountedFor, Accounted
<1>7. QED
  BY <1>3, <1>4, <1>5, <1>6 DEF PlacesInv

(* A reset is past an app only when it has the database of it.             *)
LEMMA AppsHaveDatabases ==
  ASSUME TypeInv, NEW i \in Resets, run[i].stage \notin {"idle", "done"}
  PROVE  /\ run[i].at \in 1..Len(target.apps) /\ At(i) = target.apps[run[i].at]
         /\ At(i) \in Names \ LoginOnly
         /\ i \in Walkers /\ Fits(i, run[i]) /\ target \in Targets
         /\ Len(target.apps) \in Nat
<1>1. /\ i \in Walkers /\ Fits(i, run[i]) /\ target \in Targets
      /\ Walk(i) = target.apps
      /\ target.apps \in Seq(Names \ LoginOnly) /\ Len(target.apps) \in Nat
  BY TargetType DEF TypeInv, TypeOK, Walkers, Walk
<1>2. run[i].at \in 1..Len(target.apps)
  BY <1>1 DEF Fits
<1>3. QED
  BY <1>1, <1>2 DEF At

(* The record after a role whose database is there.                        *)
LEMMA AfterRolePlaces ==
  ASSUME TypeInv, PlacesInv, NEW i \in Walkers,
         run[i].stage \in {"alter", "database", "createDatabase"},
         target' = target, databases \subseteq databases',
         At(i) \in databases' \/ At(i) \in LoginOnly
  PROVE  \A s : s = AfterRole(i) =>
           /\ ~s.dropped
           /\ i \in Seeds => \A r \in Names : Walked(s, r) => Walked(run[i], r) \/ r = At(i)
           /\ Resets = {i} => Restored(s)'
           /\ i \in Resets /\ s.stage = "done" =>
                Last(i) /\ At(i) \in databases'
<1>1. /\ Fits(i, run[i]) /\ target \in Targets
      /\ run[i].at \in 1..Len(Walk(i)) /\ Len(Walk(i)) \in Nat
  BY TargetType DEF TypeInv, TypeOK, Fits
<1> DEFINE rest == [run[i] EXCEPT !.dropped = FALSE]
<1>2. rest \in RunState /\ rest.stage = run[i].stage /\ rest.at = run[i].at
      /\ rest.dropped = FALSE
  BY <1>1 DEF Fits, RunState
<1> HIDE DEF rest
<1> TAKE s
<1> HAVE s = AfterRole(i)
<1>3. CASE ~Last(i)
  <2>1. s = [rest EXCEPT !.stage = NextRole(i), !.at = run[i].at + 1]
    BY <1>3 DEF AfterRole, rest
  <2>2. s.stage = NextRole(i) /\ s.at = run[i].at + 1 /\ s.dropped = FALSE
    BY <1>2, <2>1 DEF RunState
  <2>3. ASSUME i \in Seeds, NEW r \in Names, Walked(s, r)
        PROVE  Walked(run[i], r) \/ r = At(i)
    <3>1. Walk(i) = target.roles /\ s.stage = "role"
      BY <1>1, <2>2, <2>3, TargetType, ActorsAssumption
         DEF NextRole, ActorsAssumption, Seeds
    <3>2. PICK m \in 1..Len(target.roles) : m < run[i].at + 1 /\ target.roles[m] = r
      BY <2>2, <2>3, <3>1 DEF Walked
    <3>3. CASE m = run[i].at
      BY <3>1, <3>2, <3>3 DEF At
    <3>4. CASE m < run[i].at
      BY <3>2, <3>4 DEF Walked, Walking
    <3>5. QED
      BY <1>1, <3>1, <3>2, <3>3, <3>4
  <2>4. ASSUME Resets = {i} PROVE Restored(s)'
    <3>1. /\ run[i].at \in 1..Len(target.apps) /\ At(i) = target.apps[run[i].at]
          /\ At(i) \notin LoginOnly /\ Restored(run[i])
      BY <2>4, AppsHaveDatabases DEF PlacesInv
    <3>2. At(i) \in databases' /\ target' = target
      BY <3>1
    <3>3. ASSUME NEW k \in 1..Len(target.apps), k < s.at
          PROVE  target.apps[k] \in databases'
      <4>1. CASE k = run[i].at
        BY <3>1, <3>2, <4>1
      <4>2. CASE k < run[i].at
        BY <3>1, <3>2, <4>2 DEF Restored, Walking
      <4>3. QED
        BY <2>2, <3>1, <3>3, <4>1, <4>2
    <3>4. QED
      BY <3>2, <3>3 DEF Restored
  <2>5. s.stage # "done"
    BY <2>2 DEF NextRole
  <2>6. QED
    BY <2>2, <2>3, <2>4, <2>5
<1>4. CASE Last(i) /\ i \in Resets
  <2>1. s = DoneRun
    BY <1>4 DEF AfterRole
  <2>2. s.stage = "done" /\ s.dropped = FALSE
    BY <2>1 DEF DoneRun, IdleRun
  <2>3. At(i) \notin LoginOnly
    BY <1>4, AppsHaveDatabases
  <2>4. i \notin Seeds
    BY <1>4, ActorsAssumption DEF ActorsAssumption, Seeds
  <2>5. QED
    BY <1>4, <2>2, <2>3, <2>4 DEF Restored, Walking
<1>5. CASE Last(i) /\ i \notin Resets
  <2>1. s = [rest EXCEPT !.stage = "strings",
                         !.unwritten = {q \in Strings : RoleOf[q] \in Listed}]
    BY <1>5 DEF AfterRole, rest
  <2>2. s.stage = "strings" /\ s.dropped = FALSE
    BY <1>2, <2>1 DEF RunState
  <2>3. ASSUME i \in Seeds, NEW r \in Names, Walked(s, r)
        PROVE  Walked(run[i], r) \/ r = At(i)
    <3>1. Walk(i) = target.roles
      BY <1>1, <2>3, TargetType
    <3>2. PICK m \in 1..Len(target.roles) : target.roles[m] = r
      BY <2>2, <2>3 DEF Walked, Walking, Listed
    <3>3. CASE m = run[i].at
      BY <3>1, <3>2, <3>3 DEF At
    <3>4. CASE m < run[i].at
      BY <3>2, <3>4 DEF Walked, Walking
    <3>5. QED
      BY <1>1, <1>5, <3>1, <3>2, <3>3, <3>4 DEF Last
  <2>4. QED
    BY <1>5, <2>2, <2>3
<1>6. QED
  BY <1>3, <1>4, <1>5

(* A record that differs from the one in place in its stage only.          *)
LEMMA MovePlaces ==
  ASSUME TypeInv, PlacesInv, NEW i \in Walkers, run[i].stage \in Walking,
         NEW g \in Walking, target' = target, databases \subseteq databases'
  PROVE  \A s : s = [run[i] EXCEPT !.stage = g] =>
           /\ s.dropped = run[i].dropped /\ s.at = run[i].at /\ s.stage \in Walking
           /\ \A r \in Names : Walked(s, r) => Walked(run[i], r)
           /\ Resets = {i} => Restored(s)'
<1>1. run[i] \in RunState
  BY DEF TypeInv, TypeOK
<1> TAKE s
<1> HAVE s = [run[i] EXCEPT !.stage = g]
<1>2. s.dropped = run[i].dropped /\ s.at = run[i].at /\ s.stage = g
  BY <1>1 DEF RunState
<1>3. \A r \in Names : Walked(s, r) => Walked(run[i], r)
  BY <1>2 DEF Walked, Walking
<1>4. ASSUME Resets = {i} PROVE Restored(s)'
  <2>1. Restored(run[i])
    BY <1>4 DEF PlacesInv
  <2>2. QED
    BY <1>2, <2>1 DEF Restored
<1>5. QED
  BY <1>2, <1>3, <1>4

LEMMA PlacesDatabaseStep ==
  ASSUME TypeInv, PlacesInv, NEW i \in Walkers, DatabaseStep(i)
  PROVE  PlacesInv'
<1>1. /\ run[i].stage \in Walking /\ Fits(i, run[i]) /\ target \in Targets
      /\ UNCHANGED <<target, strings>>
      /\ databases \subseteq databases'
      /\ databases \cup lost \subseteq databases' \cup lost'
  BY DEF DatabaseStep, CheckRole, CreateRole, AlterRole, CheckDatabase,
         CreateDatabase, dbUnchanged, TypeInv, TypeOK, Walking
<1>2. Resets \subseteq Walkers /\ Seeds \subseteq Walkers /\ Seeds \cap Resets = {}
  BY ActorsAssumption DEF Walkers, Seeds, ActorsAssumption
<1>3. ASSUME NEW g \in Walking, run' = [run EXCEPT ![i] = [run[i] EXCEPT !.stage = g]]
      PROVE  PlacesInv'
  <2>1. PICK s : s = [run[i] EXCEPT !.stage = g]
    OBVIOUS
  <2>2. /\ s.dropped = run[i].dropped /\ s.at = run[i].at /\ s.stage \in Walking
        /\ \A r \in Names : Walked(s, r) => Walked(run[i], r)
        /\ Resets = {i} => Restored(s)'
    BY <1>1, <1>3, <2>1, MovePlaces
  <2>3. ASSUME NEW r \in Names \ LoginOnly, Accounted(r) PROVE Accounted(r)'
    <3>1. PICK here : here = (i \in Resets /\ s.dropped /\ Walk(i)[s.at] = r)
      OBVIOUS
    <3>2. i \in Resets /\ run[i].dropped /\ At(i) = r => here
      BY <2>2, <3>1, Zenon DEF At
    <3>3. r \in databases \cup lost => r \in databases' \cup lost'
      BY <1>1
    <3>4. QED
      BY <1>1, <1>3, <2>1, <2>3, <3>1, <3>2, <3>3, AccountedKeeps
  <2>4. QED
    BY <1>1, <1>3, <2>1, <2>2, <2>3, PlacesKeeps
<1>4. ASSUME run' = [run EXCEPT ![i] = AfterRole(i)],
             run[i].stage \in {"alter", "database", "createDatabase"},
             At(i) \in databases' \/ At(i) \in LoginOnly
      PROVE  PlacesInv'
  <2>1. PICK s : s = AfterRole(i)
    OBVIOUS
  <2>2. /\ ~s.dropped
        /\ i \in Seeds => \A r \in Names : Walked(s, r) => Walked(run[i], r) \/ r = At(i)
        /\ Resets = {i} => Restored(s)'
    BY <1>1, <1>4, <2>1, AfterRolePlaces
  <2>3. ASSUME NEW r \in Names \ LoginOnly, Accounted(r) PROVE Accounted(r)'
    <3>1. PICK here : here = (i \in Resets /\ s.dropped /\ Walk(i)[s.at] = r)
      OBVIOUS
    <3>2. At(i) = r => r \in databases'
      BY <1>4, <2>3
    <3>3. r \in databases \cup lost => r \in databases' \cup lost'
      BY <1>1
    <3>4. QED
      BY <1>1, <1>4, <2>1, <2>3, <3>1, <3>2, <3>3, AccountedKeeps
  <2>4. ASSUME i \in Seeds, NEW r \in Names \ LoginOnly, Walked(s, r)
        PROVE  Walked(run[i], r) \/ Accounted(r)'
    <3>1. Walked(run[i], r) \/ r = At(i)
      BY <2>2, <2>4
    <3>2. At(i) = r => r \in databases'
      BY <1>4, <2>4
    <3>3. QED
      BY <3>1, <3>2 DEF Accounted
  <2>5. QED
    BY <1>1, <1>4, <2>1, <2>2, <2>3, <2>4, PlacesKeeps
<1>5. CASE CheckRole(i)
  BY <1>3, <1>5 DEF CheckRole, Goto, Walking
<1>6. CASE CreateRole(i)
  BY <1>3, <1>6 DEF CreateRole, Goto, Walking
<1>7. CASE AlterRole(i)
  BY <1>3, <1>4, <1>7 DEF AlterRole, Walking
<1>8. CASE CheckDatabase(i)
  BY <1>1, <1>3, <1>4, <1>8 DEF CheckDatabase, Walking
<1>9. CASE CreateDatabase(i)
  BY <1>4, <1>9 DEF CreateDatabase
<1>10. QED
  BY <1>5, <1>6, <1>7, <1>8, <1>9 DEF DatabaseStep

LEMMA PlacesSeedStep ==
  ASSUME TypeInv, StringsInv, PlacesInv, NEW i \in Seeds, SeedStep(i)
  PROVE  PlacesInv'
<1>1. /\ i \in Walkers /\ i \notin Resets /\ Fits(i, run[i]) /\ Applied(run[i])
      /\ run[i] \in RunState
  BY ActorsAssumption
     DEF Walkers, Seeds, ActorsAssumption, TypeInv, TypeOK, StringsInv
<1>2. UNCHANGED <<target, databases, lost>>
  BY DEF SeedStep, StartSeed, EnsurePassword, TakePassword, PutString
<1>3. ASSUME NEW r \in Names \ LoginOnly, Accounted(r),
             \A j \in Walkers \ {i} : run'[j] = run[j]
      PROVE  Accounted(r)'
  <2>1. \A j \in Resets : run'[j] = run[j] /\ At(j)' = At(j)
    BY <1>1, <1>2, <1>3 DEF Walkers, At, Walk
  <2>2. QED
    BY <1>2, <1>3, <2>1 DEF Accounted
<1>4. ASSUME NEW s, run' = [run EXCEPT ![i] = s],
             \A r \in Names \ LoginOnly : Walked(s, r) => Walked(run[i], r),
             \A q \in Strings :
               strings'[q] = strings[q] \/ RoleOf[q] \in LoginOnly \/ Accounted(RoleOf[q])
      PROVE  PlacesInv'
  <2>1. \A j \in Walkers \ {i} : run'[j] = run[j]
    BY <1>4 DEF TypeInv, TypeOK
  <2>2. \A r \in Names \ LoginOnly : Accounted(r) => Accounted(r)'
    BY <1>3, <2>1
  <2>3. Resets # {i}
    BY <1>1
  <2>4. QED
    BY <1>1, <1>2, <1>4, <2>2, <2>3, PlacesKeeps
<1>5. CASE StartSeed(i)
  <2>1. PICK s : s = Started(i, "passwords")
    OBVIOUS
  <2>2. s.stage = "passwords"
    BY <2>1 DEF Started, IdleRun
  <2>3. \A r \in Names : ~Walked(s, r)
    BY <2>2 DEF Walked, Walking
  <2>4. run' = [run EXCEPT ![i] = s] /\ strings' = strings
    BY <1>5, <2>1 DEF StartSeed
  <2>5. QED
    BY <1>4, <2>3, <2>4
<1>6. CASE EnsurePassword(i)
  <2>1. UNCHANGED <<target, databases, lost, run, strings>>
    BY <1>6 DEF EnsurePassword
  <2>2. QED
    BY <2>1 DEF PlacesInv, Walked, Listed, Accounted, At, Walk, Restored,
       MissingIsAccountedFor
<1>7. CASE TakePassword(i)
  <2>1. PICK password : password = [run[i].password EXCEPT ![At(i)] = call[i].answer]
    OBVIOUS
  <2>2. PICK took : took = [run[i] EXCEPT !.password = password]
    OBVIOUS
  <2>3. /\ run[i].stage = "passwords"
        /\ strings' = strings
        /\ \/ run' = [run EXCEPT ![i] = [took EXCEPT !.at = run[i].at + 1]]
           \/ run' = [run EXCEPT ![i] = [took EXCEPT !.stage = "role", !.at = 1]]
           \/ run' = [run EXCEPT ![i] = IdleRun]
    BY <1>1, <1>7, <2>1, <2>2 DEF TakePassword, TypeInv, CallFits
  <2>4. took \in [stage : Stages, at : Nat, password : {password},
                  unwritten : SUBSET Strings, dropped : BOOLEAN, tainted : BOOLEAN]
        /\ took.stage = "passwords"
    BY <1>1, <2>2, <2>3 DEF RunState
  <2>5. CASE run' = [run EXCEPT ![i] = [took EXCEPT !.at = run[i].at + 1]]
    <3>1. PICK s : s = [took EXCEPT !.at = run[i].at + 1]
      OBVIOUS
    <3>2. s.stage = "passwords"
      BY <2>4, <3>1
    <3>3. \A r \in Names : ~Walked(s, r)
      BY <3>2 DEF Walked, Walking
    <3>4. QED
      BY <1>4, <2>3, <2>5, <3>1, <3>3
  <2>6. CASE run' = [run EXCEPT ![i] = [took EXCEPT !.stage = "role", !.at = 1]]
    <3>1. PICK s : s = [took EXCEPT !.stage = "role", !.at = 1]
      OBVIOUS
    <3>2. s.stage = "role" /\ s.at = 1
      BY <2>4, <3>1
    <3>3. Len(target.roles) \in Nat
      BY TargetType DEF TypeInv, TypeOK
    <3>4. \A r \in Names : ~Walked(s, r)
      BY <3>2, <3>3 DEF Walked, Walking
    <3>5. QED
      BY <1>4, <2>3, <2>6, <3>1, <3>4
  <2>7. CASE run' = [run EXCEPT ![i] = IdleRun]
    <3>1. \A r \in Names : ~Walked(IdleRun, r)
      BY DEF Walked, Walking, IdleRun
    <3>2. QED
      BY <1>4, <2>3, <2>7, <3>1
  <2>8. QED
    BY <2>3, <2>5, <2>6, <2>7
<1>8. CASE PutString(i)
  <2>1. PICK q \in run[i].unwritten :
          /\ strings' = [strings EXCEPT ![q] = run[i].password[RoleOf[q]]]
          /\ run' = [run EXCEPT ![i] = IF run[i].unwritten = {q} THEN DoneRun
                                       ELSE [run[i] EXCEPT !.unwritten = @ \ {q}]]
    BY <1>8 DEF PutString
  <2>2. run[i].stage = "strings" /\ q \in Strings /\ RoleOf[q] \in Listed
    BY <1>1, <1>8, <2>1 DEF PutString, RunState, Applied
  <2>3. RoleOf[q] \in Names
    BY <2>2, StringsAssumption DEF StringsAssumption
  <2>4. RoleOf[q] \in LoginOnly \/ Accounted(RoleOf[q])
    BY <2>2, <2>3 DEF PlacesInv, Walked
  <2>5. \A p \in Strings : strings'[p] = strings[p] \/ p = q
    BY <2>1 DEF TypeInv, TypeOK
  <2>6. PICK s : s = IF run[i].unwritten = {q} THEN DoneRun
                     ELSE [run[i] EXCEPT !.unwritten = @ \ {q}]
    OBVIOUS
  <2>7. s.stage \in {"strings", "done"}
    BY <1>1, <2>2, <2>6 DEF DoneRun, IdleRun, RunState
  <2>8. \A r \in Names : Walked(s, r) => Walked(run[i], r)
    BY <2>2, <2>7 DEF Walked, Walking
  <2>9. QED
    BY <1>4, <2>1, <2>4, <2>5, <2>6, <2>8
<1>9. QED
  BY <1>5, <1>6, <1>7, <1>8 DEF SeedStep

LEMMA PlacesResetStep ==
  ASSUME TypeInv, PlacesInv, NEW i \in Resets, ResetStep(i)
  PROVE  PlacesInv'
<1>1. /\ i \in Walkers /\ i \notin Seeds /\ run[i] \in RunState /\ target \in Targets
  BY ActorsAssumption DEF Walkers, Seeds, ActorsAssumption, TypeInv, TypeOK
<1>2. /\ UNCHANGED <<target, strings, lost>>
      /\ ~Active(i) \/ run[i].stage \in {"read", "drop"}
  BY DEF ResetStep, StartReset, ReadPassword, DropDatabase, dbUnchanged
<1>3. ~run[i].dropped
  BY <1>2 DEF PlacesInv, Walking, Active
<1>4. ASSUME NEW s, run' = [run EXCEPT ![i] = s],
             s.dropped => s.stage \in Walking,
             \A r \in databases \cup lost :
               r \in databases' \cup lost' \/ (s.dropped /\ Walk(i)[s.at] = r),
             Resets = {i} => Restored(s)'
      PROVE  PlacesInv'
  <2>1. ASSUME NEW r \in Names \ LoginOnly, Accounted(r) PROVE Accounted(r)'
    <3>1. PICK here : here = (i \in Resets /\ s.dropped /\ Walk(i)[s.at] = r)
      OBVIOUS
    <3>2. r \in databases \cup lost => r \in databases' \cup lost' \/ here
      BY <1>4, <3>1
    <3>3. QED
      BY <1>1, <1>2, <1>3, <1>4, <2>1, <3>1, <3>2, AccountedKeeps
  <2>2. QED
    BY <1>1, <1>2, <1>4, <2>1, PlacesKeeps
<1>5. CASE StartReset(i)
  <2>1. PICK s : s = Started(i, "read")
    OBVIOUS
  <2>2. s.stage = "read" /\ s.at = 1 /\ s.dropped = FALSE
    BY <2>1 DEF Started, IdleRun
  <2>3. run' = [run EXCEPT ![i] = s] /\ databases' = databases
    BY <1>5, <2>1 DEF StartReset
  <2>4. Len(target.apps) \in Nat
    BY <1>1, TargetType
  <2>5. Restored(s)'
    BY <1>2, <2>2, <2>4 DEF Restored, Walking
  <2>6. QED
    BY <1>2, <1>4, <2>2, <2>3, <2>5
<1>6. CASE ReadPassword(i)
  <2>1. PICK password : password = [IdleRun.password EXCEPT ![At(i)] = param[At(i)]]
    OBVIOUS
  <2>2. PICK s : s = [run[i] EXCEPT !.stage = "drop", !.password = password]
    OBVIOUS
  <2>3. /\ run' = [run EXCEPT ![i] = IdleRun] \/ run' = [run EXCEPT ![i] = s]
        /\ databases' = databases /\ run[i].stage = "read"
    BY <1>6, <2>1, <2>2 DEF ReadPassword
  <2>4. s.stage = "drop" /\ s.at = run[i].at /\ s.dropped = run[i].dropped
    BY <1>1, <2>2 DEF RunState
  <2>5. ASSUME Resets = {i} PROVE Restored(s)'
    <3>1. Restored(run[i])
      BY <2>5 DEF PlacesInv
    <3>2. QED
      BY <1>2, <2>3, <2>4, <3>1 DEF Restored, Walking
  <2>6. IdleRun.dropped = FALSE /\ Restored(IdleRun)'
    BY DEF IdleRun, Restored, Walking
  <2>7. CASE run' = [run EXCEPT ![i] = s]
    BY <1>2, <1>3, <1>4, <2>3, <2>4, <2>5, <2>7
  <2>8. CASE run' = [run EXCEPT ![i] = IdleRun]
    BY <1>2, <1>4, <2>3, <2>6, <2>8
  <2>9. QED
    BY <2>3, <2>7, <2>8
<1>7. CASE DropDatabase(i)
  <2>1. PICK b \in BOOLEAN :
          /\ run' = [run EXCEPT ![i] = [@ EXCEPT !.stage = "role", !.dropped = b]]
          /\ At(i) \in databases => b
    <3>1. /\ (At(i) \in databases) \in BOOLEAN
          /\ At(i) \in databases => (At(i) \in databases)
      OBVIOUS
    <3>2. QED
      BY <1>7, <3>1, Zenon DEF DropDatabase
  <2>2. PICK s : s = [run[i] EXCEPT !.stage = "role", !.dropped = b]
    OBVIOUS
  <2>3. s.stage = "role" /\ s.at = run[i].at /\ s.dropped = b
    BY <1>1, <2>2 DEF RunState
  <2>4. /\ run' = [run EXCEPT ![i] = s] /\ run[i].stage = "drop"
        /\ databases' = databases \ {At(i)}
    BY <1>1, <1>7, <2>1, <2>2 DEF DropDatabase, TypeInv, TypeOK
  <2>5. ASSUME NEW r \in databases \cup lost
        PROVE  r \in databases' \cup lost' \/ (s.dropped /\ Walk(i)[s.at] = r)
    BY <1>2, <2>1, <2>3, <2>4 DEF At
  <2>6. ASSUME Resets = {i} PROVE Restored(s)'
    <3>1. Restored(run[i]) /\ At(i) = target.apps[run[i].at]
      BY <2>4, <2>6, AppsHaveDatabases DEF PlacesInv
    <3>2. QED
      BY <1>2, <2>3, <2>4, <3>1 DEF Restored, Walking
  <2>7. s.stage \in Walking
    BY <2>3 DEF Walking
  <2>8. QED
    BY <1>4, <2>4, <2>5, <2>6, <2>7
<1>8. QED
  BY <1>5, <1>6, <1>7 DEF ResetStep

(* A reset that dies between drop and create leaves the database lost.     *)
LEMMA PlacesDie ==
  ASSUME TypeInv, PlacesInv, NEW i \in Walkers, Die(i)
  PROVE  PlacesInv'
<1>1. /\ run' = [run EXCEPT ![i] = IdleRun]
      /\ UNCHANGED <<target, databases, strings>>
      /\ lost' = IF i \in Resets /\ run[i].dropped /\ At(i) \notin databases
                 THEN lost \cup {At(i)} ELSE lost
  BY DEF Die
<1>2. PICK s : s = IdleRun
  OBVIOUS
<1>3. s.stage = "idle" /\ s.dropped = FALSE
  BY <1>2 DEF IdleRun
<1>4. ASSUME NEW r \in Names \ LoginOnly, Accounted(r) PROVE Accounted(r)'
  <2>1. PICK here : here = (i \in Resets /\ s.dropped /\ Walk(i)[s.at] = r)
    OBVIOUS
  <2>2. r \in databases \cup lost => r \in databases' \cup lost'
    BY <1>1
  <2>3. i \in Resets /\ run[i].dropped /\ At(i) = r => r \in databases' \cup lost'
    BY <1>1
  <2>4. QED
    BY <1>1, <1>2, <1>4, <2>1, <2>2, <2>3, AccountedKeeps
<1>5. (\A r \in Names : ~Walked(s, r)) /\ Restored(s)'
  BY <1>3 DEF Walked, Walking, Restored
<1>6. QED
  BY <1>1, <1>2, <1>3, <1>4, <1>5, PlacesKeeps

LEMMA PlacesRotate ==
  ASSUME TypeInv, PlacesInv, NEW r \in Names, Rotate(r)
  PROVE  PlacesInv'
<1>1. UNCHANGED <<target, databases, lost, strings>>
  BY DEF Rotate
<1>2. ASSUME NEW i \in Walkers
      PROVE  /\ run'[i].stage = run[i].stage /\ run'[i].at = run[i].at
             /\ run'[i].dropped = run[i].dropped
  <2>1. PICK b : b = Active(i)
    OBVIOUS
  <2>2. run'[i] = [run[i] EXCEPT !.tainted = b] /\ run[i] \in RunState
    BY <2>1 DEF TypeInv, TypeOK, Rotate
  <2>3. QED
    BY <2>2, Zenon DEF RunState
<1>3. \A i \in Resets : i \in Walkers /\ Walk(i)' = Walk(i)
  BY <1>1 DEF Walkers, Walk
<1>4. \A n \in Names : Accounted(n)' <=> Accounted(n)
  BY <1>1, <1>2, <1>3 DEF Accounted, At
<1>5. ASSUME NEW i \in Seeds, NEW n \in Names, Walked(run[i], n)'
      PROVE  Walked(run[i], n)
  <2>1. i \in Walkers
    BY DEF Walkers
  <2>2. QED
    BY <1>1, <1>2, <1>5, <2>1 DEF Walked, Listed
<1>6. ASSUME NEW i \in Resets, Restored(run[i]) PROVE Restored(run[i])'
  BY <1>1, <1>2, <1>3, <1>6 DEF Restored
<1>7. MissingIsAccountedFor'
  <2>1. ASSUME NEW q \in Strings, strings[q] # None, RoleOf[q] \notin LoginOnly
        PROVE  Accounted(RoleOf[q])'
    <3>1. Accounted(RoleOf[q]) /\ RoleOf[q] \in Names
      BY <2>1, StringsAssumption
         DEF PlacesInv, MissingIsAccountedFor, Accounted, StringsAssumption
    <3>2. QED
      BY <1>4, <3>1
  <2>2. QED
    BY <1>1, <2>1 DEF MissingIsAccountedFor, Accounted
<1>8. QED
  BY <1>2, <1>3, <1>4, <1>5, <1>6, <1>7 DEF PlacesInv

LEMMA PlacesNext == TypeInv /\ StringsInv /\ PlacesInv /\ [Next]_vars => PlacesInv'
<1> SUFFICES ASSUME TypeInv, StringsInv, PlacesInv, [Next]_vars PROVE PlacesInv'
  OBVIOUS
<1>1. CASE UNCHANGED vars
  BY <1>1 DEF vars, PlacesInv, Walked, Listed, Accounted, At, Walk, Restored,
     MissingIsAccountedFor
<1>2. CASE Next
  BY <1>2, PlacesSeedStep, PlacesResetStep, PlacesDatabaseStep, PlacesDie, PlacesRotate
     DEF Next
<1>3. QED
  BY <1>1, <1>2

LEMMA PlacesAlways == Spec => [](TypeInv /\ StringsInv /\ PlacesInv)
<1>1. Init => TypeInv /\ StringsInv /\ PlacesInv
  BY TypeInit, StringsInit, PlacesInit
<1>2. TypeInv /\ StringsInv /\ PlacesInv /\ [Next]_vars =>
        (TypeInv /\ StringsInv /\ PlacesInv)'
  BY TypeNext, StringsNext, PlacesNext
<1>3. QED
  BY <1>1, <1>2, PTL DEF Spec

(* A service whose connection string is stored has its database, unless a  *)
(* reset is recreating it or died before it could, for any roles, any      *)
(* lists, and any number of overlapping and dying seeds and resets.        *)
THEOREM MissingAccounted == Spec => []MissingIsAccountedFor
<1>1. PlacesInv => MissingIsAccountedFor
  BY DEF PlacesInv
<1>2. QED
  BY <1>1, PlacesAlways, PTL

(* A reset that ends, with no other reset beside it, leaves every app its  *)
(* database, whatever dead runs had dropped and whichever seeds run.       *)
THEOREM ResetsRestore == Spec => ResetRestores
<1>1. ASSUME TypeInv, PlacesInv, Next, NEW i \in Resets,
             run[i].stage # "done", run'[i].stage = "done", Resets = {i}
      PROVE  \A k \in 1..Len(target.apps) : target.apps[k] \in databases'
  <2>1. /\ i \in Walkers /\ i \notin Seeds /\ run \in [Walkers -> RunState]
        /\ run[i] \in RunState /\ Restored(run[i])
    BY <1>1, ActorsAssumption
       DEF ActorsAssumption, Walkers, Seeds, TypeInv, TypeOK, PlacesInv
  <2>2. run'[i] # run[i]
    BY <1>1
  <2>3. ASSUME NEW j \in Seeds, SeedStep(j) PROVE FALSE
    BY <2>1, <2>2, <2>3
       DEF SeedStep, StartSeed, EnsurePassword, TakePassword, PutString
  <2>4. ASSUME ResetStep(i) PROVE FALSE
    <3>1. CASE StartReset(i)
      BY <1>1, <2>1, <3>1 DEF StartReset, Started, IdleRun
    <3>2. CASE ReadPassword(i)
      BY <1>1, <2>1, <3>2 DEF ReadPassword, IdleRun, RunState
    <3>3. CASE DropDatabase(i)
      <4>1. PICK b : b = (At(i) \in databases)
        OBVIOUS
      <4>2. run' = [run EXCEPT ![i] = [@ EXCEPT !.stage = "role", !.dropped = b]]
        BY <3>3, <4>1 DEF DropDatabase
      <4>3. run'[i] = [run[i] EXCEPT !.stage = "role", !.dropped = b]
        BY <2>1, <4>2, Zenon
      <4>4. run'[i].stage = "role"
        BY <2>1, <4>3, Zenon DEF RunState
      <4>5. QED
        BY <1>1, <4>4
    <3>4. QED
      BY <2>4, <3>1, <3>2, <3>3 DEF ResetStep
  <2>5. ASSUME NEW j \in Walkers, Die(j) PROVE FALSE
    BY <1>1, <2>1, <2>2, <2>5 DEF Die, IdleRun
  <2>6. ASSUME NEW r \in Names, Rotate(r) PROVE FALSE
    <3>1. PICK b : b = Active(i)
      OBVIOUS
    <3>2. run'[i] = [run[i] EXCEPT !.tainted = b]
      BY <2>1, <2>6, <3>1 DEF Rotate
    <3>3. run'[i].stage = run[i].stage
      BY <2>1, <3>2, Zenon DEF RunState
    <3>4. QED
      BY <1>1, <3>3
  <2>7. PICK j \in Walkers : DatabaseStep(j)
    BY <1>1, <2>3, <2>4, <2>5, <2>6 DEF Next
  <2>8. j = i
    BY <2>1, <2>2, <2>7
       DEF DatabaseStep, CheckRole, CreateRole, AlterRole, CheckDatabase,
           CreateDatabase, Goto
  <2>9. ASSUME NEW g \in Walking,
               run' = [run EXCEPT ![i] = [run[i] EXCEPT !.stage = g]]
        PROVE  FALSE
    BY <1>1, <2>1, <2>9 DEF RunState, Walking
  <2>10. ASSUME run' = [run EXCEPT ![i] = AfterRole(i)],
                run[i].stage \in {"alter", "database", "createDatabase"},
                target' = target, databases \subseteq databases',
                At(i) \in databases' \/ At(i) \in LoginOnly
         PROVE  \A k \in 1..Len(target.apps) : target.apps[k] \in databases'
    <3>1. PICK s : s = AfterRole(i)
      OBVIOUS
    <3>2. s.stage = "done"
      BY <1>1, <2>1, <2>10, <3>1
    <3>3. Last(i) /\ At(i) \in databases'
      BY <1>1, <2>1, <2>10, <3>1, <3>2, AfterRolePlaces
    <3>4. /\ run[i].at = Len(target.apps) /\ At(i) = target.apps[run[i].at]
          /\ Len(target.apps) \in Nat
      BY <1>1, <2>10, <3>3, AppsHaveDatabases DEF Last, Walk
    <3>5. ASSUME NEW k \in 1..Len(target.apps) PROVE target.apps[k] \in databases'
      <4>1. CASE k = run[i].at
        BY <3>3, <3>4, <4>1
      <4>2. CASE k < run[i].at
        BY <2>1, <2>10, <3>3, <3>4, <4>2 DEF Restored, Walking
      <4>3. QED
        BY <3>4, <4>1, <4>2
    <3>6. QED
      BY <3>5
  <2>11. target' = target /\ databases \subseteq databases'
    BY <2>7 DEF DatabaseStep, CheckRole, CreateRole, AlterRole, CheckDatabase,
                CreateDatabase, dbUnchanged
  <2>12. CASE CheckRole(i)
    BY <2>9, <2>12 DEF CheckRole, Goto, Walking
  <2>13. CASE CreateRole(i)
    BY <2>9, <2>13 DEF CreateRole, Goto, Walking
  <2>14. CASE AlterRole(i)
    BY <2>9, <2>10, <2>11, <2>14 DEF AlterRole, Walking
  <2>15. CASE CheckDatabase(i)
    BY <2>9, <2>10, <2>11, <2>15 DEF CheckDatabase, Walking
  <2>16. CASE CreateDatabase(i)
    BY <2>10, <2>11, <2>16 DEF CreateDatabase
  <2>17. QED
    BY <2>7, <2>8, <2>12, <2>13, <2>14, <2>15, <2>16 DEF DatabaseStep
<1>2. TypeInv /\ PlacesInv /\ [Next]_vars =>
        [\A i \in Resets :
           run[i].stage # "done" /\ run'[i].stage = "done" /\ Resets = {i} =>
             \A k \in 1..Len(target.apps) : target.apps[k] \in databases']_vars
  <2>1. CASE Next
    BY <1>1, <2>1
  <2>2. CASE UNCHANGED vars
    BY <2>2
  <2>3. QED
    BY <2>1, <2>2
<1>3. QED
  BY <1>2, PlacesAlways, PTL DEF Spec, ResetRestores
-----------------------------------------------------------------------------
(* Taking a rotation up.  A rotation taints whoever is active, and who     *)
(* starts beside a tainted invocation; so the active ones are all tainted  *)
(* or none is, and while none is, each began after the last rotation: what *)
(* it holds is the stored password, and what seeds have done carries it.   *)
Calm == \A i \in Walkers : ~run[i].tainted

TaintShared ==
  /\ \A i, j \in Walkers : Active(i) /\ Active(j) => run[i].tainted = run[j].tainted
  /\ \A i \in Walkers : ~Active(i) => ~run[i].tainted

Current(password) == \A r \in Names : password[r] \in {None, param[r]}

CurrentAnswers ==
  \A c \in Callers : call[c].pc = "answered" => call[c].answer \in {None, param[call[c].name]}

(* What the seed with this record has done carries the stored passwords.   *)
TookUp(s) ==
  /\ \A r \in Names : Past(s, r) => role[r] = param[r]
  /\ s.stage = "strings" =>
       \A q \in Strings :
         RoleOf[q] \in Listed => q \in s.unwritten \/ strings[q] = param[RoleOf[q]]

CalmInv ==
  /\ TaintShared
  /\ Calm => /\ \A i \in Walkers : Active(i) => Current(run[i].password)
             /\ CurrentAnswers
             /\ \A i \in Seeds : Active(i) => TookUp(run[i])

LEMMA CalmInit == Init => CalmInv
<1> SUFFICES ASSUME Init PROVE CalmInv
  OBVIOUS
<1>1. \A i \in Walkers : run[i].stage = "idle" /\ run[i].tainted = FALSE
  BY DEF Init, IdleRun
<1>2. \A c \in Callers : call[c].pc = "idle"
  BY DEF Init, StoreInit, IdleCall
<1>3. Seeds \subseteq Walkers
  BY DEF Walkers
<1>4. QED
  BY <1>1, <1>2, <1>3 DEF CalmInv, TaintShared, CurrentAnswers, Active

(* A seed past a role holds the stored password of it.                     *)
LEMMA PastCurrent ==
  ASSUME TypeInv, CalmInv, Calm, NEW i \in Seeds, Active(i), NEW r \in Names,
         Past(run[i], r)
  PROVE  /\ run[i].password[r] = param[r] /\ param[r] \in Values /\ param[r] # None
         /\ role[r] = param[r]
<1>1. i \in Walkers /\ Current(run[i].password) /\ TookUp(run[i])
  BY DEF CalmInv, Walkers
<1>2. run[i].password[r] \in Values
  BY PastHolds
<1>3. QED
  BY <1>1, <1>2, NoneAssumption DEF Current, TookUp, NoneAssumption

(* Started beside a tainted invocation or none, gone on, or ended.         *)
Ended(s) == s.stage \in {"idle", "done"} /\ ~s.tainted
WentOn(i, s) ==
  s.stage \notin {"idle", "done"} /\ Active(i) /\ (s.tainted <=> run[i].tainted)
Began(i, s) ==
  /\ s.stage \notin {"idle", "done"} /\ ~Active(i)
  /\ s.tainted <=> \E j \in Walkers \ {i} : run[j].tainted

(* A step that leaves the store alone and writes only stored passwords to  *)
(* roles and strings keeps the invariant if the record it puts in place    *)
(* is as current as the others.                                            *)
LEMMA CalmKeeps ==
  ASSUME TypeInv, TypeInv', CalmInv, NEW i \in Walkers, NEW s,
         run' = [run EXCEPT ![i] = s], target' = target, param' = param,
         Ended(s) \/ WentOn(i, s) \/ Began(i, s),
         Calm => /\ ~Ended(s) => Current(s.password)
                 /\ i \in Seeds /\ ~Ended(s) => TookUp(s)'
                 /\ CurrentAnswers'
                 /\ \A r \in Names : role[r] \in Values => role'[r] \in {role[r], param[r]}
                 /\ \A q \in Strings : strings'[q] \in {strings[q], param[RoleOf[q]]}
  PROVE  CalmInv'
<1>1. run'[i] = s /\ \A j \in Walkers \ {i} : run'[j] = run[j]
  BY DEF TypeInv, TypeOK
<1>2. Seeds \subseteq Walkers /\ Seeds = Callers /\ Listed' = Listed
  BY DEF Walkers, Seeds, Listed
<1>3. TaintShared
  BY DEF CalmInv
<1>4. ~Active(i)' => Ended(s)
  BY <1>1 DEF Active, Ended, WentOn, Began
<1>5. ASSUME NEW j \in Walkers, j # i
      PROVE  (Active(j)' <=> Active(j)) /\ (run'[j].tainted <=> run[j].tainted)
  BY <1>1, <1>5 DEF Active
<1>6. CASE Calm
  <2>1. \A j \in Walkers : ~run[j].tainted
    BY <1>6 DEF Calm
  <2>2. ~s.tainted
    BY <2>1 DEF Ended, WentOn, Began
  <2>3. \A j \in Walkers : ~run'[j].tainted
    BY <1>1, <2>1, <2>2
  <2>4. TaintShared'
    <3>1. \A j \in Walkers : run'[j].tainted \in BOOLEAN
      BY DEF TypeInv, TypeOK, RunState
    <3>2. \A j \in Walkers : run'[j].tainted = FALSE
      BY <2>3, <3>1
    <3>3. QED
      BY <3>2 DEF TaintShared
  <2>5. ASSUME NEW j \in Walkers, Active(j)' PROVE Current(run[j].password)'
    <3>1. CASE j = i
      <4>1. ~Ended(s)
        BY <1>1, <2>5, <3>1 DEF Active, Ended
      <4>2. QED
        BY <1>1, <1>6, <3>1, <4>1 DEF Current
    <3>2. CASE j # i
      <4>1. Current(run[j].password) /\ run'[j] = run[j]
        BY <1>1, <1>5, <1>6, <2>5, <3>2 DEF CalmInv
      <4>2. QED
        BY <4>1 DEF Current
    <3>3. QED
      BY <3>1, <3>2
  <2>6. ASSUME NEW j \in Seeds, Active(j)' PROVE TookUp(run[j])'
    <3>1. CASE j = i
      <4>1. ~Ended(s)
        BY <1>1, <2>6, <3>1 DEF Active, Ended
      <4>2. TookUp(s)'
        BY <1>6, <2>6, <3>1, <4>1
      <4>3. QED
        BY <1>1, <3>1, <4>2 DEF TookUp, Past, Listed
    <3>2. CASE j # i
      <4>1. TookUp(run[j]) /\ run'[j] = run[j] /\ Active(j)
        BY <1>1, <1>2, <1>5, <1>6, <2>6, <3>2 DEF CalmInv
      <4>2. ASSUME NEW r \in Names, Past(run[j], r) PROVE role'[r] = param[r]
        <5>1. role[r] = param[r] /\ param[r] \in Values
          BY <1>6, <4>1, <4>2, PastCurrent
        <5>2. QED
          BY <1>6, <5>1
      <4>3. \A r : Past(run[j], r)' => Past(run[j], r)
        BY <1>2, <4>1 DEF Past
      <4>4. ASSUME run[j].stage = "strings", NEW q \in Strings, RoleOf[q] \in Listed
            PROVE  q \in run[j].unwritten \/ strings'[q] = param[RoleOf[q]]
        BY <1>6, <4>1, <4>4 DEF TookUp
      <4>5. QED
        BY <1>2, <4>1, <4>2, <4>3, <4>4 DEF TookUp
    <3>3. QED
      BY <3>1, <3>2
  <2>7. QED
    BY <1>6, <2>4, <2>5, <2>6 DEF CalmInv
<1>7. CASE ~Calm
  <2>1. PICK j \in Walkers : run[j].tainted
    BY <1>7 DEF Calm
  <2>2. Active(j)
    BY <1>3, <2>1 DEF TaintShared
  <2>3. \A k \in Walkers : Active(k) => run[k].tainted
    BY <1>3, <2>1, <2>2 DEF TaintShared
  <2>4. \A k \in Walkers : Active(k)' => run'[k].tainted
    <3>1. ASSUME NEW k \in Walkers, Active(k)' PROVE run'[k].tainted
      <4>1. CASE k # i
        BY <1>5, <2>3, <3>1, <4>1
      <4>2. CASE k = i
        <5>1. ~Ended(s)
          BY <1>1, <3>1, <4>2 DEF Active, Ended
        <5>2. CASE WentOn(i, s)
          BY <1>1, <2>3, <4>2, <5>2 DEF WentOn
        <5>3. CASE Began(i, s)
          BY <1>1, <2>1, <2>2, <4>2, <5>3 DEF Began
        <5>4. QED
          BY <5>1, <5>2, <5>3
      <4>3. QED
        BY <4>1, <4>2
    <3>2. QED
      BY <3>1
  <2>5. \A k \in Walkers : ~Active(k)' => ~run'[k].tainted
    BY <1>1, <1>3, <1>4, <1>5 DEF TaintShared, Ended
  <2>6. \A k \in Walkers : run'[k].tainted \in BOOLEAN
    BY DEF TypeInv, TypeOK, RunState
  <2>7. TaintShared'
    BY <2>4, <2>5, <2>6 DEF TaintShared
  <2>8. ASSUME Calm' PROVE \A k \in Walkers : ~Active(k)'
    BY <2>4, <2>8 DEF Calm
  <2>9. ASSUME Calm' PROVE CurrentAnswers'
    <3>1. ASSUME NEW c \in Callers, call'[c].pc = "answered" PROVE FALSE
      <4>1. c \in Walkers /\ c \in Seeds /\ run'[c].stage \in {"idle", "done"}
        BY <1>2, <2>8, <2>9 DEF Active
      <4>2. CallFits(c)'
        BY <4>1 DEF TypeInv
      <4>3. QED
        BY <3>1, <4>1, <4>2 DEF CallFits
    <3>2. QED
      BY <3>1 DEF CurrentAnswers
  <2>10. QED
    BY <1>2, <2>7, <2>8, <2>9 DEF CalmInv
<1>8. QED
  BY <1>6, <1>7

LEMMA AfterRoleCalm ==
  ASSUME TypeInv, NEW i \in Walkers,
         run[i].stage \in {"alter", "database", "createDatabase"}, target' = target
  PROVE  \A s : s = AfterRole(i) =>
           /\ \/ Ended(s)
              \/ WentOn(i, s) /\ s.password = run[i].password
           /\ i \in Seeds => \A r \in Names : Past(s, r) => Past(run[i], r) \/ r = At(i)
           /\ s.stage = "strings" =>
                \A q \in Strings : RoleOf[q] \in Listed => q \in s.unwritten
<1>1. /\ Fits(i, run[i]) /\ target \in Targets
      /\ run[i].at \in 1..Len(Walk(i)) /\ Len(Walk(i)) \in Nat
      /\ Active(i)
  BY TargetType DEF TypeInv, TypeOK, Fits, Active
<1> DEFINE rest == [run[i] EXCEPT !.dropped = FALSE]
<1>2. /\ rest \in RunState /\ rest.stage = run[i].stage /\ rest.at = run[i].at
      /\ rest.password = run[i].password
  BY <1>1 DEF Fits, RunState
<1>3. rest.tainted = run[i].tainted
  BY <1>1, Zenon DEF Fits, RunState
<1> HIDE DEF rest
<1> TAKE s
<1> HAVE s = AfterRole(i)
<1>4. CASE ~Last(i)
  <2>1. s = [rest EXCEPT !.stage = NextRole(i), !.at = run[i].at + 1]
    BY <1>4 DEF AfterRole, rest
  <2>2. s.stage = NextRole(i) /\ s.at = run[i].at + 1 /\ s.password = run[i].password
    BY <1>2, <2>1 DEF RunState
  <2>3. s.tainted = rest.tainted
    BY <1>2, <2>1, Zenon DEF RunState
  <2>4. NextRole(i) \notin {"idle", "done", "strings"}
    BY DEF NextRole
  <2>5. WentOn(i, s)
    BY <1>1, <1>3, <2>2, <2>3, <2>4, Zenon DEF WentOn
  <2>6. ASSUME i \in Seeds, NEW r \in Names, Past(s, r)
        PROVE  Past(run[i], r) \/ r = At(i)
    <3>1. Walk(i) = target.roles /\ s.stage = "role"
      BY <1>1, <2>2, <2>6, TargetType, ActorsAssumption
         DEF NextRole, ActorsAssumption, Seeds
    <3>2. PICK m \in 1..Len(target.roles) : m < run[i].at + 1 /\ target.roles[m] = r
      BY <2>2, <2>6, <3>1 DEF Past
    <3>3. CASE m = run[i].at
      BY <3>1, <3>2, <3>3 DEF At
    <3>4. CASE m < run[i].at
      BY <3>2, <3>4 DEF Past
    <3>5. QED
      BY <1>1, <3>1, <3>2, <3>3, <3>4
  <2>7. QED
    BY <2>2, <2>4, <2>5, <2>6
<1>5. CASE Last(i) /\ i \in Resets
  <2>1. s = DoneRun
    BY <1>5 DEF AfterRole
  <2>2. s.stage = "done" /\ s.tainted = FALSE
    BY <2>1 DEF DoneRun, IdleRun
  <2>3. QED
    BY <2>2 DEF Ended, Past
<1>6. CASE Last(i) /\ i \notin Resets
  <2>1. s = [rest EXCEPT !.stage = "strings",
                         !.unwritten = {q \in Strings : RoleOf[q] \in Listed}]
    BY <1>6 DEF AfterRole, rest
  <2>2. /\ s.stage = "strings" /\ s.password = run[i].password
        /\ s.unwritten = {q \in Strings : RoleOf[q] \in Listed}
    BY <1>2, <2>1 DEF RunState
  <2>3. s.tainted = rest.tainted
    BY <1>2, <2>1, Zenon DEF RunState
  <2>4. WentOn(i, s)
    <3>1. "strings" \notin {"idle", "done"}
      OBVIOUS
    <3>2. QED
      BY <1>1, <1>3, <2>2, <2>3, <3>1, Zenon DEF WentOn
  <2>5. ASSUME i \in Seeds, NEW r \in Names, Past(s, r)
        PROVE  Past(run[i], r) \/ r = At(i)
    <3>1. Walk(i) = target.roles
      BY <1>1, <2>5, TargetType
    <3>2. PICK m \in 1..Len(target.roles) : target.roles[m] = r
      BY <2>2, <2>5 DEF Past, Listed
    <3>3. CASE m = run[i].at
      BY <3>1, <3>2, <3>3 DEF At
    <3>4. CASE m < run[i].at
      BY <3>2, <3>4 DEF Past
    <3>5. QED
      BY <1>1, <1>6, <3>1, <3>2, <3>3, <3>4 DEF Last
  <2>6. QED
    BY <2>2, <2>4, <2>5
<1>7. QED
  BY <1>4, <1>5, <1>6

LEMMA CalmDatabaseStep ==
  ASSUME TypeInv, CalmInv, NEW i \in Walkers, DatabaseStep(i)
  PROVE  CalmInv'
<1>1. /\ run[i].stage \in {"role", "create", "alter", "database", "createDatabase"}
      /\ Fits(i, run[i]) /\ target \in Targets /\ run[i] \in RunState /\ Active(i)
      /\ UNCHANGED <<param, generated, call, target, strings, rotated>>
      /\ role \in [Names -> Values \cup {None, NoPassword}]
  BY DEF DatabaseStep, CheckRole, CreateRole, AlterRole, CheckDatabase,
         CreateDatabase, dbUnchanged, storeVars, TypeInv, TypeOK, Active
<1>2. TypeInv'
  BY TypeDatabaseStep
<1>3. At(i) \in Names /\ run[i].at \in 1..Len(Walk(i))
  BY <1>1, TargetType DEF Fits, At
<1>4. AlterRole(i) => /\ run[i].password[At(i)] \in Values
                      /\ role' = [role EXCEPT ![At(i)] = run[i].password[At(i)]]
  <2>1. run[i].stage = "alter" => run[i].password[At(i)] \in Values
    <3>1. CASE i \in Seeds
      BY <1>1, <1>3, <3>1, TargetType DEF Fits, At
    <3>2. CASE i \in Resets
      BY <1>1, <3>2 DEF Fits, At
    <3>3. QED
      BY <3>1, <3>2 DEF Walkers
  <2>2. QED
    BY <2>1, NoneAssumption DEF AlterRole, AsPassword, NoneAssumption
<1>5. ASSUME Calm
      PROVE  /\ Current(run[i].password) /\ (i \in Seeds => TookUp(run[i]))
             /\ \A r \in Names : role[r] \in Values => role'[r] \in {role[r], param[r]}
             /\ CurrentAnswers'
             /\ AlterRole(i) => role'[At(i)] = param[At(i)]
  <2>1. Current(run[i].password) /\ (i \in Seeds => TookUp(run[i])) /\ CurrentAnswers
    BY <1>1, <1>5 DEF CalmInv
  <2>2. AlterRole(i) => /\ role'[At(i)] = param[At(i)]
                        /\ \A r \in Names \ {At(i)} : role'[r] = role[r]
    <3>1. AlterRole(i) => run[i].password[At(i)] = param[At(i)]
      BY <1>3, <1>4, <2>1, NoneAssumption DEF Current, NoneAssumption
    <3>2. QED
      BY <1>1, <1>3, <1>4, <3>1
  <2>3. ASSUME NEW r \in Names, role[r] \in Values
        PROVE  role'[r] \in {role[r], param[r]}
    <3>1. CASE AlterRole(i)
      BY <2>2, <3>1
    <3>2. CASE CreateRole(i)
      BY <1>1, <2>3, <3>2, NoneAssumption DEF CreateRole, NoneAssumption
    <3>3. CASE ~AlterRole(i) /\ ~CreateRole(i)
      BY <3>3 DEF DatabaseStep, CheckRole, CheckDatabase, CreateDatabase
    <3>4. QED
      BY <3>1, <3>2, <3>3
  <2>4. CurrentAnswers'
    BY <1>1, <2>1 DEF CurrentAnswers
  <2>5. QED
    BY <2>1, <2>2, <2>3, <2>4
<1>6. ASSUME NEW s, run' = [run EXCEPT ![i] = s],
             Ended(s) \/ (WentOn(i, s) /\ s.password = run[i].password),
             Calm /\ i \in Seeds /\ ~Ended(s) => TookUp(s)'
      PROVE  CalmInv'
  BY <1>1, <1>2, <1>5, <1>6, CalmKeeps
<1>7. ASSUME Calm, i \in Seeds, NEW r \in Names, Past(run[i], r)
      PROVE  role'[r] = param[r]
  <2>1. role[r] = param[r] /\ param[r] \in Values
    BY <1>1, <1>7, PastCurrent
  <2>2. QED
    BY <1>5, <1>7, <2>1
<1>8. ASSUME NEW g \in {"create", "alter", "database", "createDatabase"},
             run' = [run EXCEPT ![i] = [run[i] EXCEPT !.stage = g]],
             g \in {"database", "createDatabase"} =>
               run[i].stage \in {"database", "createDatabase"} \/ AlterRole(i)
      PROVE  CalmInv'
  <2>1. PICK s : s = [run[i] EXCEPT !.stage = g]
    OBVIOUS
  <2>2. s.stage = g /\ s.at = run[i].at /\ s.password = run[i].password
    BY <1>1, <2>1 DEF RunState
  <2>3. s.tainted = run[i].tainted
    BY <1>1, <2>1, Zenon DEF RunState
  <2>4. WentOn(i, s)
    <3>1. s.stage \notin {"idle", "done"}
      BY <2>2
    <3>2. QED
      BY <1>1, <2>3, <3>1, Zenon DEF WentOn
  <2>5. ASSUME Calm, i \in Seeds PROVE TookUp(s)'
    <3>1. ASSUME NEW r \in Names, Past(s, r)' PROVE role'[r] = param[r]
      <4>1. CASE Past(run[i], r)
        BY <1>7, <2>5, <4>1
      <4>2. CASE ~Past(run[i], r)
        <5>1. At(i) = target.roles[run[i].at] /\ target' = target /\ Listed' = Listed
          BY <1>1, <2>5, TargetType DEF At, Listed
        <5>2. r = At(i) /\ AlterRole(i)
          BY <1>1, <1>8, <2>2, <3>1, <4>2, <5>1 DEF Past
        <5>3. QED
          BY <1>5, <2>5, <5>2
      <4>3. QED
        BY <4>1, <4>2
    <3>2. QED
      BY <1>1, <2>2, <3>1 DEF TookUp
  <2>6. QED
    BY <1>6, <1>8, <2>1, <2>2, <2>4, <2>5
<1>9. ASSUME run' = [run EXCEPT ![i] = AfterRole(i)],
             run[i].stage \in {"database", "createDatabase"} \/ AlterRole(i)
      PROVE  CalmInv'
  <2>1. PICK s : s = AfterRole(i)
    OBVIOUS
  <2>2. run[i].stage \in {"alter", "database", "createDatabase"}
    BY <1>9 DEF AlterRole
  <2>3. /\ Ended(s) \/ (WentOn(i, s) /\ s.password = run[i].password)
        /\ i \in Seeds => \A r \in Names : Past(s, r) => Past(run[i], r) \/ r = At(i)
        /\ s.stage = "strings" =>
             \A q \in Strings : RoleOf[q] \in Listed => q \in s.unwritten
    BY <1>1, <2>1, <2>2, AfterRoleCalm
  <2>4. ASSUME Calm, i \in Seeds PROVE TookUp(s)'
    <3>1. At(i) = target.roles[run[i].at] /\ Listed' = Listed
      BY <1>1, <2>4, TargetType DEF At, Listed
    <3>2. ASSUME NEW r \in Names, Past(s, r)' PROVE role'[r] = param[r]
      <4>1. Past(s, r)
        BY <1>1, <3>1, <3>2 DEF Past
      <4>2. CASE Past(run[i], r)
        BY <1>7, <2>4, <4>2
      <4>3. CASE ~Past(run[i], r)
        <5>1. r = At(i)
          BY <2>3, <2>4, <4>1, <4>3
        <5>2. AlterRole(i)
          BY <1>9, <3>1, <4>3, <5>1 DEF Past
        <5>3. QED
          BY <1>5, <2>4, <5>1, <5>2
      <4>4. QED
        BY <4>2, <4>3
    <3>3. QED
      BY <1>1, <2>3, <3>1, <3>2 DEF TookUp
  <2>5. QED
    BY <1>6, <1>9, <2>1, <2>3, <2>4
<1>10. CASE CheckRole(i)
  BY <1>8, <1>10 DEF CheckRole, Goto
<1>11. CASE CreateRole(i)
  BY <1>8, <1>11 DEF CreateRole, Goto
<1>12. CASE AlterRole(i)
  BY <1>8, <1>9, <1>12 DEF AlterRole
<1>13. CASE CheckDatabase(i)
  BY <1>8, <1>9, <1>13 DEF CheckDatabase
<1>14. CASE CreateDatabase(i)
  BY <1>9, <1>14 DEF CreateDatabase
<1>15. QED
  BY <1>10, <1>11, <1>12, <1>13, <1>14 DEF DatabaseStep

LEMMA CalmEnsure ==
  ASSUME TypeInv, StringsInv, CalmInv, NEW i \in Seeds, EnsurePassword(i)
  PROVE  CalmInv'
<1>1. /\ UNCHANGED <<target, role, strings, run, rotated>>
      /\ call'[i].name = call[i].name
      /\ \A d \in Callers \ {i} : call'[d] = call[d]
  BY EnsureType DEF EnsurePassword, Seeds, TypeInv, TypeOK
<1>2. \A r \in Names : param'[r] = param[r] \/ param[r] = None
  BY EnsureStored
<1>3. \A c \in Callers : call[c].pc # "idle" => call[c].name \in Names
  BY DEF TypeInv, TypeOK, StoreTypeOK
<1>4. TaintShared' /\ (Calm' => Calm) /\ Listed' = Listed
  BY <1>1 DEF CalmInv, TaintShared, Calm, Active, Listed
<1>5. ASSUME Calm
      PROVE  /\ \A j \in Walkers : Active(j) => Current(run[j].password)'
             /\ CurrentAnswers'
             /\ \A j \in Seeds : Active(j) => TookUp(run[j])'
  <2>1. ASSUME NEW j \in Walkers, Active(j) PROVE Current(run[j].password)'
    BY <1>1, <1>2, <1>5, <2>1 DEF CalmInv, Current
  <2>2. ASSUME NEW c \in Callers, call'[c].pc = "answered"
        PROVE  call'[c].answer \in {None, param'[call'[c].name]}
    <3>1. CASE c = i
      <4>1. call[i].pc # "idle"
        BY EnsureType DEF EnsurePassword, Seeds, TypeInv, TypeOK
      <4>2. call'[i].name \in Names
        BY <1>1, <1>3, <3>1, <4>1
      <4>3. QED
        BY <2>2, <3>1, <4>2, EnsureStored
    <3>2. CASE c # i
      <4>1. call'[c] = call[c] /\ call[c].name \in Names
        BY <1>1, <1>3, <2>2, <3>2
      <4>2. QED
        BY <1>2, <1>5, <2>2, <4>1 DEF CalmInv, CurrentAnswers
    <3>3. QED
      BY <3>1, <3>2
  <2>3. ASSUME NEW j \in Seeds, Active(j) PROVE TookUp(run[j])'
    <3>1. TookUp(run[j]) /\ j \in Walkers
      BY <1>5, <2>3 DEF CalmInv, Walkers
    <3>2. ASSUME NEW r \in Names, Past(run[j], r) PROVE role[r] = param'[r]
      BY <1>2, <1>5, <2>3, <3>2, PastCurrent
    <3>3. ASSUME run[j].stage = "strings", NEW q \in Strings, RoleOf[q] \in Listed
          PROVE  q \in run[j].unwritten \/ strings[q] = param'[RoleOf[q]]
      <4>1. RoleOf[q] \in Names
        BY StringsAssumption DEF StringsAssumption
      <4>2. Past(run[j], RoleOf[q])
        BY <3>3 DEF Past
      <4>3. param'[RoleOf[q]] = param[RoleOf[q]]
        BY <1>2, <1>5, <2>3, <4>1, <4>2, PastCurrent
      <4>4. QED
        BY <3>1, <3>3, <4>3 DEF TookUp
    <3>4. \A r : Past(run[j], r)' => Past(run[j], r)
      BY <1>1, <1>4 DEF Past
    <3>5. QED
      BY <1>1, <1>4, <3>2, <3>3, <3>4 DEF TookUp
  <2>4. QED
    BY <2>1, <2>2, <2>3 DEF CurrentAnswers
<1>6. \A j \in Walkers : Active(j)' <=> Active(j)
  BY <1>1 DEF Active
<1>7. Seeds \subseteq Walkers
  BY DEF Walkers
<1>8. QED
  BY <1>4, <1>5, <1>6, <1>7 DEF CalmInv

LEMMA CalmPut ==
  ASSUME TypeInv, StringsInv, CalmInv, TypeInv', NEW i \in Seeds, PutString(i)
  PROVE  CalmInv'
<1>1. /\ i \in Walkers /\ run[i] \in RunState /\ Applied(run[i]) /\ run[i].stage = "strings"
      /\ strings \in [Strings -> Values \cup {None}] /\ Active(i)
      /\ UNCHANGED <<param, generated, call, target, role, rotated>>
  BY DEF PutString, Walkers, TypeInv, TypeOK, StringsInv, storeVars, Active
<1>2. PICK q \in run[i].unwritten :
        /\ strings' = [strings EXCEPT ![q] = run[i].password[RoleOf[q]]]
        /\ run' = [run EXCEPT ![i] = IF run[i].unwritten = {q} THEN DoneRun
                                     ELSE [run[i] EXCEPT !.unwritten = @ \ {q}]]
  BY DEF PutString
<1>3. q \in Strings /\ RoleOf[q] \in Listed /\ RoleOf[q] \in Names
  BY <1>1, <1>2, StringsAssumption DEF StringsAssumption, RunState, Applied
<1>4. strings'[q] = run[i].password[RoleOf[q]] /\ \A p \in Strings \ {q} : strings'[p] = strings[p]
  BY <1>1, <1>2, <1>3
<1>5. Calm => strings'[q] = param[RoleOf[q]]
  <2>1. Past(run[i], RoleOf[q])
    BY <1>1, <1>3 DEF Past
  <2>2. QED
    BY <1>1, <1>3, <1>4, <2>1, PastCurrent
<1>6. Calm => /\ CurrentAnswers' /\ Current(run[i].password)
              /\ \A p \in Strings : strings'[p] \in {strings[p], param[RoleOf[p]]}
  BY <1>1, <1>4, <1>5 DEF CalmInv, CurrentAnswers
<1>7. CASE run[i].unwritten = {q}
  <2>1. PICK s : s = DoneRun
    OBVIOUS
  <2>2. Ended(s)
    BY <2>1 DEF DoneRun, IdleRun, Ended
  <2>3. run' = [run EXCEPT ![i] = s]
    BY <1>2, <1>7, <2>1
  <2>4. QED
    BY <1>1, <1>6, <2>2, <2>3, CalmKeeps
<1>8. CASE run[i].unwritten # {q}
  <2>1. PICK s : s = [run[i] EXCEPT !.unwritten = run[i].unwritten \ {q}]
    OBVIOUS
  <2>2. /\ s.stage = "strings" /\ s.password = run[i].password
        /\ s.unwritten = run[i].unwritten \ {q}
    BY <1>1, <2>1 DEF RunState
  <2>3. s.tainted = run[i].tainted
    BY <1>1, <2>1, Zenon DEF RunState
  <2>4. WentOn(i, s)
    <3>1. s.stage \notin {"idle", "done"}
      BY <2>2
    <3>2. QED
      BY <1>1, <2>3, <3>1, Zenon DEF WentOn
  <2>5. ASSUME Calm PROVE TookUp(s)'
    <3>1. TookUp(run[i]) /\ Listed' = Listed
      BY <1>1, <2>5 DEF CalmInv, Listed
    <3>2. \A r : Past(s, r)' => Past(run[i], r)
      BY <1>1, <2>2, <3>1 DEF Past
    <3>3. ASSUME NEW p \in Strings, RoleOf[p] \in Listed
          PROVE  p \in s.unwritten \/ strings'[p] = param[RoleOf[p]]
      <4>1. CASE p = q
        BY <1>5, <2>5, <4>1
      <4>2. CASE p # q
        BY <1>1, <1>4, <2>2, <3>1, <3>3, <4>2 DEF TookUp
      <4>3. QED
        BY <4>1, <4>2
    <3>4. QED
      BY <1>1, <3>1, <3>2, <3>3 DEF TookUp
  <2>6. run' = [run EXCEPT ![i] = s]
    BY <1>2, <1>8, <2>1
  <2>7. QED
    BY <1>1, <1>6, <2>2, <2>4, <2>5, <2>6, CalmKeeps
<1>9. QED
  BY <1>7, <1>8

(* A record that begins, with no password read.                            *)
LEMMA StartedCalm ==
  ASSUME TypeInv, NEW i \in Walkers, ~Active(i), NEW g \in {"passwords", "read"}
  PROVE  \A s : s = Started(i, g) =>
           Began(i, s) /\ s.stage = g /\ s.at = 1 /\ s.password = IdleRun.password
<1> TAKE s
<1> HAVE s = Started(i, g)
<1>1. PICK b \in BOOLEAN : /\ b <=> \E j \in Walkers \ {i} : run[j].tainted
                           /\ s = [IdleRun EXCEPT !.stage = g, !.at = 1, !.tainted = b]
  <2>1. (\E j \in Walkers \ {i} : run[j].tainted) \in BOOLEAN
    OBVIOUS
  <2>2. QED
    BY <2>1, Zenon DEF Started
<1>2. s.stage = g /\ s.at = 1 /\ s.password = IdleRun.password /\ s.tainted = b
  BY <1>1 DEF IdleRun
<1>3. g \notin {"idle", "done"}
  OBVIOUS
<1>4. Began(i, s)
  BY <1>1, <1>2, <1>3, Zenon DEF Began
<1>5. QED
  BY <1>2, <1>4

LEMMA CalmSeedStep ==
  ASSUME TypeInv, StringsInv, CalmInv, TypeInv', NEW i \in Seeds, SeedStep(i)
  PROVE  CalmInv'
<1>1. /\ i \in Walkers /\ i \in Callers /\ Fits(i, run[i]) /\ CallFits(i)
      /\ target \in Targets /\ run[i] \in RunState
      /\ call \in [Callers -> CallState]
  BY DEF Walkers, Seeds, TypeInv, TypeOK, StoreTypeOK
<1>2. ASSUME NEW s, run' = [run EXCEPT ![i] = s],
             Ended(s) \/ WentOn(i, s) \/ Began(i, s),
             Calm => Current(s.password),
             s.stage \in {"idle", "passwords"} \/ (s.stage = "role" /\ s.at = 1),
             NEW q, call' = [call EXCEPT ![i] = q], q.pc # "answered",
             UNCHANGED <<param, target, role, strings>>
      PROVE  CalmInv'
  <2>1. Calm => CurrentAnswers'
    <3>1. call'[i] = q /\ \A d \in Callers \ {i} : call'[d] = call[d]
      BY <1>1, <1>2
    <3>2. QED
      BY <1>2, <3>1 DEF CalmInv, CurrentAnswers
  <2>2. \A r : ~Past(s, r)'
    <3>1. ASSUME NEW m \in 1..Len(target.roles), m < s.at
          PROVE  s.stage # "role"
      BY <1>1, <1>2, <3>1, TargetType
    <3>2. QED
      BY <1>2, <3>1 DEF Past
  <2>3. TookUp(s)'
    BY <1>2, <2>2 DEF TookUp
  <2>4. QED
    BY <1>1, <1>2, <2>1, <2>3, CalmKeeps
<1>3. \A n : Asking(n).pc = "get"
  BY DEF Asking
<1>4. IdleCall.pc = "idle" /\ IdleRun.stage = "idle" /\ Current(IdleRun.password)
      /\ Ended(IdleRun)
  BY DEF IdleCall, IdleRun, Current, Ended
<1>5. CASE StartSeed(i)
  <2>1. PICK s : s = Started(i, "passwords")
    OBVIOUS
  <2>2. /\ run' = [run EXCEPT ![i] = s] /\ ~Active(i)
        /\ call' = [call EXCEPT ![i] = Asking(target.roles[1])]
        /\ UNCHANGED <<param, target, role, strings>>
    BY <1>5, <2>1 DEF StartSeed
  <2>3. Began(i, s) /\ s.stage = "passwords" /\ s.password = IdleRun.password
    BY <1>1, <2>1, <2>2, StartedCalm
  <2>4. QED
    BY <1>2, <1>3, <1>4, <2>2, <2>3
<1>6. CASE TakePassword(i)
  <2>1. PICK password : password = [run[i].password EXCEPT ![At(i)] = call[i].answer]
    OBVIOUS
  <2>2. PICK took : took = [run[i] EXCEPT !.password = password]
    OBVIOUS
  <2>3. /\ run[i].stage = "passwords" /\ call[i].name = At(i) /\ At(i) \in Names
        /\ call[i].pc = "answered" /\ Active(i)
    BY <1>1, <1>6, TargetType DEF TakePassword, CallFits, Fits, At, Active
  <2>4. Calm => Current(password)
    <3>1. Calm => call[i].answer \in {None, param[At(i)]} /\ Current(run[i].password)
      BY <1>1, <2>3 DEF CalmInv, CurrentAnswers
    <3>2. \A r \in Names : password[r] = IF r = At(i) THEN call[i].answer ELSE run[i].password[r]
      BY <1>1, <2>1, <2>3 DEF RunState
    <3>3. QED
      BY <3>1, <3>2 DEF Current
  <2>5. /\ UNCHANGED <<param, target, role, strings>>
        /\ \/ /\ run' = [run EXCEPT ![i] = [took EXCEPT !.at = run[i].at + 1]]
              /\ call' = [call EXCEPT ![i] = Asking(target.roles[run[i].at + 1])]
           \/ /\ \/ run' = [run EXCEPT ![i] = [took EXCEPT !.stage = "role", !.at = 1]]
                 \/ run' = [run EXCEPT ![i] = IdleRun]
              /\ call' = [call EXCEPT ![i] = IdleCall]
    BY <1>6, <2>1, <2>2 DEF TakePassword
  <2>6. took \in [stage : Stages, at : Nat, password : {password},
                  unwritten : SUBSET Strings, dropped : BOOLEAN, tainted : BOOLEAN]
        /\ took.stage = "passwords"
    BY <1>1, <2>2, <2>3 DEF RunState
  <2>7. took.tainted = run[i].tainted
    BY <1>1, <2>2, Zenon DEF RunState
  <2>8. ASSUME NEW s, s.stage \in {"passwords", "role"}, s.tainted = took.tainted
        PROVE  WentOn(i, s)
    <3>1. s.stage \notin {"idle", "done"}
      BY <2>8
    <3>2. QED
      BY <2>3, <2>7, <2>8, <3>1, Zenon DEF WentOn
  <2>9. CASE /\ run' = [run EXCEPT ![i] = [took EXCEPT !.at = run[i].at + 1]]
             /\ call' = [call EXCEPT ![i] = Asking(target.roles[run[i].at + 1])]
    <3>1. PICK s : s = [took EXCEPT !.at = run[i].at + 1]
      OBVIOUS
    <3>2. s.stage = "passwords" /\ s.password = password
      BY <2>6, <3>1
    <3>3. s.tainted = took.tainted
      BY <2>6, <3>1, Zenon
    <3>4. WentOn(i, s)
      BY <2>8, <3>2, <3>3
    <3>5. QED
      BY <1>2, <1>3, <2>4, <2>5, <2>9, <3>1, <3>2, <3>4
  <2>10. CASE /\ run' = [run EXCEPT ![i] = [took EXCEPT !.stage = "role", !.at = 1]]
              /\ call' = [call EXCEPT ![i] = IdleCall]
    <3>1. PICK s : s = [took EXCEPT !.stage = "role", !.at = 1]
      OBVIOUS
    <3>2. s.stage = "role" /\ s.at = 1 /\ s.password = password
      BY <2>6, <3>1
    <3>3. s.tainted = took.tainted
      BY <2>6, <3>1, Zenon
    <3>4. WentOn(i, s)
      BY <2>8, <3>2, <3>3
    <3>5. QED
      BY <1>2, <1>4, <2>4, <2>5, <2>10, <3>1, <3>2, <3>4
  <2>11. CASE /\ run' = [run EXCEPT ![i] = IdleRun]
              /\ call' = [call EXCEPT ![i] = IdleCall]
    BY <1>2, <1>4, <2>5, <2>11
  <2>12. QED
    BY <2>5, <2>9, <2>10, <2>11
<1>7. QED
  BY <1>5, <1>6, CalmEnsure, CalmPut DEF SeedStep

LEMMA CalmResetStep ==
  ASSUME TypeInv, CalmInv, TypeInv', NEW i \in Resets, ResetStep(i)
  PROVE  CalmInv'
<1>1. /\ i \in Walkers /\ i \notin Seeds /\ run[i] \in RunState /\ target \in Targets
  BY ActorsAssumption DEF ActorsAssumption, Walkers, Seeds, TypeInv, TypeOK
<1>2. UNCHANGED <<param, generated, call, target, role, strings, rotated>>
  BY DEF ResetStep, StartReset, ReadPassword, DropDatabase, dbUnchanged, storeVars
<1>3. Calm => CurrentAnswers'
  BY <1>2 DEF CalmInv, CurrentAnswers
<1>4. ASSUME NEW s, run' = [run EXCEPT ![i] = s],
             Ended(s) \/ WentOn(i, s) \/ Began(i, s),
             Calm /\ ~Ended(s) => Current(s.password)
      PROVE  CalmInv'
  BY <1>1, <1>2, <1>3, <1>4, CalmKeeps
<1>5. Current(IdleRun.password) /\ Ended(IdleRun)
  BY DEF IdleRun, Current, Ended
<1>6. CASE StartReset(i)
  <2>1. PICK s : s = Started(i, "read")
    OBVIOUS
  <2>2. run' = [run EXCEPT ![i] = s] /\ ~Active(i)
    BY <1>6, <2>1 DEF StartReset
  <2>3. Began(i, s) /\ s.password = IdleRun.password
    BY <1>1, <2>1, <2>2, StartedCalm
  <2>4. QED
    BY <1>4, <1>5, <2>2, <2>3
<1>7. CASE ReadPassword(i)
  <2>1. PICK password : password = [IdleRun.password EXCEPT ![At(i)] = param[At(i)]]
    OBVIOUS
  <2>2. PICK s : s = [run[i] EXCEPT !.stage = "drop", !.password = password]
    OBVIOUS
  <2>3. s.password = password /\ s.stage = "drop"
    BY <1>1, <2>2 DEF RunState
  <2>4. s.tainted = run[i].tainted
    BY <1>1, <2>2, Zenon DEF RunState
  <2>5. /\ run[i].stage = "read"
        /\ run' = [run EXCEPT ![i] = IdleRun] \/ run' = [run EXCEPT ![i] = s]
    BY <1>7, <2>1, <2>2 DEF ReadPassword
  <2>6. WentOn(i, s)
    <3>1. s.stage \notin {"idle", "done"} /\ Active(i)
      BY <2>3, <2>5 DEF Active
    <3>2. QED
      BY <2>4, <3>1, Zenon DEF WentOn
  <2>7. Current(s.password)
    <3>1. \A r \in Names : password[r] \in {None, param[r]}
      BY <2>1 DEF IdleRun
    <3>2. QED
      BY <2>3, <3>1 DEF Current
  <2>8. QED
    BY <1>4, <1>5, <2>5, <2>6, <2>7
<1>8. CASE DropDatabase(i)
  <2>1. PICK b : b = (At(i) \in databases)
    OBVIOUS
  <2>2. PICK s : s = [run[i] EXCEPT !.stage = "role", !.dropped = b]
    OBVIOUS
  <2>3. s.password = run[i].password /\ s.stage = "role" /\ s.tainted = run[i].tainted
    BY <1>1, <2>2, Zenon DEF RunState
  <2>4. run' = [run EXCEPT ![i] = s] /\ run[i].stage = "drop"
    BY <1>8, <2>1, <2>2 DEF DropDatabase
  <2>5. WentOn(i, s)
    <3>1. "role" \notin {"idle", "done"} /\ Active(i)
      BY <2>4 DEF Active
    <3>2. QED
      BY <2>3, <3>1, Zenon DEF WentOn
  <2>6. Calm => Current(run[i].password)
    BY <1>1, <2>5 DEF CalmInv, WentOn
  <2>7. Calm => Current(s.password)
    BY <2>3, <2>6, Zenon
  <2>8. QED
    BY <1>4, <2>4, <2>5, <2>7
<1>9. QED
  BY <1>6, <1>7, <1>8 DEF ResetStep

LEMMA CalmDie ==
  ASSUME TypeInv, CalmInv, TypeInv', NEW i \in Walkers, Die(i)
  PROVE  CalmInv'
<1>1. /\ run' = [run EXCEPT ![i] = IdleRun]
      /\ call' = IF i \in Seeds THEN [call EXCEPT ![i] = IdleCall] ELSE call
      /\ UNCHANGED <<param, generated, target, role, databases, strings, rotated>>
  BY DEF Die
<1>2. IdleCall.pc = "idle" /\ Ended(IdleRun)
  BY DEF IdleCall, IdleRun, Ended
<1>3. Calm => CurrentAnswers'
  BY <1>1, <1>2 DEF TypeInv, TypeOK, StoreTypeOK, CalmInv, CurrentAnswers
<1>4. PICK s : s = IdleRun
  OBVIOUS
<1>5. QED
  BY <1>1, <1>2, <1>3, <1>4, CalmKeeps

(* After a rotation only the inactive are not tainted.                     *)
LEMMA CalmRotate ==
  ASSUME TypeInv, CalmInv, TypeInv', NEW r \in Names, Rotate(r)
  PROVE  CalmInv'
<1>1. ASSUME NEW i \in Walkers
      PROVE  /\ Active(i)' <=> Active(i)
             /\ run'[i].tainted <=> Active(i)
  <2>1. run[i] \in RunState
    BY DEF TypeInv, TypeOK
  <2>2. PICK b \in BOOLEAN : (b <=> Active(i)) /\ run'[i] = [run[i] EXCEPT !.tainted = b]
    <3>1. Active(i) \in BOOLEAN
      BY DEF Active
    <3>2. run'[i] = [run[i] EXCEPT !.tainted = Active(i)]
      BY DEF Rotate
    <3>3. QED
      BY <3>1, <3>2, Zenon
  <2>3. run'[i].stage = run[i].stage /\ run'[i].tainted = b
    BY <2>1, <2>2, Zenon DEF RunState
  <2>4. Active(i)' <=> Active(i)
    BY <2>3 DEF Active
  <2>5. QED
    BY <2>2, <2>3, <2>4
<1>2. \A i \in Walkers : run'[i].tainted \in BOOLEAN
  BY DEF TypeInv, TypeOK, RunState
<1>3. TaintShared'
  BY <1>1, <1>2 DEF TaintShared
<1>4. Calm' => \A i \in Walkers : ~Active(i)'
  BY <1>1 DEF Calm
<1>5. Calm' => CurrentAnswers'
  <2>1. ASSUME Calm', NEW c \in Callers, call'[c].pc = "answered" PROVE FALSE
    <3>1. c \in Seeds /\ c \in Walkers
      BY DEF Seeds, Walkers
    <3>2. run'[c].stage \in {"idle", "done"} /\ CallFits(c)'
      BY <1>4, <2>1, <3>1 DEF Active, TypeInv
    <3>3. QED
      BY <2>1, <3>2 DEF CallFits
  <2>2. QED
    BY <2>1 DEF CurrentAnswers
<1>6. Seeds \subseteq Walkers
  BY DEF Walkers
<1>7. QED
  BY <1>3, <1>4, <1>5, <1>6 DEF CalmInv

LEMMA CalmNext ==
  TypeInv /\ StringsInv /\ CalmInv /\ [Next]_vars => CalmInv'
<1> SUFFICES ASSUME TypeInv, StringsInv, CalmInv, [Next]_vars PROVE CalmInv'
  OBVIOUS
<1>1. TypeInv'
  BY TypeNext
<1>2. CASE UNCHANGED vars
  BY <1>2 DEF vars, storeVars, CalmInv, TaintShared, Calm, Active, Current, CurrentAnswers,
     TookUp, Past, Listed
<1>3. CASE Next
  BY <1>1, <1>3, CalmSeedStep, CalmResetStep, CalmDatabaseStep, CalmDie, CalmRotate
     DEF Next
<1>4. QED
  BY <1>2, <1>3

LEMMA CalmAlways == Spec => [](TypeInv /\ StringsInv /\ CalmInv)
<1>1. Init => TypeInv /\ StringsInv /\ CalmInv
  BY TypeInit, StringsInit, CalmInit
<1>2. TypeInv /\ StringsInv /\ CalmInv /\ [Next]_vars =>
        (TypeInv /\ StringsInv /\ CalmInv)'
  BY TypeNext, StringsNext, CalmNext
<1>3. QED
  BY <1>1, <1>2, PTL DEF Spec

(* A seed that ends, and ran beside no rotation nor beside an invocation   *)
(* that had read a password before one, leaves Postgres and every string   *)
(* with the stored passwords, the rotated ones included.                   *)
THEOREM SeedsTakeUp == Spec => SeedTakesRotationsUp
<1>1. ASSUME TypeInv, StringsInv, CalmInv, Next, NEW i \in Seeds,
             run[i].stage # "done", run'[i].stage = "done", ~run[i].tainted
      PROVE  /\ \A r \in Listed : param'[r] # None /\ role'[r] = param'[r]
             /\ \A s \in Strings : RoleOf[s] \in Listed => strings'[s] = param'[RoleOf[s]]
  <2>1. /\ i \in Walkers /\ run \in [Walkers -> RunState] /\ run[i] \in RunState
        /\ target \in Targets /\ strings \in [Strings -> Values \cup {None}]
    BY <1>1 DEF Walkers, TypeInv, TypeOK
  <2>2. i \notin Resets /\ run'[i] # run[i]
    BY <1>1, ActorsAssumption DEF ActorsAssumption, Seeds
  <2>3. PutString(i)
    <3>1. ASSUME NEW s, run' = [run EXCEPT ![i] = s], s.stage # "done"
          PROVE  FALSE
      BY <1>1, <2>1, <3>1
    <3>2. ASSUME NEW j \in Seeds, SeedStep(j) PROVE PutString(i)
      <4>1. j = i /\ ~EnsurePassword(i)
        BY <2>1, <2>2, <3>2
           DEF SeedStep, StartSeed, EnsurePassword, TakePassword, PutString
      <4>2. ASSUME StartSeed(i) PROVE FALSE
        <5>1. Started(i, "passwords").stage # "done"
          BY DEF Started, IdleRun
        <5>2. QED
          BY <3>1, <4>2, <5>1 DEF StartSeed
      <4>3. ASSUME TakePassword(i) PROVE FALSE
        <5>1. PICK password : password = [run[i].password EXCEPT ![At(i)] = call[i].answer]
          OBVIOUS
        <5>2. PICK took : took = [run[i] EXCEPT !.password = password]
          OBVIOUS
        <5>3. \/ run' = [run EXCEPT ![i] = [took EXCEPT !.at = run[i].at + 1]]
              \/ run' = [run EXCEPT ![i] = [took EXCEPT !.stage = "role", !.at = 1]]
              \/ run' = [run EXCEPT ![i] = IdleRun]
          BY <4>3, <5>1, <5>2 DEF TakePassword
        <5>4. took \in [stage : Stages, at : Nat, password : {password},
                        unwritten : SUBSET Strings, dropped : BOOLEAN, tainted : BOOLEAN]
              /\ took.stage # "done"
          BY <1>1, <2>1, <5>2 DEF RunState
        <5>5. /\ [took EXCEPT !.at = run[i].at + 1].stage # "done"
              /\ [took EXCEPT !.stage = "role", !.at = 1].stage # "done"
              /\ IdleRun.stage # "done"
          BY <5>4 DEF IdleRun
        <5>6. QED
          BY <3>1, <5>3, <5>5
      <4>4. QED
        BY <3>2, <4>1, <4>2, <4>3 DEF SeedStep
    <3>3. ASSUME NEW j \in Resets, ResetStep(j) PROVE FALSE
      BY <2>1, <2>2, <3>3 DEF ResetStep, StartReset, ReadPassword, DropDatabase
    <3>4. ASSUME NEW j \in Walkers, Die(j) PROVE FALSE
      BY <1>1, <2>1, <2>2, <3>4 DEF Die, IdleRun
    <3>5. ASSUME NEW r \in Names, Rotate(r) PROVE FALSE
      <4>1. PICK b : b = Active(i)
        OBVIOUS
      <4>2. run'[i] = [run[i] EXCEPT !.tainted = b]
        BY <2>1, <3>5, <4>1 DEF Rotate
      <4>3. run'[i].stage = run[i].stage
        BY <2>1, <4>2, Zenon DEF RunState
      <4>4. QED
        BY <1>1, <4>3
    <3>6. ASSUME NEW j \in Walkers, DatabaseStep(j) PROVE FALSE
      <4>1. j = i
        BY <2>1, <2>2, <3>6
           DEF DatabaseStep, CheckRole, CreateRole, AlterRole, CheckDatabase,
               CreateDatabase, Goto
      <4>2. AfterRole(i).stage \in {"role", "strings"}
        <5>1. PICK rest \in RunState : rest = [run[i] EXCEPT !.dropped = FALSE]
          BY <2>1 DEF RunState
        <5>2. /\ [rest EXCEPT !.stage = "role", !.at = run[i].at + 1].stage = "role"
              /\ [rest EXCEPT !.stage = "strings",
                    !.unwritten = {s \in Strings : RoleOf[s] \in Listed}].stage = "strings"
          BY <5>1 DEF RunState
        <5>3. \/ AfterRole(i) = [rest EXCEPT !.stage = "role", !.at = run[i].at + 1]
              \/ AfterRole(i) = [rest EXCEPT !.stage = "strings",
                                   !.unwritten = {s \in Strings : RoleOf[s] \in Listed}]
          BY <2>2, <5>1 DEF AfterRole, NextRole
        <5>4. QED
          BY <5>2, <5>3
      <4>3. ASSUME NEW g \in {"create", "alter", "database", "createDatabase"},
                   run' = [run EXCEPT ![i] = [run[i] EXCEPT !.stage = g]]
            PROVE  FALSE
        BY <1>1, <2>1, <4>3 DEF RunState
      <4>4. run' # [run EXCEPT ![i] = AfterRole(i)]
        BY <3>1, <4>2
      <4>5. QED
        BY <3>6, <4>1, <4>3, <4>4
           DEF DatabaseStep, CheckRole, CreateRole, AlterRole, CheckDatabase,
               CreateDatabase, Goto
    <3>7. QED
      BY <1>1, <3>2, <3>3, <3>4, <3>5, <3>6 DEF Next
  <2>4. run[i].stage = "strings" /\ Active(i) /\ UNCHANGED <<param, role, target>>
    BY <2>3 DEF PutString, Active, storeVars
  <2>5. Calm
    BY <1>1, <2>1, <2>4 DEF CalmInv, TaintShared, Calm
  <2>6. ASSUME NEW r \in Listed
        PROVE  /\ run[i].password[r] = param[r] /\ param[r] # None /\ role[r] = param[r]
    <3>1. r \in Names
      BY <2>1, <2>6, TargetType
    <3>2. Past(run[i], r)
      BY <2>4 DEF Past
    <3>3. QED
      BY <1>1, <2>4, <2>5, <3>1, <3>2, PastCurrent
  <2>7. PICK q \in run[i].unwritten :
          /\ strings' = [strings EXCEPT ![q] = run[i].password[RoleOf[q]]]
          /\ run' = [run EXCEPT ![i] = IF run[i].unwritten = {q} THEN DoneRun
                                       ELSE [run[i] EXCEPT !.unwritten = @ \ {q}]]
    BY <2>3 DEF PutString
  <2>8. run[i].unwritten = {q}
    BY <1>1, <2>1, <2>4, <2>7 DEF RunState
  <2>9. ASSUME NEW s \in Strings, RoleOf[s] \in Listed
        PROVE  strings'[s] = param[RoleOf[s]]
    <3>1. CASE s = q
      BY <2>1, <2>6, <2>7, <2>9, <3>1
    <3>2. CASE s # q
      <4>1. TookUp(run[i])
        BY <1>1, <2>4, <2>5 DEF CalmInv
      <4>2. QED
        BY <2>1, <2>4, <2>7, <2>8, <2>9, <3>2, <4>1 DEF TookUp
    <3>3. QED
      BY <3>1, <3>2
  <2>10. QED
    BY <2>4, <2>6, <2>9
<1>2. TypeInv /\ StringsInv /\ CalmInv /\ [Next]_vars =>
        [\A i \in Seeds :
           run[i].stage # "done" /\ run'[i].stage = "done" /\ ~run[i].tainted =>
             /\ \A r \in Listed : param'[r] # None /\ role'[r] = param'[r]
             /\ \A s \in Strings :
                  RoleOf[s] \in Listed => strings'[s] = param'[RoleOf[s]]]_vars
  <2>1. CASE Next
    BY <1>1, <2>1
  <2>2. CASE UNCHANGED vars
    BY <2>2
  <2>3. QED
    BY <2>1, <2>2
<1>3. QED
  BY <1>2, CalmAlways, PTL DEF Spec, SeedTakesRotationsUp
=============================================================================
