--------------------------- MODULE SeedKeysProofs ---------------------------
(***************************************************************************)
(* What holds of SeedKeys for any services, wallets, keys and number of    *)
(* overlapping runs.                                                       *)
(***************************************************************************)
EXTENDS SeedKeys, TLAPS

-----------------------------------------------------------------------------
(* A run in the middle of ensureKey knows which name it is at, and a copy  *)
(* it is about to move is a key.                                           *)
Located(s) ==
  /\ s.step # "next" => s.at \in Names
  /\ s.step \in {"check", "copy"} => s.copy \in Keys

TypeInv == TypeOK /\ \A i \in Runs : Located(run[i])

LEMMA TypeInit == Init => TypeInv
<1> SUFFICES ASSUME Init PROVE TypeInv
  OBVIOUS
<1>1. PICK s \in StageAtStart :
        /\ secret = s.secret /\ legacy = s.legacy /\ published = s.published
        /\ generated = {s.secret[n] : n \in Names} \cup {s.legacy[n] : n \in Names}
  BY DEF Init
<1>2. /\ secret \in [Names -> Keys \cup {None}]
      /\ legacy \in [Names -> Keys \cup {None}]
      /\ published \in [Names -> Keys \cup {None}]
      /\ generated \subseteq Keys \cup {None}
  BY <1>1, StageAssumption DEF StageAssumption
<1>3. multibase \in [Multibase -> Keys \cup {None}]
  BY <1>2, ListsAssumption DEF Init, ListsAssumption, Names
<1>4. proof \in [Signers -> Keys \cup {None}]
  BY <1>2, ListsAssumption DEF Init, ListsAssumption, Names
<1>5. IdleRun \in RunState /\ IdleRun.step = "next"
  BY DEF IdleRun, RunState, Stages, Steps
<1>6. run \in [Runs -> RunState] /\ \A i \in Runs : run[i].step = "next"
  BY <1>5 DEF Init
<1>7. QED
  BY <1>2, <1>3, <1>4, <1>6 DEF Init, TypeInv, TypeOK, Located

LEMMA NextStageType ==
  ASSUME NEW s \in RunState, s.stage # "idle"
  PROVE  NextStage(s) \in RunState /\ NextStage(s).step \in {s.step, "next"}
<1> USE DEF RunState, Stages, Steps, IdleRun, NextStage
<1>1. Signers \subseteq Names /\ Wallets \subseteq Names
  BY ListsAssumption DEF ListsAssumption, Names
<1>2. CASE s.stage = "identities"
  BY <1>1, <1>2
<1>3. CASE s.stage = "proofs"
  BY <1>1, <1>3
<1>4. CASE s.stage = "wallets"
  BY <1>4
<1>5. CASE s.stage = "rest"
  BY <1>5
<1>6. CASE s.stage = "delete"
  BY <1>6
<1>7. CASE s.stage = "done"
  BY <1>7
<1>8. QED
  BY <1>2, <1>3, <1>4, <1>5, <1>6, <1>7

-----------------------------------------------------------------------------
(* What the steps of ensureKey do to the run that takes them.              *)
Others(i) == \A j \in Runs \ {i} : run'[j] = run[j]

(* The run is where it was in the phase, at the same name.                 *)
Stays(s, t) ==
  /\ t.stage = s.stage /\ t.todo = s.todo /\ t.at = s.at
  /\ t.found = s.found /\ t.fresh = s.fresh

Left(i) ==
  /\ run'[i] = IdleRun
  /\ stranded' = stranded \cup {n \in run[i].fresh : Outdated(n)}

LEMMA IdleRunType == IdleRun \in RunState /\ Located(IdleRun)
  BY DEF IdleRun, RunState, Stages, Steps, Located

LEMMA LeaveEffect ==
  ASSUME run \in [Runs -> RunState], NEW i \in Runs, Leave(i)
  PROVE  Left(i) /\ Others(i) /\ run' \in [Runs -> RunState]
  BY IdleRunType DEF Leave, Left, Others

LEMMA LookupLegacyEffect ==
  ASSUME run \in [Runs -> RunState], legacy \in [Names -> Keys \cup {None}],
         NEW i \in Runs, run[i].at \in Names, LookupLegacy(i)
  PROVE  /\ run' \in [Runs -> RunState] /\ Others(i)
         /\ \/ Left(i)
            \/ /\ Stays(run[i], run'[i]) /\ UNCHANGED stranded
               /\ run'[i].created = run[i].created
               /\ run'[i].copy = legacy[run[i].at] /\ run'[i].stored = run[i].found
               /\ \/ /\ run[i].found # None /\ legacy[run[i].at] \in {None, run[i].found}
                     /\ run'[i].step = AfterEnsure(run[i].at)
                     /\ run'[i].moved = run[i].moved
                          \cup IF legacy[run[i].at] = None THEN {} ELSE {run[i].at}
                  \/ /\ run[i].found = None /\ run'[i].moved = run[i].moved
                     /\ run'[i].step = IF legacy[run[i].at] = None THEN "mint" ELSE "check"
<1> DEFINE n == run[i].at
           found == run[i].found
           copy == legacy[n]
           state == [run[i] EXCEPT !.copy = copy, !.stored = found]
<1>1. /\ state \in RunState /\ Stays(run[i], state) /\ state.created = run[i].created
      /\ state.copy = copy /\ state.stored = found /\ state.moved = run[i].moved
  BY DEF RunState, Stays
<1>2. ASSUME NEW s \in RunState, run' = [run EXCEPT ![i] = s]
      PROVE  run' \in [Runs -> RunState] /\ Others(i) /\ run'[i] = s
  BY <1>2 DEF Others
<1>3. AfterEnsure(n) \in Steps
  BY DEF AfterEnsure, Steps
<1>4. CASE found # None /\ copy \notin {None, found}
  BY <1>4, LeaveEffect DEF LookupLegacy
<1>5. CASE found # None /\ copy = found
  <2>1. run' = [run EXCEPT ![i] = [state EXCEPT !.step = AfterEnsure(n),
                                                !.moved = ToDelete(i)]]
        /\ UNCHANGED stranded
    BY <1>5 DEF LookupLegacy
  <2> DEFINE s == [state EXCEPT !.step = AfterEnsure(n), !.moved = ToDelete(i)]
  <2>2. /\ s \in RunState /\ Stays(run[i], s) /\ s.created = run[i].created
        /\ s.copy = copy /\ s.stored = found /\ s.step = AfterEnsure(n)
        /\ s.moved = run[i].moved \cup {n}
    <3> HIDE DEF state
    <3>1. QED
      BY <1>1, <1>3 DEF RunState, Stays, ToDelete
  <2> HIDE DEF s, state
  <2>3. QED
    BY <1>2, <1>5, <2>1, <2>2 DEF s
<1>6. CASE found # None /\ copy # found /\ copy = None
  <2>1. run' = [run EXCEPT ![i] = [state EXCEPT !.step = AfterEnsure(n)]]
        /\ UNCHANGED stranded
    BY <1>6 DEF LookupLegacy
  <2> DEFINE s == [state EXCEPT !.step = AfterEnsure(n)]
  <2>2. /\ s \in RunState /\ Stays(run[i], s) /\ s.created = run[i].created
        /\ s.copy = copy /\ s.stored = found /\ s.step = AfterEnsure(n)
        /\ s.moved = run[i].moved
    <3> HIDE DEF state
    <3>1. QED
      BY <1>1, <1>3 DEF RunState, Stays
  <2> HIDE DEF s, state
  <2>3. QED
    BY <1>2, <1>6, <2>1, <2>2 DEF s
<1>7. CASE found = None
  <2> DEFINE next == IF copy = None THEN "mint" ELSE "check"
             s == [state EXCEPT !.step = next]
  <2>1. run' = [run EXCEPT ![i] = s] /\ UNCHANGED stranded
    BY <1>7 DEF LookupLegacy
  <2>2. /\ s \in RunState /\ Stays(run[i], s) /\ s.created = run[i].created
        /\ s.copy = copy /\ s.stored = found /\ s.step = next
        /\ s.moved = run[i].moved
    <3> HIDE DEF state
    <3>1. next \in Steps
      BY DEF Steps
    <3>2. QED
      BY <1>1, <3>1 DEF RunState, Stays
  <2> HIDE DEF s, state
  <2>3. QED
    BY <1>2, <1>7, <2>1, <2>2 DEF s
<1>8. QED
  BY <1>4, <1>5, <1>6, <1>7

LEMMA CheckPublicRecordEffect ==
  ASSUME run \in [Runs -> RunState], NEW i \in Runs, CheckPublicRecord(i)
  PROVE  /\ run' \in [Runs -> RunState] /\ Others(i)
         /\ \/ Left(i)
            \/ /\ Stays(run[i], run'[i]) /\ UNCHANGED stranded
               /\ published[run[i].at] = run[i].copy
               /\ run'[i].step = "copy" /\ run'[i].created = run[i].created
               /\ run'[i].copy = run[i].copy /\ run'[i].stored = run[i].stored
               /\ run'[i].moved = run[i].moved
<1>1. CASE published[run[i].at] # run[i].copy
  BY <1>1, LeaveEffect DEF CheckPublicRecord
<1>2. CASE published[run[i].at] = run[i].copy
  <2>1. run' = [run EXCEPT ![i].step = "copy"] /\ UNCHANGED stranded
    BY <1>2 DEF CheckPublicRecord
  <2>2. QED
    BY <1>2, <2>1 DEF RunState, Steps, Stays, Others
<1>3. QED
  BY <1>1, <1>2

LEMMA CopyKeyEffect ==
  ASSUME run \in [Runs -> RunState], secret \in [Names -> Keys \cup {None}],
         NEW i \in Runs, run[i].at \in Names, run[i].copy \in Keys, CopyKey(i)
  PROVE  /\ run' \in [Runs -> RunState] /\ Others(i)
         /\ Create(run[i].at, run[i].copy) \in Keys
         /\ secret' = [secret EXCEPT ![run[i].at] = Create(run[i].at, run[i].copy)]
         /\ \/ Left(i)
            \/ /\ Stays(run[i], run'[i]) /\ UNCHANGED stranded
               /\ run'[i].step = AfterEnsure(run[i].at)
               /\ run'[i].created = run[i].created /\ run'[i].copy = run[i].copy
               /\ run'[i].stored = run[i].copy
               /\ Create(run[i].at, run[i].copy) = run[i].copy
               /\ run'[i].moved = run[i].moved \cup {run[i].at}
<1> DEFINE n == run[i].at
           stored == Create(n, run[i].copy)
<1>1. stored \in Keys /\ AfterEnsure(n) \in Steps
  BY DEF Create, AfterEnsure, Steps
<1>2. secret' = [secret EXCEPT ![n] = stored]
  BY DEF CopyKey
<1>3. CASE stored # run[i].copy
  BY <1>1, <1>2, <1>3, LeaveEffect DEF CopyKey
<1>4. CASE stored = run[i].copy
  <2>1. /\ run' = [run EXCEPT ![i] = [@ EXCEPT !.step = AfterEnsure(n), !.stored = stored,
                                              !.moved = ToDelete(i)]]
        /\ UNCHANGED stranded
    BY <1>4 DEF CopyKey
  <2> HIDE DEF stored
  <2>2. QED
    BY <1>1, <1>2, <1>4, <2>1 DEF stored, RunState, Stays, Others, ToDelete
<1>5. QED
  BY <1>3, <1>4

LEMMA MintKeyEffect ==
  ASSUME run \in [Runs -> RunState], secret \in [Names -> Keys \cup {None}],
         NEW i \in Runs, run[i].at \in Names, NEW k \in Keys, MintKey(i, k)
  PROVE  /\ run' \in [Runs -> RunState] /\ Others(i)
         /\ Create(run[i].at, k) \in Keys
         /\ secret' = [secret EXCEPT ![run[i].at] = Create(run[i].at, k)]
         /\ run'[i].step = AfterEnsure(run[i].at) /\ run'[i].at = run[i].at
         /\ run'[i].stage = run[i].stage /\ run'[i].todo = run[i].todo
         /\ run'[i].found = run[i].found /\ run'[i].copy = run[i].copy
         /\ run'[i].moved = run[i].moved
         /\ run'[i].stored = Create(run[i].at, k)
         /\ \/ /\ Create(run[i].at, k) = k
               /\ run'[i].created /\ run'[i].fresh = run[i].fresh \cup {run[i].at}
               /\ stranded' = stranded \ {run[i].at}
            \/ /\ Create(run[i].at, k) # k
               /\ ~run'[i].created /\ run'[i].fresh = run[i].fresh
               /\ UNCHANGED stranded
<1> DEFINE n == run[i].at
           stored == Create(n, k)
<1>1. stored \in Keys /\ AfterEnsure(n) \in Steps
  BY DEF Create, AfterEnsure, Steps
<1>2. PICK created \in BOOLEAN :
        /\ created <=> stored = k
        /\ run' = [run EXCEPT ![i] =
                     [@ EXCEPT !.step = AfterEnsure(n), !.stored = stored,
                               !.created = created,
                               !.fresh = run[i].fresh \cup (IF created THEN {n} ELSE {})]]
        /\ stranded' = IF created THEN stranded \ {n} ELSE stranded
  <2>1. (stored = k) \in BOOLEAN
    OBVIOUS
  <2>2. QED
    BY <2>1, Zenon DEF MintKey
<1>3. secret' = [secret EXCEPT ![n] = stored]
  BY DEF MintKey
<1> HIDE DEF stored
<1>4. CASE created
  <2>1. run' = [run EXCEPT ![i] = [@ EXCEPT !.step = AfterEnsure(n), !.stored = stored,
                                            !.created = TRUE,
                                            !.fresh = run[i].fresh \cup {n}]]
    BY <1>2, <1>4
  <2>2. stored = k /\ stranded' = stranded \ {n}
    BY <1>2, <1>4
  <2> DEFINE s == [run[i] EXCEPT !.step = AfterEnsure(n), !.stored = stored,
                                 !.created = TRUE, !.fresh = run[i].fresh \cup {n}]
  <2>s. s \in RunState
    <3>1. run[i].fresh \cup {n} \subseteq Names
      BY DEF RunState
    <3> DEFINE t == [run[i] EXCEPT !.step = AfterEnsure(n), !.stored = stored]
    <3>2. t \in RunState
      BY <1>1 DEF RunState
    <3>3. s = [t EXCEPT !.created = TRUE, !.fresh = run[i].fresh \cup {n}]
      OBVIOUS
    <3> HIDE DEF s, t
    <3>4. QED
      BY <3>1, <3>2, <3>3 DEF RunState
  <2>3. run' \in [Runs -> RunState] /\ Others(i)
    <3> HIDE DEF s
    <3>1. run' = [run EXCEPT ![i] = s]
      BY <2>1 DEF s
    <3>2. QED
      BY <2>s, <3>1 DEF Others
  <2>4. /\ run'[i].step = AfterEnsure(n) /\ run'[i].at = n
        /\ run'[i].stage = run[i].stage /\ run'[i].todo = run[i].todo
        /\ run'[i].found = run[i].found /\ run'[i].copy = run[i].copy
        /\ run'[i].moved = run[i].moved /\ run'[i].stored = stored
    BY <2>1 DEF RunState
  <2>5. run'[i].created /\ run'[i].fresh = run[i].fresh \cup {n}
    BY <2>1 DEF RunState
  <2>6. QED
    BY <1>1, <1>3, <2>2, <2>3, <2>4, <2>5 DEF stored
<1>5. CASE ~created
  <2>1. run' = [run EXCEPT ![i] = [@ EXCEPT !.step = AfterEnsure(n), !.stored = stored,
                                            !.created = FALSE,
                                            !.fresh = run[i].fresh]]
    BY <1>2, <1>5
  <2>2. stored # k /\ UNCHANGED stranded
    BY <1>2, <1>5
  <2> DEFINE s == [run[i] EXCEPT !.step = AfterEnsure(n), !.stored = stored,
                                 !.created = FALSE, !.fresh = run[i].fresh]
  <2>s. s \in RunState
    <3>1. run[i].fresh \cup {n} \subseteq Names
      BY DEF RunState
    <3> DEFINE t == [run[i] EXCEPT !.step = AfterEnsure(n), !.stored = stored]
    <3>2. t \in RunState
      BY <1>1 DEF RunState
    <3>3. s = [t EXCEPT !.created = FALSE, !.fresh = run[i].fresh]
      OBVIOUS
    <3> HIDE DEF s, t
    <3>4. QED
      BY <3>1, <3>2, <3>3 DEF RunState
  <2>3. run' \in [Runs -> RunState] /\ Others(i)
    <3> HIDE DEF s
    <3>1. run' = [run EXCEPT ![i] = s]
      BY <2>1 DEF s
    <3>2. QED
      BY <2>s, <3>1 DEF Others
  <2>4. /\ run'[i].step = AfterEnsure(n) /\ run'[i].at = n
        /\ run'[i].stage = run[i].stage /\ run'[i].todo = run[i].todo
        /\ run'[i].found = run[i].found /\ run'[i].copy = run[i].copy
        /\ run'[i].moved = run[i].moved /\ run'[i].stored = stored
    BY <2>1 DEF RunState
  <2>5. ~run'[i].created /\ run'[i].fresh = run[i].fresh
    BY <2>1 DEF RunState
  <2>6. QED
    BY <1>1, <1>3, <2>2, <2>3, <2>4, <2>5 DEF stored
<1>6. QED
  BY <1>4, <1>5

LEMMA TypeSeedStep ==
  ASSUME TypeInv, NEW i \in Runs, SeedStep(i)
  PROVE  TypeInv'
<1> USE DEF TypeInv, TypeOK, Located
<1>1. run[i] \in RunState /\ run \in [Runs -> RunState]
  OBVIOUS
<1>2. CASE StartSeed(i)
  BY <1>1, <1>2 DEF StartSeed, IdleRun, RunState, Stages, Steps, Names
<1>3. ASSUME NEW n \in Names, LookupSecret(i, n) PROVE TypeInv'
  <2>1. run' = [run EXCEPT ![i] = [run[i] EXCEPT !.step = "legacy", !.at = n,
                                                 !.found = secret[n]]]
    BY <1>1, <1>3 DEF LookupSecret, RunState
  <2>2. [run[i] EXCEPT !.step = "legacy", !.at = n, !.found = secret[n]] \in RunState
    BY <1>1 DEF RunState, Steps
  <2>3. run' \in [Runs -> RunState] /\ run'[i].step = "legacy" /\ run'[i].at = n
        /\ \A j \in Runs \ {i} : run'[j] = run[j]
    BY <1>1, <2>1, <2>2 DEF RunState
  <2>4. QED
    BY <1>3, <2>3 DEF LookupSecret
<1>4. CASE LookupLegacy(i)
  <2>1. run[i].at \in Names
    BY <1>1, <1>4 DEF LookupLegacy, Ensuring
  <2>2. /\ run' \in [Runs -> RunState] /\ Others(i) /\ stranded' \subseteq Names
        /\ Located(run'[i])
        /\ run'[i].step \in {"multibase", "publish"} => run'[i].stored \in Keys
    <3>1. CASE Left(i)
      BY <1>1, <1>4, <2>1, <3>1, LookupLegacyEffect, IdleRunType
         DEF Left, IdleRun, RunState
    <3>2. CASE ~Left(i)
      BY <1>1, <1>4, <2>1, <3>2, LookupLegacyEffect
         DEF Stays, AfterEnsure, Located, RunState
    <3>3. QED
      BY <3>1, <3>2
  <2>3. UNCHANGED <<secret, multibase, legacy, published, proof, generated, rotated>>
    BY <1>4 DEF LookupLegacy
  <2>4. QED
    BY <2>2, <2>3 DEF Others, Located
<1>5. CASE CheckPublicRecord(i)
  <2>1. /\ run' \in [Runs -> RunState] /\ Others(i) /\ stranded' \subseteq Names
        /\ Located(run'[i])
        /\ run'[i].step \in {"multibase", "publish"} => run'[i].stored \in Keys
    <3>1. CASE Left(i)
      BY <1>1, <1>5, <3>1, CheckPublicRecordEffect, IdleRunType
         DEF Left, IdleRun, RunState
    <3>2. CASE ~Left(i)
      BY <1>1, <1>5, <3>2, CheckPublicRecordEffect
         DEF CheckPublicRecord, Ensuring, Stays, Located
    <3>3. QED
      BY <3>1, <3>2
  <2>2. UNCHANGED <<secret, multibase, legacy, published, proof, generated, rotated>>
    BY <1>5 DEF CheckPublicRecord
  <2>3. QED
    BY <2>1, <2>2 DEF Others, Located
<1>6. CASE CopyKey(i)
  <2>1. run[i].at \in Names /\ run[i].copy \in Keys
    BY <1>1, <1>6 DEF CopyKey, Ensuring
  <2>2. /\ run' \in [Runs -> RunState] /\ Others(i) /\ stranded' \subseteq Names
        /\ Located(run'[i])
        /\ run'[i].step \in {"multibase", "publish"} => run'[i].stored \in Keys
    <3>1. CASE Left(i)
      BY <1>1, <1>6, <2>1, <3>1, CopyKeyEffect, IdleRunType DEF Left, IdleRun, RunState
    <3>2. CASE ~Left(i)
      BY <1>1, <1>6, <2>1, <3>2, CopyKeyEffect DEF Stays, AfterEnsure, Located
    <3>3. QED
      BY <3>1, <3>2
  <2>3. secret' \in [Names -> Keys \cup {None}]
    BY <1>1, <1>6, <2>1, CopyKeyEffect
  <2>4. UNCHANGED <<multibase, legacy, published, proof, generated, rotated>>
    BY <1>6 DEF CopyKey
  <2>5. QED
    BY <2>2, <2>3, <2>4 DEF Others, Located
<1>7. ASSUME NEW k \in Keys, MintKey(i, k) PROVE TypeInv'
  <2>1. run[i].at \in Names
    BY <1>1, <1>7 DEF MintKey, Ensuring
  <2>2. /\ run' \in [Runs -> RunState] /\ Others(i) /\ stranded' \subseteq Names
        /\ secret' \in [Names -> Keys \cup {None}]
        /\ run'[i].step \in {"multibase", "publish"} /\ run'[i].at \in Names
        /\ run'[i].stored \in Keys
    BY <1>1, <1>7, <2>1, MintKeyEffect DEF AfterEnsure
  <2>3. /\ generated' \subseteq Keys \cup {None}
        /\ UNCHANGED <<multibase, legacy, published, proof, rotated>>
    BY <1>1, <1>7 DEF MintKey
  <2>4. QED
    BY <2>2, <2>3 DEF Others, Located
<1>8. CASE PutMultibase(i)
  BY <1>1, <1>8 DEF PutMultibase, Ensuring, RunState, Steps
<1>9. CASE Publish(i)
  BY <1>1, <1>9 DEF Publish, Ensuring, NextName, RunState, Steps
<1>10. ASSUME NEW n \in Signers, SignProof(i, n) PROVE TypeInv'
  <2>1. n \in Names
    BY ListsAssumption DEF ListsAssumption, Names
  <2>2. QED
    BY <1>1, <1>10, <2>1 DEF SignProof, RunState
<1>11. ASSUME NEW n \in Names, DeleteMovedKey(i, n) PROVE TypeInv'
  BY <1>1, <1>11 DEF DeleteMovedKey, RunState
<1>12. CASE FinishStage(i)
  <2>1. /\ NextStage(run[i]) \in RunState
        /\ NextStage(run[i]).step = "next"
    BY <1>1, <1>12, NextStageType DEF FinishStage
  <2>2. QED
    BY <1>1, <1>12, <2>1 DEF FinishStage
<1>13. CASE SeedAborts(i)
  <2>1. Left(i) /\ Others(i) /\ run' \in [Runs -> RunState]
        /\ UNCHANGED <<secret, multibase, legacy, published, proof, generated, rotated>>
    BY <1>1, <1>13, LeaveEffect DEF SeedAborts
  <2>2. stranded' \subseteq Names
    BY <1>1, <2>1 DEF Left, RunState
  <2>3. run'[i].step = "next"
    BY <2>1 DEF Left, IdleRun
  <2>4. QED
    BY <1>1, <2>1, <2>2, <2>3 DEF Others, Located
<1>14. QED
  BY <1>2, <1>3, <1>4, <1>5, <1>6, <1>7, <1>8, <1>9, <1>10, <1>11, <1>12, <1>13
     DEF SeedStep

LEMMA TypeStep == TypeInv /\ [Next]_vars => TypeInv'
<1> SUFFICES ASSUME TypeInv, [Next]_vars PROVE TypeInv'
  OBVIOUS
<1>1. CASE UNCHANGED vars
  BY <1>1 DEF vars, TypeInv, TypeOK, Located
<1>2. ASSUME NEW n \in Names, Rotate(n) PROVE TypeInv'
  BY <1>2 DEF Rotate, TypeInv, TypeOK, Located
<1>3. QED
  BY <1>1, <1>2, TypeSeedStep DEF Next

(* Every variable keeps its type, and a run that is about to publish has a *)
(* key in hand.                                                            *)
THEOREM TypesHold == Spec => []TypeOK
<1>1. Spec => []TypeInv
  BY TypeInit, TypeStep, PTL DEF Spec
<1>2. TypeInv => TypeOK
  BY DEF TypeInv
<1>3. QED
  BY <1>1, <1>2, PTL

-----------------------------------------------------------------------------
(* Why a published key survives.  No step takes a key out of Secrets       *)
(* Manager but a rotation, which waits for every run to end, and no step   *)
(* adds an SSM copy.  So what a run read of either stays true of it, and   *)
(* the copies it means to delete are copies of the secret.                 *)
Knows(s, keys, copies) ==
  /\ s.found # None => s.at \in Names /\ keys[s.at] = s.found
  /\ s.step = "mint" => s.stored = None
  /\ s.step \in {"check", "copy"} => copies[s.at] \in {None, s.copy}
  /\ s.step \in {"multibase", "publish"} => keys[s.at] = s.stored
  /\ \A n \in s.moved : keys[n] # None /\ copies[n] \in {None, keys[n]}
  /\ s.stage = "delete" => s.todo \subseteq s.moved
  /\ s.stage = "idle" => s = IdleRun

KnowsInv == \A i \in Runs : Knows(run[i], secret, legacy)

(* What a stage holds before its first run publishes no key it has lost.   *)
PublishedAtStart ==
  \A s \in StageAtStart : \A n \in Names :
    s.published[n] # None => s.published[n] \in {s.secret[n], s.legacy[n]}

LEMMA IdleKnows ==
  ASSUME NEW keys, NEW copies
  PROVE  Knows(IdleRun, keys, copies)
  BY DEF Knows, IdleRun

LEMMA SurvivalInit ==
  Init => KnowsInv /\ (PublishedAtStart => PublishedKeysSurvive)
  BY IdleKnows DEF PublishedAtStart, Init, KnowsInv, PublishedKeysSurvive

(* Keys only arrive, and copies only go.                                   *)
LEMMA StillKnows ==
  ASSUME NEW s \in RunState, Located(s),
         s.step \in {"multibase", "publish"} => s.stored \in Keys,
         NEW keys, NEW copies, Knows(s, keys, copies),
         NEW keysAfter, NEW copiesAfter,
         \A n \in Names : keys[n] # None => keysAfter[n] = keys[n],
         \A n \in Names : copiesAfter[n] \in {None, copies[n]}
  PROVE  Knows(s, keysAfter, copiesAfter)
  BY NoneAssumption DEF NoneAssumption, Knows, Located, RunState

LEMMA SurvivalSeedStep ==
  ASSUME TypeInv, KnowsInv, NEW i \in Runs, SeedStep(i)
  PROVE  KnowsInv' /\ (PublishedKeysSurvive => PublishedKeysSurvive')
<1> DEFINE Goal == KnowsInv' /\ (PublishedKeysSurvive => PublishedKeysSurvive')
<1> USE NoneAssumption DEF NoneAssumption, Ensuring
<1>1. /\ run[i] \in RunState /\ run \in [Runs -> RunState]
      /\ secret \in [Names -> Keys \cup {None}]
      /\ legacy \in [Names -> Keys \cup {None}]
      /\ published \in [Names -> Keys \cup {None}]
      /\ Located(run[i]) /\ Knows(run[i], secret, legacy)
      /\ run[i].step \in {"multibase", "publish"} => run[i].stored \in Keys
  BY DEF TypeInv, TypeOK, KnowsInv
<1>2. ASSUME \A n \in Names : secret[n] # None => secret'[n] = secret[n],
             \A n \in Names : legacy'[n] \in {None, legacy[n]},
             \A j \in Runs \ {i} : run'[j] = run[j],
             Knows(run'[i], secret', legacy'),
             PublishedKeysSurvive => PublishedKeysSurvive'
      PROVE  Goal
  <2>1. ASSUME NEW j \in Runs PROVE Knows(run'[j], secret', legacy')
    <3>1. CASE j = i
      BY <1>2, <3>1
    <3>2. CASE j # i
      <4>1. /\ run[j] \in RunState /\ Located(run[j]) /\ Knows(run[j], secret, legacy)
            /\ run[j].step \in {"multibase", "publish"} => run[j].stored \in Keys
        BY DEF TypeInv, TypeOK, KnowsInv
      <4>2. Knows(run[j], secret', legacy')
        BY <1>2, <4>1, StillKnows
      <4>3. QED
        BY <1>2, <3>2, <4>2
    <3>3. QED
      BY <3>1, <3>2
  <2>2. QED
    BY <1>2, <2>1 DEF KnowsInv
<1>3. ASSUME UNCHANGED <<secret, legacy>>, UNCHANGED <<published, rotated>>,
             \A j \in Runs \ {i} : run'[j] = run[j],
             Knows(run'[i], secret, legacy)
      PROVE  Goal
  BY <1>2, <1>3 DEF KnowsInv, PublishedKeysSurvive
<1>4. CASE StartSeed(i)
  <2>1. Knows(run'[i], secret, legacy)
    BY <1>1, <1>4 DEF StartSeed, Knows, IdleRun
  <2>2. QED
    BY <1>1, <1>3, <1>4, <2>1 DEF StartSeed
<1>5. ASSUME NEW n \in Names, LookupSecret(i, n) PROVE Goal
  <2>1. Knows(run'[i], secret, legacy)
    BY <1>1, <1>5 DEF LookupSecret, Knows, RunState
  <2>2. QED
    BY <1>1, <1>3, <1>5, <2>1 DEF LookupSecret
<1>6. CASE LookupLegacy(i)
  <2>1. run[i].at \in Names /\ run[i].stage \notin {"idle", "delete"}
    BY <1>1, <1>6 DEF LookupLegacy, Located
  <2>2. Others(i) /\ UNCHANGED <<secret, legacy, published, rotated>>
    BY <1>1, <1>6, <2>1, LookupLegacyEffect DEF LookupLegacy
  <2>3. Knows(run'[i], secret, legacy)
    <3>1. CASE Left(i)
      BY <3>1, IdleKnows DEF Left
    <3>2. CASE ~Left(i)
      BY <1>1, <1>6, <2>1, <3>2, LookupLegacyEffect DEF Stays, AfterEnsure, Knows
    <3>3. QED
      BY <3>1, <3>2
  <2>4. QED
    BY <1>3, <2>2, <2>3 DEF Others
<1>7. CASE CheckPublicRecord(i)
  <2>1. Others(i) /\ UNCHANGED <<secret, legacy, published, rotated>>
    BY <1>1, <1>7, CheckPublicRecordEffect DEF CheckPublicRecord
  <2>2. Knows(run'[i], secret, legacy)
    <3>1. CASE Left(i)
      BY <3>1, IdleKnows DEF Left
    <3>2. CASE ~Left(i)
      BY <1>1, <1>7, <3>2, CheckPublicRecordEffect DEF CheckPublicRecord, Stays, Knows
    <3>3. QED
      BY <3>1, <3>2
  <2>3. QED
    BY <1>3, <2>1, <2>2 DEF Others
<1>8. CASE CopyKey(i)
  <2> DEFINE n == run[i].at
             stored == Create(n, run[i].copy)
  <2>1. /\ n \in Names /\ run[i].copy \in Keys /\ stored \in Keys
        /\ secret[n] # None => stored = secret[n]
        /\ legacy[n] \in {None, run[i].copy}
    BY <1>1, <1>8 DEF CopyKey, Create, Located, Knows
  <2>2. /\ secret' = [secret EXCEPT ![n] = stored]
        /\ UNCHANGED <<legacy, published, rotated>>
    BY <1>8 DEF CopyKey
  <2>3. /\ \A m \in Names : secret[m] # None => secret'[m] = secret[m]
        /\ \A m \in Names : legacy'[m] \in {None, legacy[m]}
    BY <1>1, <2>1, <2>2
  <2>4. Knows(run[i], secret', legacy')
    BY <1>1, <2>3, StillKnows
  <2>5. Knows(run'[i], secret', legacy')
    <3>1. CASE Left(i)
      BY <3>1, IdleKnows DEF Left
    <3>2. CASE ~Left(i)
      <4>1. /\ Stays(run[i], run'[i]) /\ run'[i].step = AfterEnsure(n)
            /\ run'[i].stored = run[i].copy /\ stored = run[i].copy
            /\ run'[i].moved = run[i].moved \cup {n}
        BY <1>1, <1>8, <2>1, <3>2, CopyKeyEffect
      <4>2. secret'[n] = stored /\ legacy'[n] \in {None, stored}
        BY <1>1, <2>1, <2>2, <4>1
      <4>3. run[i].stage # "delete" /\ run[i].stage # "idle"
        BY <1>8 DEF CopyKey
      <4>4. QED
        BY <2>1, <2>4, <4>1, <4>2, <4>3 DEF Knows, AfterEnsure, Stays
    <3>3. QED
      BY <3>1, <3>2
  <2>6. PublishedKeysSurvive => PublishedKeysSurvive'
    BY <1>1, <2>2, <2>3 DEF KnowsInv, PublishedKeysSurvive
  <2>7. \A j \in Runs \ {i} : run'[j] = run[j]
    BY <1>1, <1>8, <2>1, CopyKeyEffect DEF Others
  <2>8. QED
    BY <1>2, <2>3, <2>5, <2>6, <2>7
<1>9. ASSUME NEW k \in Keys, MintKey(i, k) PROVE Goal
  <2> DEFINE n == run[i].at
             stored == Create(n, k)
  <2>1. n \in Names /\ stored \in Keys /\ (secret[n] # None => stored = secret[n])
    BY <1>1, <1>9 DEF MintKey, Create, Located
  <2>2. /\ secret' = [secret EXCEPT ![n] = stored]
        /\ UNCHANGED <<legacy, published, rotated>>
    BY <1>9 DEF MintKey
  <2>3. /\ \A m \in Names : secret[m] # None => secret'[m] = secret[m]
        /\ \A m \in Names : legacy'[m] \in {None, legacy[m]}
    BY <1>1, <2>1, <2>2
  <2>4. Knows(run[i], secret', legacy')
    BY <1>1, <2>3, StillKnows
  <2>5. Knows(run'[i], secret', legacy')
    <3>1. /\ run'[i].step = AfterEnsure(n) /\ run'[i].stored = stored
          /\ run'[i].at = n /\ run'[i].found = run[i].found
          /\ run'[i].moved = run[i].moved /\ run'[i].stage = run[i].stage
      BY <1>1, <1>9 DEF MintKey, RunState
    <3>2. secret'[n] = stored
      BY <1>1, <2>1, <2>2
    <3>3. run[i].stage # "delete" /\ run[i].stage # "idle"
      BY <1>9 DEF MintKey
    <3>4. QED
      BY <2>4, <3>1, <3>2, <3>3 DEF Knows, AfterEnsure
  <2>6. PublishedKeysSurvive => PublishedKeysSurvive'
    BY <1>1, <2>2, <2>3 DEF KnowsInv, PublishedKeysSurvive
  <2>7. \A j \in Runs \ {i} : run'[j] = run[j]
    BY <1>1, <1>9 DEF MintKey
  <2>8. QED
    BY <1>2, <2>3, <2>5, <2>6, <2>7
<1>10. CASE PutMultibase(i)
  <2>1. Knows(run'[i], secret, legacy)
    BY <1>1, <1>10 DEF PutMultibase, Knows, RunState
  <2>2. QED
    BY <1>1, <1>3, <1>10, <2>1 DEF PutMultibase
<1>11. CASE Publish(i)
  <2>1. Knows(run'[i], secret, legacy)
    BY <1>1, <1>11 DEF Publish, NextName, Knows, RunState
  <2>2. /\ UNCHANGED <<secret, legacy, rotated>>
        /\ \A n \in Names : published'[n] \in {published[n], secret[n]}
    BY <1>1, <1>11 DEF Publish, Knows
  <2>3. PublishedKeysSurvive => PublishedKeysSurvive'
    BY <2>2 DEF KnowsInv, PublishedKeysSurvive
  <2>4. \A j \in Runs \ {i} : run'[j] = run[j]
    BY <1>1, <1>11 DEF Publish
  <2>5. QED
    BY <1>1, <1>2, <2>1, <2>2, <2>3, <2>4
<1>12. ASSUME NEW n \in Signers, SignProof(i, n) PROVE Goal
  <2>1. Knows(run'[i], secret, legacy)
    BY <1>1, <1>12 DEF SignProof, Knows, RunState
  <2>2. QED
    BY <1>1, <1>3, <1>12, <2>1 DEF SignProof
<1>13. ASSUME NEW n \in Names, DeleteMovedKey(i, n) PROVE Goal
  <2>1. secret[n] # None /\ legacy[n] \in {None, secret[n]}
    BY <1>1, <1>13 DEF DeleteMovedKey, Knows
  <2>2. /\ legacy' = [legacy EXCEPT ![n] = None]
        /\ UNCHANGED <<secret, published, rotated>>
    BY <1>13 DEF DeleteMovedKey
  <2>3. /\ \A m \in Names : secret[m] # None => secret'[m] = secret[m]
        /\ \A m \in Names : legacy'[m] \in {None, legacy[m]}
    BY <1>1, <2>2
  <2>4. Knows(run[i], secret', legacy')
    BY <1>1, <2>3, StillKnows
  <2>5. Knows(run'[i], secret', legacy')
    BY <1>1, <1>13, <2>4 DEF DeleteMovedKey, Knows, RunState
  <2>6. PublishedKeysSurvive => PublishedKeysSurvive'
    BY <1>1, <2>1, <2>2 DEF KnowsInv, PublishedKeysSurvive
  <2>7. \A j \in Runs \ {i} : run'[j] = run[j]
    BY <1>1, <1>13 DEF DeleteMovedKey
  <2>8. QED
    BY <1>2, <2>3, <2>5, <2>6, <2>7
<1>14. CASE FinishStage(i)
  <2>1. /\ run'[i] = NextStage(run[i]) /\ run[i].stage # "idle"
        /\ run[i].step = "next"
    BY <1>1, <1>14 DEF FinishStage
  <2>2. Knows(NextStage(run[i]), secret, legacy)
    <3> USE <1>1, <2>1 DEF RunState, NextStage, Stages
    <3>1. CASE run[i].stage = "identities"
      BY <3>1 DEF Knows
    <3>2. CASE run[i].stage = "proofs"
      BY <3>2 DEF Knows
    <3>3. CASE run[i].stage = "wallets"
      BY <3>3 DEF Knows
    <3>4. CASE run[i].stage = "rest"
      BY <3>4 DEF Knows
    <3>5. CASE run[i].stage = "delete"
      BY <3>5 DEF Knows
    <3>6. CASE run[i].stage = "done"
      BY <3>6, IdleKnows
    <3>7. QED
      BY <3>1, <3>2, <3>3, <3>4, <3>5, <3>6
  <2>3. QED
    BY <1>1, <1>3, <1>14, <2>1, <2>2 DEF FinishStage
<1>15. CASE SeedAborts(i)
  <2>1. Left(i) /\ Others(i) /\ UNCHANGED <<secret, legacy, published, rotated>>
    BY <1>1, <1>15, LeaveEffect DEF SeedAborts
  <2>2. Knows(run'[i], secret, legacy)
    BY <2>1, IdleKnows DEF Left
  <2>3. QED
    BY <1>3, <2>1, <2>2 DEF Others
<1>16. QED
  BY <1>4, <1>5, <1>6, <1>7, <1>8, <1>9, <1>10, <1>11, <1>12, <1>13, <1>14, <1>15
     DEF SeedStep

LEMMA SurvivalStep ==
  TypeInv /\ KnowsInv /\ [Next]_vars =>
    KnowsInv' /\ (PublishedKeysSurvive => PublishedKeysSurvive')
<1> SUFFICES ASSUME TypeInv, KnowsInv, [Next]_vars
             PROVE  KnowsInv' /\ (PublishedKeysSurvive => PublishedKeysSurvive')
  OBVIOUS
<1>1. CASE UNCHANGED vars
  BY <1>1 DEF vars, KnowsInv, PublishedKeysSurvive
<1>2. ASSUME NEW n \in Names, Rotate(n)
      PROVE  KnowsInv' /\ (PublishedKeysSurvive => PublishedKeysSurvive')
  <2>1. \A i \in Runs : run'[i] = IdleRun
    BY <1>2 DEF Rotate, KnowsInv, Knows
  <2>2. PublishedKeysSurvive => PublishedKeysSurvive'
    BY <1>2 DEF Rotate, TypeInv, TypeOK, PublishedKeysSurvive
  <2>3. QED
    BY <2>1, <2>2, IdleKnows DEF KnowsInv
<1>3. QED
  BY <1>1, <1>2, SurvivalSeedStep DEF Next

(* However many seed runs overlap, and wherever they stop, a key whose     *)
(* public half is published stays in Secrets Manager or in SSM until an    *)
(* operator rotates it.                                                    *)
THEOREM KeysSurvive ==
  ASSUME PublishedAtStart PROVE Spec => []PublishedKeysSurvive
<1>1. Init => TypeInv /\ KnowsInv /\ PublishedKeysSurvive
  BY TypeInit, SurvivalInit
<1>2. TypeInv /\ KnowsInv /\ PublishedKeysSurvive /\ [Next]_vars
        => (TypeInv /\ KnowsInv /\ PublishedKeysSurvive)'
  BY TypeStep, SurvivalStep
<1>3. QED
  BY <1>1, <1>2, PTL DEF Spec

-----------------------------------------------------------------------------
(* What a run remembers of the name it is at and of the names it minted.   *)
(* A key is minted only where no SSM copy is left; a copy being moved is   *)
(* still in SSM or already under its name; and the copy, where it is about *)
(* to be made, is the key that is published.                               *)
Tracks(s) ==
  /\ s.step # "next" => s.stage \in {"identities", "wallets"}
  /\ s.created => s.step \in {"multibase", "publish"} /\ s.at \in s.fresh
  /\ \A n \in s.fresh : legacy[n] = None
  /\ s.step = "mint" => legacy[s.at] = None
  /\ s.step \in {"check", "copy"} => s.copy \in {legacy[s.at], secret[s.at]}
  /\ s.step = "copy" => published[s.at] = s.copy
  /\ s.step \in {"multibase", "publish"} => legacy[s.at] \in {None, s.stored}
  /\ s.step = "publish" /\ s.at \in Multibase => multibase[s.at] = s.stored

(* A name a run has dealt with: it has a key, every copy of the key is of  *)
(* that key, and something is published.                                   *)
SettledNames ==
  {n \in Names : /\ secret[n] # None /\ published[n] # None
                 /\ legacy[n] \in {None, secret[n]}
                 /\ n \in Multibase => multibase[n] = secret[n]}

(* A run leaves a name of its list only once the name is settled, so one   *)
(* that has reached the deletions has settled every name.                  *)
Settles(s, names) ==
  /\ s.stage = "identities" => Identities \ s.todo \subseteq names
  /\ s.stage \in {"proofs", "wallets", "rest", "delete", "done"} =>
       Identities \subseteq names
  /\ s.stage = "wallets" => Wallets \ s.todo \subseteq names
  /\ s.stage \in {"rest", "delete", "done"} => Wallets \subseteq names

Signs(s) ==
  /\ s.stage = "proofs" => \A n \in Signers \ s.todo : proof[n] # None
  /\ s.stage \in {"wallets", "rest", "delete", "done"} =>
       \A n \in Signers : proof[n] # None

Follows(s) == Tracks(s) /\ Settles(s, SettledNames) /\ Signs(s)

TrackInv ==
  /\ \A n \in Names : secret[n] \in generated \cup {None}
                      /\ legacy[n] \in generated \cup {None}
  /\ \A i \in Runs : Follows(run[i])

(* All that a step of a run does to what is stored for a name.             *)
Tame ==
  \A n \in Names :
    /\ secret[n] # None => secret'[n] = secret[n]
    /\ secret'[n] # secret[n] =>
         legacy[n] = None \/ (legacy[n] = secret'[n] /\ published[n] = secret'[n])
    /\ legacy'[n] # legacy[n] => legacy'[n] = None /\ legacy[n] = secret[n]
    /\ published'[n] # published[n] =>
         /\ published'[n] = secret[n] /\ secret[n] # None
         /\ published[n] = None \/ legacy[n] = None
    /\ n \in Multibase /\ multibase'[n] # multibase[n] =>
         multibase'[n] = secret[n] /\ secret[n] # None
    /\ n \in Signers /\ proof'[n] # proof[n] =>
         /\ proof'[n] = secret[n] /\ n \in SettledNames
         /\ proof[n] = None \/ legacy[n] = None

LEMMA TameStep ==
  ASSUME TypeInv, KnowsInv, TrackInv, NEW i \in Runs, SeedStep(i)
  PROVE  Tame
<1> USE NoneAssumption DEF NoneAssumption
<1>1. /\ run \in [Runs -> RunState] /\ run[i] \in RunState
      /\ secret \in [Names -> Keys \cup {None}]
      /\ legacy \in [Names -> Keys \cup {None}]
      /\ published \in [Names -> Keys \cup {None}]
      /\ multibase \in [Multibase -> Keys \cup {None}]
      /\ proof \in [Signers -> Keys \cup {None}]
      /\ Knows(run[i], secret, legacy) /\ Located(run[i]) /\ Follows(run[i])
      /\ run[i].step \in {"multibase", "publish"} => run[i].stored \in Keys
  BY DEF TypeInv, TypeOK, KnowsInv, TrackInv
<1>2. Signers \subseteq Identities /\ Multibase \subseteq Names
  BY ListsAssumption DEF ListsAssumption, Names
<1>3. CASE UNCHANGED <<secret, multibase, legacy, published, proof>>
  BY <1>3 DEF Tame
<1>4. CASE CopyKey(i)
  <2> DEFINE n == run[i].at
             stored == Create(n, run[i].copy)
  <2>1. /\ n \in Names /\ run[i].copy \in Keys
        /\ run[i].copy \in {legacy[n], secret[n]} /\ published[n] = run[i].copy
    BY <1>1, <1>4 DEF CopyKey, Ensuring, Located, Follows, Tracks
  <2>2. /\ secret' = [secret EXCEPT ![n] = stored]
        /\ UNCHANGED <<multibase, legacy, published, proof>>
    BY <1>4 DEF CopyKey
  <2>3. QED
    BY <1>1, <2>1, <2>2 DEF Tame, Create
<1>5. ASSUME NEW k \in Keys, MintKey(i, k) PROVE Tame
  <2> DEFINE n == run[i].at
             stored == Create(n, k)
  <2>1. n \in Names /\ legacy[n] = None
    BY <1>1, <1>5 DEF MintKey, Ensuring, Located, Follows, Tracks
  <2>2. /\ secret' = [secret EXCEPT ![n] = stored]
        /\ UNCHANGED <<multibase, legacy, published, proof>>
    BY <1>5 DEF MintKey
  <2>3. QED
    BY <1>1, <2>1, <2>2 DEF Tame, Create
<1>6. CASE PutMultibase(i)
  <2>1. /\ multibase' = [multibase EXCEPT ![run[i].at] = run[i].stored]
        /\ UNCHANGED <<secret, legacy, published, proof>>
        /\ secret[run[i].at] = run[i].stored /\ run[i].stored \in Keys
    BY <1>1, <1>6 DEF PutMultibase, Ensuring, Knows
  <2>2. QED
    BY <1>1, <2>1 DEF Tame
<1>7. CASE Publish(i)
  <2> DEFINE n == run[i].at
  <2>1. /\ secret[n] = run[i].stored /\ run[i].stored \in Keys
        /\ run[i].created => legacy[n] = None
    BY <1>1, <1>7 DEF Publish, Ensuring, Knows, Follows, Tracks
  <2>2. UNCHANGED <<secret, multibase, legacy, proof>>
    BY <1>7 DEF Publish
  <2>3. CASE run[i].created \/ published[n] = None
    <3>1. published' = [published EXCEPT ![n] = run[i].stored]
      BY <1>7, <2>3 DEF Publish
    <3>2. QED
      BY <1>1, <2>1, <2>2, <2>3, <3>1 DEF Tame
  <2>4. CASE ~run[i].created /\ published[n] # None
    <3>1. published' = [published EXCEPT ![n] = published[n]]
      BY <1>7, <2>4 DEF Publish
    <3>2. published' = published
      BY <1>1, <3>1
    <3>3. QED
      BY <2>2, <3>2 DEF Tame
  <2>5. QED
    BY <2>3, <2>4
<1>8. ASSUME NEW n \in Signers, SignProof(i, n) PROVE Tame
  <2>1. n \in SettledNames
    BY <1>1, <1>2, <1>8 DEF SignProof, Follows, Settles
  <2>2. n \in run[i].fresh => legacy[n] = None
    BY <1>1 DEF Follows, Tracks
  <2>3. /\ proof' = [proof EXCEPT ![n] = IF n \in run[i].fresh \/ proof[n] = None
                                         THEN secret[n] ELSE proof[n]]
        /\ UNCHANGED <<secret, multibase, legacy, published>>
    BY <1>8 DEF SignProof
  <2>4. QED
    BY <1>1, <2>1, <2>2, <2>3 DEF Tame
<1>9. ASSUME NEW n \in Names, DeleteMovedKey(i, n) PROVE Tame
  <2>1. legacy[n] \in {None, secret[n]}
    BY <1>1, <1>9 DEF DeleteMovedKey, Knows
  <2>2. /\ legacy' = [legacy EXCEPT ![n] = None]
        /\ UNCHANGED <<secret, multibase, published, proof>>
    BY <1>9 DEF DeleteMovedKey
  <2>3. QED
    BY <1>1, <2>1, <2>2 DEF Tame
<1>10. CASE \/ StartSeed(i) \/ LookupLegacy(i) \/ CheckPublicRecord(i)
            \/ FinishStage(i) \/ SeedAborts(i)
            \/ \E n \in Names : LookupSecret(i, n)
  BY <1>3, <1>10 DEF StartSeed, LookupLegacy, CheckPublicRecord, FinishStage,
     SeedAborts, LookupSecret
<1>11. QED
  BY <1>4, <1>5, <1>6, <1>7, <1>8, <1>9, <1>10 DEF SeedStep

LEMMA SettledStays ==
  ASSUME Tame PROVE SettledNames \subseteq SettledNames'
  BY DEF Tame, SettledNames

(* What a run that does not move remembers stays true.                     *)
LEMMA StillFollows ==
  ASSUME TypeInv, KnowsInv, Tame, NEW j \in Runs, Follows(run[j]), run'[j] = run[j]
  PROVE  Follows(run[j])'
<1> USE NoneAssumption DEF NoneAssumption
<1>1. /\ run[j] \in RunState /\ Located(run[j]) /\ Knows(run[j], secret, legacy)
      /\ run[j].step \in {"multibase", "publish"} => run[j].stored \in Keys
      /\ legacy \in [Names -> Keys \cup {None}]
  BY DEF TypeInv, TypeOK, KnowsInv
<1> DEFINE n == run[j].at
<1>2. run[j].step # "next" => n \in Names
  BY <1>1 DEF Located
<1>3. Tracks(run[j])'
  <2> USE <1>1 DEF Follows
  <2>1. /\ run'[j].step # "next" => run'[j].stage \in {"identities", "wallets"}
        /\ run'[j].created => /\ run'[j].step \in {"multibase", "publish"}
                              /\ run'[j].at \in run'[j].fresh
    BY DEF Tracks
  <2>2. \A m \in run[j].fresh : legacy'[m] = None
    BY DEF Tracks, Tame, RunState
  <2>3. run[j].step = "mint" => legacy'[n] = None
    BY <1>2 DEF Tracks, Tame
  <2>4. run[j].step \in {"check", "copy"} => run[j].copy \in {legacy'[n], secret'[n]}
    BY <1>2 DEF Tracks, Tame, Located
  <2>5. run[j].step = "copy" => published'[n] = run[j].copy
    BY <1>2 DEF Tracks, Tame, Located
  <2>6. run[j].step \in {"multibase", "publish"} => legacy'[n] \in {None, run[j].stored}
    BY <1>2 DEF Tracks, Tame
  <2>7. run[j].step = "publish" /\ n \in Multibase => multibase'[n] = run[j].stored
    BY <1>2 DEF Tracks, Tame, Knows
  <2>8. QED
    BY <2>1, <2>2, <2>3, <2>4, <2>5, <2>6, <2>7 DEF Tracks
<1>4. Settles(run[j], SettledNames)'
  BY SettledStays DEF Settles, Follows
<1>5. Signs(run[j])'
  <2>1. \A m \in Signers : proof[m] # None => proof'[m] # None
    BY ListsAssumption DEF ListsAssumption, Names, Tame, SettledNames
  <2>2. QED
    BY <2>1 DEF Signs, Follows
<1>6. QED
  BY <1>3, <1>4, <1>5 DEF Follows

LEMMA IdleFollows ==
  ASSUME NEW j \in Runs, run'[j] = IdleRun
  PROVE  Follows(run[j])'
  BY DEF Follows, Tracks, Settles, Signs, IdleRun

(* The run that takes the step knows what it then does.                    *)
LEMMA SeedFollows ==
  ASSUME TypeInv, KnowsInv, TrackInv, NEW i \in Runs, SeedStep(i)
  PROVE  Follows(run[i])' /\ Others(i)
<1> USE NoneAssumption DEF NoneAssumption, Ensuring
<1> DEFINE Goal == Follows(run[i])' /\ Others(i)
<1>1. /\ run \in [Runs -> RunState] /\ run[i] \in RunState
      /\ secret \in [Names -> Keys \cup {None}]
      /\ legacy \in [Names -> Keys \cup {None}]
      /\ published \in [Names -> Keys \cup {None}]
      /\ multibase \in [Multibase -> Keys \cup {None}]
      /\ proof \in [Signers -> Keys \cup {None}]
      /\ Knows(run[i], secret, legacy) /\ Located(run[i])
      /\ Tracks(run[i]) /\ Settles(run[i], SettledNames) /\ Signs(run[i])
      /\ run[i].step \in {"multibase", "publish"} => run[i].stored \in Keys
  BY DEF TypeInv, TypeOK, KnowsInv, TrackInv, Follows
<1>2. Tame
  BY TameStep
<1>3. \A n \in Signers : proof[n] # None => proof'[n] # None
  BY <1>2, ListsAssumption DEF ListsAssumption, Names, Tame, SettledNames
<1>4. ASSUME run'[i].stage = run[i].stage, run'[i].todo = run[i].todo
      PROVE  Settles(run[i], SettledNames)' /\ Signs(run[i])'
  <2>1. Settles(run[i], SettledNames)'
    BY <1>1, <1>2, <1>4, SettledStays DEF Settles
  <2>2. Signs(run[i])'
    BY <1>1, <1>3, <1>4 DEF Signs
  <2>3. QED
    BY <2>1, <2>2
<1>5. CASE StartSeed(i)
  <2>1. /\ run'[i].stage = "identities" /\ run'[i].todo = Identities
        /\ run'[i].step = "next" /\ run'[i].fresh = {} /\ ~run'[i].created
        /\ Others(i)
    BY <1>1, <1>5 DEF StartSeed, IdleRun, Others
  <2>2. QED
    BY <2>1 DEF Follows, Tracks, Settles, Signs
<1>6. ASSUME NEW n \in Names, LookupSecret(i, n) PROVE Goal
  <2>1. /\ run'[i].stage = run[i].stage /\ run'[i].todo = run[i].todo
        /\ run'[i].step = "legacy" /\ run'[i].fresh = run[i].fresh
        /\ (run'[i].created => run[i].created)
        /\ run[i].step = "next" /\ run[i].stage \in {"identities", "wallets"}
        /\ UNCHANGED legacy /\ Others(i)
    BY <1>1, <1>6 DEF LookupSecret, RunState, Others
  <2>2. Tracks(run[i])'
    BY <1>1, <2>1 DEF Tracks
  <2>3. QED
    BY <1>4, <2>1, <2>2 DEF Follows
<1>7. CASE LookupLegacy(i)
  <2>1. /\ run[i].at \in Names /\ run[i].stage \in {"identities", "wallets"}
        /\ run[i].step = "legacy" /\ UNCHANGED <<secret, legacy, published, multibase>>
    BY <1>1, <1>7 DEF LookupLegacy, Located
  <2>2. CASE Left(i)
    BY <1>1, <1>7, <2>1, <2>2, LookupLegacyEffect, IdleFollows DEF Left
  <2>3. CASE ~Left(i)
    <3>1. /\ Stays(run[i], run'[i]) /\ (run'[i].created => run[i].created) /\ Others(i)
          /\ run'[i].copy = legacy[run[i].at] /\ run'[i].stored = run[i].found
          /\ \/ /\ run[i].found # None /\ legacy[run[i].at] \in {None, run[i].found}
                /\ run'[i].step = AfterEnsure(run[i].at)
             \/ run'[i].step = IF legacy[run[i].at] = None THEN "mint" ELSE "check"
      BY <1>1, <1>7, <2>1, <2>3, LookupLegacyEffect
    <3>2. Tracks(run[i])'
      BY <1>1, <2>1, <3>1 DEF Tracks, Stays, AfterEnsure
    <3>3. QED
      BY <1>4, <3>1, <3>2 DEF Follows, Stays
  <2>4. QED
    BY <2>2, <2>3
<1>8. CASE CheckPublicRecord(i)
  <2>1. /\ run[i].step = "check" /\ UNCHANGED <<secret, legacy, published, multibase>>
    BY <1>8 DEF CheckPublicRecord
  <2>2. CASE Left(i)
    BY <1>1, <1>8, <2>2, CheckPublicRecordEffect, IdleFollows DEF Left
  <2>3. CASE ~Left(i)
    <3>1. /\ Stays(run[i], run'[i]) /\ (run'[i].created => run[i].created) /\ Others(i)
          /\ published[run[i].at] = run[i].copy
          /\ run'[i].step = "copy" /\ run'[i].copy = run[i].copy
      BY <1>1, <1>8, <2>3, CheckPublicRecordEffect
    <3>2. Tracks(run[i])'
      BY <1>1, <2>1, <3>1 DEF Tracks, Stays
    <3>3. QED
      BY <1>4, <3>1, <3>2 DEF Follows, Stays
  <2>4. QED
    BY <2>2, <2>3
<1>9. CASE CopyKey(i)
  <2>1. /\ run[i].at \in Names /\ run[i].copy \in Keys /\ run[i].step = "copy"
        /\ run[i].stage \in {"identities", "wallets"}
        /\ UNCHANGED <<legacy, published, multibase>>
    BY <1>1, <1>9 DEF CopyKey, Located
  <2>2. CASE Left(i)
    BY <1>1, <1>9, <2>1, <2>2, CopyKeyEffect, IdleFollows DEF Left
  <2>3. CASE ~Left(i)
    <3>1. /\ Stays(run[i], run'[i]) /\ (run'[i].created => run[i].created) /\ Others(i)
          /\ run'[i].step = AfterEnsure(run[i].at) /\ run'[i].stored = run[i].copy
      BY <1>1, <1>9, <2>1, <2>3, CopyKeyEffect
    <3>2. legacy[run[i].at] \in {None, run[i].copy}
      BY <1>1, <2>1 DEF Knows
    <3>3. Tracks(run[i])'
      BY <1>1, <2>1, <3>1, <3>2 DEF Tracks, Stays, AfterEnsure
    <3>4. QED
      BY <1>4, <3>1, <3>3 DEF Follows, Stays
  <2>4. QED
    BY <2>2, <2>3
<1>10. ASSUME NEW k \in Keys, MintKey(i, k) PROVE Goal
  <2>1. /\ run[i].at \in Names /\ run[i].stage \in {"identities", "wallets"}
        /\ run[i].step = "mint" /\ legacy[run[i].at] = None
        /\ UNCHANGED <<legacy, published, multibase>>
    BY <1>1, <1>10 DEF MintKey, Located, Tracks
  <2>2. /\ run'[i].step = AfterEnsure(run[i].at) /\ run'[i].at = run[i].at
        /\ run'[i].stage = run[i].stage /\ run'[i].todo = run[i].todo
        /\ run'[i].fresh \subseteq run[i].fresh \cup {run[i].at}
        /\ (run'[i].created => run[i].at \in run'[i].fresh) /\ Others(i)
    BY <1>1, <1>10, <2>1, MintKeyEffect
  <2>3. Tracks(run[i])'
    BY <1>1, <2>1, <2>2 DEF Tracks, AfterEnsure
  <2>4. QED
    BY <1>4, <2>2, <2>3 DEF Follows
<1>11. CASE PutMultibase(i)
  <2>1. /\ run'[i].stage = run[i].stage /\ run'[i].todo = run[i].todo
        /\ run'[i].step = "publish" /\ run'[i].at = run[i].at
        /\ run'[i].stored = run[i].stored /\ run'[i].fresh = run[i].fresh
        /\ (run'[i].created => run[i].created) /\ Others(i)
        /\ run[i].step = "multibase" /\ run[i].stage \in {"identities", "wallets"}
    BY <1>1, <1>11 DEF PutMultibase, RunState, Others
  <2>2. /\ multibase' = [multibase EXCEPT ![run[i].at] = run[i].stored]
        /\ UNCHANGED <<secret, legacy, published>>
    BY <1>11 DEF PutMultibase
  <2>3. run[i].at \in Multibase => multibase'[run[i].at] = run[i].stored
    BY <1>1, <2>2
  <2>4. Tracks(run[i])'
    BY <1>1, <2>1, <2>2, <2>3 DEF Tracks
  <2>5. QED
    BY <1>4, <2>1, <2>4 DEF Follows
<1>12. CASE Publish(i)
  <2> DEFINE n == run[i].at
  <2>1. /\ run'[i].stage = run[i].stage /\ run'[i].todo = run[i].todo \ {n}
        /\ run'[i].step = "next" /\ run'[i].fresh = run[i].fresh
        /\ ~run'[i].created /\ Others(i)
        /\ run[i].step = "publish" /\ run[i].stage \in {"identities", "wallets"}
    BY <1>1, <1>12 DEF Publish, NextName, RunState, Others
  <2>2. /\ n \in Names /\ secret[n] = run[i].stored /\ run[i].stored \in Keys
        /\ legacy[n] \in {None, run[i].stored}
        /\ n \in Multibase => multibase[n] = run[i].stored
    BY <1>1, <2>1 DEF Located, Knows, Tracks
  <2>3. UNCHANGED <<secret, multibase, legacy, proof>>
    BY <1>12 DEF Publish
  <2>4. published'[n] # None
    BY <1>1, <1>12, <2>2 DEF Publish
  <2>5. n \in SettledNames'
    BY <2>2, <2>3, <2>4 DEF SettledNames
  <2>6. Settles(run[i], SettledNames)'
    BY <1>1, <1>2, <2>1, <2>5, SettledStays DEF Settles
  <2>7. Tracks(run[i])' /\ Signs(run[i])'
    BY <1>1, <2>1, <2>3 DEF Tracks, Signs
  <2>8. QED
    BY <2>1, <2>6, <2>7 DEF Follows
<1>13. ASSUME NEW n \in Signers, SignProof(i, n) PROVE Goal
  <2>1. /\ run'[i].stage = "proofs" /\ run'[i].todo = run[i].todo \ {n}
        /\ run'[i].step = run[i].step /\ run'[i].fresh = run[i].fresh
        /\ (run'[i].created => run[i].created) /\ Others(i)
        /\ run[i].stage = "proofs" /\ n \in run[i].todo
        /\ UNCHANGED <<secret, multibase, legacy, published>>
    BY <1>1, <1>13 DEF SignProof, RunState, Others
  <2>2. run[i].step = "next"
    BY <1>1, <2>1 DEF Tracks, RunState, Steps
  <2>3. n \in SettledNames
    BY <1>1, <2>1, ListsAssumption DEF ListsAssumption, Settles
  <2>4. proof'[n] # None
    BY <1>1, <1>13, <2>3 DEF SignProof, SettledNames
  <2>5. Settles(run[i], SettledNames)'
    BY <1>1, <1>2, <2>1, SettledStays DEF Settles
  <2>6. Signs(run[i])'
    BY <1>1, <1>3, <2>1, <2>4 DEF Signs
  <2>7. Tracks(run[i])'
    BY <1>1, <2>1, <2>2 DEF Tracks
  <2>8. QED
    BY <2>1, <2>5, <2>6, <2>7 DEF Follows
<1>14. ASSUME NEW n \in Names, DeleteMovedKey(i, n) PROVE Goal
  <2>1. /\ run'[i].stage = "delete"
        /\ run'[i].step = run[i].step /\ run'[i].fresh = run[i].fresh
        /\ (run'[i].created => run[i].created) /\ Others(i)
        /\ run[i].stage = "delete"
        /\ legacy' = [legacy EXCEPT ![n] = None]
        /\ UNCHANGED <<secret, multibase, published, proof>>
    BY <1>1, <1>14 DEF DeleteMovedKey, RunState, Others
  <2>2. run[i].step = "next"
    BY <1>1, <2>1 DEF Tracks, RunState, Steps
  <2>3. Settles(run[i], SettledNames)'
    BY <1>1, <1>2, <2>1, SettledStays DEF Settles
  <2>4. Signs(run[i])'
    BY <1>1, <2>1 DEF Signs
  <2>5. \A m \in run[i].fresh : legacy'[m] = None
    BY <1>1, <2>1 DEF Tracks, RunState
  <2>6. Tracks(run[i])'
    BY <1>1, <2>1, <2>2, <2>5 DEF Tracks
  <2>7. QED
    BY <2>1, <2>3, <2>4, <2>6 DEF Follows
<1>15. CASE FinishStage(i)
  <2>1. /\ run'[i] = NextStage(run[i]) /\ Others(i)
        /\ run[i].stage # "idle" /\ run[i].todo = {} /\ run[i].step = "next"
        /\ UNCHANGED <<secret, multibase, legacy, published, proof>>
    BY <1>1, <1>15 DEF FinishStage, Others
  <2>2. CASE run[i].stage = "done"
    BY <2>1, <2>2, IdleFollows DEF NextStage
  <2>3. CASE run[i].stage # "done"
    <3>1. /\ run'[i].step = "next" /\ run'[i].fresh = run[i].fresh
          /\ (run'[i].created => run[i].created)
      BY <1>1, <2>1, <2>3 DEF NextStage, RunState, Stages
    <3>2. Tracks(run[i])'
      BY <1>1, <2>1, <3>1 DEF Tracks
    <3>3. SettledNames' = SettledNames
      BY <2>1 DEF SettledNames
    <3>4. Settles(run[i], SettledNames)' /\ Signs(run[i])'
      <4>1. \/ /\ run[i].stage = "identities" /\ run'[i].stage = "proofs"
               /\ run'[i].todo = Signers
            \/ /\ run[i].stage = "proofs" /\ run'[i].stage = "wallets"
               /\ run'[i].todo = Wallets
            \/ run[i].stage = "wallets" /\ run'[i].stage = "rest"
            \/ run[i].stage = "rest" /\ run'[i].stage = "delete"
            \/ run[i].stage = "delete" /\ run'[i].stage = "done"
        BY <1>1, <2>1, <2>3 DEF NextStage, RunState, Stages
      <4>2. Settles(run[i], SettledNames)'
        BY <1>1, <2>1, <3>3, <4>1 DEF Settles
      <4>3. Signs(run[i])'
        BY <1>1, <2>1, <4>1 DEF Signs
      <4>4. QED
        BY <4>2, <4>3
    <3>5. QED
      BY <2>1, <3>2, <3>4 DEF Follows
  <2>4. QED
    BY <2>2, <2>3
<1>16. CASE SeedAborts(i)
  BY <1>1, <1>16, LeaveEffect, IdleFollows DEF SeedAborts, Left
<1>17. QED
  BY <1>5, <1>6, <1>7, <1>8, <1>9, <1>10, <1>11, <1>12, <1>13, <1>14, <1>15, <1>16
     DEF SeedStep

(* Nothing is stored that was never generated.                             *)
LEMMA SeedGenerated ==
  ASSUME TypeInv, KnowsInv, TrackInv, NEW i \in Runs, SeedStep(i)
  PROVE  \A n \in Names : secret'[n] \in generated' \cup {None}
                          /\ legacy'[n] \in generated' \cup {None}
<1> USE NoneAssumption DEF NoneAssumption, Ensuring
<1>1. /\ secret \in [Names -> Keys \cup {None}]
      /\ legacy \in [Names -> Keys \cup {None}]
      /\ Located(run[i]) /\ Tracks(run[i])
      /\ \A n \in Names : secret[n] \in generated \cup {None}
                          /\ legacy[n] \in generated \cup {None}
  BY DEF TypeInv, TypeOK, TrackInv, Follows
<1>2. Tame
  BY TameStep
<1>3. \A n \in Names : legacy'[n] \in generated \cup {None}
  BY <1>1, <1>2 DEF Tame
<1>4. ASSUME NEW k \in Keys, MintKey(i, k)
      PROVE  generated \subseteq generated'
             /\ \A n \in Names : secret'[n] \in generated' \cup {None}
  <2>1. /\ secret' = [secret EXCEPT ![run[i].at] = Create(run[i].at, k)]
        /\ generated' = generated \cup {k}
    BY <1>4 DEF MintKey
  <2>2. QED
    BY <1>1, <2>1 DEF Create
<1>5. ASSUME ~ \E k \in Keys : MintKey(i, k)
      PROVE  UNCHANGED generated
  BY <1>5 DEF SeedStep, StartSeed, LookupSecret, LookupLegacy, CheckPublicRecord,
     CopyKey, PutMultibase, Publish, SignProof, DeleteMovedKey, FinishStage, SeedAborts
<1>6. CASE CopyKey(i)
  <2>1. /\ run[i].at \in Names /\ run[i].copy \in {legacy[run[i].at], secret[run[i].at]}
        /\ secret' = [secret EXCEPT ![run[i].at] = Create(run[i].at, run[i].copy)]
    BY <1>1, <1>6 DEF CopyKey, Located, Tracks
  <2>2. QED
    BY <1>1, <1>3, <1>6, <2>1 DEF Create, CopyKey
<1>7. ASSUME ~CopyKey(i), ~ \E k \in Keys : MintKey(i, k)
      PROVE  UNCHANGED secret
  BY <1>7 DEF SeedStep, StartSeed, LookupSecret, LookupLegacy, CheckPublicRecord,
     PutMultibase, Publish, SignProof, DeleteMovedKey, FinishStage, SeedAborts
<1>8. QED
  BY <1>1, <1>3, <1>4, <1>5, <1>6, <1>7

LEMMA TrackInit == Init => TrackInv
<1> SUFFICES ASSUME Init PROVE TrackInv
  OBVIOUS
<1>1. \A n \in Names : secret[n] \in generated /\ legacy[n] \in generated
  BY DEF Init
<1>2. \A i \in Runs : Follows(run[i])
  BY DEF Init, Follows, Tracks, Settles, Signs, IdleRun
<1>3. QED
  BY <1>1, <1>2 DEF TrackInv

LEMMA TrackStep ==
  TypeInv /\ KnowsInv /\ TrackInv /\ [Next]_vars => TrackInv'
<1> SUFFICES ASSUME TypeInv, KnowsInv, TrackInv, [Next]_vars PROVE TrackInv'
  OBVIOUS
<1>1. CASE UNCHANGED vars
  BY <1>1 DEF vars, TrackInv, Follows, Tracks, Settles, SettledNames, Signs
<1>2. ASSUME NEW n \in Names, Rotate(n) PROVE TrackInv'
  <2>1. \A i \in Runs : run'[i] = IdleRun
    BY <1>2 DEF Rotate, KnowsInv, Knows
  <2>2. \A m \in Names : secret'[m] \in generated' \cup {None}
                         /\ legacy'[m] \in generated' \cup {None}
    BY <1>2 DEF Rotate, TypeInv, TypeOK, TrackInv
  <2>3. QED
    BY <2>1, <2>2, IdleFollows DEF TrackInv
<1>3. ASSUME NEW i \in Runs, SeedStep(i) PROVE TrackInv'
  <2>1. Tame /\ Follows(run[i])' /\ Others(i)
    BY <1>3, TameStep, SeedFollows
  <2>2. ASSUME NEW j \in Runs PROVE Follows(run[j])'
    <3>1. CASE j = i
      BY <2>1, <3>1
    <3>2. CASE j # i
      BY <2>1, <3>2, StillFollows DEF Others, TrackInv
    <3>3. QED
      BY <3>1, <3>2
  <2>3. QED
    BY <1>3, <2>2, SeedGenerated DEF TrackInv
<1>4. QED
  BY <1>1, <1>2, <1>3 DEF Next

(* However many seed runs overlap, an SSM copy is deleted only when        *)
(* Secrets Manager holds that very key and a secret under every other name *)
(* of the stage.                                                           *)
THEOREM CopiesGoLast == Spec => SsmCopiesGoLast
<1> DEFINE Safe ==
      \A n \in Names : legacy[n] # None /\ legacy'[n] = None =>
        /\ secret[n] = legacy[n]
        /\ \A m \in Names : secret[m] # None
<1>1. Init => TypeInv /\ KnowsInv /\ TrackInv
  BY TypeInit, SurvivalInit, TrackInit
<1>2. TypeInv /\ KnowsInv /\ TrackInv /\ [Next]_vars
        => (TypeInv /\ KnowsInv /\ TrackInv)'
  BY TypeStep, SurvivalStep, TrackStep
<1>3. TypeInv /\ KnowsInv /\ TrackInv /\ [Next]_vars => [Safe]_vars
  <2> SUFFICES ASSUME TypeInv, KnowsInv, TrackInv, Next PROVE Safe
    OBVIOUS
  <2>1. ASSUME NEW i \in Runs, NEW m \in Names, DeleteMovedKey(i, m) PROVE Safe
    <3>1. /\ legacy' = [legacy EXCEPT ![m] = None]
          /\ run[i].stage = "delete" /\ m \in run[i].todo
      BY <2>1 DEF DeleteMovedKey
    <3>2. /\ legacy \in [Names -> Keys \cup {None}]
          /\ Knows(run[i], secret, legacy) /\ Settles(run[i], SettledNames)
      BY DEF TypeInv, TypeOK, KnowsInv, TrackInv, Follows
    <3>3. \A n \in Names : secret[n] # None
      BY <3>1, <3>2 DEF Settles, SettledNames, Names
    <3>4. legacy[m] \in {None, secret[m]}
      BY <3>1, <3>2 DEF Knows
    <3>5. QED
      BY <3>1, <3>2, <3>3, <3>4
  <2>2. CASE UNCHANGED legacy
    BY <2>2
  <2>3. ASSUME NEW i \in Runs, SeedStep(i),
               ~ \E m \in Names : DeleteMovedKey(i, m)
        PROVE  UNCHANGED legacy
    BY <2>3 DEF SeedStep, StartSeed, LookupSecret, LookupLegacy, CheckPublicRecord,
       CopyKey, MintKey, PutMultibase, Publish, SignProof, FinishStage, SeedAborts
  <2>4. ASSUME NEW n \in Names, Rotate(n) PROVE UNCHANGED legacy
    BY <2>4 DEF Rotate
  <2>5. QED
    BY <2>1, <2>2, <2>3, <2>4 DEF Next
<1>4. QED
  BY <1>1, <1>2, <1>3, PTL DEF Spec, SsmCopiesGoLast

-----------------------------------------------------------------------------
(* Why a stage seeded to the end is coherent.  What was derived from a key *)
(* follows it, or the run that minted the key is on its way to put that    *)
(* right, or it stopped on that way.                                       *)
Publishes(s, n) == s.created /\ s.at = n
WillSign(s, n) ==
  /\ n \in s.fresh
  /\ s.stage = "identities" \/ (s.stage = "proofs" /\ n \in s.todo)

InLine(n) ==
  secret[n] # None /\ n \notin stranded /\ legacy[n] \in {None, secret[n]} =>
    /\ published[n] \in {None, secret[n]} \/ \E i \in Runs : Publishes(run[i], n)
    /\ n \in Signers =>
         proof[n] \in {None, secret[n]} \/ \E i \in Runs : WillSign(run[i], n)

(* While an SSM copy is left, what was derived from it has not moved on.   *)
CopyInLine(n) ==
  legacy[n] # None =>
    /\ secret[n] = legacy[n] => published[n] \in {None, secret[n]}
    /\ n \in Signers => proof[n] \in {None, published[n]}

LineInv == \A n \in Names : InLine(n) /\ CopyInLine(n)

LEMMA LineInit == PublishedAtStart /\ Init => LineInv
<1> SUFFICES ASSUME PublishedAtStart, Init, NEW n \in Names
             PROVE  InLine(n) /\ CopyInLine(n)
  BY DEF LineInv
<1>1. published[n] # None => published[n] \in {secret[n], legacy[n]}
  BY DEF PublishedAtStart, Init
<1>2. n \in Signers => proof[n] = published[n]
  BY DEF Init
<1>3. QED
  BY <1>1, <1>2 DEF InLine, CopyInLine

LEMMA CopyInLineStep ==
  ASSUME Tame, NEW n \in Names, CopyInLine(n)
  PROVE  CopyInLine(n)'
<1> SUFFICES ASSUME legacy'[n] # None
             PROVE  /\ secret'[n] = legacy'[n] => published'[n] \in {None, secret'[n]}
                    /\ n \in Signers => proof'[n] \in {None, published'[n]}
  BY DEF CopyInLine
<1>1. legacy'[n] = legacy[n] /\ legacy[n] # None
  BY DEF Tame
<1>2. secret'[n] = legacy'[n] => published'[n] \in {None, secret'[n]}
  BY <1>1 DEF Tame, CopyInLine
<1>3. n \in Signers => proof'[n] \in {None, published'[n]}
  BY <1>1 DEF Tame, CopyInLine, SettledNames
<1>4. QED
  BY <1>2, <1>3

(* A name whose key stays stays in line, unless the run that was to see to *)
(* it no longer will.                                                      *)
LEMMA StillInLine ==
  ASSUME Tame, NEW i \in Runs, Others(i), NEW n \in Names, InLine(n),
         secret'[n] = secret[n], n \notin stranded' => n \notin stranded,
         Publishes(run[i], n) /\ n \notin stranded' =>
           Publishes(run[i], n)' \/ published'[n] \in {None, secret[n]},
         n \in Signers /\ WillSign(run[i], n) /\ n \notin stranded' =>
           WillSign(run[i], n)' \/ proof'[n] \in {None, secret[n]}
  PROVE  InLine(n)'
<1> SUFFICES ASSUME secret'[n] # None, n \notin stranded',
                    legacy'[n] \in {None, secret'[n]}
             PROVE  /\ \/ published'[n] \in {None, secret'[n]}
                       \/ \E j \in Runs : Publishes(run[j], n)'
                    /\ n \in Signers => \/ proof'[n] \in {None, secret'[n]}
                                        \/ \E j \in Runs : WillSign(run[j], n)'
  BY DEF InLine
<1>1. secret[n] # None /\ n \notin stranded /\ legacy[n] \in {None, secret[n]}
  BY DEF Tame
<1>2. \A j \in Runs \ {i} : /\ Publishes(run[j], n) => Publishes(run[j], n)'
                            /\ WillSign(run[j], n) => WillSign(run[j], n)'
  BY DEF Others, Publishes, WillSign
<1>3. \/ published'[n] \in {None, secret'[n]}
      \/ \E j \in Runs : Publishes(run[j], n)'
  <2>1. CASE published[n] \in {None, secret[n]}
    BY <2>1 DEF Tame
  <2>2. ASSUME NEW j \in Runs, Publishes(run[j], n)
        PROVE  \/ published'[n] \in {None, secret'[n]}
               \/ Publishes(run[j], n)'
    BY <1>2, <2>2
  <2>3. QED
    BY <1>1, <2>1, <2>2 DEF InLine
<1>4. n \in Signers => \/ proof'[n] \in {None, secret'[n]}
                       \/ \E j \in Runs : WillSign(run[j], n)'
  <2>1. CASE n \in Signers /\ proof[n] \in {None, secret[n]}
    BY <2>1 DEF Tame
  <2>2. ASSUME n \in Signers, NEW j \in Runs, WillSign(run[j], n)
        PROVE  \/ proof'[n] \in {None, secret'[n]}
               \/ WillSign(run[j], n)'
    BY <1>2, <2>2
  <2>3. QED
    BY <1>1, <2>1, <2>2 DEF InLine
<1>5. QED
  BY <1>3, <1>4

(* A run that stops strands what it was to put right.                      *)
LEMMA LeftInLine ==
  ASSUME Tame, NEW i \in Runs, Tracks(run[i]), Others(i), Left(i),
         UNCHANGED <<published, proof>>, NEW n \in Names, InLine(n),
         secret'[n] = secret[n]
  PROVE  InLine(n)'
<1>1. n \notin stranded' => n \notin stranded /\ (n \in run[i].fresh => ~Outdated(n))
  BY DEF Left
<1>2. Publishes(run[i], n) \/ WillSign(run[i], n) => n \in run[i].fresh
  BY DEF Publishes, WillSign, Tracks
<1>3. n \in run[i].fresh /\ n \notin stranded' =>
        /\ published'[n] \in {None, secret[n]}
        /\ n \in Signers => proof'[n] \in {None, secret[n]}
  BY <1>1 DEF Outdated
<1>4. QED
  BY <1>1, <1>2, <1>3, StillInLine

LEMMA LineSeedStep ==
  ASSUME TypeInv, KnowsInv, TrackInv, LineInv, NEW i \in Runs, SeedStep(i),
         NEW n \in Names
  PROVE  InLine(n)'
<1> USE NoneAssumption DEF NoneAssumption, Ensuring
<1>1. /\ run \in [Runs -> RunState] /\ run[i] \in RunState
      /\ secret \in [Names -> Keys \cup {None}]
      /\ legacy \in [Names -> Keys \cup {None}]
      /\ published \in [Names -> Keys \cup {None}]
      /\ proof \in [Signers -> Keys \cup {None}]
      /\ Knows(run[i], secret, legacy) /\ Located(run[i])
      /\ Tracks(run[i]) /\ Settles(run[i], SettledNames)
      /\ run[i].step \in {"multibase", "publish"} => run[i].stored \in Keys
      /\ secret[n] \in generated \cup {None}
      /\ InLine(n) /\ CopyInLine(n)
  BY DEF TypeInv, TypeOK, KnowsInv, TrackInv, Follows, LineInv
<1>2. Tame /\ Others(i)
  BY TameStep, SeedFollows
<1>3. ASSUME UNCHANGED <<secret, published, proof>>, Left(i) PROVE InLine(n)'
  BY <1>1, <1>2, <1>3, LeftInLine
<1>4. ASSUME UNCHANGED <<secret, stranded>>,
             Publishes(run[i], n) => Publishes(run[i], n)',
             n \in Signers /\ WillSign(run[i], n) => WillSign(run[i], n)'
      PROVE  InLine(n)'
  BY <1>1, <1>2, <1>4, StillInLine
<1>5. CASE StartSeed(i)
  <2>1. run[i] = IdleRun /\ UNCHANGED <<secret, stranded>>
    BY <1>1, <1>5 DEF StartSeed, Knows
  <2>2. ~Publishes(run[i], n) /\ ~WillSign(run[i], n)
    BY <2>1 DEF Publishes, WillSign, IdleRun
  <2>3. QED
    BY <1>4, <2>1, <2>2
<1>6. ASSUME NEW m \in Names, LookupSecret(i, m) PROVE InLine(n)'
  <2>1. /\ run'[i].stage = run[i].stage /\ run'[i].todo = run[i].todo
        /\ run'[i].fresh = run[i].fresh /\ run[i].step = "next"
        /\ UNCHANGED <<secret, stranded>>
    BY <1>1, <1>6 DEF LookupSecret, RunState
  <2>2. ~Publishes(run[i], n)
    BY <1>1, <2>1 DEF Publishes, Tracks
  <2>3. QED
    BY <1>4, <2>1, <2>2 DEF WillSign
<1>7. CASE LookupLegacy(i)
  <2>1. /\ run[i].at \in Names /\ run[i].step = "legacy"
        /\ UNCHANGED <<secret, published, proof>>
    BY <1>1, <1>7 DEF LookupLegacy, Located
  <2>2. CASE ~Left(i)
    <3>1. Stays(run[i], run'[i]) /\ UNCHANGED stranded
      BY <1>1, <1>7, <2>1, <2>2, LookupLegacyEffect
    <3>2. ~Publishes(run[i], n)
      BY <1>1, <2>1 DEF Publishes, Tracks
    <3>3. QED
      BY <1>4, <2>1, <3>1, <3>2 DEF WillSign, Stays
  <2>3. QED
    BY <1>3, <2>1, <2>2
<1>8. CASE CheckPublicRecord(i)
  <2>1. run[i].step = "check" /\ UNCHANGED <<secret, published, proof>>
    BY <1>8 DEF CheckPublicRecord
  <2>2. CASE ~Left(i)
    <3>1. Stays(run[i], run'[i]) /\ UNCHANGED stranded
      BY <1>1, <1>8, <2>2, CheckPublicRecordEffect
    <3>2. ~Publishes(run[i], n)
      BY <1>1, <2>1 DEF Publishes, Tracks
    <3>3. QED
      BY <1>4, <2>1, <3>1, <3>2 DEF WillSign, Stays
  <2>3. QED
    BY <1>3, <2>1, <2>2
<1>9. CASE CopyKey(i)
  <2> DEFINE m == run[i].at
  <2>1. /\ m \in Names /\ run[i].copy \in Keys /\ run[i].step = "copy"
        /\ run[i].copy \in {legacy[m], secret[m]} /\ published[m] = run[i].copy
        /\ UNCHANGED <<legacy, published, proof>>
    BY <1>1, <1>9 DEF CopyKey, Located, Tracks
  <2>2. /\ secret' = [secret EXCEPT ![m] = Create(m, run[i].copy)]
        /\ Left(i) \/ (Stays(run[i], run'[i]) /\ UNCHANGED stranded)
    BY <1>1, <1>9, <2>1, CopyKeyEffect
  <2>3. ~Publishes(run[i], n)
    BY <1>1, <2>1 DEF Publishes, Tracks
  <2>4. CASE n = m /\ secret[m] = None
    <3>1. /\ secret'[n] = run[i].copy /\ legacy[n] = run[i].copy
          /\ published'[n] = run[i].copy
      BY <1>1, <2>1, <2>2, <2>4 DEF Create
    <3>2. n \in Signers => proof'[n] \in {None, run[i].copy}
      BY <1>1, <2>1, <2>4, <3>1 DEF CopyInLine
    <3>3. QED
      BY <3>1, <3>2 DEF InLine
  <2>5. CASE secret'[n] = secret[n]
    <3>1. CASE Left(i)
      BY <1>1, <1>2, <2>1, <2>5, <3>1, LeftInLine
    <3>2. CASE ~Left(i)
      <4>1. WillSign(run[i], n) => WillSign(run[i], n)'
        BY <2>2, <3>2 DEF WillSign, Stays
      <4>2. n \notin stranded' => n \notin stranded
        BY <2>2, <3>2
      <4>3. QED
        BY <1>1, <1>2, <2>3, <2>5, <4>1, <4>2, StillInLine
    <3>3. QED
      BY <3>1, <3>2
  <2>6. QED
    BY <1>1, <2>1, <2>2, <2>4, <2>5 DEF Create
<1>10. ASSUME NEW k \in Keys, MintKey(i, k) PROVE InLine(n)'
  <2> DEFINE m == run[i].at
             stored == Create(m, k)
  <2>1. /\ m \in Names /\ run[i].step = "mint" /\ k \notin generated
        /\ run[i].stage \in {"identities", "wallets"}
        /\ UNCHANGED <<legacy, published, proof>>
    BY <1>1, <1>10 DEF MintKey, Located
  <2>2. /\ secret' = [secret EXCEPT ![m] = stored]
        /\ run'[i].at = m
        /\ run'[i].stage = run[i].stage /\ run'[i].todo = run[i].todo
        /\ run[i].fresh \subseteq run'[i].fresh
        /\ \/ /\ stored = k /\ run'[i].created /\ m \in run'[i].fresh
              /\ stranded' = stranded \ {m}
           \/ stored # k /\ UNCHANGED stranded
    BY <1>1, <1>10, <2>1, MintKeyEffect
  <2>3. ~Publishes(run[i], n)
    BY <1>1, <2>1 DEF Publishes, Tracks
  <2>4. WillSign(run[i], n) => WillSign(run[i], n)'
    BY <2>2 DEF WillSign
  <2>5. CASE n = m /\ secret[m] = None
    <3>1. stored = k
      BY <2>5 DEF Create
    <3>2. Publishes(run[i], n)'
      BY <2>2, <2>5, <3>1 DEF Publishes
    <3>3. n \in Signers => run[i].stage = "identities"
      BY <1>1, <2>1, <2>5, ListsAssumption
         DEF ListsAssumption, Settles, SettledNames
    <3>4. n \in Signers => WillSign(run[i], n)'
      BY <2>2, <2>5, <3>1, <3>3 DEF WillSign
    <3>5. QED
      BY <3>2, <3>4 DEF InLine
  <2>6. CASE n = m /\ secret[m] # None
    <3>1. secret'[n] = secret[n] /\ stored # k
      BY <1>1, <2>1, <2>2, <2>6 DEF Create
    <3>2. QED
      BY <1>1, <1>2, <2>2, <2>3, <2>4, <3>1, StillInLine
  <2>7. CASE n # m
    <3>1. secret'[n] = secret[n] /\ (n \notin stranded' => n \notin stranded)
      BY <1>1, <2>1, <2>2, <2>7
    <3>2. QED
      BY <1>1, <1>2, <2>3, <2>4, <3>1, StillInLine
  <2>8. QED
    BY <2>5, <2>6, <2>7
<1>11. CASE PutMultibase(i)
  <2>1. /\ run'[i].stage = run[i].stage /\ run'[i].todo = run[i].todo
        /\ run'[i].at = run[i].at /\ run'[i].fresh = run[i].fresh
        /\ (run[i].created => run'[i].created)
        /\ UNCHANGED <<secret, stranded>>
    BY <1>1, <1>11 DEF PutMultibase, RunState
  <2>2. QED
    BY <1>4, <2>1 DEF Publishes, WillSign
<1>12. CASE Publish(i)
  <2>1. /\ run'[i].stage = run[i].stage /\ run[i].stage \in {"identities", "wallets"}
        /\ run'[i].fresh = run[i].fresh
        /\ UNCHANGED <<secret, stranded>>
        /\ secret[run[i].at] = run[i].stored
    BY <1>1, <1>12 DEF Publish, NextName, RunState, Knows
  <2>2. Publishes(run[i], n) => published'[n] = secret[n]
    BY <1>1, <1>12, <2>1 DEF Publish, Publishes
  <2>3. WillSign(run[i], n) => WillSign(run[i], n)'
    BY <2>1 DEF WillSign
  <2>4. QED
    BY <1>1, <1>2, <2>1, <2>2, <2>3, StillInLine
<1>13. ASSUME NEW m \in Signers, SignProof(i, m) PROVE InLine(n)'
  <2>1. /\ run'[i].stage = run[i].stage /\ run'[i].todo = run[i].todo \ {m}
        /\ run'[i].fresh = run[i].fresh /\ run'[i].at = run[i].at
        /\ (run[i].created => run'[i].created)
        /\ UNCHANGED <<secret, stranded>>
    BY <1>1, <1>13 DEF SignProof, RunState
  <2>2. Publishes(run[i], n) => Publishes(run[i], n)'
    BY <2>1 DEF Publishes
  <2>3. n \in Signers /\ WillSign(run[i], n) =>
          WillSign(run[i], n)' \/ proof'[n] \in {None, secret[n]}
    <3>1. CASE n = m /\ n \in run[i].fresh
      BY <1>1, <1>13, <3>1 DEF SignProof
    <3>2. CASE n # m \/ n \notin run[i].fresh
      BY <2>1, <3>2 DEF WillSign
    <3>3. QED
      BY <3>1, <3>2
  <2>4. QED
    BY <1>1, <1>2, <2>1, <2>2, <2>3, StillInLine
<1>14. ASSUME NEW m \in Names, DeleteMovedKey(i, m) PROVE InLine(n)'
  <2>1. /\ run[i].stage = "delete" /\ run'[i].at = run[i].at
        /\ (run[i].created => run'[i].created)
        /\ UNCHANGED <<secret, stranded>>
    BY <1>1, <1>14 DEF DeleteMovedKey, RunState
  <2>2. QED
    BY <1>4, <2>1 DEF Publishes, WillSign
<1>15. CASE FinishStage(i)
  <2>1. /\ run'[i] = NextStage(run[i]) /\ UNCHANGED <<secret, stranded>>
        /\ run[i].todo = {} /\ run[i].step = "next" /\ run[i].stage # "idle"
    BY <1>1, <1>15 DEF FinishStage
  <2>2. ~Publishes(run[i], n)
    BY <1>1, <2>1 DEF Publishes, Tracks
  <2>3. n \in Signers /\ WillSign(run[i], n) => WillSign(run[i], n)'
    <3>1. CASE run[i].stage = "identities"
      <4>1. run'[i].stage = "proofs" /\ run'[i].todo = Signers
            /\ run'[i].fresh = run[i].fresh
        BY <1>1, <2>1, <3>1 DEF NextStage, RunState
      <4>2. QED
        BY <4>1 DEF WillSign
    <3>2. CASE run[i].stage # "identities"
      BY <2>1, <3>2 DEF WillSign
    <3>3. QED
      BY <3>1, <3>2
  <2>4. QED
    BY <1>4, <2>1, <2>2, <2>3
<1>16. CASE SeedAborts(i)
  BY <1>1, <1>3, <1>16, LeaveEffect DEF SeedAborts
<1>17. QED
  BY <1>5, <1>6, <1>7, <1>8, <1>9, <1>10, <1>11, <1>12, <1>13, <1>14, <1>15, <1>16
     DEF SeedStep

LEMMA LineStep ==
  TypeInv /\ KnowsInv /\ TrackInv /\ LineInv /\ [Next]_vars => LineInv'
<1> SUFFICES ASSUME TypeInv, KnowsInv, TrackInv, LineInv, [Next]_vars
             PROVE  LineInv'
  OBVIOUS
<1>1. CASE UNCHANGED vars
  BY <1>1 DEF vars, LineInv, InLine, CopyInLine, Publishes, WillSign
<1>2. ASSUME NEW n \in Names, Rotate(n) PROVE LineInv'
  <2>1. /\ UNCHANGED <<multibase, legacy, published, proof, run, stranded>>
        /\ secret' = [secret EXCEPT ![n] = None]
    BY <1>2 DEF Rotate
  <2>2. ASSUME NEW m \in Names PROVE InLine(m)' /\ CopyInLine(m)'
    <3>1. InLine(m) /\ CopyInLine(m) /\ secret'[m] \in {None, secret[m]}
      BY <2>1 DEF LineInv, TypeInv, TypeOK
    <3>2. InLine(m)'
      BY <2>1, <3>1 DEF InLine, Publishes, WillSign
    <3>3. CopyInLine(m)'
      BY <2>1, <3>1 DEF CopyInLine
    <3>4. QED
      BY <3>2, <3>3
  <2>3. QED
    BY <2>2 DEF LineInv
<1>3. ASSUME NEW i \in Runs, SeedStep(i) PROVE LineInv'
  <2>1. ASSUME NEW n \in Names PROVE InLine(n)' /\ CopyInLine(n)'
    BY <1>3, LineSeedStep, TameStep, CopyInLineStep DEF LineInv
  <2>2. QED
    BY <2>1 DEF LineInv
<1>4. QED
  BY <1>1, <1>2, <1>3 DEF Next

(* However many seed runs overlap, and wherever they are refused or stop,  *)
(* a run that completes leaves every public record, multibase copy and     *)
(* proof in line with the key it was derived from; the exception is a key  *)
(* minted by another run, which is still to publish it or stopped first.   *)
THEOREM SeededCoherent ==
  ASSUME PublishedAtStart PROVE Spec => []SeededIsCoherent
<1>1. Init => TypeInv /\ KnowsInv /\ TrackInv /\ LineInv
  BY TypeInit, SurvivalInit, TrackInit, LineInit
<1>2. TypeInv /\ KnowsInv /\ TrackInv /\ LineInv /\ [Next]_vars
        => (TypeInv /\ KnowsInv /\ TrackInv /\ LineInv)'
  BY TypeStep, SurvivalStep, TrackStep, LineStep
<1>3. TypeInv /\ KnowsInv /\ TrackInv /\ LineInv => SeededIsCoherent
  <2> SUFFICES ASSUME TypeInv, KnowsInv, TrackInv, LineInv,
                      NEW i \in Runs, run[i].stage = "done",
                      NEW n \in Names, n \notin stranded, ~BeingRepublished(n)
               PROVE  Coherent(n)
    BY DEF SeededIsCoherent
  <2>1. Follows(run[i]) /\ InLine(n)
    BY DEF TrackInv, LineInv
  <2>2. n \in SettledNames /\ (n \in Signers => proof[n] # None)
    BY <2>1 DEF Follows, Settles, Signs, Names
  <2>3. \A j \in Runs : n \in run[j].fresh => run[j].stage = "done"
    BY DEF BeingRepublished
  <2>4. \A j \in Runs : ~Publishes(run[j], n) /\ ~WillSign(run[j], n)
    BY <2>3 DEF TrackInv, Follows, Tracks, Publishes, WillSign
  <2>5. /\ secret[n] # None /\ published[n] # None
        /\ legacy[n] \in {None, secret[n]}
        /\ n \in Multibase => multibase[n] = secret[n]
    BY <2>2 DEF SettledNames
  <2>6. /\ published[n] = secret[n]
        /\ n \in Signers => proof[n] = secret[n]
    BY <2>1, <2>2, <2>4, <2>5 DEF InLine
  <2>7. QED
    BY <2>5, <2>6 DEF Coherent
<1>4. QED
  BY <1>1, <1>2, <1>3, PTL DEF Spec
=============================================================================
