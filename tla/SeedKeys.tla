------------------------------ MODULE SeedKeys ------------------------------
(***************************************************************************)
(* The keys the seed phase answers for: service identities and funded      *)
(* wallets, their public records, the proofs the identities sign, and the  *)
(* move of keys from SSM to Secrets Manager.                               *)
(*                                                                         *)
(* A public record, a multibase copy or a proof is represented by the key  *)
(* it was derived from or signed with.  The phase walks fixed lists; here  *)
(* the order within a list is free.                                        *)
(***************************************************************************)
EXTENDS Naturals, FiniteSets

CONSTANTS
  Identities,   \* services with an Ed25519 identity
  Wallets,      \* wallets holding funds
  Signers,      \* identities that sign a startup proof
  Multibase,    \* identities also kept in multibase form
  Keys,         \* every key that exists or may be generated
  Runs,         \* seed invocations that may overlap
  StageAtStart, \* what a stage may hold before its first run
  None          \* no key, no name

Names == Identities \cup Wallets

ASSUME ListsAssumption == Signers \subseteq Identities /\ Multibase \subseteq Identities
ASSUME NoneAssumption == None \notin Keys \cup Names
ASSUME StageAssumption ==
  StageAtStart \subseteq [secret : [Names -> Keys \cup {None}],
                          legacy : [Names -> Keys \cup {None}],
                          published : [Names -> Keys \cup {None}]]

VARIABLES
  secret,      \* Secrets Manager: each key
  multibase,   \* Secrets Manager: the second encoding of an identity
  legacy,      \* SSM: the SecureString copies of a key
  published,   \* SSM: the identity.did or .address record
  proof,       \* SSM: the proof an identity signed
  generated,   \* keys that exist or existed
  run,         \* the seed invocations
  rotated,     \* names an operator ever rotated (history)
  stranded     \* names whose replacement a run minted and then left (history)

vars == <<secret, multibase, legacy, published, proof, generated, run, rotated,
          stranded>>

Stages == {"idle", "identities", "proofs", "wallets", "rest", "delete", "done"}
Steps == {"next", "legacy", "check", "copy", "mint", "multibase", "publish"}

IdleRun == [stage |-> "idle", step |-> "next", todo |-> {}, at |-> None,
            found |-> None, copy |-> None, stored |-> None, created |-> FALSE,
            fresh |-> {}, moved |-> {}]

RunState == [stage : Stages, step : Steps,
             todo : SUBSET Names,           \* left of the stage's list
             at : Names \cup {None},        \* the key being ensured
             found : Keys \cup {None},      \* as read from Secrets Manager
             copy : Keys \cup {None},       \* as read from SSM
             stored : Keys \cup {None},     \* what ensureKey returns
             created : BOOLEAN,
             fresh : SUBSET Names,          \* minted by this run
             moved : SUBSET Names]          \* SSM copies to delete at the end

Init ==
  /\ \E s \in StageAtStart :
       /\ secret = s.secret /\ legacy = s.legacy /\ published = s.published
       /\ generated = {s.secret[n] : n \in Names} \cup {s.legacy[n] : n \in Names}
  /\ multibase = [n \in Multibase |-> secret[n]]
  /\ proof = [n \in Signers |-> published[n]]
  /\ run = [i \in Runs |-> IdleRun]
  /\ rotated = {} /\ stranded = {}

-----------------------------------------------------------------------------
(* ensureKey for one name, one remote call at a time.                      *)

(* What a run that minted a key has yet to bring in line with it.          *)
Outdated(n) ==
  \/ published[n] \notin {None, secret[n]}
  \/ n \in Signers /\ proof[n] \notin {None, secret[n]}

(* A run that ends early takes with it the knowledge of what it minted.    *)
Leave(i) ==
  /\ run' = [run EXCEPT ![i] = IdleRun]
  /\ stranded' = stranded \cup {n \in run[i].fresh : Outdated(n)}

Ensuring(i, step) ==
  run[i].stage \in {"identities", "wallets"} /\ run[i].step = step

LookupSecret(i, n) ==
  /\ Ensuring(i, "next") /\ n \in run[i].todo
  /\ run' = [run EXCEPT ![i] = [@ EXCEPT !.step = "legacy", !.at = n,
                                         !.found = secret[n]]]
  /\ UNCHANGED <<secret, multibase, legacy, published, proof, generated,
                 rotated, stranded>>

(* The SSM copies this run may delete, the key it is at included.          *)
ToDelete(i) == run[i].moved \cup {run[i].at}

AfterEnsure(n) == IF n \in Multibase THEN "multibase" ELSE "publish"

(* The SSM copy returned in the place of a secret that has none.           *)
LookupLegacyReturningTheCopy(i) ==
  /\ Ensuring(i, "legacy")
  /\ LET n == run[i].at
         found == run[i].found
         copy == legacy[n]
         state == [run[i] EXCEPT !.copy = copy, !.stored = copy]
     IN
       \/ found # None /\ copy \notin {None, found} /\ Leave(i)
       \/ /\ found = None \/ copy \in {None, found}
          /\ run' = [run EXCEPT ![i] =
               CASE found # None /\ copy = found ->
                      [state EXCEPT !.step = AfterEnsure(n), !.moved = ToDelete(i)]
                 [] found # None /\ copy # found -> [state EXCEPT !.step = AfterEnsure(n)]
                 [] found = None /\ copy # None -> [state EXCEPT !.step = "check"]
                 [] found = None /\ copy = None -> [state EXCEPT !.step = "mint"]]
          /\ UNCHANGED stranded
  /\ UNCHANGED <<secret, multibase, legacy, published, proof, generated, rotated>>

(* Both copies have to agree; a disagreement ends the run.                 *)
LookupLegacy(i) ==
  /\ Ensuring(i, "legacy")
  /\ LET n == run[i].at
         found == run[i].found
         copy == legacy[n]
         state == [run[i] EXCEPT !.copy = copy, !.stored = found]
     IN
       \/ found # None /\ copy \notin {None, found} /\ Leave(i)
       \/ /\ found = None \/ copy \in {None, found}
          /\ run' = [run EXCEPT ![i] =
               CASE found # None /\ copy = found ->
                      [state EXCEPT !.step = AfterEnsure(n), !.moved = ToDelete(i)]
                 [] found # None /\ copy # found -> [state EXCEPT !.step = AfterEnsure(n)]
                 [] found = None /\ copy # None -> [state EXCEPT !.step = "check"]
                 [] found = None /\ copy = None -> [state EXCEPT !.step = "mint"]]
          /\ UNCHANGED stranded
  /\ UNCHANGED <<secret, multibase, legacy, published, proof, generated, rotated>>

(* A copy is moved only if it derives what is published under its name.    *)
CheckPublicRecord(i) ==
  /\ Ensuring(i, "check")
  /\ \/ published[run[i].at] # run[i].copy /\ Leave(i)
     \/ /\ published[run[i].at] = run[i].copy
        /\ run' = [run EXCEPT ![i].step = "copy"]
        /\ UNCHANGED stranded
  /\ UNCHANGED <<secret, multibase, legacy, published, proof, generated, rotated>>

(* A create that overwrites.                                               *)
Overwrite(n, k) == k

(* secretstore.Create: an existing secret wins.                            *)
Create(n, k) == IF secret[n] = None THEN k ELSE secret[n]

CopyKey(i) ==
  /\ Ensuring(i, "copy")
  /\ LET n == run[i].at
         stored == Create(n, run[i].copy)
     IN
       /\ secret' = [secret EXCEPT ![n] = stored]
       /\ \/ stored # run[i].copy /\ Leave(i)
          \/ /\ stored = run[i].copy
             /\ run' = [run EXCEPT ![i] = [@ EXCEPT !.step = AfterEnsure(n),
                                                    !.stored = stored,
                                                    !.moved = ToDelete(i)]]
             /\ UNCHANGED stranded
  /\ UNCHANGED <<multibase, legacy, published, proof, generated, rotated>>

(* A key that exists nowhere is generated, and lost again if another run's *)
(* create came first.                                                      *)
MintKey(i, k) ==
  /\ Ensuring(i, "mint") /\ k \notin generated
  /\ LET n == run[i].at
         created == Create(n, k) = k
     IN
       /\ secret' = [secret EXCEPT ![n] = Create(n, k)]
       /\ generated' = generated \cup {k}
       /\ run' = [run EXCEPT ![i] =
                    [@ EXCEPT !.step = AfterEnsure(n), !.stored = Create(n, k),
                              !.created = created,
                              !.fresh = run[i].fresh \cup
                                          (IF created THEN {n} ELSE {})]]
       /\ stranded' = IF created THEN stranded \ {n} ELSE stranded
  /\ UNCHANGED <<multibase, legacy, published, proof, rotated>>

PutMultibase(i) ==
  /\ Ensuring(i, "multibase")
  /\ multibase' = [multibase EXCEPT ![run[i].at] = run[i].stored]
  /\ run' = [run EXCEPT ![i].step = "publish"]
  /\ UNCHANGED <<secret, legacy, published, proof, generated, rotated, stranded>>

NextName(i) == [run[i] EXCEPT !.step = "next", !.todo = @ \ {run[i].at}, !.at = None,
                              !.found = None, !.copy = None, !.stored = None,
                              !.created = FALSE]

(* A record left alone whenever there is one.                              *)
PublishOnce(i) ==
  /\ Ensuring(i, "publish")
  /\ published' = [published EXCEPT ![run[i].at] = IF @ = None THEN run[i].stored ELSE @]
  /\ run' = [run EXCEPT ![i] = NextName(i)]
  /\ UNCHANGED <<secret, multibase, legacy, proof, generated, rotated, stranded>>

(* The public record is overwritten for a key this run minted, and only    *)
(* written if missing for any other.                                       *)
Publish(i) ==
  /\ Ensuring(i, "publish")
  /\ published' = [published EXCEPT ![run[i].at] =
                     IF run[i].created \/ @ = None THEN run[i].stored ELSE @]
  /\ run' = [run EXCEPT ![i] = NextName(i)]
  /\ UNCHANGED <<secret, multibase, legacy, proof, generated, rotated, stranded>>

-----------------------------------------------------------------------------
(* The phase: identities, the proofs they sign, wallets, everything else,  *)
(* and last the SSM copies.                                                *)

StartSeed(i) ==
  /\ run[i].stage = "idle"
  /\ run' = [run EXCEPT ![i] = [IdleRun EXCEPT !.stage = "identities",
                                               !.todo = Identities]]
  /\ UNCHANGED <<secret, multibase, legacy, published, proof, generated,
                 rotated, stranded>>

(* A fresh issuer's proof is signed again; any other only if it is missing.*)
SignProof(i, n) ==
  /\ run[i].stage = "proofs" /\ n \in run[i].todo
  /\ proof' = [proof EXCEPT ![n] = IF n \in run[i].fresh \/ @ = None
                                   THEN secret[n] ELSE @]
  /\ run' = [run EXCEPT ![i].todo = @ \ {n}]
  /\ UNCHANGED <<secret, multibase, legacy, published, generated, rotated, stranded>>

(* The SSM copies deleted as soon as a key has been moved.                 *)
DeleteMovedKeyAtOnce(i, n) ==
  /\ run[i].stage # "idle" /\ n \in run[i].moved
  /\ legacy[n] # None
  /\ legacy' = [legacy EXCEPT ![n] = None]
  /\ run' = [run EXCEPT ![i].todo = IF run[i].stage = "delete" THEN @ \ {n} ELSE @]
  /\ UNCHANGED <<secret, multibase, published, proof, generated, rotated, stranded>>

DeleteMovedKey(i, n) ==
  /\ run[i].stage = "delete" /\ n \in run[i].todo
  /\ legacy' = [legacy EXCEPT ![n] = None]
  /\ run' = [run EXCEPT ![i].todo = @ \ {n}]
  /\ UNCHANGED <<secret, multibase, published, proof, generated, rotated, stranded>>

(* "rest" stands for the passwords, databases and connection strings that  *)
(* have to succeed before any SSM copy goes.                               *)
NextStage(state) ==
  CASE state.stage = "identities" -> [state EXCEPT !.stage = "proofs", !.todo = Signers]
    [] state.stage = "proofs"     -> [state EXCEPT !.stage = "wallets", !.todo = Wallets]
    [] state.stage = "wallets"    -> [state EXCEPT !.stage = "rest"]
    [] state.stage = "rest"       -> [state EXCEPT !.stage = "delete", !.todo = state.moved]
    [] state.stage = "delete"     -> [state EXCEPT !.stage = "done"]
    [] state.stage = "done"       -> IdleRun

FinishStage(i) ==
  /\ run[i].stage # "idle" /\ run[i].todo = {} /\ run[i].step = "next"
  /\ run' = [run EXCEPT ![i] = NextStage(run[i])]
  /\ UNCHANGED <<secret, multibase, legacy, published, proof, generated,
                 rotated, stranded>>

(* A call fails or the Lambda dies.                                        *)
SeedAborts(i) ==
  /\ run[i].stage \notin {"idle", "done"}
  /\ Leave(i)
  /\ UNCHANGED <<secret, multibase, legacy, published, proof, generated, rotated>>

(* An operator rotates a key by deleting its secret, between runs.         *)
Rotate(n) ==
  /\ \A i \in Runs : run[i].stage = "idle"
  /\ secret[n] # None
  /\ secret' = [secret EXCEPT ![n] = None]
  /\ rotated' = rotated \cup {n}
  /\ UNCHANGED <<multibase, legacy, published, proof, generated, run, stranded>>

SeedStep(i) ==
  \/ StartSeed(i)
  \/ \E n \in Names : LookupSecret(i, n) \/ DeleteMovedKey(i, n)
  \/ LookupLegacy(i) \/ CheckPublicRecord(i) \/ CopyKey(i)
  \/ \E k \in Keys : MintKey(i, k)
  \/ PutMultibase(i) \/ Publish(i)
  \/ \E n \in Signers : SignProof(i, n)
  \/ FinishStage(i) \/ SeedAborts(i)

Next == (\E i \in Runs : SeedStep(i)) \/ (\E n \in Names : Rotate(n))

Spec == Init /\ [][Next]_vars

-----------------------------------------------------------------------------
TypeOK ==
  /\ secret \in [Names -> Keys \cup {None}]
  /\ multibase \in [Multibase -> Keys \cup {None}]
  /\ legacy \in [Names -> Keys \cup {None}]
  /\ published \in [Names -> Keys \cup {None}]
  /\ proof \in [Signers -> Keys \cup {None}]
  /\ generated \subseteq Keys \cup {None}
  /\ run \in [Runs -> RunState]
  /\ rotated \subseteq Names /\ stranded \subseteq Names
  /\ \A i \in Runs : run[i].step \in {"multibase", "publish"} => run[i].stored \in Keys

(* A key whose public half is published is held somewhere, in Secrets      *)
(* Manager or still in SSM, unless an operator rotated it: no race of two  *)
(* runs, and no run that stops halfway through a move, mints over it or    *)
(* drops its last copy.                                                    *)
PublishedKeysSurvive ==
  \A n \in Names \ rotated :
    published[n] # None => published[n] \in {secret[n], legacy[n]}

(* The public record, the multibase copy and the proof all match the key.  *)
Coherent(n) ==
  /\ secret[n] # None
  /\ published[n] = secret[n]
  /\ n \in Signers => proof[n] = secret[n]
  /\ n \in Multibase => multibase[n] = secret[n]

(* The run that minted the key is still at work.                           *)
BeingRepublished(n) ==
  \E i \in Runs : run[i].stage # "done" /\ n \in run[i].fresh

(* A run that completes leaves every key coherent, rotated ones included,  *)
(* except one whose replacement an earlier run minted and then stopped.    *)
SeededIsCoherent ==
  \A i \in Runs : run[i].stage = "done" =>
    \A n \in Names : n \in stranded \/ BeingRepublished(n) \/ Coherent(n)

(* What the README says of a rotation: it refreshes the public record, and *)
(* the proof the identity signs, in the same apply.                        *)
RotationRepublishes ==
  \A i \in Runs : run[i].stage = "done" =>
    \A n \in Names : BeingRepublished(n) \/ Coherent(n)

(* An SSM copy goes only once Secrets Manager holds that very key, and     *)
(* every other key of the stage too: a run refused at a later key leaves   *)
(* every parameter the running services still read.                        *)
SsmCopiesGoLast ==
  [][\A n \in Names : legacy[n] # None /\ legacy'[n] = None =>
       /\ secret[n] = legacy[n]
       /\ \A m \in Names : secret[m] # None]_vars

=============================================================================
