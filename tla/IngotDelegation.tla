--------------------------- MODULE IngotDelegation ---------------------------
(***************************************************************************)
(* The delegation hilt signs for a region's Ingot: what applianceProof-    *)
(* Issuer does inside an onboard run (Onboard!IssueProof in one step),     *)
(* while hilt's identity is rotated, the command list grows and the        *)
(* region is retired.                                                      *)
(*                                                                         *)
(* A delegation carries a random nonce, so two of them are never the same  *)
(* bytes: each issue is a copy of its own.  hilt's keys are numbered in    *)
(* the order seed runs minted them.                                        *)
(***************************************************************************)
EXTENDS Naturals, FiniteSets

CONSTANTS
  Regions,   \* appliance region labels
  Lists,     \* command lists HiltIngotS3Proof has had or may get
  Copies,    \* delegations that can be told apart
  MaxKey,    \* bound: keys hilt may have had
  Runs,      \* onboard invocations that may overlap
  Legacy,    \* delegations a stage may hold from before the issuer's record
  None       \* nothing there

Delegation == [copy : Copies, key : 1..MaxKey, commands : Lists]

ASSUME MaxKeyAssumption == MaxKey \in Nat \ {0}
ASSUME NoneAssumption == None \notin Regions \cup Delegation \cup 1..MaxKey
ASSUME LegacyAssumption == Legacy \subseteq Delegation /\ \A d \in Legacy : d.key = 1

VARIABLES
  key,       \* hilt's identity in the secret store
  commands,  \* what HiltIngotS3Proof grants in the deployed Lambda
  stored,    \* hilt-ingot-s3-proof of each region
  stamp,     \* hilt-ingot-s3-proof.issuer of each region
  run,       \* the onboard invocations, from where they ask for the proof
  retire,    \* the retire invocation
  issued,    \* copies signed so far (history)
  held,      \* the delegation last returned for each region's node (history)
  guessed    \* regions whose stamp names no key known to have signed (history)

vars == <<key, commands, stored, stamp, run, retire, issued, held, guessed>>
history == <<issued, held, guessed>>

Steps == {"idle", "key", "ensure", "issuer", "reissue", "stamp", "return"}

IdleRun == [pc |-> "idle", region |-> None, key |-> None, commands |-> {},
            proof |-> None, wrote |-> FALSE]
RunState == [pc : Steps, region : Regions \cup {None},
             key : (1..MaxKey) \cup {None}, commands : Lists \cup {{}},
             proof : Delegation \cup {None}, wrote : BOOLEAN]

IdleRetire == [pc |-> "idle", region |-> None, present |-> {}]
RetireState == [pc : {"idle", "proof", "issuer", "delete"},
                region : Regions \cup {None},
                present : SUBSET {"proof", "issuer"}]

(* A legacy delegation was handed to its node and never stamped.           *)
Init ==
  /\ key = 1
  /\ commands \in Lists
  /\ stored \in [Regions -> Legacy \cup {None}]
  /\ stamp = [r \in Regions |-> None]
  /\ run = [i \in Runs |-> IdleRun]
  /\ retire = IdleRetire
  /\ issued = {d.copy : d \in {stored[r] : r \in Regions} \ {None}}
  /\ held = stored
  /\ guessed = {}

-----------------------------------------------------------------------------
(* applianceProofIssuer.                                                   *)

StartIssue(i, r) ==
  /\ run[i].pc = "idle"
  /\ run' = [run EXCEPT ![i] = [IdleRun EXCEPT !.pc = "key", !.region = r,
                                               !.commands = commands]]
  /\ UNCHANGED <<key, commands, stored, stamp, retire, history>>

ReadKey(i) ==
  /\ run[i].pc = "key"
  /\ run' = [run EXCEPT ![i] = [@ EXCEPT !.pc = "ensure", !.key = key]]
  /\ UNCHANGED <<key, commands, stored, stamp, retire, history>>

(* A delegation in the name of whoever the record says signed the last.    *)
SignedByRecordedIssuer(i, c) ==
  [copy |-> c, key |-> stamp[run[i].region], commands |-> run[i].commands]

(* A new delegation, signed by the key this run read and granting the      *)
(* commands its code lists.                                                *)
Signed(i, c) == [copy |-> c, key |-> run[i].key, commands |-> run[i].commands]

(* EnsurePublic creates what is not there and takes what is: its read is   *)
(* part of the create, which refuses to overwrite and so decides.          *)
CreateProof(i, c) ==
  /\ run[i].pc = "ensure"
  /\ stored[run[i].region] = None
  /\ c \notin issued
  /\ stored' = [stored EXCEPT ![run[i].region] = Signed(i, c)]
  /\ issued' = issued \cup {c}
  /\ run' = [run EXCEPT ![i] = [@ EXCEPT !.pc = "stamp", !.proof = Signed(i, c),
                                         !.wrote = TRUE]]
  /\ UNCHANGED <<key, commands, stamp, retire, held, guessed>>

TakeStored(i) ==
  /\ run[i].pc = "ensure"
  /\ stored[run[i].region] # None
  /\ run' = [run EXCEPT ![i] = [@ EXCEPT !.pc = "issuer",
                                         !.proof = stored[run[i].region]]]
  /\ UNCHANGED <<key, commands, stored, stamp, retire, history>>

MissingCommands(state) == state.commands \ state.proof.commands

(* The decision without the commands.                                      *)
AfterIssuerIgnoringCommands(state, issuer) ==
  IF issuer = state.key THEN "return"
  ELSE IF issuer = None THEN "stamp"
  ELSE "reissue"

(* The decision when an unknown issuer is taken for another key.           *)
AfterIssuerDistrusting(state, issuer) ==
  IF MissingCommands(state) = {} /\ issuer = state.key THEN "return"
  ELSE "reissue"

(* The switch: reissue what lacks a command or names another key, return   *)
(* what names this key, and take an unknown issuer for this key.           *)
AfterIssuer(state, issuer) ==
  IF MissingCommands(state) # {} THEN "reissue"
  ELSE IF issuer = state.key THEN "return"
  ELSE IF issuer = None THEN "stamp"
  ELSE "reissue"

ReadIssuer(i) ==
  /\ run[i].pc = "issuer"
  /\ run' = [run EXCEPT ![i].pc = AfterIssuer(run[i], stamp[run[i].region])]
  /\ UNCHANGED <<key, commands, stored, stamp, retire, history>>

(* A reissue that records its key before it writes the delegation.         *)
StampThenReissue(i, c) ==
  /\ run[i].pc = "reissue"
  /\ c \notin issued
  /\ IF stamp[run[i].region] # run[i].key
     THEN /\ stamp' = [stamp EXCEPT ![run[i].region] = run[i].key]
          /\ UNCHANGED <<stored, issued, run>>
     ELSE /\ stored' = [stored EXCEPT ![run[i].region] = Signed(i, c)]
          /\ issued' = issued \cup {c}
          /\ run' = [run EXCEPT ![i] = [@ EXCEPT !.pc = "return",
                                                 !.proof = Signed(i, c),
                                                 !.wrote = TRUE]]
          /\ UNCHANGED stamp
  /\ UNCHANGED <<key, commands, retire, held, guessed>>

(* PutPublic overwrites whatever is there by now.                          *)
Reissue(i, c) ==
  /\ run[i].pc = "reissue"
  /\ c \notin issued
  /\ stored' = [stored EXCEPT ![run[i].region] = Signed(i, c)]
  /\ issued' = issued \cup {c}
  /\ run' = [run EXCEPT ![i] = [@ EXCEPT !.pc = "stamp", !.proof = Signed(i, c),
                                         !.wrote = TRUE]]
  /\ UNCHANGED <<key, commands, stamp, retire, held, guessed>>

(* recordProofIssuer, after a write and after an unknown issuer alike.     *)
RecordProofIssuer(i) ==
  /\ run[i].pc = "stamp"
  /\ stamp' = [stamp EXCEPT ![run[i].region] = run[i].key]
  /\ guessed' = IF run[i].wrote THEN guessed \ {run[i].region}
                ELSE guessed \cup {run[i].region}
  /\ run' = [run EXCEPT ![i].pc = "return"]
  /\ UNCHANGED <<key, commands, stored, retire, issued, held>>

(* The operator hands it to the node.                                      *)
ReturnProof(i) ==
  /\ run[i].pc = "return"
  /\ held' = [held EXCEPT ![run[i].region] = run[i].proof]
  /\ run' = [run EXCEPT ![i] = IdleRun]
  /\ UNCHANGED <<key, commands, stored, stamp, retire, issued, guessed>>

(* A call fails or the Lambda dies, between any two calls.                 *)
IssueAborts(i) ==
  /\ run[i].pc # "idle"
  /\ run' = [run EXCEPT ![i] = IdleRun]
  /\ UNCHANGED <<key, commands, stored, stamp, retire, history>>

IssueStep(i) ==
  \/ \E r \in Regions : StartIssue(i, r)
  \/ ReadKey(i) \/ TakeStored(i) \/ ReadIssuer(i)
  \/ \E c \in Copies : CreateProof(i, c) \/ Reissue(i, c)
  \/ RecordProofIssuer(i) \/ ReturnProof(i) \/ IssueAborts(i)

-----------------------------------------------------------------------------
(* What happens around it.                                                 *)

(* A seed run mints the identity an operator deleted; no key comes back.   *)
Rotate ==
  /\ key < MaxKey
  /\ key' = key + 1
  /\ UNCHANGED <<commands, stored, stamp, run, retire, history>>

(* A deploy of the Lambda whose HiltIngotS3Proof lists other commands.     *)
Deploy(list) ==
  /\ commands' = list
  /\ UNCHANGED <<key, stored, stamp, run, retire, history>>

(* The retire phase, from where it deletes the two parameters: Delete      *)
(* looks each one up and then removes those it saw, in one call.           *)
StartRetire(r) ==
  /\ retire.pc = "idle"
  /\ retire' = [IdleRetire EXCEPT !.pc = "proof", !.region = r]
  /\ UNCHANGED <<key, commands, stored, stamp, run, history>>

FindProof ==
  /\ retire.pc = "proof"
  /\ retire' = [retire EXCEPT !.pc = "issuer",
                  !.present = {p \in {"proof"} : stored[retire.region] # None}]
  /\ UNCHANGED <<key, commands, stored, stamp, run, history>>

FindIssuer ==
  /\ retire.pc = "issuer"
  /\ retire' = [retire EXCEPT !.pc = "delete",
                  !.present = retire.present \cup
                              {p \in {"issuer"} : stamp[retire.region] # None}]
  /\ UNCHANGED <<key, commands, stored, stamp, run, history>>

DeletePresent ==
  /\ retire.pc = "delete"
  /\ stored' = IF "proof" \in retire.present
               THEN [stored EXCEPT ![retire.region] = None] ELSE stored
  /\ stamp' = IF "issuer" \in retire.present
              THEN [stamp EXCEPT ![retire.region] = None] ELSE stamp
  /\ retire' = IdleRetire
  /\ UNCHANGED <<key, commands, run, history>>

RetireAborts ==
  /\ retire.pc # "idle"
  /\ retire' = IdleRetire
  /\ UNCHANGED <<key, commands, stored, stamp, run, history>>

Next ==
  \/ \E i \in Runs : IssueStep(i)
  \/ Rotate
  \/ \E list \in Lists : Deploy(list)
  \/ \E r \in Regions : StartRetire(r)
  \/ FindProof \/ FindIssuer \/ DeletePresent \/ RetireAborts

Spec == Init /\ [][Next]_vars

-----------------------------------------------------------------------------
TypeOK ==
  /\ key \in 1..MaxKey
  /\ commands \in Lists
  /\ stored \in [Regions -> Delegation \cup {None}]
  /\ stamp \in [Regions -> (1..MaxKey) \cup {None}]
  /\ run \in [Runs -> RunState]
  /\ retire \in RetireState
  /\ issued \subseteq Copies
  /\ held \in [Regions -> Delegation \cup {None}]
  /\ guessed \subseteq Regions

(* What a run returns, hilt's current readers can use: the key this run    *)
(* read signed it, and it grants what its code lists.  Only a stamp that   *)
(* was itself a guess may have misled it.  A reissue interrupted anywhere, *)
(* a rotation or a retirement meanwhile, must not.                         *)
ReturnedVerifies ==
  \A i \in Runs :
    run[i].pc = "return" =>
      /\ MissingCommands(run[i]) = {}
      /\ run[i].region \notin guessed => run[i].proof.key = run[i].key

(* The stamp never runs ahead of the delegation beside it: a later run     *)
(* that finds the current key there may return what is stored.  Hence the  *)
(* delegation first and the stamp second, which a crash leaves behind.     *)
StampNeverAhead ==
  \A r \in Regions :
    r \notin guessed /\ stamp[r] = key /\ stored[r] # None => stored[r].key = key

(* A delegation a node was handed is replaced only by a run whose key did  *)
(* not sign it or whose commands it lacks: otherwise the node would hold   *)
(* something central no longer recognises.                                 *)
HandedStays ==
  [][\A r \in Regions :
       (stored[r] # None /\ stored[r] = held[r] /\ stored'[r] \notin {stored[r], None}) =>
         \E i \in Runs :
           /\ run[i].region = r
           /\ held[r].key # run[i].key \/ ~(run[i].commands \subseteq held[r].commands)]_vars

=============================================================================
