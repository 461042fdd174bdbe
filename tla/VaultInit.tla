------------------------------ MODULE VaultInit -------------------------------
(***************************************************************************)
(* The vault phase up to the appliance keys: it initialises OpenBao,       *)
(* stores the root token and the recovery keys, builds what hilt needs and *)
(* keeps hilt's stored credential in step.  OpenBao's storage may be       *)
(* rebuilt under it, while the parameters survive, and the phase may die   *)
(* between any two calls.  Terraform's state lock keeps applies, and so    *)
(* invocations of the phase, apart.  The definitions that UnsealTokens,    *)
(* the rest of the phase, has too are named for OpenBao (BaoInit).         *)
(*                                                                         *)
(* A root token, recovery keys and a role_id are the number of the         *)
(* initialisation they belong to, 0 where there is none.                   *)
(***************************************************************************)
EXTENDS Naturals

CONSTANTS
  SecretIds, \* secret_ids that can be told apart
  MaxEpoch,  \* bound: initialisations
  None       \* nothing there

ASSUME MaxEpochAssumption == MaxEpoch \in Nat
ASSUME NoneAssumption == None \notin SecretIds

VARIABLES
  status,       \* OpenBao: new (not initialised), sealed or open
  epoch,        \* initialisations so far, the last one's number
  built,        \* mounts, policy, auth method and role OpenBao has
  secretIds,    \* secret_ids OpenBao accepts
  rootToken,    \* openbao/root-token
  recoveryKeys, \* openbao/recovery-keys
  roleId,       \* hilt/vault-role-id
  secretId,     \* hilt/vault-secret-id
  run,          \* the vault invocation
  issuedIds     \* secret_ids issued so far (history)

baoVars == <<status, epoch, built, secretIds, rootToken, recoveryKeys, roleId,
             secretId, run, issuedIds>>
openbao == <<status, epoch, built, secretIds, issuedIds>>
stored == <<rootToken, recoveryKeys, roleId, secretId>>

Parts == {"kv", "transit", "policy", "auth", "role"}
Epochs == 0..MaxEpoch
Steps == Parts \cup
  {"idle", "wait", "status", "init", "root", "recovery", "unseal", "token",
   "read-role", "put-role", "lookup", "validate", "issue", "put-secret", "done"}

(* marks, history: the check of the stored secret_id failed on the way     *)
(* (unheard); the storage was rebuilt or the secret_id taken away since    *)
(* the run began (disturbed).                                              *)
IdleRun == [pc |-> "idle", token |-> 0, role |-> 0, secret |-> None, marks |-> {}]
RunState == [pc : Steps, token : Epochs, role : Epochs,
             secret : SecretIds \cup {None},
             marks : SUBSET {"unheard", "disturbed"}]

BaoInit ==
  /\ status = "new" /\ epoch = 0
  /\ built = {} /\ secretIds = {} /\ issuedIds = {}
  /\ rootToken = 0 /\ recoveryKeys = 0 /\ roleId = 0
  /\ secretId = None
  /\ run = IdleRun

To(pc) == run' = [run EXCEPT !.pc = pc]

(* A call as root is answered, and accepted.                               *)
Authorised == status = "open" /\ run.token = epoch

-----------------------------------------------------------------------------
(* WaitForUnsealed and ensureRootToken.                                    *)

StartVault ==
  /\ run.pc = "idle"
  /\ run' = [IdleRun EXCEPT !.pc = "wait"]
  /\ UNCHANGED <<openbao, stored>>

(* A wait for an unsealed barrier and nothing else.                        *)
WaitUntilOpen ==
  /\ run.pc = "wait"
  /\ status = "open"
  /\ To("status")
  /\ UNCHANGED <<openbao, stored>>

WaitForUnsealed ==
  /\ run.pc = "wait"
  /\ status # "sealed"
  /\ To("status")
  /\ UNCHANGED <<openbao, stored>>

ReadInitStatus ==
  /\ run.pc = "status"
  /\ To(IF status = "new" THEN "init" ELSE "token")
  /\ UNCHANGED <<openbao, stored>>

(* Configures first and stores nothing.                                    *)
InitialiseAndBuild ==
  /\ run.pc = "init" /\ status = "new"
  /\ epoch < MaxEpoch
  /\ status' = "sealed" /\ epoch' = epoch + 1
  /\ run' = [run EXCEPT !.pc = "unseal", !.token = epoch + 1]
  /\ UNCHANGED <<built, secretIds, issuedIds, stored>>

Initialise ==
  /\ run.pc = "init" /\ status = "new"
  /\ epoch < MaxEpoch
  /\ status' = "sealed" /\ epoch' = epoch + 1
  /\ run' = [run EXCEPT !.pc = "root", !.token = epoch + 1]
  /\ UNCHANGED <<built, secretIds, issuedIds, stored>>

PutRootToken ==
  /\ run.pc = "root"
  /\ rootToken' = run.token
  /\ To("recovery")
  /\ UNCHANGED <<openbao, recoveryKeys, roleId, secretId>>

PutRecoveryKeys ==
  /\ run.pc = "recovery"
  /\ recoveryKeys' = run.token
  /\ To("unseal")
  /\ UNCHANGED <<openbao, rootToken, roleId, secretId>>

AwaitBarrier ==
  /\ run.pc = "unseal"
  /\ status # "sealed"
  /\ To("kv")
  /\ UNCHANGED <<openbao, stored>>

GetRootToken ==
  /\ run.pc = "token"
  /\ rootToken # 0
  /\ run' = [run EXCEPT !.pc = "kv", !.token = rootToken]
  /\ UNCHANGED <<openbao, stored>>

-----------------------------------------------------------------------------
(* EnsureMounts and EnsureHiltAppRole.                                     *)

NextStep(part) ==
  CASE part = "kv" -> "transit" [] part = "transit" -> "policy"
    [] part = "policy" -> "auth" [] part = "auth" -> "role"
    [] OTHER -> "read-role"

(* Mounting or enabling what is missing and writing policy and role anew   *)
(* come to the same.                                                       *)
Build ==
  /\ run.pc \in Parts
  /\ Authorised
  /\ built' = built \cup {run.pc}
  /\ To(NextStep(run.pc))
  /\ UNCHANGED <<status, epoch, secretIds, issuedIds, stored>>

ReadRoleId ==
  /\ run.pc = "read-role"
  /\ Authorised
  /\ run' = [run EXCEPT !.pc = "put-role", !.role = epoch]
  /\ UNCHANGED <<openbao, stored>>

PutRoleId ==
  /\ run.pc = "put-role"
  /\ roleId' = run.role
  /\ To("lookup")
  /\ UNCHANGED <<openbao, rootToken, recoveryKeys, secretId>>

-----------------------------------------------------------------------------
(* ensureHiltSecretID.                                                     *)

(* A stored secret_id will do.                                             *)
TrustStored ==
  /\ run.pc = "lookup"
  /\ run' = [run EXCEPT !.pc = IF secretId = None THEN "issue" ELSE "done",
                        !.secret = secretId]
  /\ UNCHANGED <<openbao, stored>>

(* A new secret_id every time.                                             *)
AlwaysIssue ==
  /\ run.pc = "lookup"
  /\ run' = [run EXCEPT !.pc = "issue", !.secret = secretId]
  /\ UNCHANGED <<openbao, stored>>

LookupSecretId ==
  /\ run.pc = "lookup"
  /\ run' = [run EXCEPT !.pc = IF secretId = None THEN "issue" ELSE "validate",
                        !.secret = secretId]
  /\ UNCHANGED <<openbao, stored>>

ValidateSecretId ==
  /\ run.pc = "validate"
  /\ Authorised
  /\ To(IF run.secret \in secretIds THEN "done" ELSE "issue")
  /\ UNCHANGED <<openbao, stored>>

(* SecretIDValid takes a call that failed for a secret_id that does not    *)
(* authenticate.                                                           *)
TakeForInvalid ==
  /\ run.pc = "validate"
  /\ run' = [run EXCEPT !.pc = "issue", !.marks = run.marks \cup {"unheard"}]
  /\ UNCHANGED <<openbao, stored>>

ValidationRefused == ~Authorised /\ TakeForInvalid
ValidationFails == Authorised /\ TakeForInvalid

IssueSecretId(s) ==
  /\ run.pc = "issue"
  /\ Authorised
  /\ s \notin issuedIds
  /\ secretIds' = secretIds \cup {s} /\ issuedIds' = issuedIds \cup {s}
  /\ run' = [run EXCEPT !.pc = "put-secret", !.secret = s]
  /\ UNCHANGED <<status, epoch, built, stored>>

(* The role_id where the secret_id goes.                                   *)
PutSwapped ==
  /\ run.pc = "put-secret"
  /\ secretId' = run.role
  /\ To("done")
  /\ UNCHANGED <<openbao, rootToken, recoveryKeys, roleId>>

PutSecretId ==
  /\ run.pc = "put-secret"
  /\ secretId' = run.secret
  /\ To("done")
  /\ UNCHANGED <<openbao, rootToken, recoveryKeys, roleId>>

(* The appliance keys come next: module UnsealTokens.                      *)
FinishVault ==
  /\ run.pc = "done"
  /\ run' = IdleRun
  /\ UNCHANGED <<openbao, stored>>

(* No root token is stored, or OpenBao does not accept it or is sealed.    *)
RootCalls == Parts \cup {"read-role", "issue"}

Refused ==
  /\ \/ run.pc = "token" /\ rootToken = 0
     \/ run.pc \in RootCalls /\ ~Authorised
  /\ run' = IdleRun
  /\ UNCHANGED <<openbao, stored>>

(* Any other failure, a timeout, the end of the Lambda.                    *)
VaultDies ==
  /\ run.pc # "idle"
  /\ run' = IdleRun
  /\ UNCHANGED <<openbao, stored>>

BaoProgress ==
  \/ WaitForUnsealed \/ ReadInitStatus
  \/ Initialise \/ PutRootToken \/ PutRecoveryKeys \/ AwaitBarrier
  \/ GetRootToken
  \/ Build \/ ReadRoleId \/ PutRoleId
  \/ LookupSecretId \/ ValidateSecretId \/ ValidationRefused
  \/ (\E s \in SecretIds : IssueSecretId(s)) \/ PutSecretId
  \/ FinishVault \/ Refused

-----------------------------------------------------------------------------
(* What happens to OpenBao and the parameters meanwhile.                   *)

Disturbed(r) ==
  IF r.pc = "idle" THEN r ELSE [r EXCEPT !.marks = r.marks \cup {"disturbed"}]

(* The KMS seal opens the barrier.                                         *)
Unseal ==
  /\ status = "sealed"
  /\ status' = "open"
  /\ UNCHANGED <<epoch, built, secretIds, issuedIds, stored, run>>

Restart ==
  /\ status = "open"
  /\ status' = "sealed"
  /\ UNCHANGED <<epoch, built, secretIds, issuedIds, stored, run>>

(* Its database is lost and made anew.                                     *)
Rebuild ==
  /\ status # "new"
  /\ epoch < MaxEpoch
  /\ status' = "new"
  /\ built' = {} /\ secretIds' = {}
  /\ run' = Disturbed(run)
  /\ UNCHANGED <<epoch, issuedIds, stored>>

(* An operator rotates hilt's credential by deleting it.                   *)
RotateSecretId ==
  /\ secretId # None
  /\ secretId' = None
  /\ run' = Disturbed(run)
  /\ UNCHANGED <<openbao, rootToken, recoveryKeys, roleId>>

Mishap == VaultDies \/ ValidationFails \/ Restart \/ Rebuild \/ RotateSecretId

BaoNext == StartVault \/ BaoProgress \/ Unseal \/ Mishap

BaoSpec == BaoInit /\ [][BaoNext]_baoVars

(* Applies keep being run, an invocation goes on, the seal opens.          *)
BaoFairSpec ==
  BaoSpec /\ WF_baoVars(StartVault) /\ WF_baoVars(BaoProgress) /\ WF_baoVars(Unseal)

-----------------------------------------------------------------------------
BaoTypeOK ==
  /\ status \in {"new", "sealed", "open"}
  /\ epoch \in Epochs
  /\ built \subseteq Parts
  /\ secretIds \subseteq issuedIds /\ issuedIds \subseteq SecretIds
  /\ rootToken \in Epochs /\ recoveryKeys \in Epochs /\ roleId \in Epochs
  /\ secretId \in SecretIds \cup {None}
  /\ run \in RunState

(* The root token comes first: nothing is built in an OpenBao, and no      *)
(* transit key can be made in it, before the token that alone can manage   *)
(* it is stored, wherever runs die and whatever is rebuilt.  A run that    *)
(* dies in between is followed by runs that refuse.                        *)
NothingBuiltWithoutRoot == built # {} => rootToken = epoch

HiltCanLogIn ==
  /\ status # "new" /\ built = Parts
  /\ roleId = epoch /\ secretId \in secretIds

(* A run that completes leaves hilt with credentials this OpenBao accepts, *)
(* though earlier ones died anywhere or ran before the storage was rebuilt *)
(* under the stored ones.                                                  *)
DoneMeansUsable ==
  run.pc = "done" /\ "disturbed" \notin run.marks =>
    HiltCanLogIn /\ rootToken = epoch

(* The phase replaces hilt's stored secret_id only when it does not        *)
(* authenticate, or when the check of it failed.                           *)
WorkingSecretKept ==
  [][(secretId \in secretIds /\ secretId' \notin {secretId, None}) =>
       "unheard" \in run.marks]_baoVars

(* The credentials of an initialisation are stored before anything else:   *)
(* the claim for the recovery keys.                                        *)
NothingBuiltWithoutRecovery == built # {} => recoveryKeys = epoch

(* Once mishaps end, the runs that follow bring hilt's credentials in      *)
(* line, from whatever state was left, but for one: a root token lost      *)
(* between the initialisation and its storage.  In particular a new        *)
(* OpenBao, which reports itself sealed, is not waited for.  A death where *)
(* the run ends by itself anyway is no mishap.  (With all of SecretIds     *)
(* issued, the bound is reached.)                                          *)
RootLost == status # "new" /\ rootToken # epoch

HiltComesUp ==
  <>[][Mishap => FinishVault \/ Refused]_baoVars =>
    <>[](HiltCanLogIn \/ RootLost \/ issuedIds = SecretIds)

=============================================================================
