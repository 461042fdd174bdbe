---------------------------- MODULE UnsealTokens ----------------------------
(***************************************************************************)
(* The credentials of regional appliances: the transit keys the vault      *)
(* phase reconciles against the committed region lists, and the unseal     *)
(* tokens the appliance-token phase mints, reissues and records.           *)
(*                                                                         *)
(* Both phases are Lambda invocations that make one remote call after      *)
(* another.  Each call is a step here, so an invocation can be overtaken   *)
(* by another one, or die, between any two of its calls.                   *)
(***************************************************************************)
EXTENDS Naturals, FiniteSets

CONSTANTS
  Regions,   \* appliance region labels
  Tokens,    \* unseal tokens OpenBao may ever issue (bounds the mints)
  Minters,   \* operators running mint-appliance-token.sh
  Commits,   \* the pairs of region lists a commit on main may carry
  NoToken,   \* no accessor
  NoRegion   \* no region

ASSUME CommitsAssumption ==
  Commits \subseteq [active : SUBSET Regions, retired : SUBSET Regions]
ASSUME SentinelsAssumption == NoToken \notin Tokens /\ NoRegion \notin Regions

VARIABLES
  \* OpenBao
  key,        \* regions that have a transit key
  guarded,    \* regions whose key still refuses deletion
  policy,     \* regions that have a policy
  role,       \* regions that have a token role
  issued,     \* the region whose policy each issued token carries
  live,       \* tokens that are neither revoked nor lapsed
  \* SSM
  accessor,   \* each region's unseal-token.accessor parameter
  \* what an operator holds
  delivered,  \* tokens whose wrapping token an operator was given
  named,      \* tokens whose accessor an error asked the operator to revoke
  \* the invocations
  vault,      \* the vault phase: at most one, under the state lock of the apply
  mint,       \* each operator's appliance-token invocation
  \* history
  superseded, \* tokens a reissue recorded its replacement over
  raced       \* regions with a mint under way during a retirement

sealVars == <<key, guarded, policy>>
vars == <<key, guarded, policy, role, issued, live, accessor, delivered,
          named, vault, mint, superseded, raced>>

-----------------------------------------------------------------------------
(* The vault phase's own memory.                                           *)

RetireSteps == {"revoke", "deleteRole", "deleteParameters",
                "deletePolicy", "allowDeletion", "deleteKey"}
VaultSteps == {"idle", "keys", "policy"} \cup RetireSteps

NoLists == [active |-> {}, retired |-> {}]
IdleVault == [pc |-> "idle", region |-> NoRegion, accessor |-> NoToken,
              lists |-> NoLists, toEnsure |-> {}, toRemove |-> {}]

VaultState == [pc : VaultSteps,
               region : Regions \cup {NoRegion},    \* being worked on
               accessor : Tokens \cup {NoToken},    \* as read by retireAppliance
               lists : [active : SUBSET Regions, retired : SUBSET Regions],
               toEnsure : SUBSET Regions,           \* keys still to ensure
               toRemove : SUBSET Regions]           \* regions still to retire

(* The appliance-token phase's own memory.                                 *)
MintSteps == {"idle", "lookup", "check", "role", "mint", "record",
              "undo", "revoke", "return"}

IdleMint == [pc |-> "idle", region |-> NoRegion, reissue |-> FALSE,
             old |-> NoToken, new |-> NoToken]

MintState == [pc : MintSteps,
              region : Regions \cup {NoRegion},
              reissue : BOOLEAN,                    \* --reissue, then the plan's action
              old : Tokens \cup {NoToken},          \* the accessor the plan read
              new : Tokens \cup {NoToken}]          \* the token just minted

Retiring(r) == vault.region = r /\ vault.pc \in RetireSteps
Minting(r) == \E m \in Minters : mint[m].pc # "idle" /\ mint[m].region = r

-----------------------------------------------------------------------------
Init ==
  /\ key = {} /\ guarded = {} /\ policy = {} /\ role = {}
  /\ issued = [t \in Tokens |-> NoRegion]
  /\ live = {}
  /\ accessor = [r \in Regions |-> NoToken]
  /\ delivered = {} /\ named = {}
  /\ vault = IdleVault
  /\ mint = [m \in Minters |-> IdleMint]
  /\ superseded = {} /\ raced = {}

-----------------------------------------------------------------------------
(* Reading the lists without the refusal.                                  *)
PlanUnguarded(existing, c) == TRUE

(* PlanApplianceKeys: every key OpenBao holds has to be named by exactly   *)
(* one of the two lists.                                                   *)
PlanAccepted(existing, c) ==
  /\ c.active \cap c.retired = {}
  /\ existing \subseteq c.active \cup c.retired

PlanRemove(existing, c) == (existing \cap c.retired) \ c.active

(* reconcileApplianceKeys lists the keys and plans; a refused plan changes *)
(* nothing, so only an accepted one is a step.                             *)
VaultStart(c) ==
  /\ vault.pc = "idle"
  /\ PlanAccepted(key, c)
  /\ vault' = [vault EXCEPT !.pc = "keys",
                            !.lists = c,
                            !.toEnsure = c.active,
                            !.toRemove = PlanRemove(key, c)]
  /\ UNCHANGED <<sealVars, role, issued, live, accessor, delivered, named,
                 mint, raced, superseded>>

(* EnsureApplianceTransitKeys: the key only if it is missing ...           *)
EnsureTransitKey(r) ==
  /\ vault.pc = "keys" /\ r \in vault.toEnsure
  /\ key' = key \cup {r}
  /\ guarded' = IF r \in key THEN guarded ELSE guarded \cup {r}
  /\ vault' = [vault EXCEPT !.pc = "policy", !.region = r]
  /\ UNCHANGED <<policy, role, issued, live, accessor, delivered, named, mint,
                 raced, superseded>>

(* ... and the policy on every pass.                                       *)
PutPolicy ==
  /\ vault.pc = "policy"
  /\ policy' = policy \cup {vault.region}
  /\ vault' = [vault EXCEPT !.pc = "keys", !.region = NoRegion,
                            !.toEnsure = @ \ {vault.region}]
  /\ UNCHANGED <<key, guarded, role, issued, live, accessor, delivered, named,
                 mint, raced, superseded>>

(* retireAppliance, for each region the plan removes, once every active    *)
(* region is ensured.  It starts by looking up the recorded accessor.      *)
RetireAppliance(r) ==
  /\ vault.pc = "keys" /\ vault.toEnsure = {} /\ r \in vault.toRemove
  /\ vault' = [vault EXCEPT !.pc = "revoke", !.region = r,
                            !.accessor = accessor[r]]
  /\ raced' = IF Minting(r) THEN raced \cup {r} ELSE raced
  /\ UNCHANGED <<sealVars, role, issued, live, accessor, delivered, named,
                 mint, superseded>>

(* RevokeTokenByAccessor: a token that is already dead is success.         *)
RetireRevoke ==
  /\ vault.pc = "revoke"
  /\ live' = live \ {vault.accessor}
  /\ vault' = [vault EXCEPT !.pc = "deleteRole", !.accessor = NoToken]
  /\ UNCHANGED <<sealVars, role, issued, accessor, delivered, named, mint,
                 raced, superseded>>

(* The key taken first instead of last.                                    *)
RemoveRoleAndKey ==
  /\ vault.pc = "deleteRole"
  /\ role' = role \ {vault.region}
  /\ key' = key \ {vault.region}
  /\ vault' = [vault EXCEPT !.pc = "deleteParameters"]
  /\ UNCHANGED <<guarded, policy, issued, live, accessor, delivered, named,
                 mint, raced, superseded>>

RemoveTokenRole ==
  /\ vault.pc = "deleteRole"
  /\ role' = role \ {vault.region}
  /\ vault' = [vault EXCEPT !.pc = "deleteParameters"]
  /\ UNCHANGED <<sealVars, issued, live, accessor, delivered, named, mint,
                 raced, superseded>>

(* DeletePrefix takes the whole appliance/<region> subtree.                *)
DeleteParameters ==
  /\ vault.pc = "deleteParameters"
  /\ accessor' = [accessor EXCEPT ![vault.region] = NoToken]
  /\ vault' = [vault EXCEPT !.pc = "deletePolicy"]
  /\ UNCHANGED <<sealVars, role, issued, live, delivered, named, mint, raced,
                 superseded>>

(* RemoveApplianceTransitKey: policy, deletion_allowed, key.               *)
DeletePolicy ==
  /\ vault.pc = "deletePolicy"
  /\ policy' = policy \ {vault.region}
  /\ vault' = [vault EXCEPT !.pc = "allowDeletion"]
  /\ UNCHANGED <<key, guarded, role, issued, live, accessor, delivered, named,
                 mint, raced, superseded>>

(* The key deleted without allowing it first.                              *)
AllowNothing ==
  /\ vault.pc = "allowDeletion"
  /\ vault' = [vault EXCEPT !.pc = "deleteKey"]
  /\ UNCHANGED <<sealVars, role, issued, live, accessor, delivered, named,
                 mint, raced, superseded>>

AllowDeletion ==
  /\ vault.pc = "allowDeletion"
  /\ guarded' = guarded \ {vault.region}
  /\ vault' = [vault EXCEPT !.pc = "deleteKey"]
  /\ UNCHANGED <<key, policy, role, issued, live, accessor, delivered, named,
                 mint, raced, superseded>>

DeleteKey ==
  /\ vault.pc = "deleteKey"
  /\ vault.region \notin guarded
  /\ key' = key \ {vault.region}
  /\ vault' = [vault EXCEPT !.pc = "keys", !.region = NoRegion,
                            !.toRemove = @ \ {vault.region}]
  /\ UNCHANGED <<guarded, policy, role, issued, live, accessor, delivered,
                 named, mint, raced, superseded>>

VaultDone ==
  /\ vault.pc = "keys" /\ vault.toEnsure = {} /\ vault.toRemove = {}
  /\ vault' = IdleVault
  /\ UNCHANGED <<sealVars, role, issued, live, accessor, delivered, named,
                 mint, raced, superseded>>

(* Any call of the phase may fail, and the Lambda may die or time out: in  *)
(* each case the invocation ends where it is and the next apply starts     *)
(* over.                                                                   *)
VaultAborts ==
  /\ vault.pc # "idle"
  /\ vault' = IdleVault
  /\ UNCHANGED <<sealVars, role, issued, live, accessor, delivered, named,
                 mint, raced, superseded>>

VaultProgress ==
  \/ \E r \in Regions : EnsureTransitKey(r) \/ RetireAppliance(r)
  \/ PutPolicy
  \/ RetireRevoke \/ RemoveTokenRole \/ DeleteParameters
  \/ DeletePolicy \/ AllowDeletion \/ DeleteKey \/ VaultDone

-----------------------------------------------------------------------------
(* The appliance-token phase.  The dry run that precedes a confirmed run   *)
(* only reads, and the confirmed run plans again from the start.           *)

Supersedes(m) == IF mint[m].reissue THEN {mint[m].old} ELSE {}
MintGoto(m, step) == mint' = [mint EXCEPT ![m].pc = step]

(* planApplianceToken refuses a region that has no transit key.            *)
StartMint(m, r, reissue) ==
  /\ mint[m].pc = "idle"
  /\ r \in key
  /\ mint' = [mint EXCEPT ![m] = [IdleMint EXCEPT !.pc = "lookup", !.region = r,
                                                  !.reissue = reissue]]
  /\ raced' = IF Retiring(r) THEN raced \cup {r} ELSE raced
  /\ UNCHANGED <<sealVars, role, issued, live, accessor, delivered, named,
                 vault, superseded>>

(* A --reissue taken at its word when no accessor is on record.            *)
LookupTrustingTheFlag(m) ==
  /\ mint[m].pc = "lookup"
  /\ LET found == accessor[mint[m].region] IN
       mint' = [mint EXCEPT ![m] =
                  [@ EXCEPT !.old = found,
                            !.pc = IF found = NoToken THEN "role" ELSE "check"]]
  /\ UNCHANGED <<sealVars, role, issued, live, accessor, delivered, named,
                 vault, raced, superseded>>

LookupAccessor(m) ==
  /\ mint[m].pc = "lookup"
  /\ LET found == accessor[mint[m].region] IN
       mint' = [mint EXCEPT ![m] =
                  [@ EXCEPT !.old = found,
                            !.reissue = @ /\ found # NoToken,
                            !.pc = IF found = NoToken THEN "role" ELSE "check"]]
  /\ UNCHANGED <<sealVars, role, issued, live, accessor, delivered, named,
                 vault, raced, superseded>>

(* No refusal: a confirmed run always mints.                               *)
DecideToMint(isLive, reissue) == "mint"

(* decideTokenAction: a dead token is minted over, a live one needs        *)
(* --reissue, and otherwise the run is refused.                            *)
DecideTokenAction(isLive, reissue) ==
  IF ~isLive THEN "mint" ELSE IF reissue THEN "reissue" ELSE "refuse"

CheckToken(m) ==
  /\ mint[m].pc = "check"
  /\ LET action == DecideTokenAction(mint[m].old \in live, mint[m].reissue) IN
       mint' = IF action = "refuse"
               THEN [mint EXCEPT ![m] = IdleMint]
               ELSE [mint EXCEPT ![m] = [@ EXCEPT !.pc = "role",
                                                  !.reissue = action = "reissue"]]
  /\ UNCHANGED <<sealVars, role, issued, live, accessor, delivered, named,
                 vault, raced, superseded>>

(* A reissue that revoked the previous token before minting the next one.  *)
WriteRoleRevokingFirst(m) ==
  /\ mint[m].pc = "role"
  /\ role' = role \cup {mint[m].region}
  /\ live' = IF mint[m].reissue THEN live \ {mint[m].old} ELSE live
  /\ MintGoto(m, "mint")
  /\ UNCHANGED <<sealVars, issued, accessor, delivered, named, vault, raced,
                 superseded>>

(* EnsureApplianceTokenRole.                                               *)
WriteTokenRole(m) ==
  /\ mint[m].pc = "role"
  /\ role' = role \cup {mint[m].region}
  /\ MintGoto(m, "mint")
  /\ UNCHANGED <<sealVars, issued, live, accessor, delivered, named, vault,
                 raced, superseded>>

(* MintApplianceToken goes through the role, which a retirement may have   *)
(* deleted meanwhile.  A response that is not wrapped is refused.          *)
MintToken(m, t) ==
  /\ mint[m].pc = "mint"
  /\ mint[m].region \in role
  /\ issued[t] = NoRegion
  /\ issued' = [issued EXCEPT ![t] = mint[m].region]
  /\ live' = live \cup {t}
  /\ \E next \in {"record", "undo"} :
       mint' = [mint EXCEPT ![m] = [@ EXCEPT !.pc = next, !.new = t]]
  /\ UNCHANGED <<sealVars, role, accessor, delivered, named, vault, raced,
                 superseded>>

(* recordMintedAccessor overwrites the parameter.  A failed write may or   *)
(* may not have reached the store.                                         *)
RecordAccessor(m) ==
  /\ mint[m].pc = "record"
  /\ accessor' = [accessor EXCEPT ![mint[m].region] = mint[m].new]
  /\ superseded' = superseded \cup Supersedes(m)
  /\ MintGoto(m, IF mint[m].reissue THEN "revoke" ELSE "return")
  /\ UNCHANGED <<sealVars, role, issued, live, delivered, named, vault, raced>>

RecordFails(m) ==
  /\ mint[m].pc = "record"
  /\ \/ UNCHANGED <<accessor, superseded>>
     \/ /\ accessor' = [accessor EXCEPT ![mint[m].region] = mint[m].new]
        /\ superseded' = superseded \cup Supersedes(m)
  /\ MintGoto(m, "undo")
  /\ UNCHANGED <<sealVars, role, issued, live, delivered, named, vault, raced>>

(* A token that could not be recorded, or came back unwrapped, is revoked; *)
(* if that fails too, the error names its accessor.                        *)
UndoMint(m) ==
  /\ mint[m].pc = "undo"
  /\ \/ live' = live \ {mint[m].new} /\ UNCHANGED named
     \/ named' = named \cup {mint[m].new} /\ UNCHANGED live
  /\ mint' = [mint EXCEPT ![m] = IdleMint]
  /\ UNCHANGED <<sealVars, role, issued, accessor, delivered, vault, raced,
                 superseded>>

(* A reissue revokes the previous token last.                              *)
RevokePrevious(m) ==
  /\ mint[m].pc = "revoke"
  /\ live' = live \ {mint[m].old}
  /\ MintGoto(m, "return")
  /\ UNCHANGED <<sealVars, role, issued, accessor, delivered, named, vault,
                 raced, superseded>>

RevokePreviousFails(m) ==
  /\ mint[m].pc = "revoke"
  /\ named' = named \cup {mint[m].old}
  /\ mint' = [mint EXCEPT ![m] = IdleMint]
  /\ UNCHANGED <<sealVars, role, issued, live, accessor, delivered, vault,
                 raced, superseded>>

(* The response carries the wrapping token to the operator.                *)
ReturnToken(m) ==
  /\ mint[m].pc = "return"
  /\ delivered' = delivered \cup {mint[m].new}
  /\ mint' = [mint EXCEPT ![m] = IdleMint]
  /\ UNCHANGED <<sealVars, role, issued, live, accessor, named, vault, raced,
                 superseded>>

(* The invocation dies, times out, or returns an error nothing handles.    *)
MintAborts(m) ==
  /\ mint[m].pc # "idle"
  /\ mint' = [mint EXCEPT ![m] = IdleMint]
  /\ UNCHANGED <<sealVars, role, issued, live, accessor, delivered, named,
                 vault, raced, superseded>>

MintProgress(m) ==
  \/ LookupAccessor(m) \/ CheckToken(m) \/ WriteTokenRole(m)
  \/ \E t \in Tokens : MintToken(m, t)
  \/ RecordAccessor(m) \/ RecordFails(m) \/ UndoMint(m)
  \/ RevokePrevious(m) \/ RevokePreviousFails(m) \/ ReturnToken(m)

-----------------------------------------------------------------------------
(* A token nobody renews for its period dies.  The period is days and an   *)
(* invocation minutes, so a token still in the minting invocation's hands  *)
(* does not lapse.                                                         *)
Lapse(t) ==
  /\ t \in live
  /\ \A m \in Minters : mint[m].new # t
  /\ live' = live \ {t}
  /\ UNCHANGED <<sealVars, role, issued, accessor, delivered, named, vault,
                 mint, raced, superseded>>

Next ==
  \/ \E c \in Commits : VaultStart(c)
  \/ VaultProgress
  \/ VaultAborts
  \/ \E m \in Minters :
       \/ \E r \in Regions, reissue \in BOOLEAN : StartMint(m, r, reissue)
       \/ MintProgress(m)
       \/ MintAborts(m)
  \/ \E t \in Tokens : Lapse(t)

Spec == Init /\ [][Next]_vars

(* Applies keep being run and an invocation keeps taking steps until it    *)
(* ends: Lambda runs it to its end or kills it, which is VaultAborts.      *)
FairSpec ==
  /\ Spec
  /\ WF_vars(\E c \in Commits : VaultStart(c))
  /\ WF_vars(VaultProgress)

-----------------------------------------------------------------------------
TypeOK ==
  /\ key \subseteq Regions /\ guarded \subseteq Regions
  /\ policy \subseteq Regions /\ role \subseteq Regions
  /\ issued \in [Tokens -> Regions \cup {NoRegion}]
  /\ live \subseteq Tokens
  /\ accessor \in [Regions -> Tokens \cup {NoToken}]
  /\ delivered \subseteq Tokens /\ named \subseteq Tokens
  /\ vault \in VaultState
  /\ mint \in [Minters -> MintState]
  /\ superseded \subseteq Tokens /\ raced \subseteq Regions

(* Someone or something can still revoke the token by its accessor: it is  *)
(* on record, a running invocation holds it, or an error named it.         *)
Known(t) ==
  \/ \E r \in Regions : accessor[r] = t
  \/ t \in named
  \/ vault.accessor = t
  \/ \E m \in Minters : t \in {mint[m].old, mint[m].new}

(* A credential an operator was handed never drops off the record, with    *)
(* two exceptions: a reissue recorded its replacement, or the mint ran     *)
(* while its region was being retired.  This is what the refusal to mint   *)
(* over a live token, and the undoing of a failed record, are for.         *)
HandedTokensStayOnRecord ==
  \A t \in live \cap delivered :
    Known(t) \/ t \in superseded \/ issued[t] \in raced

(* A region whose key is gone has been taken down whole: no policy ever,   *)
(* and, unless a mint overlapped the retirement, no token role, no record  *)
(* and no handed-out credential but one a reissue lost.  A retirement that *)
(* stops halfway leaves the key, so the next apply starts it over.         *)
NothingOutlivesTheKey ==
  /\ policy \subseteq key
  /\ \A r \in Regions \ (key \cup raced) :
       /\ r \notin role
       /\ accessor[r] = NoToken
       /\ \A t \in live \cap delivered : issued[t] = r => t \in superseded

(* When a reconciliation has done its work, the keys OpenBao holds and     *)
(* their policies are exactly the committed active list: nothing the lists *)
(* do not account for is left standing or was passed over.                 *)
KeysFollowTheLists ==
  vault.pc = "keys" /\ vault.toEnsure = {} /\ vault.toRemove = {} =>
    key = vault.lists.active /\ policy = key

(* A key is destroyed only by an apply whose own lists retire its region   *)
(* and do not keep it, and only after OpenBao's deletion guard was lifted. *)
KeysDieOnlyByRetirement ==
  [][\A r \in key \ key' :
       r \in vault.lists.retired \ vault.lists.active /\ r \notin guarded]_vars

(* No step of a mint takes a working credential away from a node without a *)
(* live, recorded replacement, a failed reissue included; a retirement of  *)
(* the region is what may.                                                 *)
ReissueNeverStrandsANode ==
  [][mint' # mint =>
       \A t \in (live \ live') \cap delivered :
         \/ accessor[issued[t]] \in live' \ {t}
         \/ issued[t] \in raced]_vars

(* Once every apply retires the region and none is cut short, the region's *)
(* key and policy go, wherever the earlier attempts stopped.  An apply may *)
(* still die with nothing left to do: it leaves what a complete one does.  *)
RetirementFinishes ==
  \A r \in Regions :
    <>[][vault.pc = "idle" /\ vault'.pc # "idle" => r \in vault'.lists.retired]_vars
    /\ <>[][VaultAborts => VaultDone]_vars
      => <>[](r \notin key /\ r \notin policy)

=============================================================================
