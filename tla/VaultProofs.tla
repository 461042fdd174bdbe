---------------------------- MODULE VaultProofs -----------------------------
(***************************************************************************)
(* What holds of the vault phase's two halves.  Of UnsealTokens, for any   *)
(* regions, tokens, operators and committed lists; and of VaultInit, for   *)
(* any number of initialisations and of secret_ids: the root token comes   *)
(* first, a working secret_id is kept, and a run that completes leaves     *)
(* credentials that work.                                                  *)
(***************************************************************************)
EXTENDS UnsealTokens, VaultInit, TLAPS

USE DEF sealVars

-----------------------------------------------------------------------------
(* A step that is in the middle of something holds what it works with.     *)
MintHolds(m) ==
  /\ mint[m].pc # "idle" => mint[m].region \in Regions
  /\ mint[m].pc \in {"check", "revoke"} => mint[m].old \in Tokens
  /\ mint[m].pc \in {"role", "mint", "record"} /\ mint[m].reissue
       => mint[m].old \in Tokens
  /\ mint[m].pc \in {"record", "undo", "revoke", "return"}
       => mint[m].new \in Tokens

VaultHolds ==
  vault.pc \in {"policy"} \cup RetireSteps => vault.region \in Regions

TypeInv ==
  /\ TypeOK
  /\ VaultHolds
  /\ \A m \in Minters : MintHolds(m)

LEMMA TypeInit == Init => TypeInv
  BY DEF Init, TypeInv, TypeOK, VaultHolds, MintHolds, VaultState, MintState,
         IdleVault, IdleMint, NoLists, VaultSteps, MintSteps, RetireSteps

(* Every step of the vault phase keeps its own memory well formed.         *)
LEMMA TypeVaultStep ==
  ASSUME TypeInv,
         VaultProgress \/ VaultAborts \/ (\E c \in Commits : VaultStart(c))
  PROVE  TypeInv'
<1> USE DEF TypeInv, TypeOK, VaultHolds, MintHolds, VaultState, VaultSteps,
             RetireSteps
<1>1. CASE \E c \in Commits : VaultStart(c)
  <2>1. PICK c \in Commits : VaultStart(c)
    BY <1>1
  <2>2. c \in [active : SUBSET Regions, retired : SUBSET Regions]
    BY CommitsAssumption DEF CommitsAssumption
  <2>3. PlanRemove(key, c) \subseteq Regions
    BY DEF PlanRemove
  <2>4. vault' \in VaultState /\ vault'.pc = "keys"
    BY <2>1, <2>2, <2>3 DEF VaultStart
  <2>5. QED
    BY <2>1, <2>4 DEF VaultStart
<1>2. CASE \E r \in Regions : EnsureTransitKey(r)
  <2>1. PICK r \in Regions : EnsureTransitKey(r)
    BY <1>2
  <2>2. vault' \in VaultState /\ vault'.region \in Regions
    BY <2>1 DEF EnsureTransitKey
  <2>3. key' \subseteq Regions /\ guarded' \subseteq Regions
    BY <2>1 DEF EnsureTransitKey
  <2>4. QED
    BY <2>1, <2>2, <2>3 DEF EnsureTransitKey
<1>3. CASE \E r \in Regions : RetireAppliance(r)
  <2>1. PICK r \in Regions : RetireAppliance(r)
    BY <1>3
  <2>2. vault' \in VaultState /\ vault'.region \in Regions
    BY <2>1 DEF RetireAppliance
  <2>3. raced' \subseteq Regions
    BY <2>1 DEF RetireAppliance
  <2>4. QED
    BY <2>1, <2>2, <2>3 DEF RetireAppliance
<1>4. CASE PutPolicy
  BY <1>4 DEF PutPolicy
<1>5. CASE RetireRevoke
  BY <1>5 DEF RetireRevoke
<1>6. CASE RemoveTokenRole
  BY <1>6 DEF RemoveTokenRole
<1>7. CASE DeleteParameters
  BY <1>7 DEF DeleteParameters
<1>8. CASE DeletePolicy
  BY <1>8 DEF DeletePolicy
<1>9. CASE AllowDeletion
  BY <1>9 DEF AllowDeletion
<1>10. CASE DeleteKey
  BY <1>10 DEF DeleteKey
<1>11. CASE VaultDone
  BY <1>11 DEF VaultDone, IdleVault, NoLists
<1>12. CASE VaultAborts
  BY <1>12 DEF VaultAborts, IdleVault, NoLists
<1>13. QED
  BY <1>1, <1>2, <1>3, <1>4, <1>5, <1>6, <1>7, <1>8, <1>9, <1>10, <1>11,
     <1>12 DEF VaultProgress

(* Every step of a mint keeps its own memory well formed.                  *)
LEMMA TypeMintStep ==
  ASSUME TypeInv,
         NEW m \in Minters,
         \/ \E r \in Regions, reissue \in BOOLEAN : StartMint(m, r, reissue)
         \/ MintProgress(m)
         \/ MintAborts(m)
  PROVE  TypeInv'
<1> USE DEF TypeInv, TypeOK, VaultHolds, MintHolds, MintState, MintSteps
<1>1. mint[m] \in MintState
  OBVIOUS
<1>2. ASSUME NEW r \in Regions, NEW reissue \in BOOLEAN,
             StartMint(m, r, reissue)
      PROVE  TypeInv'
  BY <1>1, <1>2 DEF StartMint, IdleMint
<1>3. CASE LookupAccessor(m)
  BY <1>1, <1>3 DEF LookupAccessor
<1>4. CASE CheckToken(m)
  BY <1>1, <1>4 DEF CheckToken, DecideTokenAction, IdleMint
<1>5. CASE WriteTokenRole(m)
  BY <1>1, <1>5 DEF WriteTokenRole, MintGoto
<1>6. ASSUME NEW t \in Tokens, MintToken(m, t)
      PROVE  TypeInv'
  <2>1. PICK next \in {"record", "undo"} :
          mint' = [mint EXCEPT ![m] = [@ EXCEPT !.pc = next, !.new = t]]
    BY <1>6 DEF MintToken
  <2>2. mint[m].pc = "mint"
    BY <1>6 DEF MintToken
  <2>3. mint' \in [Minters -> MintState] /\ \A n \in Minters : MintHolds(n)'
    BY <1>1, <2>1, <2>2
  <2>4. QED
    BY <1>6, <2>3 DEF MintToken
<1>7. CASE RecordAccessor(m)
  BY <1>1, <1>7 DEF RecordAccessor, MintGoto, Supersedes
<1>8. CASE RecordFails(m)
  BY <1>1, <1>8 DEF RecordFails, MintGoto, Supersedes
<1>9. CASE UndoMint(m)
  BY <1>1, <1>9 DEF UndoMint, IdleMint
<1>10. CASE RevokePrevious(m)
  BY <1>1, <1>10 DEF RevokePrevious, MintGoto
<1>11. CASE RevokePreviousFails(m)
  BY <1>1, <1>11 DEF RevokePreviousFails, IdleMint
<1>12. CASE ReturnToken(m)
  BY <1>1, <1>12 DEF ReturnToken, IdleMint
<1>13. CASE MintAborts(m)
  BY <1>1, <1>13 DEF MintAborts, IdleMint
<1>14. QED
  BY <1>2, <1>3, <1>4, <1>5, <1>6, <1>7, <1>8, <1>9, <1>10, <1>11, <1>12,
     <1>13 DEF MintProgress

LEMMA TypeStep == TypeInv /\ [Next]_vars => TypeInv'
<1> SUFFICES ASSUME TypeInv, [Next]_vars PROVE TypeInv'
  OBVIOUS
<1>1. CASE \E t \in Tokens : Lapse(t)
  BY <1>1 DEF Lapse, TypeInv, TypeOK, VaultHolds, MintHolds
<1>2. CASE UNCHANGED vars
  BY <1>2 DEF vars, TypeInv, TypeOK, VaultHolds, MintHolds
<1>3. QED
  BY <1>1, <1>2, TypeVaultStep, TypeMintStep DEF Next

(* Every variable keeps its type, and an invocation in the middle of a     *)
(* call always knows the region and the tokens it is working on.           *)
THEOREM TypesHold == Spec => []TypeOK
<1>1. Spec => []TypeInv
  BY TypeInit, TypeStep, PTL DEF Spec
<1>2. TypeInv => TypeOK
  BY DEF TypeInv
<1>3. QED
  BY <1>1, <1>2, PTL

-----------------------------------------------------------------------------
(* What makes a reconciliation correct while it is under way: the keys it  *)
(* has not looked at yet are on its lists, the active regions it is done   *)
(* with have their policy, and a region is taken down only for being in    *)
(* the retired list, policy before key.                                    *)
ReconcileInv ==
  /\ policy \subseteq key
  /\ vault.pc # "idle" =>
       /\ vault.toRemove \subseteq vault.lists.retired \ vault.lists.active
       /\ vault.toEnsure \subseteq vault.lists.active
       /\ key \subseteq vault.lists.active \cup vault.toRemove
       /\ vault.lists.active \ vault.toEnsure \subseteq policy
  /\ vault.pc = "policy" => vault.region \in vault.toEnsure \cap key
  /\ vault.pc \in RetireSteps => vault.region \in vault.toRemove
  /\ vault.pc \in {"allowDeletion", "deleteKey"} => vault.region \notin policy

Inv == TypeInv /\ ReconcileInv

LEMMA ReconcileInit == Init => ReconcileInv
  BY DEF Init, ReconcileInv, IdleVault, NoLists, RetireSteps

(* A mint or a lapse touches nothing a reconciliation depends on.          *)
LEMMA MintLeavesVault ==
  ASSUME \/ \E m \in Minters :
              \/ \E r \in Regions, reissue \in BOOLEAN : StartMint(m, r, reissue)
              \/ MintProgress(m)
              \/ MintAborts(m)
         \/ \E t \in Tokens : Lapse(t)
  PROVE  UNCHANGED <<key, guarded, policy, vault>>
BY DEF StartMint, MintProgress, LookupAccessor, CheckToken, WriteTokenRole,
       MintToken, RecordAccessor, RecordFails, UndoMint, RevokePrevious,
       RevokePreviousFails, ReturnToken, MintAborts, Lapse

LEMMA ReconcileVaultStep ==
  ASSUME TypeInv, ReconcileInv,
         VaultProgress \/ VaultAborts \/ (\E c \in Commits : VaultStart(c))
  PROVE  ReconcileInv'
<1> USE DEF TypeInv, TypeOK, VaultHolds, VaultState, RetireSteps, ReconcileInv
<1>1. CASE \E c \in Commits : VaultStart(c)
  <2>1. PICK c \in Commits : VaultStart(c)
    BY <1>1
  <2>2. PlanRemove(key, c) \subseteq c.retired \ c.active
    BY DEF PlanRemove
  <2>3. key \subseteq c.active \cup PlanRemove(key, c)
    BY <2>1 DEF VaultStart, PlanAccepted, PlanRemove
  <2>4. QED
    BY <2>1, <2>2, <2>3 DEF VaultStart
<1>2. CASE \E r \in Regions : EnsureTransitKey(r)
  BY <1>2 DEF EnsureTransitKey
<1>3. CASE \E r \in Regions : RetireAppliance(r)
  BY <1>3 DEF RetireAppliance
<1>4. CASE PutPolicy
  BY <1>4 DEF PutPolicy
<1>5. CASE RetireRevoke
  BY <1>5 DEF RetireRevoke
<1>6. CASE RemoveTokenRole
  BY <1>6 DEF RemoveTokenRole
<1>7. CASE DeleteParameters
  BY <1>7 DEF DeleteParameters
<1>8. CASE DeletePolicy
  BY <1>8 DEF DeletePolicy
<1>9. CASE AllowDeletion
  BY <1>9 DEF AllowDeletion
<1>10. CASE DeleteKey
  BY <1>10 DEF DeleteKey
<1>11. CASE VaultDone
  BY <1>11 DEF VaultDone, IdleVault
<1>12. CASE VaultAborts
  BY <1>12 DEF VaultAborts, IdleVault
<1>13. QED
  BY <1>1, <1>2, <1>3, <1>4, <1>5, <1>6, <1>7, <1>8, <1>9, <1>10, <1>11,
     <1>12 DEF VaultProgress

LEMMA ReconcileStep == TypeInv /\ ReconcileInv /\ [Next]_vars => ReconcileInv'
<1> SUFFICES ASSUME TypeInv, ReconcileInv, [Next]_vars PROVE ReconcileInv'
  OBVIOUS
<1>1. CASE UNCHANGED <<key, guarded, policy, vault>>
  BY <1>1 DEF ReconcileInv
<1>2. QED
  BY <1>1, MintLeavesVault, ReconcileVaultStep DEF Next, vars

LEMMA SpecInv == Spec => []Inv
  BY TypeInit, ReconcileInit, TypeStep, ReconcileStep, PTL DEF Spec, Inv

(* A reconciliation that has done its work leaves exactly the committed    *)
(* active regions with a key and a policy, whatever mints ran beside it    *)
(* and wherever earlier reconciliations stopped.                           *)
THEOREM KeysFollow == Spec => []KeysFollowTheLists
<1>1. Inv => KeysFollowTheLists
  BY DEF Inv, TypeInv, TypeOK, VaultState, ReconcileInv, KeysFollowTheLists
<1>2. QED
  BY <1>1, SpecInv, PTL

(* A transit key is destroyed only by a reconciliation whose lists retire  *)
(* its region, and only once OpenBao's deletion guard has been lifted.     *)
THEOREM KeysDie == Spec => KeysDieOnlyByRetirement
<1>1. ASSUME Inv, [Next]_vars, NEW r \in key \ key'
      PROVE  r \in vault.lists.retired \ vault.lists.active /\ r \notin guarded
  <2>1. DeleteKey
    BY <1>1, MintLeavesVault
       DEF Next, vars, VaultProgress, VaultStart, EnsureTransitKey, PutPolicy,
           RetireAppliance, RetireRevoke, RemoveTokenRole, DeleteParameters,
           DeletePolicy, AllowDeletion, VaultDone, VaultAborts
  <2>2. QED
    BY <1>1, <2>1 DEF DeleteKey, Inv, ReconcileInv, RetireSteps
<1>2. Inv /\ [Next]_vars =>
        [\A r \in key \ key' :
           r \in vault.lists.retired \ vault.lists.active /\ r \notin guarded]_vars
  BY <1>1
<1>3. QED
  BY <1>2, SpecInv, PTL DEF Spec, KeysDieOnlyByRetirement
-----------------------------------------------------------------------------
(* Why one operator at a time loses no token.  A token is issued once, for *)
(* one region, and everything that holds one agrees on which.              *)
OneOperator == \A m, n \in Minters : m = n

TokensAreTheRegions ==
  /\ \A t \in delivered : issued[t] \in Regions
  /\ \A r \in Regions : accessor[r] # NoToken => issued[accessor[r]] = r
  /\ vault.accessor # NoToken =>
       vault.pc = "revoke" /\ issued[vault.accessor] = vault.region

MintsOwnTokens(m) ==
  /\ mint[m].pc \in {"lookup", "check", "role", "mint"} => mint[m].new = NoToken
  /\ mint[m].old # NoToken => issued[mint[m].old] = mint[m].region
  /\ mint[m].new # NoToken =>
       /\ issued[mint[m].new] = mint[m].region
       /\ mint[m].new \notin delivered \cup {mint[m].old}

(* A mint no retirement overlapped still finds the key, and on record what *)
(* it read or wrote there: a token it may replace, or its own.             *)
MintUndisturbed(m) ==
  LET r == mint[m].region IN
    mint[m].pc # "idle" /\ r \notin raced =>
      /\ r \in key /\ ~Retiring(r)
      /\ mint[m].pc \in {"check", "role", "mint", "record"} =>
           accessor[r] = mint[m].old
      /\ mint[m].pc \in {"role", "mint", "record"} /\ ~mint[m].reissue =>
           mint[m].old \notin live
      /\ mint[m].pc \in {"revoke", "return"} => accessor[r] = mint[m].new
      /\ mint[m].pc \in {"record", "revoke", "return"} => mint[m].new \in live

(* A retirement no mint overlapped revokes what is on record before it     *)
(* deletes the record, and what it deleted stays deleted.                  *)
RetirementUndisturbed ==
  LET r == vault.region IN
    vault.pc \in RetireSteps /\ r \notin raced =>
      /\ vault.pc = "revoke" => vault.accessor = accessor[r]
      /\ vault.pc \in {"deleteRole", "deleteParameters"} => accessor[r] \notin live
      /\ vault.pc \in RetireSteps \ {"revoke", "deleteRole"} => r \notin role
      /\ vault.pc \in {"deletePolicy", "allowDeletion", "deleteKey"} =>
           accessor[r] = NoToken

NothingRecordedWithoutKey ==
  \A r \in Regions \ (key \cup raced) : r \notin role /\ accessor[r] = NoToken

HandedTokensRecorded ==
  \A t \in live \cap delivered :
    t \in superseded \/ issued[t] \in raced \/ accessor[issued[t]] = t

TokenInv ==
  /\ TokensAreTheRegions
  /\ RetirementUndisturbed
  /\ NothingRecordedWithoutKey
  /\ HandedTokensRecorded
  /\ \A m \in Minters : MintsOwnTokens(m) /\ MintUndisturbed(m)


LEMMA TokenInit == Init => TokenInv
<1> SUFFICES ASSUME Init PROVE TokenInv
  OBVIOUS
<1>1. \A m \in Minters : MintsOwnTokens(m) /\ MintUndisturbed(m)
  BY DEF Init, IdleMint, MintsOwnTokens, MintUndisturbed
<1>2. QED
  BY <1>1 DEF Init, IdleVault, TokenInv, TokensAreTheRegions, RetireSteps,
              RetirementUndisturbed, NothingRecordedWithoutKey,
              HandedTokensRecorded

(* The vault phase touches no mint and no token but the one it revokes, so *)
(* a mint is disturbed only in a region under retirement.                  *)
LEMMA VaultLeavesMints ==
  ASSUME VaultProgress \/ VaultAborts \/ (\E c \in Commits : VaultStart(c))
  PROVE  UNCHANGED <<issued, delivered, mint, superseded, named>>
BY DEF VaultProgress, VaultAborts, VaultStart, EnsureTransitKey, PutPolicy,
       RetireAppliance, RetireRevoke, RemoveTokenRole, DeleteParameters,
       DeletePolicy, AllowDeletion, DeleteKey, VaultDone

LEMMA TokenVaultStep ==
  ASSUME TypeInv, TokenInv,
         VaultProgress \/ VaultAborts \/ (\E c \in Commits : VaultStart(c))
  PROVE  TokenInv'
<1> USE DEF TypeInv, TypeOK, VaultHolds, VaultState, RetireSteps, TokenInv,
            TokensAreTheRegions, RetirementUndisturbed,
            NothingRecordedWithoutKey, HandedTokensRecorded, Retiring
<1>1. UNCHANGED <<issued, delivered, mint, superseded>>
  BY VaultLeavesMints
<1>2. ASSUME raced \subseteq raced', UNCHANGED <<live, accessor>>, key \subseteq key',
             \A r \in Regions : Retiring(r)' /\ Minting(r) => Retiring(r) \/ r \in raced'
      PROVE  \A m \in Minters : (MintsOwnTokens(m) /\ MintUndisturbed(m))'
  BY <1>1, <1>2 DEF MintsOwnTokens, MintUndisturbed, MintHolds, Minting
<1>3. CASE \E c \in Commits : VaultStart(c)
  BY <1>1, <1>2, <1>3 DEF VaultStart
<1>4. CASE \E r \in Regions : EnsureTransitKey(r)
  BY <1>1, <1>2, <1>4 DEF EnsureTransitKey
<1>5. CASE \E r \in Regions : RetireAppliance(r)
  <2>1. PICK r \in Regions : RetireAppliance(r)
    BY <1>5
  <2>2. /\ vault'.pc = "revoke" /\ vault'.region = r /\ vault'.accessor = accessor[r]
        /\ raced \subseteq raced' /\ (Minting(r) => r \in raced')
        /\ UNCHANGED <<live, accessor, key, role>>
    BY <2>1 DEF RetireAppliance
  <2>3. \A m \in Minters : (MintsOwnTokens(m) /\ MintUndisturbed(m))'
    BY <1>2, <2>2
  <2>4. QED
    BY <1>1, <2>2, <2>3
<1>6. CASE PutPolicy
  BY <1>1, <1>2, <1>6 DEF PutPolicy
<1>7. CASE RetireRevoke
  <2>1. /\ vault.pc = "revoke" /\ vault.region \in Regions
        /\ vault'.pc = "deleteRole" /\ vault'.region = vault.region
        /\ vault'.accessor = NoToken
        /\ live' = live \ {vault.accessor}
        /\ UNCHANGED <<accessor, raced, key, role>>
    BY <1>7 DEF RetireRevoke
  <2>2. ASSUME NEW m \in Minters
        PROVE  (MintsOwnTokens(m) /\ MintUndisturbed(m))'
    <3>1. mint[m].new \in Tokens /\ mint[m].region # vault.region
            => mint[m].new # vault.accessor
      BY SentinelsAssumption DEF SentinelsAssumption, MintsOwnTokens
    <3>2. mint[m].pc \in {"record", "revoke", "return"} => mint[m].new \in Tokens
      BY DEF MintHolds
    <3>3. QED
      BY <1>1, <2>1, <3>1, <3>2 DEF MintsOwnTokens, MintUndisturbed
  <2>3. QED
    BY <1>1, <2>1, <2>2
<1>8. CASE RemoveTokenRole
  BY <1>1, <1>2, <1>8 DEF RemoveTokenRole
<1>9. CASE DeleteParameters
  <2>1. /\ vault.region \in Regions /\ vault'.region = vault.region
        /\ vault'.pc = "deletePolicy" /\ vault'.accessor = vault.accessor
        /\ accessor' = [accessor EXCEPT ![vault.region] = NoToken]
        /\ UNCHANGED <<live, raced, key, role>>
    BY <1>9 DEF DeleteParameters
  <2>2. \A m \in Minters : (MintsOwnTokens(m) /\ MintUndisturbed(m))'
    BY <1>1, <1>9, <2>1 DEF DeleteParameters, MintsOwnTokens, MintUndisturbed, MintHolds
  <2>3. HandedTokensRecorded'
    BY <1>1, <1>9, <2>1, SentinelsAssumption DEF DeleteParameters, SentinelsAssumption
  <2>4. QED
    BY <1>1, <1>9, <2>1, <2>2, <2>3, SentinelsAssumption
       DEF DeleteParameters, SentinelsAssumption
<1>10. CASE DeletePolicy
  BY <1>1, <1>2, <1>10 DEF DeletePolicy
<1>11. CASE AllowDeletion
  BY <1>1, <1>2, <1>11 DEF AllowDeletion
<1>12. CASE DeleteKey
  BY <1>1, <1>12 DEF DeleteKey, MintsOwnTokens, MintUndisturbed, MintHolds
<1>13. CASE VaultDone
  BY <1>1, <1>2, <1>13 DEF VaultDone, IdleVault
<1>14. CASE VaultAborts
  BY <1>1, <1>2, <1>14 DEF VaultAborts, IdleVault
<1>15. QED
  BY <1>3, <1>4, <1>5, <1>6, <1>7, <1>8, <1>9, <1>10, <1>11, <1>12, <1>13,
     <1>14 DEF VaultProgress

LEMMA TokenMintStep ==
  ASSUME OneOperator, TypeInv, TokenInv, NEW m \in Minters,
         \/ \E r \in Regions, reissue \in BOOLEAN : StartMint(m, r, reissue)
         \/ MintProgress(m)
         \/ MintAborts(m)
  PROVE  TokenInv'
<1> DEFINE r == mint[m].region
<1> USE SentinelsAssumption
    DEF SentinelsAssumption, TypeInv, TypeOK, MintHolds, TokenInv,
        TokensAreTheRegions, RetirementUndisturbed, NothingRecordedWithoutKey,
        HandedTokensRecorded, MintsOwnTokens, MintUndisturbed, Retiring
<1>1. UNCHANGED <<key, vault>>
  BY MintLeavesVault
<1>2. /\ Minters = {m} /\ mint[m] \in MintState
      /\ mint[m].pc # "idle" => r \in Regions
  BY DEF OneOperator
<1>3. ASSUME UNCHANGED <<issued, role, live, accessor, delivered, superseded>>,
             raced \subseteq raced',
             (MintsOwnTokens(m) /\ MintUndisturbed(m))'
      PROVE  TokenInv'
  BY <1>1, <1>2, <1>3
<1>4. ASSUME mint' = [mint EXCEPT ![m] = IdleMint]
      PROVE  (MintsOwnTokens(m) /\ MintUndisturbed(m))'
  BY <1>2, <1>4 DEF IdleMint
<1>5. ASSUME NEW q \in Regions, NEW reissue \in BOOLEAN, StartMint(m, q, reissue)
      PROVE  TokenInv'
  <2>1. /\ mint'[m] = [IdleMint EXCEPT !.pc = "lookup", !.region = q,
                                       !.reissue = reissue]
        /\ q \in key /\ (Retiring(q) => q \in raced') /\ raced \subseteq raced'
        /\ UNCHANGED <<issued, role, live, accessor, delivered, superseded>>
    BY <1>2, <1>5 DEF StartMint
  <2>2. (MintsOwnTokens(m) /\ MintUndisturbed(m))'
    BY <1>1, <2>1 DEF IdleMint
  <2>3. QED
    BY <1>3, <2>1, <2>2
<1>6. CASE LookupAccessor(m)
  <2>1. /\ mint'[m].old = accessor[r] /\ mint'[m].region = r
        /\ mint'[m].new = mint[m].new /\ mint[m].pc = "lookup"
        /\ \/ mint'[m].pc = "role" /\ accessor[r] = NoToken
           \/ mint'[m].pc = "check" /\ accessor[r] # NoToken
        /\ UNCHANGED <<issued, role, live, accessor, delivered, superseded, raced>>
    BY <1>2, <1>6 DEF LookupAccessor, MintState
  <2>2. (MintsOwnTokens(m) /\ MintUndisturbed(m))'
    BY <1>1, <1>2, <2>1
  <2>3. QED
    BY <1>3, <2>1, <2>2
<1>7. CASE CheckToken(m)
  BY <1>1, <1>2, <1>3, <1>4, <1>7 DEF CheckToken, DecideTokenAction, MintState
<1>8. CASE WriteTokenRole(m)
  BY <1>1, <1>2, <1>8 DEF WriteTokenRole, MintGoto, MintState
<1>9. ASSUME NEW t \in Tokens, MintToken(m, t)
      PROVE  TokenInv'
  <2>1. PICK next \in {"record", "undo"} :
          mint' = [mint EXCEPT ![m] = [@ EXCEPT !.pc = next, !.new = t]]
    BY <1>9 DEF MintToken
  <2>2. /\ mint'[m].pc \in {"record", "undo"} /\ mint'[m].new = t
        /\ mint'[m].region = r /\ mint'[m].old = mint[m].old
        /\ mint'[m].reissue = mint[m].reissue
    BY <1>2, <2>1 DEF MintState
  <2>3. /\ mint[m].pc = "mint" /\ issued[t] = NoRegion /\ r \in Regions
        /\ issued' = [issued EXCEPT ![t] = r] /\ live' = live \cup {t}
        /\ UNCHANGED <<role, accessor, delivered, raced, superseded>>
    BY <1>2, <1>9 DEF MintToken
  <2>4. \A u \in Tokens : issued[u] # NoRegion => u # t /\ issued'[u] = issued[u]
    BY <2>3
  <2>5. (MintsOwnTokens(m) /\ MintUndisturbed(m))'
    BY <1>1, <1>2, <2>2, <2>3, <2>4
  <2>6. TokensAreTheRegions'
    BY <1>1, <2>3, <2>4 DEF VaultHolds, VaultState, RetireSteps
  <2>7. RetirementUndisturbed' /\ NothingRecordedWithoutKey'
    BY <1>1, <2>3, <2>4 DEF VaultHolds, RetireSteps
  <2>8. HandedTokensRecorded'
    BY <2>3, <2>4
  <2>9. QED
    BY <1>2, <2>5, <2>6, <2>7, <2>8
<1>10. CASE RecordAccessor(m)
  BY <1>1, <1>2, <1>10 DEF RecordAccessor, MintGoto, Supersedes, MintState
<1>11. CASE RecordFails(m)
  <2>1. /\ mint' = [mint EXCEPT ![m].pc = "undo"] /\ mint[m].pc = "record"
        /\ UNCHANGED <<role, issued, live, delivered, raced>>
    BY <1>11 DEF RecordFails, MintGoto
  <2>2. CASE UNCHANGED <<accessor, superseded>>
    BY <1>1, <1>2, <1>3, <2>1, <2>2 DEF MintState
  <2>3. CASE /\ accessor' = [accessor EXCEPT ![r] = mint[m].new]
             /\ superseded' = superseded \cup Supersedes(m)
    BY <1>1, <1>2, <2>1, <2>3 DEF Supersedes, MintState
  <2>4. QED
    BY <1>11, <2>2, <2>3 DEF RecordFails
<1>12. CASE UndoMint(m)
  BY <1>1, <1>2, <1>4, <1>12 DEF UndoMint
<1>13. CASE RevokePrevious(m)
  BY <1>1, <1>2, <1>13 DEF RevokePrevious, MintGoto, MintState
<1>14. CASE RevokePreviousFails(m)
  BY <1>1, <1>2, <1>3, <1>4, <1>14 DEF RevokePreviousFails
<1>15. CASE ReturnToken(m)
  BY <1>1, <1>2, <1>4, <1>15 DEF ReturnToken
<1>16. CASE MintAborts(m)
  BY <1>1, <1>2, <1>3, <1>4, <1>16 DEF MintAborts
<1> HIDE DEF TypeInv, TypeOK, TokenInv
<1>17. QED
  BY <1>5, <1>6, <1>7, <1>8, <1>9, <1>10, <1>11, <1>12, <1>13, <1>14, <1>15,
     <1>16 DEF MintProgress

LEMMA TokenStep ==
  OneOperator /\ TypeInv /\ TokenInv /\ [Next]_vars => TokenInv'
<1> SUFFICES ASSUME OneOperator, TypeInv, TokenInv, [Next]_vars PROVE TokenInv'
  OBVIOUS
<1> USE DEF TokenInv, TokensAreTheRegions, RetirementUndisturbed,
            NothingRecordedWithoutKey, HandedTokensRecorded, MintsOwnTokens,
            MintUndisturbed, Retiring
<1>1. CASE \E t \in Tokens : Lapse(t)
  BY <1>1 DEF Lapse
<1>2. CASE UNCHANGED vars
  BY <1>2 DEF vars
<1>3. QED
  BY <1>1, <1>2, TokenVaultStep, TokenMintStep DEF Next

LEMMA SpecTokenInv ==
  ASSUME OneOperator PROVE Spec => [](Inv /\ TokenInv)
<1>1. TokenInv /\ Inv /\ [Next]_vars => TokenInv'
  BY TokenStep DEF Inv
<1>2. QED
  BY <1>1, SpecInv, TokenInit, PTL DEF Spec

(* While one operator mints at a time, a live token that was delivered is  *)
(* where its region's record says, or named by a recorded exception.       *)
THEOREM HandedTokensStay ==
  ASSUME OneOperator PROVE Spec => []HandedTokensStayOnRecord
<1>1. Inv /\ TokenInv => HandedTokensStayOnRecord
  BY DEF TokenInv, HandedTokensRecorded, TokensAreTheRegions,
         HandedTokensStayOnRecord, Known
<1>2. QED
  BY <1>1, SpecTokenInv, PTL

(* A region whose key is gone keeps no policy; unless a mint overlapped    *)
(* its retirement it keeps no role, no record and no delivered token that  *)
(* still works but one a reissue lost.                                     *)
THEOREM NothingOutlives ==
  ASSUME OneOperator PROVE Spec => []NothingOutlivesTheKey
<1>1. Inv /\ TokenInv => NothingOutlivesTheKey
  BY SentinelsAssumption
     DEF SentinelsAssumption, Inv, TypeInv, TypeOK, ReconcileInv, TokenInv,
         HandedTokensRecorded, NothingRecordedWithoutKey, NothingOutlivesTheKey
<1>2. QED
  BY <1>1, SpecTokenInv, PTL

(* No step of a mint takes a live delivered token away without a live one  *)
(* on record in its place, unless the region was retired beside it.        *)
THEOREM ReissueStrandsNone ==
  ASSUME OneOperator PROVE Spec => ReissueNeverStrandsANode
<1> DEFINE Stranded(t) ==
      ~(accessor[issued[t]] \in live' \ {t} \/ issued[t] \in raced)
<1>1. ASSUME Inv, TokenInv, [Next]_vars, mint' # mint,
             NEW t \in (live \ live') \cap delivered
      PROVE  ~Stranded(t)
  <2> USE DEF Inv, TypeInv, TypeOK, MintHolds, TokenInv
  <2>1. PICK m \in Minters :
          \/ \E r \in Regions, reissue \in BOOLEAN : StartMint(m, r, reissue)
          \/ MintProgress(m)
          \/ MintAborts(m)
    BY <1>1, VaultLeavesMints DEF Next, vars, Lapse
  <2>2. UndoMint(m) \/ RevokePrevious(m)
    BY <1>1, <2>1
       DEF MintProgress, StartMint, LookupAccessor, CheckToken, WriteTokenRole,
           MintToken, RecordAccessor, RecordFails, RevokePreviousFails,
           ReturnToken, MintAborts
  <2>3. CASE UndoMint(m)
    BY <1>1, <2>3, SentinelsAssumption
       DEF UndoMint, MintsOwnTokens, SentinelsAssumption
  <2>4. CASE RevokePrevious(m)
    BY <1>1, <2>4, SentinelsAssumption
       DEF RevokePrevious, MintsOwnTokens, MintUndisturbed, SentinelsAssumption
  <2>5. QED
    BY <2>2, <2>3, <2>4
<1>2. Inv /\ TokenInv /\ [Next]_vars =>
        [mint' # mint =>
           \A t \in (live \ live') \cap delivered :
             \/ accessor[issued[t]] \in live' \ {t}
             \/ issued[t] \in raced]_vars
  BY <1>1
<1>3. QED
  BY <1>2, SpecTokenInv, PTL DEF Spec, ReissueNeverStrandsANode

-----------------------------------------------------------------------------
(* The other half of the vault phase: OpenBao's initialisation and hilt's  *)
(* AppRole, which shares no state with the appliances' keys and tokens.    *)
USE MaxEpochAssumption, NoneAssumption
USE DEF MaxEpochAssumption, NoneAssumption, Epochs, openbao, stored

LEMMA BaoTypeInit == BaoInit => BaoTypeOK
  BY DEF BaoInit, BaoTypeOK, RunState, IdleRun, Steps

LEMMA BaoTypeStep == BaoTypeOK /\ [BaoNext]_baoVars => BaoTypeOK'
<1> SUFFICES ASSUME BaoTypeOK, [BaoNext]_baoVars
             PROVE  BaoTypeOK'
  OBVIOUS
<1> USE DEF BaoTypeOK, RunState, Steps, Parts, To
<1>1. CASE StartVault \/ FinishVault \/ Refused \/ VaultDies
  BY <1>1 DEF StartVault, FinishVault, Refused, VaultDies, IdleRun
<1>2. CASE \/ WaitForUnsealed \/ ReadInitStatus
           \/ AwaitBarrier \/ GetRootToken
  BY <1>2 DEF WaitForUnsealed, ReadInitStatus, AwaitBarrier,
     GetRootToken
<1>3. CASE Initialise
  <2>1. epoch + 1 \in 0..MaxEpoch
    BY <1>3 DEF Initialise
  <2>2. QED
    BY <1>3, <2>1 DEF Initialise
<1>4. CASE PutRootToken \/ PutRecoveryKeys
  BY <1>4 DEF PutRootToken, PutRecoveryKeys
<1>5. CASE Build
  <2>1. NextStep(run.pc) \in Steps
    BY DEF NextStep
  <2>2. QED
    BY <1>5, <2>1 DEF Build
<1>6. CASE ReadRoleId \/ PutRoleId
  BY <1>6 DEF ReadRoleId, PutRoleId
<1>7. CASE LookupSecretId \/ ValidateSecretId
  BY <1>7 DEF LookupSecretId, ValidateSecretId
<1>8. CASE ValidationRefused \/ ValidationFails
  <2>1. TakeForInvalid
    BY <1>8 DEF ValidationRefused, ValidationFails
  <2>2. run.marks \cup {"unheard"} \in SUBSET {"unheard", "disturbed"}
    OBVIOUS
  <2>3. run' \in RunState
    BY <2>1, <2>2 DEF TakeForInvalid
  <2>4. QED
    BY <2>1, <2>3 DEF TakeForInvalid
<1>9. ASSUME NEW s \in SecretIds, IssueSecretId(s)
      PROVE  BaoTypeOK'
  BY <1>9 DEF IssueSecretId
<1>10. CASE PutSecretId
  BY <1>10 DEF PutSecretId
<1>11. CASE Unseal \/ Restart
  BY <1>11 DEF Unseal, Restart
<1>12. CASE Rebuild \/ RotateSecretId
  BY <1>12 DEF Rebuild, RotateSecretId, Disturbed
<1>13. CASE UNCHANGED baoVars
  BY <1>13 DEF baoVars
<1>14. QED
  BY <1>1, <1>2, <1>3, <1>4, <1>5, <1>6, <1>7, <1>8, <1>9, <1>10, <1>11, <1>12, <1>13
     DEF BaoNext, BaoProgress, Mishap

(* Every variable of the initialisation keeps its type.                    *)
THEOREM BaoTypesHold == BaoSpec => []BaoTypeOK
  BY BaoTypeInit, BaoTypeStep, PTL DEF BaoSpec

-----------------------------------------------------------------------------
(* Why.  The run alone writes the parameters and counts initialisations,   *)
(* so what it has read or written stays true until the storage is rebuilt  *)
(* or an operator deletes the secret_id, which marks it disturbed; and an  *)
(* OpenBao in which nothing is built yet is all that a lost root token can *)
(* hurt.                                                                   *)

Configuring ==
  Parts \cup {"read-role", "put-role", "lookup", "validate", "issue",
                  "put-secret", "done"}

(* The root token: what the run holds, what is stored and what is built.   *)
RootFirst ==
  /\ built # {} => rootToken = epoch
  /\ status = "new" => built = {} /\ secretIds = {}
  /\ run.pc = "root" => run.token = epoch /\ built = {}
  /\ run.pc \in Configuring \cup {"recovery", "unseal"} => run.token = rootToken

(* The stored secret_id, seen from the run that may replace it.            *)
SecretInHand ==
  /\ secretId # None => secretId \in issuedIds
  /\ run.pc = "validate" => secretId \in {run.secret, None}
  /\ run.pc = "put-secret" => run.secret \in issuedIds
  /\ run.pc \in {"issue", "put-secret"} /\ "unheard" \notin run.marks =>
       secretId \notin secretIds

(* What an undisturbed run has got done, step by step.                     *)
Done(pc) ==
  CASE pc = "kv" -> {}
    [] pc = "transit" -> {"kv"}
    [] pc = "policy" -> {"kv", "transit"}
    [] pc = "auth" -> {"kv", "transit", "policy"}
    [] pc = "role" -> {"kv", "transit", "policy", "auth"}
    [] OTHER -> Parts

Undisturbed ==
  "disturbed" \notin run.marks =>
    /\ run.pc \in Configuring => Done(run.pc) \subseteq built
    /\ run.pc = "put-role" => run.role = epoch
    /\ run.pc \in {"lookup", "validate", "issue", "put-secret", "done"} =>
         roleId = epoch
    /\ run.pc = "validate" => run.secret = secretId
    /\ run.pc = "put-secret" => run.secret \in secretIds
    /\ run.pc = "done" => secretId \in secretIds

BaoInv == BaoTypeOK /\ RootFirst /\ SecretInHand /\ Undisturbed

LEMMA BaoInvInit == BaoInit => BaoInv
  BY BaoTypeInit DEF BaoInit, BaoInv, RootFirst, SecretInHand, Undisturbed,
     IdleRun, Configuring, Parts

LEMMA BaoInvStep == BaoInv /\ [BaoNext]_baoVars => BaoInv'
<1> SUFFICES ASSUME BaoInv, [BaoNext]_baoVars
             PROVE  RootFirst' /\ SecretInHand' /\ Undisturbed'
  BY BaoTypeStep DEF BaoInv
<1>1. /\ BaoTypeOK /\ RootFirst /\ SecretInHand /\ Undisturbed
      /\ None \notin SecretIds
  BY DEF BaoInv
<1> USE <1>1 DEF RootFirst, SecretInHand, Undisturbed, Configuring, Parts, To
<1>2. CASE StartVault \/ FinishVault \/ Refused \/ VaultDies
  BY <1>2 DEF StartVault, FinishVault, Refused, VaultDies, IdleRun
<1>3. CASE WaitForUnsealed \/ ReadInitStatus
  BY <1>3 DEF WaitForUnsealed, ReadInitStatus, BaoTypeOK, RunState
<1>4. CASE AwaitBarrier \/ GetRootToken
  <2>1. /\ run'.pc = "kv" /\ run'.marks = run.marks
        /\ UNCHANGED <<openbao, stored>>
    BY <1>4 DEF AwaitBarrier, GetRootToken, BaoTypeOK, RunState
  <2>2. run'.token = rootToken
    BY <1>4 DEF AwaitBarrier, GetRootToken, BaoTypeOK, RunState
  <2>3. RootFirst' /\ SecretInHand'
    BY <2>1, <2>2
  <2>4. Done("kv") \subseteq built'
    BY DEF Done
  <2>5. Undisturbed'
    BY <2>1, <2>4
  <2>6. QED
    BY <2>3, <2>5
<1>5. CASE Initialise
  BY <1>5 DEF Initialise, BaoTypeOK, RunState
<1>6. CASE PutRootToken \/ PutRecoveryKeys
  BY <1>6 DEF PutRootToken, PutRecoveryKeys, BaoTypeOK, RunState
<1>7. CASE Build
  BY <1>7 DEF Build, Authorised, NextStep, Done, BaoTypeOK, RunState
<1>8. CASE ReadRoleId \/ PutRoleId
  <2>1. Done("read-role") = Parts /\ Done("put-role") = Parts
        /\ Done("lookup") = Parts
    BY DEF Done
  <2>2. CASE ReadRoleId
    <3>1. /\ run.pc = "read-role" /\ run'.pc = "put-role" /\ run'.role = epoch
          /\ run'.token = run.token /\ run'.marks = run.marks
          /\ UNCHANGED <<openbao, stored>>
      BY <2>2 DEF ReadRoleId, BaoTypeOK, RunState
    <3>2. QED
      BY <2>1, <3>1
  <2>3. CASE PutRoleId
    <3>1. /\ run.pc = "put-role" /\ run'.pc = "lookup" /\ roleId' = run.role
          /\ run'.token = run.token /\ run'.marks = run.marks
          /\ UNCHANGED <<openbao, rootToken, recoveryKeys, secretId>>
      BY <2>3 DEF PutRoleId, BaoTypeOK, RunState
    <3>2. QED
      BY <2>1, <3>1
  <2>4. QED
    BY <1>8, <2>2, <2>3
<1>9. CASE LookupSecretId
  BY <1>9 DEF LookupSecretId, BaoTypeOK, RunState, Done
<1>10. CASE ValidateSecretId
  BY <1>10 DEF ValidateSecretId, BaoTypeOK, RunState, Done
<1>11. CASE ValidationRefused \/ ValidationFails
  <2>1. /\ run.pc = "validate" /\ run'.pc = "issue"
        /\ run'.token = run.token /\ run'.marks = run.marks \cup {"unheard"}
        /\ UNCHANGED <<status, epoch, built, secretIds, issuedIds, rootToken,
                      roleId, secretId>>
    BY <1>11 DEF ValidationRefused, ValidationFails, TakeForInvalid,
       BaoTypeOK, RunState
  <2>2. "unheard" \in run'.marks
    BY <2>1
  <2>3. "disturbed" \notin run'.marks => "disturbed" \notin run.marks
    BY <2>1
  <2>4. Done("validate") = Parts /\ Done("issue") = Parts
    BY DEF Done
  <2>5. RootFirst'
    BY <2>1
  <2>6. SecretInHand'
    BY <2>1, <2>2
  <2>7. Undisturbed'
    BY <2>1, <2>3, <2>4
  <2>8. QED
    BY <2>5, <2>6, <2>7
<1>12. ASSUME NEW s \in SecretIds, IssueSecretId(s)
       PROVE  RootFirst' /\ SecretInHand' /\ Undisturbed'
  <2>1. /\ run.pc = "issue" /\ run'.pc = "put-secret"
        /\ run'.token = run.token /\ run'.marks = run.marks
        /\ run'.secret = s /\ s \notin issuedIds
        /\ secretIds' = secretIds \cup {s} /\ issuedIds' = issuedIds \cup {s}
        /\ UNCHANGED <<status, epoch, built, rootToken, roleId, secretId>>
    BY <1>12 DEF IssueSecretId, BaoTypeOK, RunState
  <2>2. Done("issue") = Parts /\ Done("put-secret") = Parts
    BY DEF Done
  <2>3. status # "new"
    BY <1>12 DEF IssueSecretId, Authorised
  <2>4. RootFirst'
    BY <2>1, <2>3
  <2>5. SecretInHand'
    BY <2>1
  <2>6. Undisturbed'
    BY <2>1, <2>2
  <2>7. QED
    BY <2>4, <2>5, <2>6
<1>13. CASE PutSecretId
  BY <1>13 DEF PutSecretId, BaoTypeOK, RunState, Done
<1>14. CASE Unseal \/ Restart
  BY <1>14 DEF Unseal, Restart
<1>15. CASE Rebuild
  BY <1>15 DEF Rebuild, Disturbed, BaoTypeOK, RunState
<1>16. CASE RotateSecretId
  BY <1>16 DEF RotateSecretId, Disturbed, BaoTypeOK, RunState
<1>17. CASE UNCHANGED baoVars
  BY <1>17 DEF baoVars
<1>18. QED
  BY <1>2, <1>3, <1>4, <1>5, <1>6, <1>7, <1>8, <1>9, <1>10, <1>11, <1>12, <1>13, <1>14,
     <1>15, <1>16, <1>17 DEF BaoNext, BaoProgress, Mishap

(* Nothing is built in an OpenBao whose root token is not stored, wherever *)
(* runs die and however often the storage is rebuilt.                      *)
THEOREM RootTokenFirst == BaoSpec => []NothingBuiltWithoutRoot
<1>1. BaoInv => NothingBuiltWithoutRoot
  BY DEF BaoInv, RootFirst, NothingBuiltWithoutRoot
<1>2. QED
  BY <1>1, BaoInvInit, BaoInvStep, PTL DEF BaoSpec

(* A run that completes undisturbed leaves hilt able to log in.            *)
THEOREM CompletedIsUsable == BaoSpec => []DoneMeansUsable
<1>1. BaoInv => DoneMeansUsable
  <2> SUFFICES ASSUME BaoInv, run.pc = "done", "disturbed" \notin run.marks
               PROVE  HiltCanLogIn /\ rootToken = epoch
    BY DEF DoneMeansUsable
  <2>1. built = Parts /\ Parts # {}
    BY DEF BaoInv, BaoTypeOK, Undisturbed, Configuring, Done, Parts
  <2>2. QED
    BY <2>1 DEF BaoInv, RootFirst, Undisturbed, HiltCanLogIn
<1>2. QED
  BY <1>1, BaoInvInit, BaoInvStep, PTL DEF BaoSpec

(* A secret_id that works is replaced only after a check of it that        *)
(* failed.                                                                 *)
THEOREM SecretKept == BaoSpec => WorkingSecretKept
<1>1. ASSUME BaoInv, BaoNext, secretId \in secretIds,
             secretId' \notin {secretId, None}
      PROVE  "unheard" \in run.marks
  <2>1. PutSecretId
    BY <1>1 DEF BaoNext, BaoProgress, Mishap, StartVault,
       FinishVault, Refused, VaultDies, WaitForUnsealed,
       ReadInitStatus, AwaitBarrier, GetRootToken, Initialise,
       PutRootToken, PutRecoveryKeys, Build, ReadRoleId, PutRoleId,
       LookupSecretId, ValidateSecretId, ValidationRefused,
       ValidationFails, TakeForInvalid, IssueSecretId, Unseal,
       Restart, Rebuild, RotateSecretId
  <2>2. QED
    BY <1>1, <2>1 DEF BaoInv, SecretInHand, PutSecretId
<1>2. BaoInv /\ [BaoNext]_baoVars =>
        [(secretId \in secretIds /\ secretId' \notin {secretId, None}) =>
           "unheard" \in run.marks]_baoVars
  BY <1>1
<1>3. QED
  BY <1>2, BaoInvInit, BaoInvStep, PTL DEF BaoSpec, WorkingSecretKept
=============================================================================
