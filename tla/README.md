# A verification project for infra-central

infra-central deploys and operates the central services of a storage network:
Terraform for the stages, and a Go Lambda, `provision`, for everything Terraform
cannot do itself. This directory holds TLA+ models of the parts of it that keep
state, the TLC configurations that check them, and TLAPS proofs about them.

## The system

Terraform invokes two phases of the Lambda on every apply; an operator runs the
other five through a script, first as a dry run that only reads, then confirmed.
A phase is one Lambda invocation making one remote call after another: SSM,
Secrets Manager, OpenBao, DynamoDB, Postgres, the admin APIs of hilt and sprue, a
chain. Nothing rolls back. An invocation can die or time out between any two
calls (600 s limit), a call can fail, nothing but Terraform's state lock keeps two
invocations apart, and the answer to every failure is to run the phase again.

| part | state it keeps | operations | what is hard |
|---|---|---|---|
| `vault`: appliance keys (`internal/vaultinit/appliance.go`, `cmd/provision/vault.go`) | a transit key, its deletion guard and a policy per region | reconcile against two committed lists; retire a region | an irreversible deletion; a retirement that stops halfway |
| `appliance-token` (`cmd/provision/appliancetoken.go`, `internal/vaultinit/appliancetoken.go`) | token role, tokens, the recorded accessor | plan, mint, reissue | not idempotent; decides on what it read; overlaps `vault` |
| `onboard` (`internal/onboard/*`, `cmd/provision/onboard.go`, `pirirecord.go`) | delegator allow list, sprue's provider, hilt's row and node set, central's record, the stored delegation | read, plan, apply | five stores with no transaction; set replaced whole |
| the appliance's delegation (`applianceProofIssuer` in `cmd/provision/onboard.go`, `internal/keygen/proofs.go`) | a delegation and the key that signed it, per region | ensure, compare, reissue, stamp | two parameters for one fact; the node holds a copy; hilt's key rotates |
| `retire` (`cmd/provision/retire.go`) | hilt's rows, the stored delegation | plan, delete | overlaps `onboard`; re-run after half |
| `seed`: keys (`cmd/provision/seed.go`, `keys.go`, `internal/secretstore`) | keys, SSM copies, public records, proofs | ensure, move, publish, sign, delete the copies | overlapping runs; what is new is known only in memory |
| `seed`: databases (`cmd/provision/seed.go`, `internal/dbinit`) | passwords, Postgres roles and databases, connection strings | ensure, create, alter, write over | beside other seeds, resets and rotations; read, then create |
| `vault`: initialisation (`internal/vaultinit/vaultinit.go`) | root token, recovery keys, mounts, AppRole, secret_id | init, store, ensure | a crash between init and store |
| `fund` (`internal/fund`) | an account on a chain | approve, deposit, setOperatorApproval | a pending transaction outlives the run |
| `reset-apps` (`scripts/reset-apps.sh`, `cmd/provision/resetapps.go`) | desired counts, databases, hilt's secrets, tables and buckets | scale down, drop, create, destroy, empty, scale up | half-reset stage; services scaled up meanwhile; a phase that outlives its script |
| parameter and secret stores (`internal/ssmstore`, `internal/secretstore`) | parameters and secrets | ensure, put, delete | read followed by create |
| pipeline (`scripts/promote.sh`, `.github/workflows`) | pins, promotion branches, pull requests | bump, promote, deploy | stale base, late runs, a queue that holds one; people on the same branch |

How they interact: `vault` creates the key a mint needs, and its retirement takes
the role, the token, and the parameters `onboard` reads; `appliance-token`
writes the accessor `onboard` takes as proof that a region is real; `seed` makes
the keys `onboard` signs with; `retire` removes what `onboard` wrote; `seed` and
`reset-apps` set the passwords of the same roles, and every phase keeps its
parameters through the same `ensure`; a promotion that merges is what the next
apply deploys, and an apply is what scales services up under a reset.
PROJECT.json lists every component and, as `hazards`, every place where this goes
wrong in a way a test would hardly reach.

## Modules

| module | models | proofs |
|---|---|---|
| `UnsealTokens` | appliance keys and unseal tokens: `vault` beside `appliance-token` | `VaultProofs` |
| `Onboard` | admission of an appliance, beside `retire` and decommissioning | `OnboardProofs` |
| `SeedKeys` | identities, wallets, their records and proofs, the move out of SSM, rotation | `SeedKeysProofs` |
| `IngotDelegation` | the delegation an onboard issues, reissues and stamps, beside rotation, deploys and `retire` | `IngotDelegationProofs` |
| `FundPayer` | the fund phase and the chain it sends to | `FundPayerProofs` |
| `VaultInit` | OpenBao's initialisation, its stored credentials and hilt's AppRole | `VaultProofs` |
| `AtomicParams` | what a store of set-once values promises: create if absent, in one step | |
| `ParamStore` | `ensure`, call by call; implements `AtomicParams` | in `DatabasesProofs` |
| `Databases` | database passwords, roles, databases and connection strings: `seed` beside `reset-apps`, over `ParamStore` | `DatabasesProofs` |
| `ResetApps` | the reset script and the phase it invokes, beside ECS, applies and running services | `ResetAppsProofs` |
| `Promote` | one hop of promotion: its branch and pull request, deploy and promote queues, people | `PromoteProofs` |

The module of the same name with `MC` in front gives each one the constants that
are too long for a configuration file; `VaultInit` has none, and `AtomicParams`
and `ParamStore` are checked as parts of `Databases`.

All but `AtomicParams` use one convention. **An action is one remote call** with the decision
that precedes it; an invocation's local variables are a record with a program
counter. An *Aborts* action ends an invocation after any call, which is a
failed call, a timeout and a crash at once: the code does the same in all three,
nothing, unless it says otherwise (`RecordFails`, `UndoMint`). Variables marked
*history* are written by the model only and read by properties only.

### UnsealTokens

`key`, `guarded`, `policy` and `role` are OpenBao's transit keys, the keys whose
`deletion_allowed` is still false, the policies and the token roles; `issued` and
`live` its tokens; `accessor` the `unseal-token.accessor` parameter. `vault` is
the memory of the vault phase, `mint[m]` of operator *m*'s invocation.

- `VaultStart` lists the keys and runs `PlanApplianceKeys` (`PlanAccepted`,
  `PlanRemove`) on the lists of some commit; a refused plan writes nothing and is
  no step. `EnsureTransitKey`/`PutPolicy` are `EnsureApplianceTransitKeys`, in any
  order of regions. `RetireAppliance` to `DeleteKey` are `retireAppliance` in its
  own order: revoke, role, parameters, policy, deletion flag, key.
- `StartMint` to `ReturnToken` are `planApplianceToken` and `mintApplianceToken`.
  `RecordFails` covers a write that was reported failed, applied or not.
- `Lapse` is OpenBao ending a token nobody renewed. It does not touch a token in
  a running invocation's hands: the period is days, an invocation ten minutes.

The vault phase is one invocation at a time, because Terraform holds the stage's
state lock while it waits for it. A Lambda that outlives a cancelled apply is not
modelled. `DeletePrefix` lists and then deletes in batches of ten; here it is one
step, which a region's half-dozen parameters make it.

### Onboard

`allowList`, `sprue`, `hilt`, `record` and `proofs` are the five stores,
`provisioned` the regions with a recorded accessor. hilt is indexed by Ingot DID;
a region names one derived DID, so a row is a label and the region hilt holds it
for, which differ when the DID scheme changed. Reading is four steps, then
`Blockers`; each write follows the plan and not the store, which is where stale
plans bite. `PlanRetire`, `DeleteRegionRows` and `DeleteProof` are the `retire`
phase; `Decommission` is the vault phase's `DeletePrefix` and `Provision` the
recorded accessor, both as seen from here; `Deregister` is what the guide has an
operator do by hand in sprue and the delegator. `disturbed` marks a run something
was taken from while it ran: `ReturnedMeansAdmitted` promises nothing there,
because the code does not re-check.

Left out: the bucket and delegation rows that go in the same transaction as
hilt's provider row, the size of the weights, and how the delegation is issued
(`IssueProof` makes sure one is stored; `IngotDelegation` is that step in full).

### SeedKeys

A public record, a multibase copy or a proof is the key it derives from.
`LookupSecret` to `Publish` are `ensureKey` and the loop body around it, for
identities and wallets alike; `SignProof` is `seedProofs`; the stage `rest` is
everything that has to succeed before `DeleteMovedKey`. The order within a list
is free, the order of the lists is the code's. `Rotate` is an operator deleting a
secret, as README.md describes it, between seed runs. Reads that only precede a
create that refuses to overwrite are folded into it: the create decides. A run
that is refused, because two copies of a key disagree or a copy does not derive
what is published, leaves as one that dies does (`Leave`): it takes with it the
knowledge of what it minted under other names (`stranded`).
`fresh` is the set `seedIdentities` returns; it also holds the wallets minted, for
which the code keeps `created`.

### IngotDelegation

`stored` and `stamp` are the parameters `hilt-ingot-s3-proof` and
`hilt-ingot-s3-proof.issuer` of each region, `key` is hilt's identity and
`commands` the list `HiltIngotS3Proof` has in the deployed Lambda. Keys are
numbered as they are minted; a delegation is a copy number, the key that signed
it and its commands, since the random nonce makes every issue distinct. The steps
of `applianceProofIssuer` follow its calls: `ReadKey`, `CreateProof` or
`TakeStored` (`EnsurePublic`), `ReadIssuer` with the `switch` as `AfterIssuer`,
`Reissue`, `RecordProofIssuer`. A run keeps the command list it started with,
which is its binary's. `StartRetire` to `DeletePresent` are the retire phase's
`Delete`, two lookups and one removal. `held` is what each node was handed last,
`guessed` the regions whose stamp was written by the branch that takes an unknown
issuer for the present key; both are history.

### FundPayer

`wallet`, `account`, `allowance` and `approved` are what the contracts keep of the
payer, `nonce` and `pending` the chain's next nonce and what has been broadcast.
`StartFund` to `ReadFunds` are `newSession` and `plan`; `Broadcast` and `Proceed`
are the two halves of `send`, between which the chain may take as long as it
likes; `After` is the order of the three transactions. `RunAborts` leaves the
transaction it waited for in `pending`. The contracts are external: approve sets
the allowance, a deposit that balance or allowance does not cover reverts, and
transactions are executed in the order of their nonces, or dropped. `quiet` in a
run and in its transactions is history: nothing was pending when the run began to
read. Left out: the dry run, which is the same plan without the sends; gas, and
the estimate that would stop a deposit about to revert from being broadcast, which
only takes behaviours away; the amounts of the operator approval.

### VaultInit

`status`, `epoch`, `built` and `secretIds` are OpenBao: sealed or not, how often
its storage was initialised, the mounts and roles in it, and the secret_ids it
accepts. `rootToken`, `recoveryKeys`, `roleId` and `secretId` are the four
parameters; the first three are the number of the initialisation they came from,
so a parameter that outlived a rebuild is one whose number is not `epoch`. `run`
takes the vault phase's calls in their order, up to the appliance keys, which are
`UnsealTokens`: `WaitForUnsealed` and `ReadInitStatus`, then `Initialise`,
`PutRootToken`, `PutRecoveryKeys`, `AwaitBarrier` or `GetRootToken`; `Build` for
each of the five things `EnsureMounts` and `EnsureHiltAppRole` see to, with the
listing that precedes it; `ReadRoleId`, `PutRoleId`; `LookupSecretId` to
`PutSecretId`, which is `ensureHiltSecretID`. `ValidationRefused` and
`ValidationFails` take any failed check for a secret_id that does not work, as
the code does. `Refused` is an error the code returns because of what it found,
`VaultDies` every other end. `Rebuild` is OpenBao's database lost and made anew
while the parameters stay; `RotateSecretId` the rotation README.md describes. A
database restored from a backup, older than the parameters but not empty, is not
modelled.

### ParamStore and AtomicParams

`param` is the parameter store and `call` the `ensure` each caller is in: `Get`,
`Put` or `PutRefused`, `ReadBack`. The value a call generates is drawn when its
first create is sent; a `Put` that leaves the call at `put` is one whose answer
was lost, which the client sends again. `Delete` and `Overwrite` are an operator
rotating a parameter.

`AtomicParams` is the same thing in one step: a caller asks and is told the
stored value, and is told that it created one only by the step that stored it.
`EnsureIsAtomic` is `Atomic!Spec`, with `Atomic == INSTANCE AtomicParams WITH
call <- [c \in Callers |-> Seen(c)]`: the three calls count as "asked", and what
the caller generated is hidden. One thing had to be let into the abstract
specification: `ReadBack` drops the flag that says whether the parameter was
found, so a caller whose parameter is deleted during the call is told nothing,
without an error. Whether that can hurt is asked in `Databases`, where dbinit
refuses an empty password (`Valid`) before its first statement.

### Databases

`role`, `databases` and `strings` are Postgres's roles with their passwords, its
databases, and the stored connection strings, each as the password it carries.
An invocation walks a list: a seed ensures every password (`EnsurePassword` is
`ParamStore`'s step), then takes each role through `CheckRole`, `CreateRole`,
`AlterRole`, `CheckDatabase` and `CreateDatabase`, which is `ensureOne` statement
by statement, then writes every string over. A reset reads one password, drops
the database and takes the same five steps. One target is walked in a behaviour,
central's instance or pandora's cluster, because the two share no role and no
parameter. `tainted` marks a run that may hold a password rotated away while it
ran, or started beside one that may; `lost` the databases a reset died on between
drop and create. The two are history.

### ResetApps

`desired` and `running` are ECS; `databases`, `tenants`, `secrets` and `stock` what
the stage stores, with hilt's rows and the secrets they name told apart and every
other database, table and bucket either empty or not. `script` is the operator's
run: `ScaleDown`, `AwaitQuiet`, `Invoke`, `Answered`, `EmptyStore`, `ScaleUp`,
`AwaitServices`. `phase` holds the Lambda invocations, each dropping and
recreating the databases in order, then listing and destroying hilt's secrets.
A phase goes on when its script is dead. `AwaitQuiet` asks for running = desired,
as wait-services-stable.sh does, and not for zero. `Apply` sets every desired
count back; `exposed` (history) says that one fell into the window, or that the
script was started again while an earlier phase was still at work: the two
things the properties are conditional on, because the first is forbidden by
docs/reset-apps.md and the second is forbidden nowhere.

### Promote

One hop, since both run the same script on their own branch: a commit of `main`
is what it pins for source and target. `deploy` and `queued` are the deploy
workflow, `run` and `waiting` promote.yml, each with GitHub's one running and one
waiting place, in which a newer entry replaces an older. A run's steps are
promote.sh's remote calls: `Fetch`, `ListPulls` with all the decisions that follow
it, then `DeleteBranch`, or `Push` and `RefreshPull` or `OpenPull`, then `Disarm`.
`PushRefused` and `OpenRefused` are calls that fail because the branch or the
pull request is not what the run saw, `RunDies` any other end. People land
commits, push to the branch, amend its head, close, reopen, delete, arm, merge,
dispatch a run and re-run an old deploy. GitHub merges only a branch that is up
to date; the checks a new head needs take minutes, so a head is taken not to
merge before the run that pushed it is over. A head is its content (base, pins,
who wrote it); `excused`, `slipped`, `passed` and `hands` are history.

## Runs

| run | bounds | checks |
|---|---|---|
| `UnsealTokens` | 2 regions, 2 tokens, 1 operator, 4 commits; 2.9 M states | `TypeOK`; `HandedTokensStayOnRecord`: a live delivered token is on record, in a running invocation's hands or named by an error, unless a reissue replaced it or a retirement raced the mint; `NothingOutlivesTheKey`: no policy without its key, and nothing else of a region either unless a mint raced; `KeysFollowTheLists`: a finished reconciliation leaves exactly the active list; `ReissueNeverStrandsANode`: no step of a mint kills a delivered token without a live recorded replacement |
| `UnsealTokensLive` | 1 region, 2 tokens, fair; 0.3 M states | `RetirementFinishes`: once every apply retires the region and none is cut short, its key and policy go, whatever earlier applies left |
| `Onboard` | 2 regions, 2 Piris, 2 endpoints, 4 requests, 1 run at a time; 1.3 M states | `TypeOK`, `RecordedPirisAreServed`, `ReturnedMeansAdmitted` |
| `SeedKeys` | 2 identities, 1 wallet, 4 keys, 2 overlapping runs, 6 initial stages; 5.2 M states | `TypeOK`; `PublishedKeysSurvive`; `SeededIsCoherent`: a run that completes leaves record, multibase copy and proof in line with each key, but for a key an earlier run minted and left; `SsmCopiesGoLast` |
| `IngotDelegation` | 1 region, 4 copies, 3 keys, 2 command lists, 1 run at a time, with and without a delegation from before the stamp; 0.9 M states | `TypeOK`; `ReturnedVerifies`: what a run returns has every command and, unless its stamp was a guess, the run's key; `StampNeverAhead`: a stamp naming the present key stands beside a delegation that key signed; `HandedStays`: a delegation a node holds is replaced only with cause |
| `FundPayer` | 1 run at a time, 3 requests, 4 USDFC, 6 transactions; 1.4 M states | `TypeOK`; `DoneMeansFunded`: reported success is an approved account holding the deposit, but for what was drawn since; `NoNeedlessDeposit` and `PlannedDepositsLand`: a deposit planned with nothing pending is needed when executed, and never reverts |
| `VaultInit` | 3 initialisations, 4 secret_ids, fair; 0.2 M states | `BaoTypeOK`; `NothingBuiltWithoutRoot`: no OpenBao is configured whose root token is not stored; `DoneMeansUsable`: a run that completes leaves hilt an AppRole login that works; `WorkingSecretKept`: a secret_id that works is replaced only if checking it failed; `HiltComesUp`: once mishaps end, the runs that follow give hilt its login and keep it, unless the root token died with the run that held it |
| `Databases` | 2 seeds, 1 reset, 3 values, two targets of 2 roles, one password of each rotated; 1.7 M states | `TypeOK`; `EnsureIsAtomic`: `ParamStore` implements `AtomicParams`; `StringsFitTheRoles`: a stored string of a role never rotated has the role's password, which is the stored one; `SeedTakesRotationsUp`: a seed that nothing tainted leaves passwords, roles and strings in line; `MissingIsAccountedFor`: a service with a string has its database unless a reset is at it or died on it; `ResetRestores`: a reset that ends leaves every app its database |
| `ResetApps` | 2 services, 1 store outside the VPC, 2 tenants, 2 invocations, 2 deaths, fair; 1.1 M states | `TypeOK`; `RowsKeepTheirSecrets`: hilt has no row whose secret is gone; `ResetIsComplete`: a run about to scale up finds everything wiped and every database there; `ServicesComeBack`: once anything was scaled down, in the end every service runs and has its database |
| `Promote` | 3 commits, 2 pins, 4 acts by people; 3.9 M states | `TypeOK`; `PersonsHeadStays`: a run that saw the pull request open never pushes over a person's head or deletes it; `MergesAreDecided`: a bot's head that merges is what the source passed its smoke test on, or was asked for by hand, and auto-merge was armed for that head unless a run died before it could look; `StaleHasARunComing`: a promotion that is not what the tip calls for has a run coming, or failed, or somebody undid it |

Why the bounds are enough. Two regions show one region's retirement leaving the
other alone, and the commits hold both refused shapes (a label in both lists, a
label in neither). Two tokens allow one reissue, and a third would only repeat
it. In `Onboard` the second region exists for the row held elsewhere; two Piris
are what a node set can lose one of. In `SeedKeys` one identity signs and has a
multibase copy and the other does neither, so that a run can mint the one and be
refused at the other; the wallet is the plain case, and four keys let each name
be minted and one replaced. The bounds on `Tokens` and `Keys` stop
`MintToken` and `MintKey`, nothing else. In `IngotDelegation` four copies are a
first issue and three reissues, three keys let a run read one, be overtaken and
be followed by another; regions share nothing but hilt's key. In `FundPayer` six
transactions are two whole runs, so what the first leaves pending meets every step
of the second, and two amounts let the second's approval be too small for the
first's deposit; `Supply` stops `Faucet` and `MaxNonce` stops `Broadcast`. In `VaultInit` three
initialisations are two rebuilds, so that a parameter can be one or two behind
OpenBao and behind each other; once all four secret_ids are issued no run gets
past `IssueSecretId`, which `HiltComesUp` makes an exception for. One token in `UnsealTokensLive` would
be enough; liveness is about the region. In `Databases` a third value lets a
rotated password differ from both in use, and one seed can be overtaken by
another and by the reset; targets and pins are symmetric in what their values are
called. In `ResetApps` two deaths are one of the script and one of the phase it
left behind, or two of either; two invocations are that phase and the one a rerun
starts; two tenants let one be provisioned between listing and destroying. In
`Promote` three commits let a run be overtaken twice, and four acts are a push, a
closing and a reopening with one to spare.

`Databases` and `Promote` switch deadlock checking off. In the first every run may
end with no value left to draw, in the second nothing happens when `main` is full
and the people have done their acts; both are the bounds. In the others an apply,
an onboard, a reset or a seed can always be started.

### Disagreements

Two runs have `expect: violation`; each checks one sentence of the repository.

- `SeedRotation`: a rotation is said to refresh `identity.did` and the proof in
  the same apply. If the run that minted the key dies first, no later run does.
- `VaultRecovery`: the credentials of an initialisation are said to be stored
  before anything else can fail. They are two parameters, and a run that ends
  between the two is followed by one that finds OpenBao initialised and the root
  token stored, and completes without the recovery keys, saying nothing.

Others were met while modelling and have no run; the exception in a property or
the assumption of a theorem names each.

- Unseal tokens. The decision record says the only token a reissue can leave live
  and off record is one an error names. A reissue that ends between recording the
  replacement and revoking the old token names nothing (`superseded` in
  `HandedTokensStayOnRecord`). `docs/appliance-onboarding.md:117` has a reissue
  revoke the old token first; the code revokes last, deliberately, and
  `ReissueNeverStrandsANode` is why. A live token is said to be refused, so that a
  node never has two; two mints that overlap both see none, which is why
  `UnsealTokens` runs one operator.
- Onboarding. A recorded Piri is said to be one hilt has been told about. Two
  onboards of a region that overlap leave one recorded and not served, and a
  later onboard of it does not repair that; hence `OneRun` in `RecordedServed`.
- hilt's delegation. A rotation of hilt's key is said to be seen by a later
  onboard and to force a reissue. If a run dies after storing the delegation and
  before stamping it, and the rotation comes then, the next run stamps the new
  key on the old delegation and every run after that returns it (`guessed` in
  `ReturnedVerifies`). The code makes the same exception, knowingly, for
  delegations older than the stamp.
- Resets. `scripts/reset-apps.sh:27` says a run that fails partway can be repeated
  from the start. The phase the dead run invoked may still be at work, and may
  list and destroy the secrets of tenants provisioned after the rerun
  (`exposed`). The wait for quiet accepts whatever is desired, so an apply that
  falls into the window passes it with the services up. An apply after a dead
  run brings services up, but only a rerun or a seed recreates a database that
  run had dropped.
- Promotion. If someone enables auto-merge and the bot later pushes a new head,
  the bot is said to disable it. A run that dies between the push and that call
  leaves it, and no later run looks again, since it finds the head built and has
  pushed nothing (`slipped`). A pull request that fell behind `main` is said to
  have its next run queued already; the re-run of an old deploy takes that run's
  place in the queue (`excused`).

### Fairness

`UnsealTokensLive` has weak fairness of `VaultStart` and of
`VaultProgress`. The first says applies keep being run; every merge runs one, and
the seed and vault invocations are re-invoked whenever their input changes. The
second says a phase that is running takes its next call, which Lambda does until
the invocation ends or is killed; killing is `VaultAborts`, which has no fairness.
The property assumes in its own antecedent that applies stop being cut short and
that every later one retires the region. A death with nothing left to do is the
same step as completion (`VaultDone`) and no cut, so applies complete for ever in
the behaviours the antecedent admits. Mints are not fair and may run throughout.

`VaultInit` has weak fairness of `StartVault`, of `BaoProgress` and of `Unseal`.
The first two are as above: a failed invocation is repeated by the next apply.
After one that completed, Terraform does not invoke the phase again until its
input changes; a rebuild or a rotation needs the `vault_trigger` that README.md
tells the operator to bump (today by a commit to the stage's root), and fairness
takes that as done. The third is the KMS
seal, which needs nobody. `HiltComesUp` assumes that deaths, failed checks,
restarts, rebuilds and rotations (`Mishap`) end; a death where the run ends by
itself anyway is the same step as `FinishVault` or `Refused` and may go on, so
what is claimed is about runs that keep completing.

`ResetApps` has weak fairness of the script's steps, of each phase's and of ECS's,
which go on by themselves, and of `Rerun`: the script prints that a failed run is
to be repeated, and an operator with a stage at zero does. Deaths are not fair
and `MaxFailures` ends them. Nothing is assumed of applies.

## Proofs

For every value of the constants, under the modules' assumptions (sentinels are
not members, the enumerated inputs have their types):

- `VaultProofs`, of `UnsealTokens`: `TypesHold`, `KeysFollow` and `KeysDie`. The inductive
  invariant says what the vault phase knows of OpenBao at each step: the plan's
  `toRemove` are existing keys of the retired list and of no active one, every
  existing key is on a list, and an active region not in `toEnsure` has key and
  policy. It holds whatever the mints do, since those never touch keys and
  policies; each mint action is discharged by that alone. `HandedTokensStay`,
  `NothingOutlives` and `ReissueStrandsNone` hold while one operator mints at a
  time (`OneOperator`): of two mints that overlap the later record hides the
  earlier token. Their invariant, `TokenInv`, says that a token belongs to one
  region from its creation, where each live one is (record, hands, or a named
  exception), and what the mint under way knows at each step.
- `VaultProofs`, of `VaultInit`: `BaoTypesHold`, `RootTokenFirst`,
  `CompletedIsUsable` and `SecretKept`. The two modules are the halves of one
  phase and share no state; definitions both have are named apart (`BaoInit`,
  `BaoSpec`), so that one module extends both. The invariant says that what is built was built with the stored root token, that a
  token newer than the stored one is held only by a run that has yet to store it,
  and what an undisturbed run has established by each step.
- `OnboardProofs`: `TypesHold` for any number of overlapping runs, and
  `RecordedServed`, that recorded Piris are served while runs do not overlap
  (`OneRun`). The invariant of the second adds that the record a run read still
  covers the record, that a row it did not see is still absent, and that between
  hilt's write and the record its Piri is in the node set. `OneRun` is needed:
  of two overlapping onboards of a region, each reads the record before the other
  writes it, and the later write of hilt's nodes drops the Piri the earlier added.
  `ReturnedAdmitted` needs `OneRun` for the same reason; its invariant,
  `AdmissionInv`, is what a run's reads still say when it acts on them, unless
  something was taken away, and what its writes have established by each step.
- `SeedKeysProofs`: `TypesHold` and `KeysSurvive`, for any number of overlapping
  runs, assuming only that a stage starts with the keys it publishes
  (`PublishedAtStart`). The invariant, `Knows`, says that what a run read stays
  true: secrets only arrive, SSM copies only go, and a rotation waits for all
  runs to end, so the copies a run means to delete are copies of the secret.
  `CopiesGoLast` needs no assumption: a run past a list has found or made a
  secret under every name of it (`TrackInv`), and no secret goes while it runs.
  `SeededCoherent` follows, name by name, from `LineInv`: a record or proof out of
  line with a key that no SSM copy contradicts is one that the run that minted the
  key is still to write, or the key is stranded. Proving it showed that a refused
  run strands what it minted exactly as a dying one does; with one identity
  nothing can be minted before a refusal, which is why the run has two.
- `IngotDelegationProofs`: `TypesHold` for any number of runs; `StampsHold`,
  `ReturnsVerify` and `HandedHolds` while runs do not overlap. Keys only grow, so
  a stamp can trail its delegation and never lead it; the invariant says so of
  the store and of what the run has in hand, and that a copy once handed out was
  issued and is not issued again.
- `FundPayerProofs`: `TypesHold` for any number of runs, which includes that no
  balance goes negative; `ReportedFunded` for any number too, and
  `DepositsAreNeeded` and `DepositsLand` while runs do not overlap. For the first
  (`FundedInv`): what a run has sent and waits for is of the step it is at and of
  its own amount, whoever else is sending; from the receipt or the skipped step on, the
  amount is in the account but for the draws since, and no run withdraws an
  approval. The invariant of the others (`QInv`) says nonces of pending
  transactions are distinct and not below the chain's, that a run planned on a quiet chain has at most its
  own transaction pending, and that a deposit so planned holds the payer's next
  nonce, so nothing can be executed before it to spend its balance, lower its
  allowance or fill the account.
- `DatabasesProofs`: `TypeCorrect`, which includes that no seed or reset reaches
  Postgres without the passwords it needs; `EnsureRefines`, that every step of
  `Databases` is a step of `AtomicParams` or none, for any names, values and
  callers; `StringsFit`, `PasswordsStay` (no role that has a password loses
  it), `MissingAccounted`, `ResetsRestore` and `SeedsTakeUp`, for any number of
  overlapping and dying seeds and resets. The refinement needs that
  a call told nothing had its name emptied and that a call at `readBack` found
  the name taken or emptied since. The invariant for the strings says that of a
  role never rotated, the store, what every run holds, the role once a run is
  past it and the strings all have one password. The one for the databases
  (`PlacesInv`) ties each missing one to the place in its list of the reset that
  dropped it, or to that reset's death. The one for rotations (`CalmInv`) says
  that the invocations at work are all tainted or none is, and that while none is
  each began after the last rotation, so every password in hand is the stored one.
- `ResetAppsProofs`: `TypeCorrect`, `RowsKeep`, `Complete`, and `Quiet`, that no
  service has a task while a phase is at work. The invariant is the types, that
  a script waiting for an answer waits for the only phase that may be at work
  (`Answers`), and, unless exposed, `Calm`: what the services, the databases and
  hilt's rows and secrets look like at each step of script and phase.
- `PromoteProofs`: `TypesHold`, `HeadsStay`, `MergesDecided` and `ARunIsComing`,
  for any pins, any length of `main` and any number of acts by people. For the
  first safety property (`BotsOnly`): a run that saw the pull request open goes
  on to push or delete only when the head it fetched is the bot's, and the lease
  keeps it to that head. For the
  second (`DecidedInv`): a request, a run or a head of the bot's for the tip was
  asked for by hand or the tip passed, the bot's heads pin what their base pins
  at the source, and only the run that has just pushed leaves auto-merge armed
  for the head it replaced. For the third (`ComingInv`), until something excuses
  it: nothing older than the tip is at work or waiting unless the tip's deploy
  or run comes after it, and the tip's own run acts on the branch and the pull
  request as they are, so that what it leaves is settled.

`KeysDieOnlyByRetirement`, `PasswordStays` and `QuietDuringAPhase` are stated in
the models and proved; no run repeats them.

Model-checked only: `RetirementFinishes`, `HiltComesUp` and `ServicesComeBack`,
which are liveness under fairness and out of the prover's reach. Every other
property of a passing run is a theorem.

Where a step sets several fields of one run's record, the models nest the updates
(`![i] = [@ EXCEPT !.step = .., !.at = ..]`): the prover's translation to SMT of
several updates below one index is not reliable.

## Not modelled

Cryptography and encodings (`internal/keygen`), configuration, hostnames,
prompts, Terraform's resource graph, dashboards and smoke tests have no state a
property here would be about. hilt's one random secret is ensured like a password
and used by no other phase. Bump pull requests and their rebuilding
(`scripts/refresh-bump-prs.sh`) and Dependabot's auto-merge are commits that land,
as seen from `Promote`. The Lambda invocation a cancelled apply leaves behind is
not modelled for the vault phase, which is taken as one at a time.

## Plan

In this order:

1. `Bumps`: one branch per service, published over by force and rebuilt under a
   lease, with the runs that pushes and merges start; that a bump pull request
   nobody moved is current when no run is left, and a rebuild never rolls `main`
   back.
2. `Onboard`'s `IssueProof` shown to be an abstraction of `IngotDelegation`: from
   outside, the two differ only in the stamp and in which copy is stored.
