----------------------------- MODULE Databases ------------------------------
(***************************************************************************)
(* The Postgres roles and databases of a stage: the seed phase's walk over *)
(* them (passwords, roles and databases, connection strings) and the       *)
(* reset-apps phase's (drop and recreate), as invocations that overlap,    *)
(* die between any two remote calls and run again, while an operator       *)
(* rotates passwords in the parameter store.                               *)
(*                                                                         *)
(* One target is walked: central's instance or pandora's cluster, which    *)
(* share neither roles nor parameters.  A role stands for its service, its *)
(* password's parameter and, unless it only logs in, its database; a       *)
(* connection string for the password it carries.                          *)
(***************************************************************************)
EXTENDS ParamStore, Naturals, Sequences

CONSTANTS
  Targets,      \* the roles the seed walks and the ones reset-apps walks
  LoginOnly,    \* roles without a database of their own
  Strings,      \* connection strings; plc has two
  RoleOf,       \* the role a string connects as
  Rotatable,    \* a bound: roles whose password is rotated, once each
  Resets,       \* reset-apps invocations; Callers are the seed invocations
  NoPassword    \* the password of a role that has none

ASSUME TargetsAssumption ==
  \A t \in Targets :
    /\ t = [roles |-> t.roles, apps |-> t.apps]
    /\ t.roles \in Seq(Names) /\ t.roles # <<>>
    /\ t.apps \in Seq(Names \ LoginOnly)
ASSUME StringsAssumption == RoleOf \in [Strings -> Names]
ASSUME ActorsAssumption == Resets \cap Callers = {}
ASSUME PasswordAssumption == NoPassword \notin Values \cup {None}

VARIABLES
  target,    \* what is walked
  role,      \* Postgres: each role's password; None where there is no role
  databases, \* Postgres: the databases, named after their owner
  strings,   \* the parameter store: the password in each connection string
  run,       \* the invocations
  rotated,   \* roles whose password was ever rotated (history)
  lost       \* databases a reset died on, between drop and create (history)

vars == <<storeVars, target, role, databases, strings, run, rotated, lost>>

Seeds == Callers
Walkers == Seeds \cup Resets

Stages == {"idle", "passwords", "read", "drop", "role", "create", "alter",
           "database", "createDatabase", "strings", "done"}

IdleRun == [stage |-> "idle", at |-> 0, password |-> [r \in Names |-> None],
            unwritten |-> {}, dropped |-> FALSE, tainted |-> FALSE]

DoneRun == [IdleRun EXCEPT !.stage = "done"]

RunState == [stage : Stages, at : Nat,
             password : [Names -> Values \cup {None}],  \* as read; None is empty
             unwritten : SUBSET Strings,
             dropped : BOOLEAN,   \* a reset's drop has no create after it yet
             tainted : BOOLEAN]   \* may hold a password rotated away (history)

Active(i) == run[i].stage \notin {"idle", "done"}

Init ==
  /\ StoreInit
  /\ target \in Targets
  /\ role = [r \in Names |-> None]
  /\ databases = {} /\ lost = {}
  /\ strings = [s \in Strings |-> None]
  /\ run = [i \in Walkers |-> IdleRun]
  /\ rotated = {}

(* The role an invocation is at, and the list it walks.                    *)
Walk(i) == IF i \in Resets THEN target.apps ELSE target.roles
At(i) == Walk(i)[run[i].at]
Last(i) == run[i].at = Len(Walk(i))

Goto(i, stage) == run' = [run EXCEPT ![i].stage = stage]

-----------------------------------------------------------------------------
(* The seed phase: every password first, then the roles and databases.     *)

Started(i, stage) ==
  [IdleRun EXCEPT !.stage = stage, !.at = 1,
                  !.tainted = \E j \in Walkers \ {i} : run[j].tainted]

StartSeed(i) ==
  /\ ~Active(i)
  /\ run' = [run EXCEPT ![i] = Started(i, "passwords")]
  /\ call' = [call EXCEPT ![i] = Asking(target.roles[1])]
  /\ UNCHANGED <<param, generated, target, role, databases, strings, rotated, lost>>

EnsurePassword(i) ==
  /\ EnsureStep(i)
  /\ UNCHANGED <<target, role, databases, strings, run, rotated, lost>>

Listed == {target.roles[k] : k \in 1..Len(target.roles)}

(* dbinit checks every password before its first statement.                *)
AnyPassword(password) == TRUE
Valid(password) == \A r \in Listed : password[r] # None

TakePassword(i) ==
  /\ call[i].pc = "answered"
  /\ LET password == [run[i].password EXCEPT ![At(i)] = call[i].answer]
         took == [run[i] EXCEPT !.password = password]
     IN
       \/ /\ ~Last(i)
          /\ run' = [run EXCEPT ![i] = [took EXCEPT !.at = run[i].at + 1]]
          /\ call' = [call EXCEPT ![i] = Asking(target.roles[run[i].at + 1])]
       \/ /\ Last(i)
          /\ run' = [run EXCEPT ![i] = IF Valid(password)
                                       THEN [took EXCEPT !.stage = "role", !.at = 1]
                                       ELSE IdleRun]
          /\ call' = [call EXCEPT ![i] = IdleCall]
  /\ UNCHANGED <<param, generated, target, role, databases, strings, rotated, lost>>

-----------------------------------------------------------------------------
(* dbinit.Ensure for the role an invocation is at, one statement at a time. *)

dbUnchanged == UNCHANGED <<storeVars, target, strings, rotated>>

(* An existing role taken to have its password already.                    *)
CheckRoleOnly(i) ==
  /\ run[i].stage = "role"
  /\ Goto(i, IF role[At(i)] = None THEN "create"
             ELSE IF At(i) \in databases THEN "database" ELSE "alter")
  /\ UNCHANGED <<role, databases, lost>> /\ dbUnchanged

CheckRole(i) ==
  /\ run[i].stage = "role"
  /\ Goto(i, IF role[At(i)] = None THEN "create" ELSE "alter")
  /\ UNCHANGED <<role, databases, lost>> /\ dbUnchanged

(* A role somebody else created in between is left as it is.               *)
CreateRole(i) ==
  /\ run[i].stage = "create"
  /\ role' = [role EXCEPT ![At(i)] = IF @ = None THEN NoPassword ELSE @]
  /\ Goto(i, "alter")
  /\ UNCHANGED <<databases, lost>> /\ dbUnchanged

(* The empty string as a password leaves the role without one.             *)
AsPassword(v) == IF v = None THEN NoPassword ELSE v

(* Where an invocation goes after a role: to the next, or out of dbinit.   *)
NextRole(i) == IF i \in Resets THEN "read" ELSE "role"
AfterRole(i) ==
  LET rest == [run[i] EXCEPT !.dropped = FALSE] IN
    IF ~Last(i) THEN [rest EXCEPT !.stage = NextRole(i), !.at = run[i].at + 1]
    ELSE IF i \in Resets THEN DoneRun
    ELSE [rest EXCEPT !.stage = "strings",
                      !.unwritten = {s \in Strings : RoleOf[s] \in Listed}]

AlterRole(i) ==
  /\ run[i].stage = "alter"
  /\ role' = [role EXCEPT ![At(i)] = AsPassword(run[i].password[At(i)])]
  /\ run' = [run EXCEPT ![i] = IF At(i) \in LoginOnly THEN AfterRole(i)
                               ELSE [run[i] EXCEPT !.stage = "database"]]
  /\ UNCHANGED <<databases, lost>> /\ dbUnchanged

(* A service with stored strings taken to have a database.                 *)
CheckDatabaseByRole(i) ==
  /\ run[i].stage = "database"
  /\ run' = [run EXCEPT ![i] = IF strings # [s \in Strings |-> None] THEN AfterRole(i)
                               ELSE [run[i] EXCEPT !.stage = "createDatabase"]]
  /\ UNCHANGED <<role, databases, lost>> /\ dbUnchanged

CheckDatabase(i) ==
  /\ run[i].stage = "database"
  /\ run' = [run EXCEPT ![i] = IF At(i) \in databases THEN AfterRole(i)
                               ELSE [run[i] EXCEPT !.stage = "createDatabase"]]
  /\ UNCHANGED <<role, databases, lost>> /\ dbUnchanged

CreateDatabase(i) ==
  /\ run[i].stage = "createDatabase"
  /\ databases' = databases \cup {At(i)}
  /\ lost' = lost \ {At(i)}
  /\ run' = [run EXCEPT ![i] = AfterRole(i)]
  /\ UNCHANGED role /\ dbUnchanged

(* Every string is written over, in an order the walk does not promise.    *)
PutString(i) ==
  /\ run[i].stage = "strings"
  /\ \E s \in run[i].unwritten :
       /\ strings' = [strings EXCEPT ![s] = run[i].password[RoleOf[s]]]
       /\ run' = [run EXCEPT ![i] = IF run[i].unwritten = {s} THEN DoneRun
                                    ELSE [run[i] EXCEPT !.unwritten = @ \ {s}]]
  /\ UNCHANGED <<storeVars, target, role, databases, rotated, lost>>

-----------------------------------------------------------------------------
(* The reset-apps phase: each app database dropped and recreated in turn.  *)

StartReset(i) ==
  /\ ~Active(i)
  /\ Walk(i) # <<>>
  /\ run' = [run EXCEPT ![i] = Started(i, "read")]
  /\ UNCHANGED <<storeVars, target, role, databases, strings, rotated, lost>>

(* A new password for the recreated database's owner.                      *)
ReadPasswordMinting(i) ==
  /\ run[i].stage = "read"
  /\ \E v \in Values \ generated :
       /\ generated' = generated \cup {v}
       /\ run' = [run EXCEPT ![i] =
                    [@ EXCEPT !.stage = "drop",
                              !.password = [IdleRun.password EXCEPT ![At(i)] = v]]]
  /\ UNCHANGED <<param, call, target, role, databases, strings, rotated, lost>>

(* A password that is not stored ends the phase before the drop.           *)
ReadPassword(i) ==
  /\ run[i].stage = "read"
  /\ run' = [run EXCEPT ![i] =
               IF param[At(i)] = None THEN IdleRun
               ELSE [run[i] EXCEPT !.stage = "drop",
                                   !.password = [IdleRun.password EXCEPT
                                                   ![At(i)] = param[At(i)]]]]
  /\ UNCHANGED <<storeVars, target, role, databases, strings, rotated, lost>>

(* Nothing to drop taken for nothing to do.                                *)
DropDatabaseOrSkip(i) ==
  /\ run[i].stage = "drop"
  /\ databases' = databases \ {At(i)}
  /\ run' = [run EXCEPT ![i] =
               IF At(i) \in databases
               THEN [run[i] EXCEPT !.stage = "role", !.dropped = TRUE]
               ELSE AfterRole(i)]
  /\ UNCHANGED <<role, lost>> /\ dbUnchanged

DropDatabase(i) ==
  /\ run[i].stage = "drop"
  /\ databases' = databases \ {At(i)}
  /\ run' = [run EXCEPT ![i] = [@ EXCEPT !.stage = "role",
                                         !.dropped = At(i) \in databases]]
  /\ UNCHANGED <<role, lost>> /\ dbUnchanged

-----------------------------------------------------------------------------
(* An invocation dies, or the operator rotates a password: the parameter   *)
(* is deleted for the next seed to fill, or written over.                  *)

Die(i) ==
  /\ Active(i)
  /\ run' = [run EXCEPT ![i] = IdleRun]
  /\ call' = IF i \in Seeds THEN [call EXCEPT ![i] = IdleCall] ELSE call
  /\ lost' = IF i \in Resets /\ run[i].dropped /\ At(i) \notin databases
             THEN lost \cup {At(i)} ELSE lost
  /\ UNCHANGED <<param, generated, target, role, databases, strings, rotated>>

Rotate(r) ==
  /\ r \in Rotatable \ rotated
  /\ Delete(r) \/ Overwrite(r)
  /\ rotated' = rotated \cup {r}
  /\ run' = [i \in Walkers |-> [run[i] EXCEPT !.tainted = Active(i)]]
  /\ UNCHANGED <<target, role, databases, strings, lost>>

SeedStep(i) ==
  \/ StartSeed(i) \/ EnsurePassword(i) \/ TakePassword(i) \/ PutString(i)

ResetStep(i) == StartReset(i) \/ ReadPassword(i) \/ DropDatabase(i)

DatabaseStep(i) ==
  \/ CheckRole(i) \/ CreateRole(i) \/ AlterRole(i)
  \/ CheckDatabase(i) \/ CreateDatabase(i)

Next ==
  \/ \E i \in Seeds : SeedStep(i)
  \/ \E i \in Resets : ResetStep(i)
  \/ \E i \in Walkers : DatabaseStep(i) \/ Die(i)
  \/ \E r \in Names : Rotate(r)

Spec == Init /\ [][Next]_vars
-----------------------------------------------------------------------------
(* A seed reaches Postgres with every password it ensured, a reset with    *)
(* the one it read.                                                        *)
HasPasswords(i) ==
  /\ i \in Seeds /\ run[i].stage \notin {"idle", "passwords", "done"} =>
       \A r \in Listed : run[i].password[r] \in Values
  /\ i \in Resets /\ run[i].stage \notin {"idle", "read", "done"} =>
       run[i].password[At(i)] \in Values

TypeOK ==
  /\ StoreTypeOK
  /\ target \in Targets
  /\ role \in [Names -> Values \cup {None, NoPassword}]
  /\ databases \subseteq Names /\ lost \subseteq Names
  /\ strings \in [Strings -> Values \cup {None}]
  /\ run \in [Walkers -> RunState]
  /\ \A i \in Walkers : Active(i) /\ run[i].stage # "strings" => run[i].at \in 1..Len(Walk(i))
  /\ \A i \in Walkers : HasPasswords(i)
  /\ rotated \subseteq Names

(* However seeds and resets overlap or die, a stored connection string of  *)
(* a role whose password was never rotated carries the password Postgres   *)
(* has for the role, which is the one in the store.                        *)
StringsFitTheRoles ==
  \A s \in Strings :
    strings[s] # None /\ RoleOf[s] \notin rotated =>
      /\ strings[s] = role[RoleOf[s]]
      /\ strings[s] = param[RoleOf[s]]

(* dbinit.go:9: a rotated secret takes effect by seeding again.  When a    *)
(* seed ends that ran beside no rotation, and beside no invocation that    *)
(* had read a password before one, every role's password is the stored one *)
(* and so is the one in each of its strings.                               *)
SeedTakesRotationsUp ==
  [][\A i \in Seeds :
       run[i].stage # "done" /\ run'[i].stage = "done" /\ ~run[i].tainted =>
         /\ \A r \in Listed : param'[r] # None /\ role'[r] = param'[r]
         /\ \A s \in Strings : RoleOf[s] \in Listed => strings'[s] = param'[RoleOf[s]]]_vars

(* A service whose connection string is stored has its database, unless a  *)
(* reset is just now recreating it or died before it could.                *)
MissingIsAccountedFor ==
  \A s \in Strings :
    strings[s] # None /\ RoleOf[s] \notin LoginOnly =>
      \/ RoleOf[s] \in databases \cup lost
      \/ \E i \in Resets : run[i].dropped /\ At(i) = RoleOf[s]

(* resetapps.go:129-131: running the phase again finishes what a dead run  *)
(* left; when a reset no other reset ran beside ends, every app has its    *)
(* database, the ones a dead run had dropped included.                     *)
ResetRestores ==
  [][\A i \in Resets :
       run[i].stage # "done" /\ run'[i].stage = "done" /\ Resets = {i} =>
         \A k \in 1..Len(target.apps) : target.apps[k] \in databases']_vars

(* A role that has a password is never left without one, although ensure   *)
(* may answer the empty string and ALTER ROLE would take it for none.      *)
PasswordStays ==
  [][\A r \in Names : role[r] \in Values => role'[r] \in Values]_vars
=============================================================================
