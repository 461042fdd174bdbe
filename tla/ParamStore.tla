----------------------------- MODULE ParamStore -----------------------------
(***************************************************************************)
(* internal/ssmstore as its callers use it for set-once values: ensure is  *)
(* a read, a create that refuses to overwrite, and a second read when the  *)
(* create was refused, each a remote call others may act between.          *)
(*                                                                         *)
(* What generate returns is drawn at the first create, for nobody sees it  *)
(* before.  AWS's client sends a create again when its answer is lost.     *)
(***************************************************************************)
CONSTANTS
  Names,     \* parameter names
  Values,    \* random values, each drawn at most once
  Callers,   \* invocations that ensure parameters
  None       \* no value, no name

VARIABLES
  param,     \* the store
  generated, \* values drawn so far
  call       \* the ensure each caller is in

storeVars == <<param, generated, call>>

ASSUME NoneAssumption == None \notin Values \cup Names

IdleCall == [pc |-> "idle", name |-> None, value |-> None, answer |-> None,
             created |-> FALSE, emptied |-> FALSE]

CallState == [pc : {"idle", "get", "put", "readBack", "answered"},
              name : Names \cup {None},
              value : Values \cup {None},    \* what this call generated
              answer : Values \cup {None},   \* None is the empty string
              created : BOOLEAN,
              emptied : BOOLEAN]   \* the name was deleted meanwhile (history)

StoreTypeOK ==
  /\ param \in [Names -> Values \cup {None}]
  /\ generated \subseteq Values
  /\ call \in [Callers -> CallState]
  /\ \A c \in Callers :
       call[c].pc # "idle" => call[c].name \in Names

StoreInit ==
  /\ param = [n \in Names |-> None]
  /\ generated = {}
  /\ call = [c \in Callers |-> IdleCall]

Asking(n) == [pc |-> "get", name |-> n, value |-> None, answer |-> None,
              created |-> FALSE, emptied |-> FALSE]

Answered(c, v, new) ==
  [pc |-> "answered", name |-> call[c].name, value |-> call[c].value, answer |-> v,
   created |-> new, emptied |-> call[c].emptied]

Get(c) ==
  /\ call[c].pc = "get"
  /\ LET found == param[call[c].name] IN
       call' = [call EXCEPT ![c] = IF found # None THEN Answered(c, found, FALSE)
                                   ELSE [call[c] EXCEPT !.pc = "put"]]
  /\ UNCHANGED <<param, generated>>

(* The value a create carries: a new one, or the one sent before.          *)
Drawn(c) == IF call[c].value = None THEN Values \ generated ELSE {call[c].value}

(* A create that overwrites what is there.                                 *)
PutOverwriting(c) ==
  /\ call[c].pc = "put"
  /\ \E v \in Drawn(c) :
       /\ param' = [param EXCEPT ![call[c].name] = v]
       /\ generated' = generated \cup {v}
       /\ call' = [call EXCEPT ![c] = Answered(c, v, TRUE)]

(* The create stores the value; if its answer is lost it is sent again.    *)
Put(c) ==
  /\ call[c].pc = "put" /\ param[call[c].name] = None
  /\ \E v \in Drawn(c) :
       /\ param' = [param EXCEPT ![call[c].name] = v]
       /\ generated' = generated \cup {v}
       /\ \/ call' = [call EXCEPT ![c] = Answered(c, v, TRUE)]
          \/ call' = [call EXCEPT ![c].value = v]

PutRefused(c) ==
  /\ call[c].pc = "put" /\ param[call[c].name] # None
  /\ call' = [call EXCEPT ![c].pc = "readBack"]
  /\ UNCHANGED <<param, generated>>

(* The winner's value is returned, and whether it was found is not asked.  *)
ReadBack(c) ==
  /\ call[c].pc = "readBack"
  /\ call' = [call EXCEPT ![c] = Answered(c, param[call[c].name], FALSE)]
  /\ UNCHANGED <<param, generated>>

EnsureStep(c) == Get(c) \/ Put(c) \/ PutRefused(c) \/ ReadBack(c)

(* An operator deletes a parameter, or writes a new value over it.         *)
Delete(n) ==
  /\ param[n] # None
  /\ param' = [param EXCEPT ![n] = None]
  /\ call' = [c \in Callers |->
                IF call[c].pc \in {"get", "put", "readBack"} /\ call[c].name = n
                THEN [call[c] EXCEPT !.emptied = TRUE] ELSE call[c]]
  /\ UNCHANGED generated

Overwrite(n) ==
  /\ param[n] # None
  /\ \E v \in Values \ generated :
       /\ param' = [param EXCEPT ![n] = v]
       /\ generated' = generated \cup {v}
  /\ UNCHANGED call

-----------------------------------------------------------------------------
(* A call of ensure is one step to whoever looks at the store and at what  *)
(* the callers are told: ssmstore.go:82-120 is a read and a conditional    *)
(* write, and still no caller is told a value that is not the stored one,  *)
(* nor told it created a value somebody else stored.  Nothing is told only *)
(* when the parameter was deleted during the call (ssmstore.go:110 drops   *)
(* the found flag).                                                        *)
Seen(c) == [state |-> IF call[c].pc \in {"get", "put", "readBack"} THEN "asked"
                      ELSE call[c].pc,
            name |-> call[c].name, answer |-> call[c].answer,
            created |-> call[c].created, emptied |-> call[c].emptied]

Atomic == INSTANCE AtomicParams WITH call <- [c \in Callers |-> Seen(c)]
EnsureIsAtomic == Atomic!Spec
=============================================================================
