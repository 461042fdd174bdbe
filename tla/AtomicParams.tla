---------------------------- MODULE AtomicParams ----------------------------
(***************************************************************************)
(* What a parameter store with set-once values promises its callers,       *)
(* whatever they and an operator do at the same time.                      *)
(*                                                                         *)
(* A caller asks for a name and is told one value.  That value is the one  *)
(* stored at the moment it is told, so that two callers never leave with   *)
(* two values for a name nobody changed in between.  `created' is told     *)
(* only by the step that stored the value.  A caller may be told nothing   *)
(* only if the name was emptied while it waited.                           *)
(***************************************************************************)
CONSTANTS
  Names,    \* parameter names
  Values,   \* what a parameter may hold
  Callers,
  None      \* no value

VARIABLES
  param,    \* the store
  call      \* what each caller asked for and was told

vars == <<param, call>>

Call(state, name, answer, created, emptied) ==
  [state |-> state, name |-> name, answer |-> answer, created |-> created,
   emptied |-> emptied]

Idle == Call("idle", None, None, FALSE, FALSE)
Asking(n) == Call("asked", n, None, FALSE, FALSE)
Told(c, v, new) == Call("answered", call[c].name, v, new, call[c].emptied)
Emptied(c) == Call("asked", call[c].name, call[c].answer, call[c].created, TRUE)

Init ==
  /\ param = [n \in Names |-> None]
  /\ call = [c \in Callers |-> Idle]

(* A caller asks, or drops what it asked and asks for something else.      *)
Ask(c) ==
  /\ \E n \in Names : call' = [call EXCEPT ![c] = Asking(n)]
  /\ UNCHANGED param

Leave(c) ==
  /\ call' = [call EXCEPT ![c] = Idle]
  /\ UNCHANGED param

(* An empty name is filled.  Its caller is told so, or is still waiting.   *)
Create(c) ==
  /\ call[c].state = "asked" /\ param[call[c].name] = None
  /\ \E v \in Values :
       /\ param' = [param EXCEPT ![call[c].name] = v]
       /\ call' \in {call, [call EXCEPT ![c] = Told(c, v, TRUE)]}

Answer(c) ==
  /\ call[c].state = "asked"
  /\ param[call[c].name] = None => call[c].emptied
  /\ call' = [call EXCEPT ![c] = Told(c, param[call[c].name], FALSE)]
  /\ UNCHANGED param

(* An operator empties a name or stores another value under it.            *)
Empty(n) ==
  /\ param' = [param EXCEPT ![n] = None]
  /\ call' = [c \in Callers |->
                IF call[c].state = "asked" /\ call[c].name = n
                THEN Emptied(c) ELSE call[c]]

Replace(n) ==
  /\ \E v \in Values : param' = [param EXCEPT ![n] = v]
  /\ UNCHANGED call

Next ==
  \/ \E c \in Callers : Ask(c) \/ Leave(c) \/ Create(c) \/ Answer(c)
  \/ \E n \in Names : Empty(n) \/ Replace(n)

Spec == Init /\ [][Next]_vars
=============================================================================
