------------------------------- MODULE ModelPool -------------------------------
(***************************************************************************)
(* What the scheduler promises its clients, without queue, coordinator or   *)
(* threads: a pool of loaded models within a memory budget.  A request asks *)
(* for one model; it is admitted to it, which may first load it, or turned  *)
(* away; a model is unloaded only while nobody uses it.                     *)
(*                                                                         *)
(* One model per id: the promise for providers that load and unload each id *)
(* on its own (LM Studio).                                                  *)
(***************************************************************************)
EXTENDS Eviction

CONSTANTS Requests, Ids, Size, Capacity, NoId

VARIABLES
  stage,   \* of each request: "none", "waiting", "using" or "over"
  wants,   \* the id each request asked for
  loaded   \* the ids in the pool

poolVars == <<stage, wants, loaded>>

Using == {wants[r] : r \in {q \in Requests : stage[q] = "using"}}

Init ==
  /\ stage = [r \in Requests |-> "none"]
  /\ wants = [r \in Requests |-> NoId]
  /\ loaded = {}

Ask(r) ==
  /\ stage[r] = "none"
  /\ \E id \in Ids : wants' = [wants EXCEPT ![r] = id]
  /\ stage' = [stage EXCEPT ![r] = "waiting"]
  /\ UNCHANGED loaded

\* A new model comes in only where it fits.
Admit(r) ==
  /\ stage[r] = "waiting"
  /\ loaded' = loaded \cup {wants[r]}
  /\ wants[r] \notin loaded => Held(Size, loaded') <= Capacity
  /\ stage' = [stage EXCEPT ![r] = "using"]
  /\ UNCHANGED wants

TurnAway(r) ==
  /\ stage[r] = "waiting"
  /\ stage' = [stage EXCEPT ![r] = "over"]
  /\ UNCHANGED <<wants, loaded>>

Leave(r) ==
  /\ stage[r] = "using"
  /\ stage' = [stage EXCEPT ![r] = "over"]
  /\ UNCHANGED <<wants, loaded>>

Unload(S) ==
  /\ S # {} /\ S \subseteq loaded \ Using
  /\ loaded' = loaded \ S
  /\ UNCHANGED <<stage, wants>>

Next ==
  \/ \E r \in Requests : Ask(r) \/ Admit(r) \/ TurnAway(r) \/ Leave(r)
  \/ \E S \in SUBSET loaded : Unload(S)

Spec == Init /\ [][Next]_poolVars
===============================================================================
