----------------------------- MODULE EvictionLoop -----------------------------
(***************************************************************************)
(* select_evictions of scheduling.py as the code runs it: a scan for the    *)
(* smallest single model that is enough, a loop that takes models in order  *)
(* of size until they are enough, and the comparison of the two.  Checked   *)
(* against EvictionChoices, which Scheduler uses for the whole call.        *)
(***************************************************************************)
EXTENDS Eviction, Sequences, SequencesExt

CONSTANTS
  Models,   \* the resident models
  MaxSize,  \* bound on the size of one
  MaxNeed,  \* bound on the shortfall
  None

ASSUME EvictionAssumption == /\ IsFiniteSet(Models) /\ None \notin Models
                             /\ MaxSize \in Nat /\ MaxNeed \in Nat \ {0}

VARIABLES
  size,    \* vram_mib() of each model
  list,    \* the resident list: an order of Models
  need,    \* shortfall_mib; positive, as _serve calls it
  step,    \* "single", "greedy", "choose", "done" or "raised"
  at,      \* position in the scan
  single,  \* a: the best single model so far, or None
  taken,   \* b, as a set
  total,   \* MiB taken
  result

inputs == <<size, list, need>>
vars == <<inputs, step, at, single, taken, total, result>>

TypeOK ==
  /\ size \in [Models -> 0 .. MaxSize]
  /\ list \in Seq(Models) /\ ToSet(list) = Models
  /\ need \in 1 .. MaxNeed
  /\ step \in {"single", "greedy", "choose", "done", "raised"}
  /\ at \in 1 .. Len(list) + 1
  /\ single \in Models \cup {None}
  /\ taken \subseteq Models /\ total \in Nat
  /\ result \subseteq Models

Init ==
  /\ size \in [Models -> 0 .. MaxSize]
  /\ list \in SetToSeqs(Models)
  /\ need \in 1 .. MaxNeed
  /\ step = "single" /\ at = 1
  /\ single = None /\ taken = {} /\ total = 0 /\ result = {}

\* Mutant: the smallest model, enough or not.
BetterSmallest(m) == size[m] > 0 /\ (single = None \/ size[m] < size[single])

\* min(): a later model replaces only a strictly larger one.
BetterSingle(m) ==
  /\ size[m] > 0 /\ size[m] >= need
  /\ single = None \/ size[m] < size[single]

ScanSingle ==
  /\ step = "single" /\ at <= Len(list)
  /\ single' = IF BetterSingle(list[at]) THEN list[at] ELSE single
  /\ at' = at + 1
  /\ UNCHANGED <<inputs, step, taken, total, result>>

ScanEnds ==
  /\ step = "single" /\ at > Len(list)
  /\ step' = "greedy"
  /\ UNCHANGED <<inputs, at, single, taken, total, result>>

\* The next of the sorted candidates: the sort is stable, so the first in
\* the list of the smallest left.
NextSmallest(m) ==
  LET left == Sized(size, Models) \ taken
      Place(o) == CHOOSE i \in DOMAIN list : list[i] = o
  IN  /\ m \in left
      /\ \A o \in left \ {m} :
           size[m] < size[o] \/ (size[m] = size[o] /\ Place(m) < Place(o))

TakeNext ==
  /\ step = "greedy"
  /\ taken = {} \/ total < need
  /\ \E m \in Models :
       /\ NextSmallest(m)
       /\ taken' = taken \cup {m}
       /\ total' = total + size[m]
  /\ UNCHANGED <<inputs, step, at, single, result>>

\* Mutant: one MiB too early.
TakenAlmost ==
  /\ step = "greedy"
  /\ \/ taken # {} /\ total >= need - 1
     \/ taken = Sized(size, Models)
  /\ step' = "choose"
  /\ UNCHANGED <<inputs, at, single, taken, total, result>>

TakenEnough ==
  /\ step = "greedy"
  /\ \/ taken # {} /\ total >= need
     \/ taken = Sized(size, Models)
  /\ step' = "choose"
  /\ UNCHANGED <<inputs, at, single, taken, total, result>>

\* Mutant: no single model is enough, so nothing is.
GiveUpEarly ==
  /\ step = "choose"
  /\ single = None
  /\ step' = "raised"
  /\ UNCHANGED <<inputs, at, single, taken, total, result>>

\* Neither is enough: "cannot free enough VRAM to fit model".
GiveUp ==
  /\ step = "choose"
  /\ single = None /\ total < need
  /\ step' = "raised"
  /\ UNCHANGED <<inputs, at, single, taken, total, result>>

\* Mutant: the test for None the wrong way round.
PickNone == single = None \/ total < need

\* Mutant: the greedy set wins a tie.
PickSmaller == single # None /\ (total < need \/ size[single] < total)

\* Mutant: the single model is only a last resort.
PickLast == single # None /\ total < need

PickSingle ==
  /\ single # None
  /\ total < need \/ size[single] - need <= total - need

Choose ==
  /\ step = "choose"
  /\ single # None \/ total >= need
  /\ result' = IF PickSingle THEN {single} ELSE taken
  /\ step' = "done"
  /\ UNCHANGED <<inputs, at, single, taken, total>>

Returned == step \in {"done", "raised"} /\ UNCHANGED vars

Next == ScanSingle \/ ScanEnds \/ TakeNext \/ TakenEnough \/ GiveUp \/ Choose \/ Returned

Spec == Init /\ [][Next]_vars

-------------------------------------------------------------------------------
\* The loops return exactly what EvictionChoices says they may, and raise
\* where it is empty (select_evictions).
ReturnsAChoice ==
  /\ step = "done" => result \in EvictionChoices(size, Models, need)
  /\ step = "raised" => EvictionChoices(size, Models, need) = {}

\* What is evicted covers the shortfall (docstring: "free shortfall").
FreesEnough == step = "done" => Held(size, result) >= need

\* The call raises only if evicting everything would not do ("Raise if
\* neither can free enough").
RaisesOnlyIfHopeless == step = "raised" => Held(size, Models) < need

\* Where one model is enough, no more than the smallest such is given up,
\* whichever candidate wins ("the least-impact set").
NeverBeatenBySingle ==
  step = "done" =>
    \A m \in Models : size[m] >= need => Held(size, result) <= size[m]

\* A model that is enough alone implies that the greedy loop got there: the
\* branch that returns the single model for want of the other is dead.
GreedyCoversSingle == step = "choose" /\ single # None => total >= need
===============================================================================
