------------------------------- MODULE Eviction -------------------------------
(***************************************************************************)
(* The eviction policy of scheduling.py (select_evictions): which resident  *)
(* models go when a new load is `need` MiB short.                           *)
(*                                                                         *)
(* The policy compares two candidates: the smallest single model that is    *)
(* enough on its own, and the models taken smallest first until they are    *)
(* enough together.  Python's sort is stable and min() keeps the first of   *)
(* equals, so between models of one size the list order decides; that order *)
(* is abstracted here, and EvictionChoices is the set of every set of       *)
(* models some order yields.  EvictionLoop.tla has the loops themselves and *)
(* checks them against this definition.                                     *)
(***************************************************************************)
EXTENDS Integers, FiniteSets, FiniteSetsExt, Functions

\* MiB held together by the models of S; mem gives the size of each.
Held(mem, S) == SumFunctionOnSet(mem, S)

\* A model that reports no memory is never evicted.
Sized(mem, cands) == {m \in cands : mem[m] > 0}

\* Candidate A: a smallest model among those big enough alone.
SingleChoices(mem, cands, need) ==
  LET enough == {m \in Sized(mem, cands) : mem[m] >= need}
  IN  {m \in enough : \A o \in enough : mem[m] <= mem[o]}

\* Candidate B: a prefix of the models in order of size, which stops at the
\* model that makes it enough.
GreedyChoices(mem, cands, need) ==
  LET sized == Sized(mem, cands)
  IN  {G \in SUBSET sized :
         /\ Held(mem, G) >= need
         /\ \A m \in G, o \in sized \ G : mem[m] <= mem[o]
         /\ \E last \in G : /\ \A m \in G : mem[m] <= mem[last]
                            /\ Held(mem, G \ {last}) < need}

\* What select_evictions may return; {} where it raises.  A single model
\* wins a tie.
EvictionChoices(mem, cands, need) ==
  LET single == SingleChoices(mem, cands, need)
      greedy == GreedyChoices(mem, cands, need)
  IN  IF \E a \in single, G \in greedy : mem[a] <= Held(mem, G)
      THEN {{a} : a \in single}
      ELSE greedy
===============================================================================
