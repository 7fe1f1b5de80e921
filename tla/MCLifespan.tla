------------------------------ MODULE MCLifespan ------------------------------
(* Models a and b, one or both with a spawned server, and r of LM Studio.      *)
(* Where the budget is 3, r fits beside either and a and b exclude each other; *)
(* where it is 5, everything fits.                                             *)
EXTENDS Lifespan, TLC

CONSTANTS a, b, r

MCSize == [m \in {a, b, r} |-> IF m = r THEN 1 ELSE 2]
MCMaxAtOnce == (a :> 2) @@ (b :> 1)
MCPort == (a :> 8000) @@ (b :> 8080)

On(m, protect) == [model |-> m, protect |-> protect]
Site(plan, pruners, vram) == [plan |-> plan, pruners |-> pruners, vram |-> vram]

\* Where a alone is spawned these are Careful (LifespanProofs): the first three
\* evict and do not prune, the others have room for everything.
CarefulSites ==
  {Site(<<On(r, TRUE), On(a, FALSE)>>, {}, 3),
   Site(<<On(b, FALSE), On(a, TRUE)>>, {}, 3),
   Site(<<On(a, TRUE), On(b, TRUE)>>, {}, 3),
   Site(<<On(r, TRUE), On(a, FALSE)>>, {"ttl"}, 0),
   Site(<<On(r, TRUE), On(b, TRUE)>>, {"ctrl_e"}, 9)}
SweptSites == {Site(<<On(a, TRUE)>>, {"ttl"}, 3)}
BareSites == {Site(<< >>, {}, 3)}
===============================================================================
