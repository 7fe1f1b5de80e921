------------------------------ MODULE MCScheduler ------------------------------
(* Instances of Scheduler for TLC: few requests, ids and providers.           *)
EXTENDS Scheduler

CONSTANTS l1, l2, l3, l4, a, b, c, d, lms, ds4, llama

\* LM Studio alone serves a, b and c; nobody serves d.
LmsProviderOf == [id \in {a, b, c} |-> lms]

\* One LM Studio model beside a ds4 server that answers to two ids.
AliasProviderOf == (a :> lms) @@ (b :> ds4) @@ (c :> ds4)

\* Two ids, one at LM Studio and one at a spawned server.
TwoProviderOf == (a :> lms) @@ (b :> ds4)

\* A budget of 5 takes a and b together but c only alone; one of 9 takes all.
Sizes == [id \in Known |-> CASE id = a -> 2 [] id = b -> 3 [] id = c -> 4]

Perms == Permutations(Leases)
===============================================================================
