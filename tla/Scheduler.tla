------------------------------- MODULE Scheduler -------------------------------
(***************************************************************************)
(* The request scheduler of scheduling.py: leases, the coordinator task     *)
(* that serves them one at a time (and, while it waits to evict, serves the *)
(* requests for its victims ahead of the queue), and the prune tasks        *)
(* (ctrl+e and the TTL sweep) that unload idle models beside it.            *)
(*                                                                         *)
(* The tasks share one asyncio event loop: a task runs from one await to    *)
(* the next alone, and blocking provider calls run in threads meanwhile.    *)
(* So an action is what one task does between two awaits, or the effect of  *)
(* a provider thread.  Where the coordinator goes on without an await       *)
(* through several actions, coord = "running" keeps the other tasks out.    *)
(*                                                                         *)
(* A model object is created by the serve of one lease, so it is named by   *)
(* that lease: `resident' is a set of leases.  Its order, which only breaks *)
(* ties, is abstracted.                                                     *)
(***************************************************************************)
EXTENDS Eviction, Sequences, SequencesExt

CONSTANTS
  Leases,         \* the requests, each with the one lease it takes
  ModelIds,       \* the model ids requests may name
  Providers,
  ProviderOf,     \* lookup_model: the provider of each id that has one
  SingleResident, \* providers with one server process for all their ids
  Mem,            \* vram_mib() of each id, in MiB
  Budget,         \* budget_mib
  Protected,      \* ids of on_start "always" models
  Pruners,        \* the prune tasks: "ctrl_e", "ttl"
  Impatient,      \* requests whose client may hang up
  Flaky,          \* providers whose calls may raise
  None            \* neither a lease nor an id

Known == DOMAIN ProviderOf

ASSUME LeasesAssumption    == IsFiniteSet(Leases) /\ None \notin Leases
ASSUME ModelIdsAssumption  == None \notin ModelIds
ASSUME ProvidersAssumption ==
  /\ Known \subseteq ModelIds
  /\ ProviderOf \in [Known -> Providers]
  /\ SingleResident \subseteq Providers
  /\ Flaky \subseteq Providers
\* A slot is named by an id or by a provider, and tells which.
ASSUME SlotsAssumption     == ModelIds \cap Providers = {}
ASSUME MemAssumption       == Mem \in [Known -> Nat] /\ Budget \in Nat
ASSUME ActorsAssumption    == /\ Protected \subseteq ModelIds
                              /\ Pruners \subseteq {"ctrl_e", "ttl"}
                              /\ Impatient \subseteq Leases

VARIABLES
  \* each lease and the request task that owns it
  client,     \* "new", "acquiring", "holding" or "done"
  modelId,    \* the id asked for; None before acquire
  future,     \* "pending", "result", "error" or "cancelled"
  granted,    \* _granted
  finished,   \* _finished
  model,      \* the model object handed out, or None
  \* the queue and the coordinator
  pending,    \* queued leases
  wake,       \* the _wake event
  coord,      \* "running": holds the event loop; "suspended": at an await
  stack,      \* the nested _serve calls, innermost last
  pc,         \* where each lease's _serve is; "out" when there is none
  target,     \* the dying model a serve waits out, or None
  evict,      \* to_evict of each serve
  \* the models
  resident, inFlight, evicting,
  fresh,      \* models that finished a request less than ttl seconds ago
  up,         \* what is loaded at the providers: see Slot
  \* each prune task
  prunePc,    \* "idle", "scan", "unload", "reap" or "dead"
  served,     \* providers whose served ids _waiting_models resolved
  cands,      \* candidates still to visit
  cur         \* the candidate being unloaded, or None

leaseVars == <<client, modelId, future, granted, finished, model>>
coordVars == <<coord, stack, pc, target, evict>>
poolVars  == <<resident, inFlight, evicting, fresh, up>>
pruneVars == <<prunePc, served, cands, cur>>
vars == <<leaseVars, pending, wake, coordVars, poolVars, pruneVars>>

LeaseType ==
  /\ client   \in [Leases -> {"new", "acquiring", "holding", "done"}]
  /\ modelId  \in [Leases -> ModelIds \cup {None}]
  /\ future   \in [Leases -> {"pending", "result", "error", "cancelled"}]
  /\ granted  \in [Leases -> BOOLEAN]
  /\ finished \in [Leases -> BOOLEAN]
  /\ model    \in [Leases -> Leases \cup {None}]

CoordType ==
  /\ pending  \in Seq(Leases)
  /\ wake     \in BOOLEAN
  /\ coord    \in {"running", "suspended"}
  /\ stack    \in Seq(Leases)
  /\ pc       \in [Leases -> {"out", "lookup", "evictwait", "measure",
                              "quiesce", "loading"}]
  /\ target   \in [Leases -> Leases \cup {None}]
  /\ evict    \in [Leases -> SUBSET Leases]

PoolType ==
  /\ resident \subseteq Leases
  /\ inFlight \in [Leases -> Nat]
  /\ evicting \subseteq Leases
  /\ fresh    \subseteq Leases
  /\ up       \subseteq ModelIds \cup Providers

PruneType ==
  /\ prunePc  \in [Pruners -> {"idle", "scan", "unload", "reap", "dead"}]
  /\ served   \in [Pruners -> SUBSET Providers]
  /\ cands    \in [Pruners -> SUBSET Leases]
  /\ cur      \in [Pruners -> Leases \cup {None}]

\* Every variable keeps its type.
TypeOK == LeaseType /\ CoordType /\ PoolType /\ PruneType

Init ==
  /\ client   = [l \in Leases |-> "new"]
  /\ modelId  = [l \in Leases |-> None]
  /\ future   = [l \in Leases |-> "pending"]
  /\ granted  = [l \in Leases |-> FALSE]
  /\ finished = [l \in Leases |-> FALSE]
  /\ model    = [l \in Leases |-> None]
  /\ pending  = <<>>
  /\ wake     = FALSE
  /\ coord    = "suspended"
  /\ stack    = <<>>
  /\ pc       = [l \in Leases |-> "out"]
  /\ target   = [l \in Leases |-> None]
  /\ evict    = [l \in Leases |-> {}]
  /\ resident = {}
  /\ inFlight = [l \in Leases |-> 0]
  /\ evicting = {}
  /\ fresh    = {}
  /\ up       = {}
  /\ prunePc  = [p \in Pruners |-> "idle"]
  /\ served   = [p \in Pruners |-> {}]
  /\ cands    = [p \in Pruners |-> {}]
  /\ cur      = [p \in Pruners |-> None]

-------------------------------------------------------------------------------
(* State functions the code computes.                                      *)

Owner(m) == ProviderOf[modelId[m]]

\* What an unload of m really tears down: the one process its provider
\* holds, or the instance LM Studio knows under the model id.
Slot(m) == IF Owner(m) \in SingleResident THEN Owner(m) ELSE modelId[m]

Used == Held([m \in resident |-> Mem[modelId[m]]], resident)

\* Mutant: only an idle model is looked for.
ResidentIdle(p, id) == {m \in resident : modelId[m] = id /\ inFlight[m] = 0}

\* Mutant: a provider's model answers all its ids, whatever its kind.
ResidentOfProvider(p, id) ==
  LET exact == {m \in resident : modelId[m] = id}
  IN  IF exact # {} THEN exact ELSE {m \in resident : Owner(m) = p}

\* Mutant: a single resident answers only the id it was loaded for.
ResidentExact(p, id) == {m \in resident : modelId[m] = id}

\* The resident models that may answer id for provider p.  Of several, the
\* code takes the first loaded.
ResidentFor(p, id) ==
  LET exact == {m \in resident : modelId[m] = id}
  IN  IF exact # {} \/ p \notin SingleResident
      THEN exact
      ELSE {m \in resident : Owner(m) = p}

\* Whether a request for id is to be served before E is evicted.
Targets(id, E) == \E m \in E : m \in ResidentFor(Owner(m), id)

Serving == {l \in Leases : pc[l] # "out"}

Wanted == {modelId[l] : l \in ToSet(pending) \cup Serving}

\* Mutant: a request being served is not waiting.
WaitingQueued(known, res) ==
  LET queued == {modelId[l] : l \in ToSet(pending)}
  IN  {m \in res : \/ modelId[m] \in queued
                   \/ /\ Owner(m) \in SingleResident \cap known
                      /\ \E id \in queued \cap Known : ProviderOf[id] = Owner(m)}

\* The models of res a request is queued for or being served for, as far as
\* the provider ids resolved in `known' tell.
WaitingOn(known, res) ==
  {m \in res : \/ modelId[m] \in Wanted
               \/ /\ Owner(m) \in SingleResident \cap known
                  /\ \E id \in Wanted \cap Known : ProviderOf[id] = Owner(m)}

-------------------------------------------------------------------------------
(* Claims.                                                                 *)

\* What the tasks beside the coordinator wait for: the event loop.
LoopFree == coord = "suspended"

\* Requests cancelled in acquire() whose task has yet to run.  Its wake-up is
\* queued at once, so another task runs before it only if its own wake-up was
\* queued even earlier.  Of those turns one can tell the difference, and is
\* allowed: the coordinator granting that very lease.
Unwinding == {l \in Leases : client[l] = "acquiring" /\ future[l] = "cancelled"}

\* The coordinator, or a prune, takes a turn that is none of these.
Prompt == coord = "running" \/ Unwinding = {}

\* Mutant: the first to leave gives every claim back.
LeaveAll(m) ==
  /\ inFlight' = [inFlight EXCEPT ![m] = 0]
  /\ fresh' = fresh \cup {m}

\* Mutant: a claim is given back though none is counted.
LeaveBlindly(m) ==
  /\ inFlight' = [inFlight EXCEPT ![m] = @ - 1]
  /\ fresh' = IF inFlight[m] = 1 THEN fresh \cup {m} ELSE fresh

\* _leave: give one claim on m back.
Leave(m) ==
  IF inFlight[m] > 0
  THEN /\ inFlight' = [inFlight EXCEPT ![m] = @ - 1]
       /\ fresh' = IF inFlight[m] = 1 THEN fresh \cup {m} ELSE fresh
  ELSE UNCHANGED <<inFlight, fresh>>

\* Mutant: the claim of a requester that is gone stays.
GrantAnyway(l, m) ==
  /\ granted' = [granted EXCEPT ![l] = TRUE]
  /\ model' = [model EXCEPT ![l] = m]
  /\ inFlight' = [inFlight EXCEPT ![m] = @ + 1]
  /\ future' = IF future[l] = "pending" THEN [future EXCEPT ![l] = "result"] ELSE future
  /\ UNCHANGED <<client, modelId, finished, fresh>>

\* _grant: hand m to l.  If the requester is gone, the claim is taken
\* straight back, which may make m a freshly finished model.
Grant(l, m) ==
  /\ granted' = [granted EXCEPT ![l] = TRUE]
  /\ model' = [model EXCEPT ![l] = m]
  /\ IF finished[l] \/ future[l] = "cancelled"
     THEN /\ fresh' = IF inFlight[m] = 0 THEN fresh \cup {m} ELSE fresh
          /\ UNCHANGED <<inFlight, future>>
     ELSE /\ inFlight' = [inFlight EXCEPT ![m] = @ + 1]
          /\ future' = [future EXCEPT ![l] = "result"]
          /\ UNCHANGED fresh
  /\ UNCHANGED <<client, modelId, finished>>

\* _reject: fail the request, unless nobody listens.
Reject(l) ==
  /\ future' = IF finished[l] \/ future[l] # "pending"
               THEN future ELSE [future EXCEPT ![l] = "error"]
  /\ UNCHANGED <<client, modelId, granted, finished, model>>

\* Mutant: whoever is first in the queue goes.
WithoutHead(l) == IF l \in ToSet(pending) THEN Tail(pending) ELSE pending

\* Mutant: the queued slot is not given up.
WithoutNobody(l) == pending

\* The queue without l.
Without(l) ==
  IF l \in ToSet(pending)
  THEN RemoveAt(pending, CHOOSE i \in DOMAIN pending : pending[i] = l)
  ELSE pending

\* Lease.release(): the claim if there is one, else the queued slot.
Release(l) ==
  /\ finished' = [finished EXCEPT ![l] = TRUE]
  /\ client' = [client EXCEPT ![l] = "done"]
  /\ IF granted[l]
     THEN Leave(model[l]) /\ UNCHANGED <<pending, future>>
     ELSE /\ pending' = Without(l)
          /\ future' = IF future[l] = "pending"
                       THEN [future EXCEPT ![l] = "cancelled"] ELSE future
          /\ UNCHANGED <<inFlight, fresh>>
  /\ UNCHANGED <<modelId, granted, model, wake, coordVars, resident, evicting,
                 up, pruneVars>>

-------------------------------------------------------------------------------
(* The request tasks.                                                      *)

\* A request arrives: Lease.acquire() queues it and wakes the coordinator.
Acquire(l, id) ==
  /\ LoopFree
  /\ client[l] = "new"
  /\ client' = [client EXCEPT ![l] = "acquiring"]
  /\ modelId' = [modelId EXCEPT ![l] = id]
  /\ pending' = Append(pending, l)
  /\ wake' = TRUE
  /\ UNCHANGED <<future, granted, finished, model, coordVars, poolVars, pruneVars>>

\* acquire() returns the model: the request is forwarded to it.
Resume(l) ==
  /\ LoopFree
  /\ client[l] = "acquiring" /\ future[l] = "result"
  /\ client' = [client EXCEPT ![l] = "holding"]
  /\ UNCHANGED <<modelId, future, granted, finished, model, pending, wake,
                 coordVars, poolVars, pruneVars>>

\* acquire() raises, and releases on its way out.
ResumeFailed(l) ==
  /\ LoopFree
  /\ client[l] = "acquiring" /\ future[l] \in {"error", "cancelled"}
  /\ Release(l)

\* The client hangs up while its task waits for the future: cancelling the
\* task cancels the future at once; the task itself runs in the next turns.
Disconnect(l) ==
  /\ LoopFree
  /\ l \in Impatient
  /\ client[l] = "acquiring" /\ future[l] = "pending"
  /\ future' = [future EXCEPT ![l] = "cancelled"]
  /\ UNCHANGED <<client, modelId, granted, finished, model, pending, wake,
                 coordVars, poolVars, pruneVars>>

\* The client hangs up after the grant and before its task resumes: the
\* cancellation is delivered in place of the result.
DisconnectGranted(l) ==
  /\ LoopFree
  /\ l \in Impatient
  /\ client[l] = "acquiring" /\ future[l] = "result"
  /\ Release(l)

\* The response ends, or its client hangs up: the route's finally.
Finish(l) ==
  /\ LoopFree
  /\ client[l] = "holding"
  /\ Release(l)

-------------------------------------------------------------------------------
(* The coordinator: _run, _serve and _quiesce.                             *)

\* The innermost serve is l's and waits at `where'.
Waits(l, where) ==
  /\ stack # <<>>
  /\ l = Last(stack)
  /\ pc[l] = where

At(l, where) == Waits(l, where) /\ Prompt
AtGrant(l, where) == Waits(l, where) /\ Unwinding \subseteq {l}

\* _serve(l) begins, up to its first await; it returns at once for a
\* finished lease.
BeginServe(l) ==
  /\ IF finished[l]
     THEN UNCHANGED coordVars
     ELSE /\ stack' = Append(stack, l)
          /\ pc' = [pc EXCEPT ![l] = "lookup"]
          /\ coord' = "suspended"
          /\ UNCHANGED <<target, evict>>
  /\ UNCHANGED <<leaseVars, wake, poolVars, pruneVars>>

\* _serve(l) returns to its caller, which goes on without an await.
EndServe(l) ==
  /\ stack' = Front(stack)
  /\ pc' = [pc EXCEPT ![l] = "out"]
  /\ target' = [target EXCEPT ![l] = None]
  /\ evict' = [evict EXCEPT ![l] = {}]
  /\ coord' = "running"

\* _serve(l) starts the provider's load in a thread.  A spawned server is a
\* process as soon as the load begins.
BeginLoad(l, left) ==
  /\ pc' = [pc EXCEPT ![l] = "loading"]
  /\ coord' = "suspended"
  /\ up' = IF Owner(l) \in SingleResident THEN left \cup {Slot(l)} ELSE left
  /\ UNCHANGED <<leaseVars, pending, wake, stack, target, evict, inFlight,
                 evicting, fresh, pruneVars>>

Dequeue ==
  /\ coord = "running" /\ stack = <<>> /\ pending # <<>>
  /\ pending' = Tail(pending)
  /\ BeginServe(Head(pending))

Sleep ==
  /\ coord = "running" /\ stack = <<>> /\ pending = <<>>
  /\ coord' = "suspended"
  /\ UNCHANGED <<leaseVars, pending, wake, stack, pc, target, evict, poolVars,
                 pruneVars>>

Awake ==
  /\ coord = "suspended" /\ stack = <<>> /\ wake /\ Prompt
  /\ wake' = FALSE
  /\ coord' = "running"
  /\ UNCHANGED <<leaseVars, pending, stack, pc, target, evict, poolVars, pruneVars>>

\* lookup_model says that no provider has the id.
Unknown(l) ==
  /\ At(l, "lookup")
  /\ modelId[l] \notin Known
  /\ Reject(l) /\ EndServe(l)
  /\ UNCHANGED <<pending, wake, poolVars, pruneVars>>

\* Mutant: whether a prune is unloading the model is not asked.
FoundAnyway(l) ==
  /\ AtGrant(l, "lookup") \/ (AtGrant(l, "evictwait") /\ target[l] \notin evicting)
  /\ modelId[l] \in Known
  /\ \E m \in ResidentFor(ProviderOf[modelId[l]], modelId[l]) : Grant(l, m)
  /\ EndServe(l)
  /\ UNCHANGED <<pending, wake, resident, evicting, up, pruneVars>>

\* The provider is known and a resident model answers: grant it.
Found(l) ==
  /\ AtGrant(l, "lookup") \/ (AtGrant(l, "evictwait") /\ target[l] \notin evicting)
  /\ modelId[l] \in Known
  /\ \E m \in ResidentFor(ProviderOf[modelId[l]], modelId[l]) :
       /\ pc[l] = "lookup" => m \notin evicting
       /\ Grant(l, m)
  /\ EndServe(l)
  /\ UNCHANGED <<pending, wake, resident, evicting, up, pruneVars>>

\* A prune is unloading the model that would answer: poll until it has.
FoundDying(l) ==
  /\ At(l, "lookup")
  /\ modelId[l] \in Known
  /\ \E m \in ResidentFor(ProviderOf[modelId[l]], modelId[l]) \cap evicting :
       target' = [target EXCEPT ![l] = m]
  /\ pc' = [pc EXCEPT ![l] = "evictwait"]
  /\ UNCHANGED <<leaseVars, pending, wake, coord, stack, evict, poolVars, pruneVars>>

\* No resident model answers: make one and measure it.
Missing(l) ==
  /\ At(l, "lookup") \/ (At(l, "evictwait") /\ target[l] \notin evicting)
  /\ modelId[l] \in Known
  /\ ResidentFor(ProviderOf[modelId[l]], modelId[l]) = {}
  /\ pc' = [pc EXCEPT ![l] = "measure"]
  /\ UNCHANGED <<leaseVars, pending, wake, coord, stack, target, evict, poolVars,
                 pruneVars>>

Shortfall(l) == Mem[modelId[l]] - (Budget - Used)

\* Mutant: protected models are candidates.
VictimsAny(l) ==
  EvictionChoices([m \in resident |-> Mem[modelId[m]]], resident, Shortfall(l))

\* What select_evictions may pick for l, never among the protected.
Victims(l) ==
  EvictionChoices([m \in resident |-> Mem[modelId[m]]],
                  {m \in resident : modelId[m] \notin Protected}, Shortfall(l))

\* Mutant: what is resident is not counted.
FitsAlone(l) == Mem[modelId[l]] <= Budget

Fits(l) == Mem[modelId[l]] = 0 \/ Shortfall(l) <= 0

MeasuredFits(l) ==
  /\ At(l, "measure")
  /\ Fits(l)
  /\ BeginLoad(l, up)
  /\ UNCHANGED resident

MeasuredEvicts(l) ==
  /\ At(l, "measure")
  /\ ~Fits(l)
  /\ \E E \in Victims(l) : evict' = [evict EXCEPT ![l] = E]
  /\ pc' = [pc EXCEPT ![l] = "quiesce"]
  /\ coord' = "running"
  /\ UNCHANGED <<leaseVars, pending, wake, stack, target, poolVars, pruneVars>>

MeasuredTooBig(l) ==
  /\ At(l, "measure")
  /\ ~Fits(l) /\ Victims(l) = {}
  /\ Reject(l) /\ EndServe(l)
  /\ UNCHANGED <<pending, wake, poolVars, pruneVars>>

\* A provider call raises during the lookup or the measurement.
ServeRaises(l) ==
  /\ \/ At(l, "lookup") /\ Flaky # {}
     \/ At(l, "measure") /\ ProviderOf[modelId[l]] \in Flaky
  /\ Reject(l) /\ EndServe(l)
  /\ UNCHANGED <<pending, wake, poolVars, pruneVars>>

\* _quiesce serves the first queued request for a victim, ahead of the queue.
LineCut(l) ==
  /\ At(l, "quiesce")
  /\ \E i \in DOMAIN pending :
       /\ Targets(modelId[pending[i]], evict[l])
       /\ \A j \in 1 .. i - 1 : ~Targets(modelId[pending[j]], evict[l])
       /\ pending' = RemoveAt(pending, i)
       /\ BeginServe(pending[i])

Uncontested(l) ==
  \A i \in DOMAIN pending : ~Targets(modelId[pending[i]], evict[l])

\* A victim still serves: sleep and look again.
DrainWait(l) ==
  /\ At(l, "quiesce") /\ coord = "running"
  /\ Uncontested(l)
  /\ \E m \in evict[l] : inFlight[m] > 0
  /\ coord' = "suspended"
  /\ UNCHANGED <<leaseVars, pending, wake, stack, pc, target, evict, poolVars,
                 pruneVars>>

\* Mutant: one idle victim is enough.
DrainedOne(l) ==
  /\ At(l, "quiesce")
  /\ Uncontested(l)
  /\ \E m \in evict[l] : inFlight[m] = 0

Drained(l) ==
  /\ At(l, "quiesce")
  /\ Uncontested(l)
  /\ \A m \in evict[l] : inFlight[m] = 0

\* The victims are unloaded on the event loop, and the load begins.
EvictAndLoad(l) ==
  /\ Drained(l)
  /\ resident' = resident \ evict[l]
  /\ BeginLoad(l, up \ {Slot(m) : m \in evict[l]})

\* An unload raises: the victims before it are gone, and all stay resident.
EvictRaises(l) ==
  /\ Drained(l)
  /\ \E m \in evict[l] :
       /\ Owner(m) \in Flaky \ SingleResident
       /\ \E gone \in SUBSET (evict[l] \ {m}) : up' = up \ {Slot(g) : g \in gone}
  /\ Reject(l) /\ EndServe(l)
  /\ UNCHANGED <<pending, wake, resident, inFlight, evicting, fresh, pruneVars>>

\* The provider reports the model ready; a spawned server must still run.
Loaded(l) ==
  /\ AtGrant(l, "loading")
  /\ Owner(l) \in SingleResident => Slot(l) \in up
  /\ up' = up \cup {Slot(l)}
  /\ resident' = resident \cup {l}
  /\ Grant(l, l) /\ EndServe(l)
  /\ UNCHANGED <<pending, wake, evicting, pruneVars>>

\* The load raises; a server that did not get ready is terminated.
LoadRaises(l) ==
  /\ At(l, "loading")
  /\ \/ Owner(l) \in Flaky
     \/ Owner(l) \in SingleResident /\ Slot(l) \notin up
  /\ up' = IF Owner(l) \in SingleResident THEN up \ {Slot(l)} ELSE up
  /\ Reject(l) /\ EndServe(l)
  /\ UNCHANGED <<pending, wake, resident, inFlight, evicting, fresh, pruneVars>>

-------------------------------------------------------------------------------
(* The prune tasks: _prune, from evict_idle and from _ttl_loop.            *)

\* Mutant: the candidates are not looked at again.
VisitAll(p, C, known, res, dying) ==
  \/ /\ C = {}
     /\ prunePc' = [prunePc EXCEPT ![p] = "idle"]
     /\ served' = [served EXCEPT ![p] = {}]
     /\ cands' = [cands EXCEPT ![p] = {}]
     /\ cur' = [cur EXCEPT ![p] = None]
     /\ evicting' = dying
  \/ \E m \in C :
     /\ prunePc' = [prunePc EXCEPT ![p] = "unload"]
     /\ served' = [served EXCEPT ![p] = known]
     /\ cands' = [cands EXCEPT ![p] = C \ {m}]
     /\ cur' = [cur EXCEPT ![p] = m]
     /\ evicting' = dying \cup {m}

\* Visit the candidates C in some order: those claimed or waited on are
\* skipped, the first other one is unloaded in a thread.  `res' and `dying'
\* are resident and _evicting as the visit finds them.
Visit(p, C, known, res, dying) ==
  LET busy == {m \in C : inFlight[m] > 0 \/ m \in WaitingOn(known, res)}
  IN  \/ /\ C = busy
         /\ prunePc' = [prunePc EXCEPT ![p] = "idle"]
         /\ served' = [served EXCEPT ![p] = {}]
         /\ cands' = [cands EXCEPT ![p] = {}]
         /\ cur' = [cur EXCEPT ![p] = None]
         /\ evicting' = dying
      \/ \E m \in C \ busy, skipped \in SUBSET busy :
         /\ prunePc' = [prunePc EXCEPT ![p] = "unload"]
         /\ served' = [served EXCEPT ![p] = known]
         /\ cands' = [cands EXCEPT ![p] = C \ ({m} \cup skipped)]
         /\ cur' = [cur EXCEPT ![p] = m]
         /\ evicting' = dying \cup {m}

\* Choose the candidates: idle, not waited on, not protected, and for the
\* TTL sweep not served within the last ttl seconds.
Select(p, known) ==
  /\ Visit(p, {m \in resident \ WaitingOn(known, resident) :
                 /\ inFlight[m] = 0
                 /\ modelId[m] \notin Protected
                 /\ p = "ttl" => m \notin fresh},
           known, resident, evicting)
  /\ UNCHANGED <<leaseVars, pending, wake, coordVars, resident, inFlight, fresh, up>>

\* The single-resident providers with a resident model, whose ids a prune
\* resolves in threads.
Scannable == {Owner(m) : m \in resident} \cap SingleResident

\* A prune begins.  It resolves provider ids only if a request is waiting.
PruneBegin(p) ==
  /\ LoopFree /\ Prompt
  /\ prunePc[p] = "idle"
  /\ \/ /\ (pending = <<>> /\ Serving = {}) \/ Scannable = {}
        /\ Select(p, {})
     \/ /\ pending # <<>> \/ Serving # {}
        /\ Scannable # {}
        /\ prunePc' = [prunePc EXCEPT ![p] = "scan"]
        /\ served' = [served EXCEPT ![p] = Scannable]
        /\ UNCHANGED <<leaseVars, pending, wake, coordVars, poolVars, cands, cur>>

\* The ids are resolved.  A model loaded meanwhile may have been seen too.
PruneScanned(p) ==
  /\ LoopFree /\ Prompt
  /\ prunePc[p] = "scan"
  /\ \E late \in SUBSET (Scannable \ served[p]) : Select(p, served[p] \cup late)

\* The unload thread stops the server, or unloads the instance.
PruneTeardown(p) ==
  /\ prunePc[p] = "unload"
  /\ up' = up \ {Slot(cur[p])}
  /\ prunePc' = [prunePc EXCEPT ![p] = "reap"]
  /\ UNCHANGED <<leaseVars, pending, wake, coordVars, resident, inFlight, evicting,
                 fresh, served, cands, cur>>

\* Mutant: the unloaded model stays resident.
PruneReapedKept(p) ==
  /\ LoopFree /\ Prompt
  /\ prunePc[p] = "reap"
  /\ Visit(p, cands[p], served[p], resident, evicting \ {cur[p]})
  /\ UNCHANGED <<leaseVars, pending, wake, coordVars, resident, inFlight, fresh, up>>

\* The prune goes on: the model is dropped and the next one visited.
PruneReaped(p) ==
  /\ LoopFree /\ Prompt
  /\ prunePc[p] = "reap"
  /\ resident' = resident \ {cur[p]}
  /\ Visit(p, cands[p], served[p], resident', evicting \ {cur[p]})
  /\ UNCHANGED <<leaseVars, pending, wake, coordVars, inFlight, fresh, up>>

\* Mutant: a model whose unload raised is dying for ever.
PruneRaisesDying(p) ==
  /\ LoopFree /\ Prompt
  /\ prunePc[p] = "unload"
  /\ Owner(cur[p]) \in Flaky \ SingleResident
  /\ prunePc' = [prunePc EXCEPT ![p] = "dead"]
  /\ cands' = [cands EXCEPT ![p] = {}]
  /\ cur' = [cur EXCEPT ![p] = None]
  /\ UNCHANGED <<leaseVars, pending, wake, coordVars, resident, inFlight, evicting,
                 fresh, up, served>>

\* The unload raises, and nothing catches it: the task ends.
PruneRaises(p) ==
  /\ LoopFree /\ Prompt
  /\ prunePc[p] = "unload"
  /\ Owner(cur[p]) \in Flaky \ SingleResident
  /\ evicting' = evicting \ {cur[p]}
  /\ prunePc' = [prunePc EXCEPT ![p] = "dead"]
  /\ cands' = [cands EXCEPT ![p] = {}]
  /\ cur' = [cur EXCEPT ![p] = None]
  /\ UNCHANGED <<leaseVars, pending, wake, coordVars, resident, inFlight, fresh, up,
                 served>>

\* ttl seconds pass without a request for m.
Age(m) ==
  /\ "ttl" \in Pruners
  /\ m \in fresh
  /\ fresh' = fresh \ {m}
  /\ UNCHANGED <<leaseVars, pending, wake, coordVars, resident, inFlight, evicting,
                 up, pruneVars>>

-------------------------------------------------------------------------------
RequestStep(l) ==
  \/ \E id \in ModelIds : Acquire(l, id)
  \/ Resume(l) \/ ResumeFailed(l)
  \/ Disconnect(l) \/ DisconnectGranted(l)
  \/ Finish(l)

ServeStep(l) ==
  \/ Unknown(l) \/ Found(l) \/ FoundDying(l) \/ Missing(l)
  \/ MeasuredFits(l) \/ MeasuredEvicts(l) \/ MeasuredTooBig(l)
  \/ ServeRaises(l)
  \/ LineCut(l) \/ DrainWait(l) \/ EvictAndLoad(l) \/ EvictRaises(l)
  \/ Loaded(l) \/ LoadRaises(l)

Coordinator == Dequeue \/ Sleep \/ Awake \/ \E l \in Leases : ServeStep(l)

PruneStep(p) ==
  \/ PruneBegin(p) \/ PruneScanned(p)
  \/ PruneTeardown(p) \/ PruneReaped(p) \/ PruneRaises(p)

\* Every request is answered and every task at rest.
Terminating ==
  /\ \A l \in Leases : client[l] = "done"
  /\ stack = <<>> /\ coord = "suspended" /\ ~wake
  /\ \A p \in Pruners : prunePc[p] \in {"idle", "dead"}
  /\ UNCHANGED vars

Next ==
  \/ \E l \in Leases : RequestStep(l)
  \/ Coordinator
  \/ \E p \in Pruners : PruneStep(p)
  \/ \E m \in Leases : Age(m)
  \/ Terminating

Spec == Init /\ [][Next]_vars

\* Provider calls return, the event loop runs every ready task, and every
\* response ends.
Fairness ==
  /\ WF_vars(Coordinator)
  /\ \A l \in Leases : WF_vars(Resume(l) \/ ResumeFailed(l)) /\ WF_vars(Finish(l))
  /\ \A p \in Pruners :
       WF_vars(PruneScanned(p) \/ PruneTeardown(p) \/ PruneReaped(p) \/ PruneRaises(p))

FairSpec == Spec /\ Fairness

-------------------------------------------------------------------------------
(* Properties.                                                             *)

\* The live claims on m: leases that were granted m and not yet released.
Claimants(m) == {l \in Leases : granted[l] /\ ~finished[l] /\ model[l] = m}

\* Lease docstring (scheduling.py:114-121): a claim that outlives its request
\* makes its model unevictable until the process restarts.  So in_flight
\* never counts more than the leases that are still to release.
NoLeakedClaim == \A m \in Leases : inFlight[m] <= Cardinality(Claimants(m))

\* The converse: what a request holds is counted, and so kept out of every
\* eviction path.
HeldIsCounted ==
  \A m \in Leases :
    inFlight[m] >= Cardinality({l \in Claimants(m) : client[l] = "holding"})

\* No request is lost between the queue, the coordinator and its client: one
\* that still waits is queued or being served, and not both (_serve: "every
\* exit path either grants the model or leaves the request holding nothing").
NoLostRequest ==
  \A l \in Leases :
    client[l] = "acquiring" /\ future[l] = "pending"
      => (l \in ToSet(pending)) # (l \in Serving)

\* A queued lease is neither released nor granted, so the coordinator never
\* dequeues a request that has let go of its slot (Lease.release).
QueuedAreLive == \A l \in ToSet(pending) : ~finished[l] /\ ~granted[l]

\* What the resident models and the one being loaded take together fits the
\* budget ("the request fails rather than over-committing").
BudgetRespected ==
  LET held == resident \cup {l \in Leases : pc[l] = "loading"}
  IN  Held([m \in held |-> Mem[modelId[m]]], held) <= Budget

\* One server process, or LM Studio instance, is never two resident models:
\* unloading one would take the other down.
OneResidentPerSlot ==
  \A m, n \in resident : Slot(m) = Slot(n) => m = n

\* The model a request holds is loaded for as long as it holds it ("so a
\* running generation is never cut off").
GenerationNeverCut ==
  \A l \in Leases : client[l] = "holding" => Slot(model[l]) \in up

\* The books agree with the providers: a resident model is loaded, unless a
\* prune is taking it down.
ResidentIsUp == \A m \in resident \ evicting : Slot(m) \in up

\* A model whose unload is dispatched is never granted (Scheduler._evicting).
NoGrantWhileDying ==
  [][\A l \in Leases : model'[l] # model[l] => model'[l] \notin evicting]_vars

\* A prune never takes a model that a queued or served request names.
PruneSparesNamed ==
  [][\A m \in evicting' \ evicting : modelId[m] \notin Wanted]_vars

\* Models with an on_start "always" id are never evicted.
ProtectedStay ==
  [][\A m \in resident : modelId[m] \in Protected => m \in resident']_vars

\* Every request is answered: it gets its model, or its client is told.
Answered ==
  \A l \in Leases : client[l] = "acquiring" ~> client[l] \in {"holding", "done"}

-------------------------------------------------------------------------------
(* The abstract view.  A request counts as using its model from the grant    *)
(* until it releases, whether or not its task has run in between.            *)

Stage(l) ==
  CASE client[l] = "new" -> "none"
    [] client[l] = "done" \/ future[l] = "error" -> "over"
    [] granted[l] /\ client[l] # "done" -> "using"
    [] OTHER -> "waiting"

Pool == INSTANCE ModelPool WITH
  Requests <- Leases,
  Ids      <- ModelIds,
  Size     <- Mem,
  Capacity <- Budget,
  NoId     <- None,
  stage    <- [l \in Leases |-> Stage(l)],
  wants    <- modelId,
  loaded   <- {modelId[m] : m \in resident}

\* The scheduler keeps the promise of ModelPool: nothing is unloaded while a
\* request uses it, nothing is loaded beyond the budget, and every request is
\* admitted to the model it asked for or turned away.
ImplementsPool == Pool!Spec

===============================================================================
