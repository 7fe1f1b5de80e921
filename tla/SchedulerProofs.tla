---------------------------- MODULE SchedulerProofs ----------------------------
(***************************************************************************)
(* Theorems about Scheduler, for every value of its constants.              *)
(*                                                                         *)
(* The invariant Inv behind all of them follows a lease through its life:   *)
(* it waits in the queue, once; it leaves it to be served or because its    *)
(* client let go; and only a lease being served is ever granted, so it is   *)
(* granted at most once, and its claim and in_flight move together.         *)
(***************************************************************************)
EXTENDS Scheduler, QueueLemmas, FiniteSetTheorems, TLAPS

-------------------------------------------------------------------------------
(* The invariant.                                                          *)

\* A queued lease waits: nobody has served, granted or released it.
QueueLive ==
  \A l \in Leases : l \in ToSet(pending) =>
    /\ client[l] = "acquiring" /\ future[l] \in {"pending", "cancelled"}
    /\ ~granted[l] /\ ~finished[l] /\ pc[l] = "out"

QueueOnce == IsInjective(pending)

\* A lease being served has been asked for and not granted; past the lookup
\* its id has a provider.
ServesLive ==
  \A l \in Leases :
    /\ pc[l] # "out" => client[l] # "new" /\ ~granted[l]
    /\ pc[l] \in {"measure", "quiesce", "loading"} => modelId[l] \in Known

\* Nothing has happened to a lease that is new; released is done; a grant
\* names a model; and a result needs a grant.
LeaseLife ==
  \A l \in Leases :
    /\ client[l] = "new" => ~granted[l] /\ future[l] = "pending"
    /\ finished[l] <=> client[l] = "done"
    /\ granted[l] => model[l] \in Leases
    /\ future[l] = "result" => granted[l]

\* A request that waits is queued or being served.
WaitingPlaced ==
  \A l \in Leases :
    client[l] = "acquiring" /\ future[l] = "pending"
      => l \in ToSet(pending) \/ pc[l] # "out"

LifeInv == QueueLive /\ QueueOnce /\ ServesLive /\ LeaseLife /\ WaitingPlaced

Inv == TypeOK /\ LifeInv

LEMMA InvInit ==
  ASSUME Init
  PROVE  Inv
<1>1. LeaseType
  BY DEF Init, LeaseType
<1>2. CoordType
  <2>1. pending \in Seq(Leases) /\ stack \in Seq(Leases)
    BY DEF Init
  <2> QED
    BY <2>1 DEF Init, CoordType
<1>3. PoolType
  BY DEF Init, PoolType
<1>4. PruneType
  BY DEF Init, PruneType
<1>5. ToSet(pending) = {} /\ IsInjective(pending)
  BY DEF Init, ToSet, IsInjective
<1>6. LifeInv
  BY <1>5 DEF Init, LifeInv, QueueLive, QueueOnce, ServesLive, LeaseLife, WaitingPlaced
<1> QED
  BY <1>1, <1>2, <1>3, <1>4, <1>6 DEF Inv, TypeOK

-------------------------------------------------------------------------------
(* Facts about the state functions.                                        *)

\* The eviction policy picks among its candidates.
LEMMA ChoicesAmongCandidates ==
  ASSUME NEW mem, NEW among, NEW need, NEW E \in EvictionChoices(mem, among, need)
  PROVE  E \subseteq among
  BY DEF EvictionChoices, SingleChoices, GreedyChoices, Sized

\* So the victims of a load are resident and not protected.
LEMMA VictimsUnprotected ==
  ASSUME Inv, NEW l \in Leases, NEW E \in Victims(l)
  PROVE  /\ E \subseteq Leases /\ E \subseteq resident
         /\ \A m \in E : modelId[m] \notin Protected
<1>1. E \subseteq {m \in resident : modelId[m] \notin Protected}
  BY ChoicesAmongCandidates DEF Victims
<1> QED
  BY <1>1 DEF Inv, TypeOK, PoolType

\* What a load brings up is an id or a provider.
LEMMA SlotType ==
  ASSUME Inv, NEW l \in Leases, pc[l] \in {"measure", "quiesce", "loading"}
  PROVE  Slot(l) \in ModelIds \cup Providers
<1>1. modelId[l] \in Known
  BY DEF Inv, LifeInv, ServesLive
<1>2. ProviderOf[modelId[l]] \in Providers /\ modelId[l] \in ModelIds
  BY <1>1, ProvidersAssumption
<1> QED
  BY <1>2 DEF Slot, Owner

\* Lease.release() takes the lease out of the queue, and nothing else.
LEMMA WithoutFacts ==
  ASSUME Inv, NEW l \in Leases
  PROVE  /\ Without(l) \in Seq(Leases) /\ IsInjective(Without(l))
         /\ ToSet(Without(l)) = ToSet(pending) \ {l}
<1>0. pending \in Seq(Leases) /\ IsInjective(pending)
  BY DEF Inv, TypeOK, CoordType, LifeInv, QueueOnce
<1>1. CASE l \in ToSet(pending)
  <2> DEFINE i == CHOOSE j \in DOMAIN pending : pending[j] = l
  <2>1. i \in DOMAIN pending /\ pending[i] = l
    BY <1>1 DEF ToSet
  <2>2. i \in 1 .. Len(pending)
    BY <2>1, <1>0
  <2>3. Without(l) = RemoveAt(pending, i)
    BY <1>1 DEF Without
  <2> HIDE DEF i
  <2> QED
    BY <2>1, <2>2, <2>3, <1>0, RemoveAtFacts, RemoveAtSet
<1>2. CASE l \notin ToSet(pending)
  BY <1>0, <1>2 DEF Without
<1> QED
  BY <1>1, <1>2

-------------------------------------------------------------------------------
(* The request tasks preserve the invariant.                               *)

LEMMA AcquireInv ==
  ASSUME Inv, NEW l \in Leases, NEW id \in ModelIds, Acquire(l, id)
  PROVE  Inv'
<1> USE DEF Inv, TypeOK, Acquire
<1>1. LeaseType'
  BY DEF LeaseType
<1>2. CoordType'
  BY DEF CoordType, coordVars
<1>3. PoolType' /\ PruneType'
  BY DEF PoolType, PruneType, poolVars, pruneVars
<1>4. l \notin ToSet(pending) /\ pc[l] = "out" /\ ~granted[l] /\ ~finished[l]
      /\ future[l] = "pending"
  BY DEF LifeInv, QueueLive, ServesLive, LeaseLife
<1>5. IsInjective(pending') /\ ToSet(pending') = ToSet(pending) \cup {l}
  BY <1>4, AppendSet DEF CoordType, LifeInv, QueueOnce
<1>6. QueueLive'
  BY <1>4, <1>5 DEF LifeInv, QueueLive, coordVars, LeaseType
<1>7. ServesLive' /\ LeaseLife'
  BY <1>4 DEF LifeInv, ServesLive, LeaseLife, coordVars, LeaseType
<1>8. WaitingPlaced'
  BY <1>5 DEF LifeInv, WaitingPlaced, coordVars, LeaseType
<1> QED
  BY <1>1, <1>2, <1>3, <1>5, <1>6, <1>7, <1>8 DEF LifeInv, QueueOnce

LEMMA WaitInv ==
  ASSUME Inv, NEW l \in Leases, Resume(l) \/ Disconnect(l)
  PROVE  Inv'
<1> USE DEF Inv, TypeOK, Resume, Disconnect
<1>1. LeaseType'
  BY DEF LeaseType
<1>2. CoordType'
  BY DEF CoordType, coordVars
<1>3. PoolType' /\ PruneType'
  BY DEF PoolType, PruneType, poolVars, pruneVars
<1>4. QueueLive'
  BY DEF LifeInv, QueueLive, coordVars, LeaseType
<1>5. ServesLive' /\ LeaseLife'
  BY DEF LifeInv, ServesLive, LeaseLife, coordVars, LeaseType
<1>6. WaitingPlaced' /\ QueueOnce'
  BY DEF LifeInv, WaitingPlaced, QueueOnce, coordVars, LeaseType
<1> QED
  BY <1>1, <1>2, <1>3, <1>4, <1>5, <1>6 DEF LifeInv

LEMMA ReleaseInv ==
  ASSUME Inv, NEW l \in Leases, Release(l), client[l] # "new"
  PROVE  Inv'
<1> USE DEF Inv, TypeOK, Release
<1>1. LeaseType'
  BY DEF LeaseType
<1>2. CoordType'
  BY WithoutFacts DEF CoordType, coordVars
<1>3. PoolType'
  BY DEF PoolType, LifeInv, LeaseLife, Leave
<1>4. PruneType'
  BY DEF PruneType, pruneVars
<1>5. IsInjective(pending') /\ ToSet(pending') = ToSet(pending) \ {l}
  BY WithoutFacts DEF LifeInv, QueueLive, QueueOnce
<1>6. QueueLive'
  BY <1>5 DEF LifeInv, QueueLive, coordVars, LeaseType
<1>7. ServesLive' /\ LeaseLife'
  BY DEF LifeInv, ServesLive, LeaseLife, coordVars, LeaseType
<1>8. WaitingPlaced'
  BY <1>5 DEF LifeInv, WaitingPlaced, coordVars, LeaseType
<1> QED
  BY <1>1, <1>2, <1>3, <1>4, <1>5, <1>6, <1>7, <1>8 DEF LifeInv, QueueOnce

LEMMA RequestInv ==
  ASSUME Inv, NEW l \in Leases, RequestStep(l)
  PROVE  Inv'
  BY AcquireInv, WaitInv, ReleaseInv
  DEF RequestStep, ResumeFailed, DisconnectGranted, Finish

-------------------------------------------------------------------------------
(* So does the coordinator.                                                *)

LEMMA BeginServeInv ==
  ASSUME Inv, NEW l \in Leases, l \in ToSet(pending), BeginServe(l),
         pending' \in Seq(Leases), IsInjective(pending'),
         ToSet(pending') = ToSet(pending) \ {l}
  PROVE  Inv'
<1> USE DEF Inv, TypeOK, BeginServe
<1>1. LeaseType' /\ PoolType' /\ PruneType'
  BY DEF LeaseType, PoolType, PruneType, leaseVars, poolVars, pruneVars
<1>2. CoordType'
  <2>1. Append(stack, l) \in Seq(Leases)
    BY DEF CoordType
  <2> QED
    BY <2>1 DEF CoordType, coordVars
<1>3. client[l] = "acquiring" /\ ~granted[l] /\ ~finished[l]
  BY DEF LifeInv, QueueLive
<1>4. QueueLive' /\ LeaseLife'
  BY DEF LifeInv, QueueLive, LeaseLife, leaseVars, CoordType
<1>5. ServesLive' /\ WaitingPlaced'
  BY <1>3 DEF LifeInv, ServesLive, WaitingPlaced, leaseVars, CoordType
<1> QED
  BY <1>1, <1>2, <1>4, <1>5 DEF LifeInv, QueueOnce

LEMMA DequeueInv ==
  ASSUME Inv, Dequeue
  PROVE  Inv'
<1>1. pending \in Seq(Leases) /\ pending # <<>> /\ IsInjective(pending)
  BY DEF Inv, TypeOK, CoordType, LifeInv, QueueOnce, Dequeue
<1>2. /\ Tail(pending) \in Seq(Leases) /\ Head(pending) \in ToSet(pending)
      /\ IsInjective(Tail(pending))
      /\ ToSet(Tail(pending)) = ToSet(pending) \ {Head(pending)}
  BY <1>1, TailSet
<1>3. Head(pending) \in Leases
  BY <1>1
<1> QED
  BY <1>2, <1>3, BeginServeInv DEF Dequeue

LEMMA LineCutInv ==
  ASSUME Inv, NEW l \in Leases, LineCut(l)
  PROVE  Inv'
<1>1. PICK i \in DOMAIN pending : pending' = RemoveAt(pending, i) /\ BeginServe(pending[i])
  BY DEF LineCut
<1>2. pending \in Seq(Leases) /\ IsInjective(pending)
  BY DEF Inv, TypeOK, CoordType, LifeInv, QueueOnce
<1>3. i \in 1 .. Len(pending) /\ pending[i] \in Leases /\ pending[i] \in ToSet(pending)
  BY <1>2 DEF ToSet
<1>4. /\ pending' \in Seq(Leases) /\ IsInjective(pending')
      /\ ToSet(pending') = ToSet(pending) \ {pending[i]}
  BY <1>1, <1>2, <1>3, RemoveAtFacts, RemoveAtSet
<1> QED
  BY <1>1, <1>3, <1>4, BeginServeInv

\* _serve ends with the request turned away.
LEMMA RejectInv ==
  ASSUME Inv, NEW l \in Leases, stack # <<>>, pc[l] # "out", Reject(l), EndServe(l),
         UNCHANGED <<pending, wake, resident, inFlight, evicting, fresh, pruneVars>>,
         up' \subseteq up
  PROVE  Inv'
<1> USE DEF Inv, TypeOK, Reject, EndServe
<1>1. LeaseType' /\ PoolType' /\ PruneType'
  BY DEF LeaseType, PoolType, PruneType, pruneVars
<1>2. CoordType'
  BY FrontType DEF CoordType
<1>3. l \notin ToSet(pending)
  BY DEF LifeInv, QueueLive
<1>4. QueueLive' /\ QueueOnce'
  BY <1>3 DEF LifeInv, QueueLive, QueueOnce, LeaseType, CoordType
<1>5. ServesLive'
  BY DEF LifeInv, ServesLive, CoordType
<1>6. LeaseLife'
  BY DEF LifeInv, LeaseLife, ServesLive, LeaseType
<1>7. WaitingPlaced'
  BY DEF LifeInv, WaitingPlaced, LeaseLife, LeaseType, CoordType
<1> QED
  BY <1>1, <1>2, <1>4, <1>5, <1>6, <1>7 DEF LifeInv

\* _serve ends with the model granted.
LEMMA GrantInv ==
  ASSUME Inv, NEW l \in Leases, NEW m \in Leases, stack # <<>>, pc[l] # "out",
         Grant(l, m), EndServe(l), UNCHANGED <<pending, wake, evicting, pruneVars>>,
         resident' \subseteq Leases, up' \subseteq ModelIds \cup Providers
  PROVE  Inv'
<1> USE DEF Inv, TypeOK, Grant, EndServe
<1>1. LeaseType'
  BY DEF LeaseType
<1>2. CoordType'
  BY FrontType DEF CoordType
<1>3. PoolType' /\ PruneType'
  BY DEF PoolType, PruneType, pruneVars
<1>4. l \notin ToSet(pending) /\ client[l] # "new"
  BY DEF LifeInv, QueueLive, ServesLive
<1>5. QueueLive' /\ QueueOnce'
  BY <1>4 DEF LifeInv, QueueLive, QueueOnce, LeaseType, CoordType
<1>6. ServesLive'
  BY DEF LifeInv, ServesLive, LeaseType, CoordType
<1>7. LeaseLife'
  BY <1>4 DEF LifeInv, LeaseLife, LeaseType
<1>8. WaitingPlaced'
  BY DEF LifeInv, WaitingPlaced, LeaseLife, LeaseType, CoordType
<1> QED
  BY <1>1, <1>2, <1>3, <1>5, <1>6, <1>7, <1>8 DEF LifeInv

\* The steps of a serve that neither end it nor begin another.
LEMMA InnerInv ==
  ASSUME Inv, NEW l \in Leases, stack # <<>>, pc[l] # "out", CoordType', PoolType',
         UNCHANGED <<leaseVars, pending, pruneVars>>,
         \A k \in Leases : k # l => pc'[k] = pc[k],
         pc'[l] # "out",
         pc'[l] \in {"measure", "quiesce", "loading"} => modelId[l] \in Known
  PROVE  Inv'
<1> USE DEF Inv, TypeOK, leaseVars, pruneVars
<1>1. LeaseType' /\ PruneType'
  BY DEF LeaseType, PruneType
<1>2. QueueLive' /\ QueueOnce' /\ LeaseLife'
  BY DEF LifeInv, QueueLive, QueueOnce, LeaseLife
<1>3. ServesLive' /\ WaitingPlaced'
  BY DEF LifeInv, ServesLive, WaitingPlaced
<1> QED
  BY <1>1, <1>2, <1>3 DEF LifeInv

\* The load takes its place, and its provider's server is up.
LEMMA BeginLoadInv ==
  ASSUME Inv, NEW l \in Leases, stack # <<>>, pc[l] \in {"measure", "quiesce"},
         NEW left \in SUBSET up, BeginLoad(l, left), resident' \subseteq resident
  PROVE  Inv'
<1>1. Slot(l) \in ModelIds \cup Providers
  BY SlotType
<1>2. PoolType'
  BY <1>1 DEF Inv, TypeOK, PoolType, BeginLoad
<1>3. CoordType'
  BY DEF Inv, TypeOK, CoordType, BeginLoad
<1>4. \A k \in Leases : pc'[k] = IF k = l THEN "loading" ELSE pc[k]
  BY DEF Inv, TypeOK, CoordType, BeginLoad
<1>5. modelId[l] \in Known
  BY DEF Inv, LifeInv, ServesLive
<1> QED
  BY <1>2, <1>3, <1>4, <1>5, InnerInv DEF BeginLoad

LEMMA ServeStepInv ==
  ASSUME Inv, NEW l \in Leases, ServeStep(l)
  PROVE  Inv'
<1> USE DEF At, AtGrant, Waits, Drained
<1>1. CASE Unknown(l) \/ MeasuredTooBig(l) \/ ServeRaises(l)
  BY <1>1, RejectInv DEF Unknown, MeasuredTooBig, ServeRaises, poolVars
<1>2. CASE EvictRaises(l) \/ LoadRaises(l)
  <2>1. up' \subseteq up
    BY <1>2 DEF EvictRaises, LoadRaises
  <2> QED
    BY <1>2, <2>1, RejectInv DEF EvictRaises, LoadRaises
<1>3. CASE Found(l)
  <2>1. PICK m \in ResidentFor(ProviderOf[modelId[l]], modelId[l]) : Grant(l, m)
    BY <1>3 DEF Found
  <2>2. m \in Leases
    BY <2>1 DEF ResidentFor, Inv, TypeOK, PoolType
  <2>3. resident \subseteq Leases /\ up \subseteq ModelIds \cup Providers
    BY DEF Inv, TypeOK, PoolType
  <2> QED
    BY <1>3, <2>1, <2>2, <2>3, GrantInv DEF Found
<1>4. CASE Loaded(l)
  <2>1. Slot(l) \in ModelIds \cup Providers
    BY <1>4, SlotType DEF Loaded
  <2>2. resident' \subseteq Leases /\ up' \subseteq ModelIds \cup Providers
    BY <1>4, <2>1 DEF Loaded, Inv, TypeOK, PoolType
  <2> QED
    BY <1>4, <2>2, GrantInv DEF Loaded
<1>5. CASE FoundDying(l) \/ Missing(l) \/ DrainWait(l)
  <2>1. PoolType'
    BY <1>5 DEF FoundDying, Missing, DrainWait, Inv, TypeOK, PoolType, poolVars
  <2>2. CoordType'
    <3>1. CASE FoundDying(l)
      <4>1. PICK m \in evicting : target' = [target EXCEPT ![l] = m]
        BY <3>1 DEF FoundDying
      <4>2. m \in Leases
        BY <4>1 DEF Inv, TypeOK, PoolType
      <4> QED
        BY <3>1, <4>1, <4>2 DEF FoundDying, Inv, TypeOK, CoordType
    <3>2. CASE Missing(l) \/ DrainWait(l)
      BY <3>2 DEF Missing, DrainWait, Inv, TypeOK, CoordType
    <3> QED
      BY <1>5, <3>1, <3>2
  <2>3. \A k \in Leases : k # l => pc'[k] = pc[k]
    BY <1>5 DEF FoundDying, Missing, DrainWait, Inv, TypeOK, CoordType
  <2>4. /\ pc'[l] \in {"evictwait", "measure", "quiesce"}
        /\ pc'[l] \in {"measure", "quiesce", "loading"} => modelId[l] \in Known
    BY <1>5 DEF FoundDying, Missing, DrainWait, Inv, TypeOK, CoordType, LifeInv, ServesLive
  <2> QED
    BY <1>5, <2>1, <2>2, <2>3, <2>4, InnerInv DEF FoundDying, Missing, DrainWait
<1>6. CASE MeasuredEvicts(l)
  <2>1. PICK E \in Victims(l) : evict' = [evict EXCEPT ![l] = E]
    BY <1>6 DEF MeasuredEvicts
  <2>2. E \subseteq Leases
    BY VictimsUnprotected
  <2>3. PoolType'
    BY <1>6 DEF MeasuredEvicts, Inv, TypeOK, PoolType, poolVars
  <2>4. CoordType'
    BY <1>6, <2>1, <2>2 DEF MeasuredEvicts, Inv, TypeOK, CoordType
  <2>5. \A k \in Leases : pc'[k] = IF k = l THEN "quiesce" ELSE pc[k]
    BY <1>6 DEF MeasuredEvicts, Inv, TypeOK, CoordType
  <2>6. modelId[l] \in Known
    BY <1>6 DEF MeasuredEvicts, Inv, LifeInv, ServesLive
  <2> QED
    BY <1>6, <2>3, <2>4, <2>5, <2>6, InnerInv DEF MeasuredEvicts
<1>7. CASE MeasuredFits(l)
  BY <1>7, BeginLoadInv DEF MeasuredFits
<1>8. CASE EvictAndLoad(l)
  BY <1>8, BeginLoadInv DEF EvictAndLoad
<1>9. CASE LineCut(l)
  BY <1>9, LineCutInv
<1> QED
  BY <1>1, <1>2, <1>3, <1>4, <1>5, <1>6, <1>7, <1>8, <1>9 DEF ServeStep

\* Only the coordinator's own whereabouts change.
LEMMA CoordinatorInv ==
  ASSUME Inv, Coordinator
  PROVE  Inv'
<1>1. CASE Dequeue
  BY <1>1, DequeueInv
<1>2. CASE Sleep \/ Awake
  <2> USE DEF Inv, TypeOK, leaseVars, poolVars, pruneVars
  <2>1. LeaseType' /\ PoolType' /\ PruneType'
    BY <1>2 DEF Sleep, Awake, LeaseType, PoolType, PruneType
  <2>2. CoordType'
    BY <1>2 DEF Sleep, Awake, CoordType
  <2>3. LifeInv'
    BY <1>2 DEF Sleep, Awake, LifeInv, QueueLive, QueueOnce, ServesLive, LeaseLife,
                WaitingPlaced
  <2> QED
    BY <2>1, <2>2, <2>3
<1>3. CASE \E l \in Leases : ServeStep(l)
  BY <1>3, ServeStepInv
<1> QED
  BY <1>1, <1>2, <1>3 DEF Coordinator

-------------------------------------------------------------------------------
(* And the prune tasks, which touch no lease.                              *)

\* A visit leaves the prune at rest or with a candidate to unload.
LEMMA VisitType ==
  ASSUME Inv, NEW p \in Pruners, NEW C \in SUBSET Leases, NEW known \in SUBSET Providers,
         NEW res, NEW dying \in SUBSET Leases, Visit(p, C, known, res, dying)
  PROVE  PruneType' /\ evicting' \subseteq Leases
  BY DEF Inv, TypeOK, PruneType, Visit

LEMMA PruneStepType ==
  ASSUME Inv, NEW p \in Pruners, PruneStep(p)
  PROVE  PruneType' /\ PoolType'
<1> USE DEF Inv, TypeOK
<1>0. Scannable \subseteq Providers
  BY ProvidersAssumption DEF Scannable
<1>1. ASSUME NEW known \in SUBSET Providers, Select(p, known)
      PROVE  PruneType' /\ PoolType'
  BY <1>1, VisitType DEF Select, PoolType
<1>2. CASE PruneBegin(p)
  <2>1. CASE Select(p, {})
    BY <2>1, <1>1
  <2>2. CASE ~Select(p, {})
    BY <1>2, <2>2, <1>0 DEF PruneBegin, PruneType, PoolType, poolVars
  <2> QED
    BY <2>1, <2>2
<1>3. CASE PruneScanned(p)
  BY <1>3, <1>0, <1>1 DEF PruneScanned, PruneType
<1>4. CASE PruneTeardown(p)
  BY <1>4 DEF PruneTeardown, PruneType, PoolType
<1>5. CASE PruneReaped(p)
  <2>1. cands[p] \subseteq Leases /\ served[p] \subseteq Providers
        /\ evicting \ {cur[p]} \subseteq Leases
    BY DEF PruneType, PoolType
  <2> QED
    BY <1>5, <2>1, VisitType DEF PruneReaped, PoolType
<1>6. CASE PruneRaises(p)
  BY <1>6 DEF PruneRaises, PruneType, PoolType
<1> QED
  BY <1>2, <1>3, <1>4, <1>5, <1>6 DEF PruneStep

LEMMA PruneLeavesLeases ==
  ASSUME NEW p \in Pruners, PruneStep(p)
  PROVE  UNCHANGED <<leaseVars, pending, wake, coordVars>>
  BY DEF PruneStep, PruneBegin, PruneScanned, PruneTeardown, PruneReaped, PruneRaises, Select

LEMMA PruneInv ==
  ASSUME Inv, NEW p \in Pruners, PruneStep(p)
  PROVE  Inv'
<1>1. UNCHANGED <<leaseVars, pending, wake, coordVars>>
  BY PruneLeavesLeases
<1>2. PruneType' /\ PoolType'
  BY PruneStepType
<1>3. LeaseType' /\ CoordType'
  BY <1>1 DEF Inv, TypeOK, LeaseType, CoordType, leaseVars, coordVars
<1>4. LifeInv'
  BY <1>1 DEF Inv, LifeInv, QueueLive, QueueOnce, ServesLive, LeaseLife, WaitingPlaced,
              leaseVars, coordVars
<1> QED
  BY <1>2, <1>3, <1>4 DEF Inv, TypeOK

LEMMA QuietInv ==
  ASSUME Inv, (\E m \in Leases : Age(m)) \/ UNCHANGED vars
  PROVE  Inv'
<1> USE DEF Inv, TypeOK, Age, vars, leaseVars, coordVars, poolVars, pruneVars
<1>1. LeaseType' /\ CoordType' /\ PruneType'
  BY DEF LeaseType, CoordType, PruneType
<1>2. PoolType'
  BY DEF PoolType
<1>3. LifeInv'
  BY DEF LifeInv, QueueLive, QueueOnce, ServesLive, LeaseLife, WaitingPlaced
<1> QED
  BY <1>1, <1>2, <1>3

LEMMA InvStep ==
  ASSUME Inv, [Next]_vars
  PROVE  Inv'
  BY RequestInv, CoordinatorInv, PruneInv, QuietInv DEF Next, Terminating

LEMMA InvAlways == Spec => []Inv
<1>1. Init => Inv
  BY InvInit
<1>2. Inv /\ [Next]_vars => Inv'
  BY InvStep
<1> QED
  BY <1>1, <1>2, PTL DEF Spec

-------------------------------------------------------------------------------
(* Theorems.                                                               *)

\* Every variable of the scheduler keeps its type.
THEOREM TypeCorrect == Spec => []TypeOK
<1>1. Inv => TypeOK
  BY DEF Inv
<1> QED
  BY <1>1, InvAlways, PTL

\* A lease in `pending' is neither released nor granted (Lease.release and
\* _serve take it out first), so the coordinator never serves a stale one.
THEOREM QueueHoldsLiveLeases == Spec => []QueuedAreLive
<1>1. Inv => QueuedAreLive
  <2> SUFFICES ASSUME Inv, NEW l \in ToSet(pending) PROVE ~finished[l] /\ ~granted[l]
    BY DEF QueuedAreLive
  <2>1. l \in Leases
    BY DEF Inv, TypeOK, CoordType, ToSet
  <2> QED
    BY <2>1 DEF Inv, LifeInv, QueueLive
<1> QED
  BY <1>1, InvAlways, PTL

\* A request that still waits in acquire() is in the queue or in the hands of
\* _serve, and never in both.
THEOREM NoRequestIsLost == Spec => []NoLostRequest
<1>1. Inv => NoLostRequest
  BY DEF Inv, LifeInv, QueueLive, WaitingPlaced, NoLostRequest, Serving
<1> QED
  BY <1>1, InvAlways, PTL

-------------------------------------------------------------------------------
(* Claims: in_flight never exceeds the leases still to release.  A grant     *)
(* counts a lease that was not granted before, and a release takes at most   *)
(* the one claim that goes with it.                                         *)

LEMMA ClaimantsFinite ==
  ASSUME NEW m \in Leases
  PROVE  IsFiniteSet(Claimants(m))
  BY LeasesAssumption, FS_Subset DEF Claimants

LEMMA GrantClaims ==
  ASSUME Inv, NoLeakedClaim, NEW l \in Leases, NEW m \in Leases, Grant(l, m), ~granted[l]
  PROVE  NoLeakedClaim'
<1> USE DEF Inv, TypeOK, Grant
<1> SUFFICES ASSUME NEW n \in Leases PROVE inFlight'[n] <= Cardinality(Claimants(n)')
  BY DEF NoLeakedClaim
<1>1. inFlight[n] <= Cardinality(Claimants(n)) /\ IsFiniteSet(Claimants(n))
      /\ inFlight[n] \in Nat /\ Cardinality(Claimants(n)) \in Nat
  BY ClaimantsFinite, FS_CardinalityType DEF NoLeakedClaim, PoolType
<1>2. l \notin Claimants(n)
  BY DEF Claimants
<1>3. Claimants(n)' = IF n = m /\ ~finished[l] THEN Claimants(n) \cup {l} ELSE Claimants(n)
  BY <1>2 DEF Claimants, LeaseType
<1>4. Cardinality(Claimants(n) \cup {l}) = Cardinality(Claimants(n)) + 1
  BY <1>1, <1>2, FS_AddElement
<1>5. inFlight'[n] = IF n = m /\ ~finished[l] /\ future[l] # "cancelled"
                     THEN inFlight[n] + 1 ELSE inFlight[n]
  BY DEF PoolType
<1> QED
  BY <1>1, <1>3, <1>4, <1>5

LEMMA ReleaseClaims ==
  ASSUME Inv, NoLeakedClaim, NEW l \in Leases, Release(l), client[l] # "done"
  PROVE  NoLeakedClaim'
<1> USE DEF Inv, TypeOK, Release
<1> SUFFICES ASSUME NEW n \in Leases PROVE inFlight'[n] <= Cardinality(Claimants(n)')
  BY DEF NoLeakedClaim
<1>1. inFlight[n] <= Cardinality(Claimants(n)) /\ IsFiniteSet(Claimants(n))
      /\ inFlight[n] \in Nat /\ Cardinality(Claimants(n)) \in Nat
  BY ClaimantsFinite, FS_CardinalityType DEF NoLeakedClaim, PoolType
<1>2. Claimants(n)' = Claimants(n) \ {l}
  BY DEF Claimants, LeaseType
<1>3. CASE granted[l] /\ model[l] = n
  <2>1. l \in Claimants(n)
    BY <1>3 DEF LifeInv, LeaseLife, Claimants
  <2>2. Cardinality(Claimants(n) \ {l}) = Cardinality(Claimants(n)) - 1
    BY <1>1, <2>1, FS_RemoveElement
  <2>3. inFlight'[n] = IF inFlight[n] > 0 THEN inFlight[n] - 1 ELSE inFlight[n]
    BY <1>3 DEF Leave, PoolType
  <2>4. Cardinality(Claimants(n) \ {l}) \in Nat
    BY <1>1, FS_Subset, FS_CardinalityType
  <2> QED
    BY <1>1, <1>2, <2>2, <2>3, <2>4
<1>4. CASE ~(granted[l] /\ model[l] = n)
  <2>1. l \notin Claimants(n) /\ inFlight'[n] = inFlight[n]
    BY <1>4 DEF Claimants, Leave, PoolType
  <2> QED
    BY <1>1, <1>2, <2>1
<1> QED
  BY <1>3, <1>4

LEMMA ClaimsStep ==
  ASSUME Inv, NoLeakedClaim, [Next]_vars
  PROVE  NoLeakedClaim'
<1>1. ASSUME NEW l \in Leases, RequestStep(l)
      PROVE  NoLeakedClaim'
  <2>1. CASE ResumeFailed(l) \/ DisconnectGranted(l) \/ Finish(l)
    BY <2>1, ReleaseClaims DEF ResumeFailed, DisconnectGranted, Finish
  <2>2. CASE (\E id \in ModelIds : Acquire(l, id)) \/ Resume(l) \/ Disconnect(l)
    BY <2>2 DEF Acquire, Resume, Disconnect, NoLeakedClaim, Claimants, poolVars
  <2> QED
    BY <1>1, <2>1, <2>2 DEF RequestStep
<1>2. ASSUME NEW l \in Leases, Found(l) \/ Loaded(l)
      PROVE  NoLeakedClaim'
  <2>1. PICK m \in Leases : Grant(l, m)
    BY <1>2 DEF Found, Loaded, ResidentFor, Inv, TypeOK, PoolType
  <2>2. ~granted[l]
    BY <1>2 DEF Found, Loaded, AtGrant, Waits, Inv, LifeInv, ServesLive
  <2> QED
    BY <2>1, <2>2, GrantClaims
<1>3. CASE UNCHANGED <<granted, finished, model, inFlight>>
  BY <1>3 DEF NoLeakedClaim, Claimants
<1>4. ASSUME NEW l \in Leases, ServeStep(l), ~Found(l), ~Loaded(l)
      PROVE  UNCHANGED <<granted, finished, model, inFlight>>
  BY <1>4 DEF ServeStep, Unknown, FoundDying, Missing, MeasuredFits, MeasuredEvicts,
    MeasuredTooBig, ServeRaises, LineCut, DrainWait, EvictAndLoad, EvictRaises, LoadRaises,
    Reject, BeginServe, BeginLoad, leaseVars, poolVars
<1>5. CASE Coordinator
  <2>1. CASE Dequeue \/ Sleep \/ Awake
    BY <2>1, <1>3 DEF Dequeue, BeginServe, Sleep, Awake, leaseVars, poolVars
  <2> QED
    BY <1>5, <2>1, <1>2, <1>3, <1>4 DEF Coordinator
<1>6. ASSUME NEW p \in Pruners, PruneStep(p)
      PROVE  UNCHANGED <<granted, finished, model, inFlight>>
  BY <1>6 DEF PruneStep, PruneBegin, PruneScanned, PruneTeardown, PruneReaped, PruneRaises,
    Select, leaseVars, poolVars
<1>7. CASE (\E m \in Leases : Age(m)) \/ Terminating \/ UNCHANGED vars
  BY <1>7, <1>3 DEF Age, Terminating, vars, leaseVars, poolVars
<1> QED
  BY <1>1, <1>3, <1>5, <1>6, <1>7 DEF Next

\* Lease: a claim never outlives its request, so no model is kept from every
\* eviction path by a request that is over.
THEOREM NoClaimLeaks == Spec => []NoLeakedClaim
<1>1. Init => NoLeakedClaim
  <2> SUFFICES ASSUME Init, NEW m \in Leases PROVE inFlight[m] <= Cardinality(Claimants(m))
    BY DEF NoLeakedClaim
  <2>1. inFlight[m] = 0 /\ Cardinality(Claimants(m)) \in Nat
    BY ClaimantsFinite, FS_CardinalityType DEF Init
  <2> QED
    BY <2>1
<1>2. Inv /\ NoLeakedClaim /\ [Next]_vars => NoLeakedClaim'
  BY ClaimsStep
<1> QED
  BY <1>1, <1>2, InvAlways, PTL DEF Spec

-------------------------------------------------------------------------------
(* Protection.  Models are only ever taken out of `resident' from a choice   *)
(* made earlier, at the measurement or the selection, so what has to last    *)
(* is that a chosen model is unprotected: it has been acquired, and a lease  *)
(* keeps the id it was acquired with.                                       *)

Evictable == {m \in Leases : client[m] # "new" /\ modelId[m] \notin Protected}

ProtectInv ==
  /\ \A m \in resident : client[m] # "new"
  /\ \A l \in Leases : evict[l] \subseteq Evictable
  /\ \A p \in Pruners : cands[p] \subseteq Evictable /\ cur[p] \in Evictable \cup {None}

\* A lease stays acquired, and keeps its id.
LEMMA IdsAreKept ==
  ASSUME Inv, Next
  PROVE  \A m \in Leases : client[m] # "new" => client'[m] # "new" /\ modelId'[m] = modelId[m]
<1>1. ASSUME NEW l \in Leases, RequestStep(l)
      PROVE  \A m \in Leases :
               client[m] # "new" => client'[m] # "new" /\ modelId'[m] = modelId[m]
  BY <1>1 DEF RequestStep, Acquire, Resume, ResumeFailed, Disconnect, DisconnectGranted,
    Finish, Release, Inv, TypeOK, LeaseType
<1>2. ASSUME NEW l \in Leases, ServeStep(l)
      PROVE  UNCHANGED <<client, modelId>>
  BY <1>2 DEF ServeStep, Unknown, Found, FoundDying, Missing, MeasuredFits, MeasuredEvicts,
    MeasuredTooBig, ServeRaises, LineCut, DrainWait, EvictAndLoad, EvictRaises, Loaded,
    LoadRaises, Reject, Grant, BeginServe, BeginLoad, leaseVars
<1>3. Dequeue \/ Sleep \/ Awake => UNCHANGED <<client, modelId>>
  BY DEF Dequeue, Sleep, Awake, BeginServe, leaseVars
<1>4. ASSUME NEW p \in Pruners, PruneStep(p)
      PROVE  UNCHANGED <<client, modelId>>
  BY <1>4, PruneLeavesLeases DEF leaseVars
<1>5. (\E m \in Leases : Age(m)) \/ Terminating => UNCHANGED <<client, modelId>>
  BY DEF Age, Terminating, vars, leaseVars
<1> QED
  BY <1>1, <1>2, <1>3, <1>4, <1>5 DEF Next, Coordinator

LEMMA EvictableStays ==
  ASSUME Inv, Next
  PROVE  Evictable \subseteq Evictable'
  BY IdsAreKept DEF Evictable

\* What is chosen, to make room or to prune, may be evicted.
LEMMA SelectionIsEvictable ==
  ASSUME Inv, ProtectInv
  PROVE  {m \in resident : modelId[m] \notin Protected} \subseteq Evictable
  BY DEF Inv, TypeOK, PoolType, ProtectInv, Evictable

LEMMA EvictStep ==
  ASSUME Inv, ProtectInv, Next, NEW l \in Leases
  PROVE  evict'[l] \subseteq Evictable
<1> USE DEF Inv, TypeOK, CoordType
<1>1. evict[l] \subseteq Evictable
  BY DEF ProtectInv
<1>2. ASSUME NEW k \in Leases, ServeStep(k)
      PROVE  evict'[l] \subseteq Evictable
  <2>1. CASE MeasuredEvicts(k)
    <3>1. PICK E \in Victims(k) : evict' = [evict EXCEPT ![k] = E]
      BY <2>1 DEF MeasuredEvicts
    <3>2. E \subseteq Evictable
      BY <3>1, VictimsUnprotected, SelectionIsEvictable
    <3> QED
      BY <3>1, <3>2, <1>1
  <2>2. CASE evict' = [evict EXCEPT ![k] = {}] \/ UNCHANGED evict
    BY <2>2, <1>1
  <2> QED
    BY <1>2, <2>1, <2>2 DEF ServeStep, Unknown, Found, FoundDying, Missing, MeasuredFits,
      MeasuredTooBig, ServeRaises, LineCut, DrainWait, EvictAndLoad, EvictRaises, Loaded,
      LoadRaises, EndServe, BeginServe, BeginLoad, coordVars
<1>3. (Dequeue \/ Sleep \/ Awake) => UNCHANGED evict
  BY DEF Dequeue, Sleep, Awake, BeginServe, coordVars
<1>4. ASSUME NEW k \in Leases, RequestStep(k)
      PROVE  UNCHANGED evict
  BY <1>4 DEF RequestStep, Acquire, Resume, ResumeFailed, Disconnect, DisconnectGranted,
    Finish, Release, coordVars
<1>5. ASSUME NEW p \in Pruners, PruneStep(p)
      PROVE  UNCHANGED evict
  BY <1>5, PruneLeavesLeases DEF coordVars
<1>6. (\E m \in Leases : Age(m)) \/ Terminating => UNCHANGED evict
  BY DEF Age, Terminating, vars, coordVars
<1> QED
  BY <1>1, <1>2, <1>3, <1>4, <1>5, <1>6 DEF Next, Coordinator

LEMMA VisitEvictable ==
  ASSUME Inv, ProtectInv, NEW p \in Pruners, NEW C \in SUBSET Evictable, NEW known,
         NEW res, NEW dying, Visit(p, C, known, res, dying)
  PROVE  \A q \in Pruners : cands'[q] \subseteq Evictable /\ cur'[q] \in Evictable \cup {None}
  BY DEF Inv, TypeOK, PruneType, ProtectInv, Visit

LEMMA PruneEvictable ==
  ASSUME Inv, ProtectInv, Next
  PROVE  \A q \in Pruners : cands'[q] \subseteq Evictable /\ cur'[q] \in Evictable \cup {None}
<1> USE DEF Inv, TypeOK, PruneType
<1>1. CASE UNCHANGED <<cands, cur>>
  BY <1>1 DEF ProtectInv
<1>2. ASSUME NEW p \in Pruners, NEW known, Select(p, known)
      PROVE  \A q \in Pruners :
               cands'[q] \subseteq Evictable /\ cur'[q] \in Evictable \cup {None}
  <2> DEFINE C == {m \in resident \ WaitingOn(known, resident) :
                     /\ inFlight[m] = 0
                     /\ modelId[m] \notin Protected
                     /\ p = "ttl" => m \notin fresh}
  <2>1. C \subseteq Evictable
    BY SelectionIsEvictable
  <2>2. Visit(p, C, known, resident, evicting)
    BY <1>2 DEF Select
  <2> HIDE DEF C
  <2> QED
    BY <2>1, <2>2, VisitEvictable
<1>3. ASSUME NEW p \in Pruners, PruneReaped(p)
      PROVE  \A q \in Pruners :
               cands'[q] \subseteq Evictable /\ cur'[q] \in Evictable \cup {None}
  <2>1. cands[p] \subseteq Evictable
    BY DEF ProtectInv
  <2> QED
    BY <1>3, <2>1, VisitEvictable DEF PruneReaped
<1>4. ASSUME NEW p \in Pruners, PruneTeardown(p)
      PROVE  UNCHANGED <<cands, cur>>
  BY <1>4 DEF PruneTeardown
<1>5. ASSUME NEW p \in Pruners, PruneRaises(p)
      PROVE  \A q \in Pruners :
               cands'[q] \subseteq Evictable /\ cur'[q] \in Evictable \cup {None}
  BY <1>5 DEF PruneRaises, ProtectInv
<1>6. ASSUME NEW p \in Pruners, PruneStep(p)
      PROVE  \A q \in Pruners :
               cands'[q] \subseteq Evictable /\ cur'[q] \in Evictable \cup {None}
  <2>1. CASE PruneBegin(p)
    <3>1. Select(p, {}) \/ UNCHANGED <<cands, cur>>
      BY <2>1 DEF PruneBegin
    <3> QED
      BY <3>1, <1>1, <1>2
  <2>2. CASE PruneScanned(p)
    BY <2>2, <1>2 DEF PruneScanned
  <2> QED
    BY <1>6, <2>1, <2>2, <1>1, <1>3, <1>4, <1>5 DEF PruneStep
<1>7. ASSUME NEW l \in Leases, RequestStep(l)
      PROVE  UNCHANGED <<cands, cur>>
  BY <1>7 DEF RequestStep, Acquire, Resume, ResumeFailed, Disconnect, DisconnectGranted,
    Finish, Release, pruneVars
<1>8. Coordinator => UNCHANGED <<cands, cur>>
  BY DEF Coordinator, Dequeue, Sleep, Awake, ServeStep, Unknown, Found, FoundDying, Missing,
    MeasuredFits, MeasuredEvicts, MeasuredTooBig, ServeRaises, LineCut, DrainWait,
    EvictAndLoad, EvictRaises, Loaded, LoadRaises, BeginServe, BeginLoad, pruneVars
<1>9. (\E m \in Leases : Age(m)) \/ Terminating => UNCHANGED <<cands, cur>>
  BY DEF Age, Terminating, vars, pruneVars
<1> QED
  BY <1>1, <1>6, <1>7, <1>8, <1>9 DEF Next

\* What becomes resident is a lease being served; what stops being resident
\* was chosen to be evicted.
LEMMA ResidentStep ==
  ASSUME Inv, ProtectInv, Next
  PROVE  /\ resident \ resident' \subseteq Evictable
         /\ \A m \in resident' : client[m] # "new"
<1> USE DEF Inv, TypeOK, PoolType
<1>1. CASE UNCHANGED resident
  BY <1>1 DEF ProtectInv
<1>2. ASSUME NEW l \in Leases, EvictAndLoad(l)
      PROVE  resident' = resident \ evict[l]
  BY <1>2 DEF EvictAndLoad
<1>3. ASSUME NEW l \in Leases, Loaded(l)
      PROVE  resident' = resident \cup {l} /\ client[l] # "new"
  BY <1>3 DEF Loaded, AtGrant, Waits, LifeInv, ServesLive
<1>4. ASSUME NEW p \in Pruners, PruneReaped(p)
      PROVE  resident' = resident \ {cur[p]}
  BY <1>4 DEF PruneReaped
<1>5. ASSUME NEW l \in Leases, ServeStep(l), ~EvictAndLoad(l), ~Loaded(l)
      PROVE  UNCHANGED resident
  BY <1>5 DEF ServeStep, Unknown, Found, FoundDying, Missing, MeasuredFits, MeasuredEvicts,
    MeasuredTooBig, ServeRaises, LineCut, DrainWait, EvictRaises, LoadRaises, BeginServe,
    poolVars
<1>6. Dequeue \/ Sleep \/ Awake => UNCHANGED resident
  BY DEF Dequeue, Sleep, Awake, BeginServe, poolVars
<1>7. ASSUME NEW l \in Leases, RequestStep(l)
      PROVE  UNCHANGED resident
  BY <1>7 DEF RequestStep, Acquire, Resume, ResumeFailed, Disconnect, DisconnectGranted,
    Finish, Release, poolVars
<1>8. ASSUME NEW p \in Pruners, PruneStep(p), ~PruneReaped(p)
      PROVE  UNCHANGED resident
  BY <1>8 DEF PruneStep, PruneBegin, PruneScanned, PruneTeardown, PruneRaises, Select, poolVars
<1>9. (\E m \in Leases : Age(m)) \/ Terminating => UNCHANGED resident
  BY DEF Age, Terminating, vars, poolVars
<1>10. ASSUME NEW l \in Leases, ServeStep(l)
       PROVE  /\ resident \ resident' \subseteq Evictable
              /\ \A m \in resident' : client[m] # "new"
  BY <1>10, <1>1, <1>2, <1>3, <1>5 DEF ProtectInv
<1>11. ASSUME NEW p \in Pruners, PruneStep(p)
       PROVE  /\ resident \ resident' \subseteq Evictable
              /\ \A m \in resident' : client[m] # "new"
  <2>1. None \notin Leases
    BY LeasesAssumption
  <2> QED
    BY <1>11, <2>1, <1>1, <1>4, <1>8 DEF ProtectInv
<1> QED
  BY <1>1, <1>6, <1>7, <1>9, <1>10, <1>11 DEF Next, Coordinator

\* README, "Lifecycle": an on_start "always" model is exempt from eviction by
\* reallocation, by the TTL and by ctrl+e.  It is never dropped.
THEOREM ProtectedAreKept == Spec => ProtectedStay
<1>1. Init => ProtectInv
  BY DEF Init, ProtectInv
<1>2. Inv /\ ProtectInv /\ [Next]_vars => ProtectInv'
  <2> SUFFICES ASSUME Inv, ProtectInv, [Next]_vars PROVE ProtectInv'
    OBVIOUS
  <2>1. CASE Next
    <3>1. Evictable \subseteq Evictable'
      BY <2>1, EvictableStays
    <3>2. \A m \in resident' : client'[m] # "new"
      <4>1. resident' \subseteq Leases
        BY <2>1, InvStep DEF Inv, TypeOK, PoolType
      <4> QED
        BY <2>1, <4>1, ResidentStep, IdsAreKept
    <3>3. \A l \in Leases : evict'[l] \subseteq Evictable'
      BY <2>1, <3>1, EvictStep
    <3>4. \A p \in Pruners : cands'[p] \subseteq Evictable'
                             /\ cur'[p] \in Evictable' \cup {None}
      BY <2>1, <3>1, PruneEvictable
    <3> QED
      BY <3>2, <3>3, <3>4 DEF ProtectInv
  <2>2. CASE UNCHANGED vars
    BY <2>2 DEF vars, leaseVars, coordVars, poolVars, pruneVars, ProtectInv, Evictable
  <2> QED
    BY <2>1, <2>2
<1>3. Inv /\ ProtectInv /\ [Next]_vars
        => [\A m \in resident : modelId[m] \in Protected => m \in resident']_vars
  BY ResidentStep DEF Evictable
<1> QED
  BY <1>1, <1>2, <1>3, InvAlways, PTL DEF Spec, ProtectedStay
===============================================================================
