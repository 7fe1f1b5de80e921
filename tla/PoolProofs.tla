------------------------------ MODULE PoolProofs ------------------------------
(***************************************************************************)
(* Theorems about what Scheduler keeps in memory: which models are resident *)
(* and loaded, that the ones in use stay, and that together they fit.       *)
(*                                                                         *)
(* These do not hold of every configuration, and the runs theft and cutoff  *)
(* of MCScheduler show how some of them fail.  So each theorem names the    *)
(* configurations it is about: every provider keeps one instance per id     *)
(* (LM Studio), or the budget takes every model at once.                    *)
(***************************************************************************)
EXTENDS SchedulerProofs, EvictionProofs

\* No provider has one server process for all its ids.
NoneSingle == SingleResident = {}

\* The budget takes a model of every id.
AllFit == IsFiniteSet(Known) /\ Held(Mem, Known) <= Budget

\* One of ctrl+e and the TTL sweep, or neither.
OnePruner == \A p, q \in Pruners : p = q

-------------------------------------------------------------------------------
(* The stack.  Serves nest only in _quiesce, so all but the innermost are    *)
(* there.                                                                   *)

\* The innermost serve returns.
LEMMA FrontSet ==
  ASSUME NEW S, NEW s \in Seq(S), s # <<>>, IsInjective(s)
  PROVE  /\ IsInjective(Front(s))
         /\ Last(s) \in ToSet(s)
         /\ ToSet(Front(s)) = ToSet(s) \ {Last(s)}
<1> DEFINE f == Front(s)
           n == Len(s)
<1>1. n \in Nat /\ n # 0 /\ DOMAIN s = 1 .. n /\ Last(s) = s[n]
  BY DEF Last
<1>2. DOMAIN f = 1 .. n - 1 /\ \A i \in 1 .. n - 1 : f[i] = s[i]
  BY DEF Front
<1> HIDE DEF f, n
<1>3. \A i \in DOMAIN s : i = n \/ i \in DOMAIN f
  BY <1>1, <1>2
<1>4. \A i \in DOMAIN f : i \in DOMAIN s /\ i # n /\ f[i] = s[i]
  BY <1>1, <1>2
<1>5. n \in DOMAIN s
  BY <1>1
<1>6. IsInjective(f)
  BY <1>4 DEF IsInjective
<1>7. Last(s) \in ToSet(s) /\ ToSet(f) = ToSet(s) \ {Last(s)}
  BY <1>1, <1>3, <1>4, <1>5 DEF ToSet, IsInjective
<1> QED
  BY <1>6, <1>7 DEF f

StackInv ==
  /\ IsInjective(stack)
  /\ ToSet(stack) = Serving
  /\ \A l \in Serving : pc[l] = "quiesce" \/ l = Last(stack)

\* What a step does to the nested serves.
Enters(l) ==
  /\ pc[l] = "out" /\ l \in ToSet(pending)
  /\ stack = <<>> \/ pc[Last(stack)] = "quiesce"
  /\ stack' = Append(stack, l)
  /\ pc' = [pc EXCEPT ![l] = "lookup"]

Exits(l) ==
  /\ stack # <<>> /\ l = Last(stack)
  /\ stack' = Front(stack)
  /\ pc' = [pc EXCEPT ![l] = "out"]

Moves(l) ==
  /\ stack # <<>> /\ l = Last(stack) /\ pc[l] # "out"
  /\ stack' = stack
  /\ \E w \in {"evictwait", "measure", "quiesce", "loading"} : pc' = [pc EXCEPT ![l] = w]

\* A lease in the queue is served only after it is taken out of it.
LEMMA BeginEnters ==
  ASSUME Inv, NEW l \in Leases, l \in ToSet(pending), BeginServe(l),
         stack = <<>> \/ pc[Last(stack)] = "quiesce"
  PROVE  Enters(l) /\ UNCHANGED <<leaseVars, target, evict, poolVars, pruneVars>>
  BY DEF Inv, LifeInv, QueueLive, BeginServe, Enters

LEMMA DequeueEnters ==
  ASSUME Inv, Dequeue
  PROVE  \E l \in Leases :
           Enters(l) /\ UNCHANGED <<leaseVars, target, evict, poolVars, pruneVars>>
<1>1. pending \in Seq(Leases) /\ pending # <<>> /\ IsInjective(pending)
  BY DEF Inv, TypeOK, CoordType, LifeInv, QueueOnce, Dequeue
<1>2. Head(pending) \in ToSet(pending) /\ Head(pending) \in Leases
  BY <1>1, TailSet
<1> QED
  BY <1>2, BeginEnters DEF Dequeue

\* A lease that cuts the line names a model that is to be evicted.
LEMMA LineCutEnters ==
  ASSUME Inv, NEW l \in Leases, LineCut(l)
  PROVE  \E k \in Leases :
           /\ Enters(k) /\ UNCHANGED <<leaseVars, target, evict, poolVars, pruneVars>>
           /\ Targets(modelId[k], evict[l])
<1>1. PICK i \in DOMAIN pending :
        Targets(modelId[pending[i]], evict[l]) /\ BeginServe(pending[i])
  BY DEF LineCut
<1>2. pending[i] \in Leases /\ pending[i] \in ToSet(pending)
  BY DEF Inv, TypeOK, CoordType, ToSet
<1>3. pc[Last(stack)] = "quiesce"
  BY DEF LineCut, At, Waits
<1> QED
  BY <1>1, <1>2, <1>3, BeginEnters

LEMMA ServeMoves ==
  ASSUME Inv, NEW l \in Leases, ServeStep(l), ~LineCut(l)
  PROVE  Exits(l) \/ Moves(l) \/ UNCHANGED <<stack, pc>>
<1> USE DEF At, AtGrant, Waits, Drained
<1>1. CASE Unknown(l) \/ Found(l) \/ MeasuredTooBig(l) \/ ServeRaises(l)
  BY <1>1 DEF Unknown, Found, MeasuredTooBig, ServeRaises, EndServe, Exits
<1>2. CASE EvictRaises(l) \/ Loaded(l) \/ LoadRaises(l)
  BY <1>2 DEF EvictRaises, Loaded, LoadRaises, EndServe, Exits
<1>3. CASE FoundDying(l) \/ Missing(l) \/ MeasuredEvicts(l)
  BY <1>3 DEF FoundDying, Missing, MeasuredEvicts, Moves
<1>4. CASE MeasuredFits(l) \/ EvictAndLoad(l)
  BY <1>4 DEF MeasuredFits, EvictAndLoad, BeginLoad, Moves
<1>5. CASE DrainWait(l)
  BY <1>5 DEF DrainWait
<1> QED
  BY <1>1, <1>2, <1>3, <1>4, <1>5 DEF ServeStep

\* Only the coordinator's steps nest or end serves.
LEMMA OtherStepsStay ==
  ASSUME Next, ~Dequeue, \A l \in Leases : ~ServeStep(l)
  PROVE  UNCHANGED <<stack, pc, target, evict>>
<1>1. ASSUME NEW l \in Leases, RequestStep(l)
      PROVE  UNCHANGED coordVars
  BY <1>1 DEF RequestStep, Acquire, Resume, ResumeFailed, Disconnect, DisconnectGranted,
    Finish, Release
<1>2. Sleep \/ Awake => UNCHANGED <<stack, pc, target, evict>>
  BY DEF Sleep, Awake
<1>3. (\E m \in Leases : Age(m)) \/ Terminating => UNCHANGED coordVars
  BY DEF Age, Terminating, vars
<1> QED
  BY <1>1, <1>2, <1>3, PruneLeavesLeases DEF Next, Coordinator, coordVars

LEMMA StackMoves ==
  ASSUME Inv, Next
  PROVE  (\E l \in Leases : Enters(l) \/ Exits(l) \/ Moves(l)) \/ UNCHANGED <<stack, pc>>
  BY DequeueEnters, LineCutEnters, ServeMoves, OtherStepsStay

LEMMA StackStep ==
  ASSUME Inv, StackInv, [Next]_vars
  PROVE  StackInv'
<1>0. stack \in Seq(Leases) /\ pc \in [Leases -> {"out", "lookup", "evictwait", "measure",
                                                  "quiesce", "loading"}]
  BY DEF Inv, TypeOK, CoordType
<1>1. CASE UNCHANGED <<stack, pc>>
  BY <1>1 DEF StackInv, Serving
<1>2. ASSUME NEW l \in Leases, Enters(l)
      PROVE  StackInv'
  <2>1. l \notin ToSet(stack)
    BY <1>2 DEF StackInv, Serving, Enters
  <2>2. IsInjective(stack') /\ ToSet(stack') = ToSet(stack) \cup {l}
    BY <1>0, <1>2, <2>1, AppendSet DEF StackInv, Enters
  <2>3. Serving' = Serving \cup {l}
    BY <1>0, <1>2 DEF Serving, Enters
  <2>4. Last(stack') = l
    BY <1>0, <1>2 DEF Enters, Last
  <2>5. ASSUME NEW k \in Serving
        PROVE  pc[k] = "quiesce"
    <3>1. CASE stack = <<>>
      BY <3>1 DEF StackInv, ToSet
    <3> QED
      BY <3>1, <1>2 DEF StackInv, Enters
  <2>6. \A k \in Serving' : pc'[k] = "quiesce" \/ k = Last(stack')
    BY <1>0, <1>2, <2>3, <2>4, <2>5 DEF Enters, Serving
  <2> QED
    BY <2>2, <2>3, <2>6 DEF StackInv
<1>3. ASSUME NEW l \in Leases, Exits(l)
      PROVE  StackInv'
  <2>1. IsInjective(stack') /\ ToSet(stack') = ToSet(stack) \ {l}
    BY <1>0, <1>3, FrontSet DEF StackInv, Exits
  <2>2. Serving' = Serving \ {l}
    BY <1>0, <1>3 DEF Serving, Exits
  <2>3. \A k \in Serving' : pc'[k] = "quiesce"
    BY <1>0, <1>3, <2>2 DEF StackInv, Exits, Serving
  <2> QED
    BY <2>1, <2>2, <2>3 DEF StackInv
<1>4. ASSUME NEW l \in Leases, Moves(l)
      PROVE  StackInv'
  <2>1. Serving' = Serving
    BY <1>0, <1>4 DEF Serving, Moves
  <2>2. \A k \in Serving' : pc'[k] = "quiesce" \/ k = Last(stack')
    BY <1>0, <1>4, <2>1 DEF StackInv, Moves, Serving
  <2> QED
    BY <1>4, <2>1, <2>2 DEF StackInv, Moves
<1>5. CASE UNCHANGED vars
  BY <1>5, <1>1 DEF vars, coordVars
<1> QED
  BY <1>1, <1>2, <1>3, <1>4, <1>5, StackMoves

LEMMA StackAlways == Spec => []StackInv
<1>1. Init => StackInv
  BY DEF Init, StackInv, IsInjective, ToSet, Serving
<1>2. Inv /\ StackInv /\ [Next]_vars => StackInv'
  BY StackStep
<1> QED
  BY <1>1, <1>2, InvAlways, PTL DEF Spec

-------------------------------------------------------------------------------
(* The models.  A model is named by the lease it was made for, which has     *)
(* been granted it by the time it is resident.                              *)

Made == {m \in Leases : granted[m] /\ modelId[m] \in Known}

MadeInv ==
  /\ resident \subseteq Made
  /\ evicting \subseteq Made
  /\ \A p \in Pruners : cands[p] \subseteq Made

\* What has been granted stays granted, and its id is settled.
LEMMA GrantsAreKept ==
  ASSUME Inv, Next, NEW m \in Leases, granted[m]
  PROVE  granted'[m] /\ modelId'[m] = modelId[m]
<1>1. client[m] # "new"
  BY DEF Inv, LifeInv, LeaseLife
<1>2. modelId'[m] = modelId[m]
  BY <1>1, IdsAreKept
<1>3. ASSUME NEW l \in Leases, RequestStep(l)
      PROVE  granted' = granted
  BY <1>3 DEF RequestStep, Acquire, Resume, ResumeFailed, Disconnect, DisconnectGranted,
    Finish, Release
<1>4. ASSUME NEW l \in Leases, ServeStep(l)
      PROVE  granted'[m]
  BY <1>4 DEF ServeStep, Unknown, Found, FoundDying, Missing, MeasuredFits, MeasuredEvicts,
    MeasuredTooBig, ServeRaises, LineCut, DrainWait, EvictAndLoad, EvictRaises, Loaded,
    LoadRaises, Reject, Grant, BeginServe, BeginLoad, leaseVars, Inv, TypeOK, LeaseType
<1>5. Dequeue \/ Sleep \/ Awake => granted' = granted
  BY DEF Dequeue, Sleep, Awake, BeginServe, leaseVars
<1>6. ASSUME NEW p \in Pruners, PruneStep(p)
      PROVE  granted' = granted
  BY <1>6, PruneLeavesLeases DEF leaseVars
<1>7. (\E n \in Leases : Age(n)) \/ Terminating => granted' = granted
  BY DEF Age, Terminating, vars, leaseVars
<1> QED
  BY <1>2, <1>3, <1>4, <1>5, <1>6, <1>7 DEF Next, Coordinator

LEMMA MadeStays ==
  ASSUME Inv, Next
  PROVE  /\ Made \subseteq Made'
         /\ \A m \in Made : modelId'[m] = modelId[m] /\ Slot(m)' = Slot(m)
                            /\ Owner(m)' = Owner(m)
  BY GrantsAreKept DEF Made, Slot, Owner

\* The steps that change which models are resident.
LEMMA ResidentMoves ==
  ASSUME Inv, Next
  PROVE  \/ UNCHANGED resident
         \/ \E l \in Leases : EvictAndLoad(l) \/ Loaded(l)
         \/ \E p \in Pruners : PruneReaped(p)
<1>1. ASSUME NEW l \in Leases, ServeStep(l), ~EvictAndLoad(l), ~Loaded(l)
      PROVE  UNCHANGED resident
  BY <1>1 DEF ServeStep, Unknown, Found, FoundDying, Missing, MeasuredFits, MeasuredEvicts,
    MeasuredTooBig, ServeRaises, LineCut, DrainWait, EvictRaises, LoadRaises, BeginServe,
    poolVars
<1>2. Dequeue \/ Sleep \/ Awake => UNCHANGED resident
  BY DEF Dequeue, Sleep, Awake, BeginServe, poolVars
<1>3. ASSUME NEW l \in Leases, RequestStep(l)
      PROVE  UNCHANGED resident
  BY <1>3 DEF RequestStep, Acquire, Resume, ResumeFailed, Disconnect, DisconnectGranted,
    Finish, Release, poolVars
<1>4. ASSUME NEW p \in Pruners, PruneStep(p), ~PruneReaped(p)
      PROVE  UNCHANGED resident
  BY <1>4 DEF PruneStep, PruneBegin, PruneScanned, PruneTeardown, PruneRaises, Select, poolVars
<1>5. (\E m \in Leases : Age(m)) \/ Terminating => UNCHANGED resident
  BY DEF Age, Terminating, vars, poolVars
<1> QED
  BY <1>1, <1>2, <1>3, <1>4, <1>5 DEF Next, Coordinator

\* Only the prune tasks mark models as dying.
LEMMA DyingMoves ==
  ASSUME Inv, Next, \A p \in Pruners : ~PruneStep(p)
  PROVE  UNCHANGED <<evicting, pruneVars>>
<1>1. ASSUME NEW l \in Leases, RequestStep(l)
      PROVE  UNCHANGED <<evicting, pruneVars>>
  BY <1>1 DEF RequestStep, Acquire, Resume, ResumeFailed, Disconnect, DisconnectGranted,
    Finish, Release, poolVars
<1>2. Coordinator => UNCHANGED <<evicting, pruneVars>>
  BY DEF Coordinator, Dequeue, Sleep, Awake, ServeStep, Unknown, Found, FoundDying, Missing,
    MeasuredFits, MeasuredEvicts, MeasuredTooBig, ServeRaises, LineCut, DrainWait,
    EvictAndLoad, EvictRaises, Loaded, LoadRaises, BeginServe, BeginLoad, poolVars
<1>3. (\E m \in Leases : Age(m)) \/ Terminating => UNCHANGED <<evicting, pruneVars>>
  BY DEF Age, Terminating, vars, poolVars
<1> QED
  BY <1>1, <1>2, <1>3 DEF Next

\* What a prune step does: it looks for the next model to unload among some
\* candidates, or goes on with the one it has.
Looks(p, C, res, dying) ==
  /\ prunePc[p] \in {"idle", "scan", "reap"}
  /\ \E known : Visit(p, C, known, res, dying)
  /\ resident' = res /\ up' = up

LEMMA PruneMoves ==
  ASSUME NEW p \in Pruners, PruneStep(p)
  PROVE  \/ /\ prunePc[p] \in {"idle", "scan"}
            /\ \E C \in SUBSET resident : Looks(p, C, resident, evicting)
         \/ PruneReaped(p) /\ Looks(p, cands[p], resident', evicting \ {cur[p]})
         \/ PruneTeardown(p)
         \/ PruneRaises(p)
         \/ /\ prunePc[p] = "idle" /\ prunePc' = [prunePc EXCEPT ![p] = "scan"]
            /\ UNCHANGED <<resident, evicting, up, cands, cur>>
<1>1. ASSUME NEW known, Select(p, known), prunePc[p] \in {"idle", "scan"}
      PROVE  \E C \in SUBSET resident : Looks(p, C, resident, evicting)
  <2> DEFINE C == {m \in resident \ WaitingOn(known, resident) :
                     /\ inFlight[m] = 0
                     /\ modelId[m] \notin Protected
                     /\ p = "ttl" => m \notin fresh}
  <2>1. Visit(p, C, known, resident, evicting) /\ UNCHANGED <<resident, up>>
    BY <1>1 DEF Select
  <2>2. C \in SUBSET resident
    OBVIOUS
  <2> HIDE DEF C
  <2> QED
    BY <1>1, <2>1, <2>2 DEF Looks
<1>2. CASE PruneBegin(p)
  <2>1. Select(p, {}) \/ ~Select(p, {})
    OBVIOUS
  <2> QED
    BY <1>1, <1>2, <2>1 DEF PruneBegin, poolVars
<1>3. CASE PruneScanned(p)
  BY <1>1, <1>3 DEF PruneScanned
<1>4. CASE PruneReaped(p)
  BY <1>4 DEF PruneReaped, Looks
<1> QED
  BY <1>2, <1>3, <1>4 DEF PruneStep

\* A visit takes no more than its candidates.
LEMMA VisitTakes ==
  ASSUME Inv, NEW p \in Pruners, NEW C, NEW res, NEW dying, Looks(p, C, res, dying)
  PROVE  /\ evicting' \subseteq dying \cup C
         /\ cands'[p] \subseteq C
         /\ \A q \in Pruners : q # p => cands'[q] = cands[q]
  BY DEF Inv, TypeOK, PruneType, Looks, Visit

LEMMA MadePrune ==
  ASSUME Inv, MadeInv, NEW p \in Pruners, PruneStep(p)
  PROVE  /\ evicting' \subseteq Made
         /\ \A q \in Pruners : cands'[q] \subseteq Made
<1>1. ASSUME NEW C \in SUBSET Made, NEW res, NEW dying \in SUBSET evicting,
             Looks(p, C, res, dying)
      PROVE  evicting' \subseteq Made /\ \A q \in Pruners : cands'[q] \subseteq Made
  <2>1. /\ evicting' \subseteq dying \cup C
        /\ cands'[p] \subseteq C
        /\ \A q \in Pruners : q # p => cands'[q] = cands[q]
    BY <1>1, VisitTakes
  <2> QED
    BY <2>1 DEF MadeInv
<1>2. CASE \E C \in SUBSET resident : Looks(p, C, resident, evicting)
  <2>1. PICK C \in SUBSET resident : Looks(p, C, resident, evicting)
    BY <1>2
  <2>2. C \in SUBSET Made
    BY DEF MadeInv
  <2> QED
    BY <1>1, <2>1, <2>2
<1>3. CASE PruneReaped(p) /\ Looks(p, cands[p], resident', evicting \ {cur[p]})
  <2>1. cands[p] \in SUBSET Made /\ evicting \ {cur[p]} \in SUBSET evicting
    BY DEF MadeInv
  <2> QED
    BY <1>1, <1>3, <2>1
<1>4. CASE PruneTeardown(p)
  BY <1>4 DEF PruneTeardown, MadeInv
<1>5. CASE PruneRaises(p)
  BY <1>5 DEF PruneRaises, MadeInv, Inv, TypeOK, PruneType
<1>6. CASE UNCHANGED <<evicting, cands>>
  BY <1>6 DEF MadeInv
<1> QED
  BY <1>2, <1>3, <1>4, <1>5, <1>6, PruneMoves

\* A load ends with its lease granted.
LEMMA LoadedMakes ==
  ASSUME Inv, NEW l \in Leases, Loaded(l)
  PROVE  /\ l \notin Made /\ l \in Made' /\ resident' = resident \cup {l}
         /\ pc[l] = "loading" /\ l \in Serving /\ Exits(l)
<1>1. pc[l] = "loading" /\ Exits(l) /\ Grant(l, l) /\ resident' = resident \cup {l}
  BY DEF Loaded, AtGrant, Waits, EndServe, Exits
<1>2. ~granted[l] /\ modelId[l] \in Known
  BY <1>1 DEF Inv, LifeInv, ServesLive
<1>3. granted'[l] /\ modelId'[l] = modelId[l]
  BY <1>1 DEF Grant, Inv, TypeOK, LeaseType
<1> QED
  BY <1>1, <1>2, <1>3 DEF Made, Serving

LEMMA MadeStep ==
  ASSUME Inv, MadeInv, [Next]_vars
  PROVE  MadeInv'
<1>1. CASE Next
  <2>1. Made \subseteq Made'
    BY <1>1, MadeStays
  <2>2. resident' \subseteq Made'
    <3>1. CASE \E l \in Leases : Loaded(l)
      BY <2>1, <3>1, LoadedMakes DEF MadeInv
    <3>2. CASE resident' \subseteq resident
      BY <2>1, <3>2 DEF MadeInv
    <3> QED
      BY <1>1, <3>1, <3>2, ResidentMoves DEF EvictAndLoad, PruneReaped
  <2>3. evicting' \subseteq Made /\ \A p \in Pruners : cands'[p] \subseteq Made
    <3>1. CASE \E p \in Pruners : PruneStep(p)
      BY <3>1, MadePrune
    <3>2. CASE \A p \in Pruners : ~PruneStep(p)
      BY <1>1, <3>2, DyingMoves DEF MadeInv, pruneVars
    <3> QED
      BY <3>1, <3>2
  <2> QED
    BY <2>1, <2>2, <2>3 DEF MadeInv
<1>2. CASE UNCHANGED vars
  BY <1>2 DEF vars, leaseVars, poolVars, pruneVars, MadeInv, Made
<1> QED
  BY <1>1, <1>2

LEMMA MadeAlways == Spec => []MadeInv
<1>1. Init => MadeInv
  BY DEF Init, MadeInv
<1>2. Inv /\ MadeInv /\ [Next]_vars => MadeInv'
  BY MadeStep
<1> QED
  BY <1>1, <1>2, InvAlways, PTL DEF Spec

-------------------------------------------------------------------------------
(* Claims.  When no client hangs up before its grant, in_flight is exactly   *)
(* the number of leases that hold the model.                                *)

\* A request waits until it is answered, and is not answered twice.
PatientInv ==
  \A l \in Leases :
    /\ client[l] # "done" => future[l] # "cancelled"
    /\ pc[l] # "out" => client[l] = "acquiring" /\ future[l] = "pending"
    /\ client[l] = "holding" => granted[l] /\ future[l] = "result"

ClaimsCounted == \A m \in Leases : inFlight[m] = Cardinality(Claimants(m))

LEMMA PatientStep ==
  ASSUME Impatient = {}, Inv, PatientInv, [Next]_vars
  PROVE  PatientInv'
<1> USE DEF Inv, TypeOK, LeaseType, CoordType
<1>1. ASSUME NEW l \in Leases, RequestStep(l)
      PROVE  PatientInv'
  <2>1. ASSUME NEW id \in ModelIds, Acquire(l, id)
        PROVE  PatientInv'
    BY <2>1 DEF Acquire, coordVars, PatientInv, LifeInv, LeaseLife, ServesLive
  <2>2. CASE Resume(l)
    BY <2>2 DEF Resume, coordVars, PatientInv, LifeInv, LeaseLife
  <2>3. CASE ResumeFailed(l) \/ Finish(l)
    BY <2>3 DEF ResumeFailed, Finish, Release, coordVars, PatientInv
  <2> QED
    BY <1>1, <2>1, <2>2, <2>3 DEF RequestStep, Disconnect, DisconnectGranted
<1>2. ASSUME NEW l \in Leases, Enters(l), UNCHANGED leaseVars
      PROVE  PatientInv'
  BY <1>2 DEF Enters, leaseVars, PatientInv, LifeInv, QueueLive
<1>3. ASSUME NEW l \in Leases, ServeStep(l), ~LineCut(l)
      PROVE  PatientInv'
  <2> USE DEF At, AtGrant, Waits, Drained, PatientInv
  <2>1. CASE Unknown(l) \/ MeasuredTooBig(l) \/ ServeRaises(l) \/ EvictRaises(l) \/ LoadRaises(l)
    <3>1. pc[l] # "out" /\ Reject(l) /\ EndServe(l)
      BY <2>1 DEF Unknown, MeasuredTooBig, ServeRaises, EvictRaises, LoadRaises
    <3> QED
      BY <3>1 DEF Reject, EndServe
  <2>2. CASE Found(l) \/ Loaded(l)
    <3>1. pc[l] # "out" /\ EndServe(l) /\ \E m : Grant(l, m)
      BY <2>2 DEF Found, Loaded
    <3> QED
      BY <3>1 DEF Grant, EndServe, LifeInv, LeaseLife
  <2>3. CASE FoundDying(l) \/ Missing(l) \/ MeasuredEvicts(l) \/ DrainWait(l)
    BY <2>3 DEF FoundDying, Missing, MeasuredEvicts, DrainWait, leaseVars
  <2>4. CASE MeasuredFits(l) \/ EvictAndLoad(l)
    BY <2>4 DEF MeasuredFits, EvictAndLoad, BeginLoad, leaseVars
  <2> QED
    BY <1>3, <2>1, <2>2, <2>3, <2>4 DEF ServeStep
<1>4. CASE UNCHANGED <<leaseVars, pc>>
  BY <1>4 DEF leaseVars, PatientInv
<1>5. ASSUME NEW l \in Leases, LineCut(l)
      PROVE  PatientInv'
  BY <1>2, <1>5, LineCutEnters
<1>6. CASE Coordinator
  <2>1. CASE Dequeue
    BY <1>2, <2>1, DequeueEnters
  <2>2. CASE Sleep \/ Awake
    BY <1>4, <2>2 DEF Sleep, Awake
  <2> QED
    BY <1>3, <1>5, <1>6, <2>1, <2>2 DEF Coordinator
<1>7. ASSUME NEW p \in Pruners, PruneStep(p)
      PROVE  UNCHANGED <<leaseVars, pc>>
  BY <1>7, PruneLeavesLeases DEF coordVars
<1>8. (\E m \in Leases : Age(m)) \/ Terminating \/ UNCHANGED vars => UNCHANGED <<leaseVars, pc>>
  BY DEF Age, Terminating, vars, coordVars
<1> QED
  BY <1>1, <1>4, <1>6, <1>7, <1>8 DEF Next

\* A grant counts one claimant more.
LEMMA GrantCounts ==
  ASSUME Inv, PatientInv, ClaimsCounted, NEW l \in Leases, NEW m \in Leases, pc[l] # "out",
         Grant(l, m)
  PROVE  ClaimsCounted'
<1> USE DEF Inv, TypeOK, Grant
<1> SUFFICES ASSUME NEW n \in Leases PROVE inFlight'[n] = Cardinality(Claimants(n)')
  BY DEF ClaimsCounted
<1>1. inFlight[n] = Cardinality(Claimants(n)) /\ IsFiniteSet(Claimants(n))
      /\ inFlight[n] \in Nat
  BY ClaimantsFinite DEF ClaimsCounted, PoolType
<1>2. ~granted[l] /\ ~finished[l] /\ future[l] = "pending"
  BY DEF LifeInv, ServesLive, LeaseLife, PatientInv
<1>3. l \notin Claimants(n)
  BY <1>2 DEF Claimants
<1>4. Claimants(n)' = IF n = m THEN Claimants(n) \cup {l} ELSE Claimants(n)
  BY <1>2, <1>3 DEF Claimants, LeaseType
<1>5. Cardinality(Claimants(n) \cup {l}) = Cardinality(Claimants(n)) + 1
  BY <1>1, <1>3, FS_AddElement
<1>6. inFlight'[n] = IF n = m THEN inFlight[n] + 1 ELSE inFlight[n]
  BY <1>2 DEF PoolType
<1> QED
  BY <1>1, <1>4, <1>5, <1>6

\* A release takes one away.
LEMMA ReleaseCounts ==
  ASSUME Inv, ClaimsCounted, NEW l \in Leases, Release(l), client[l] # "done"
  PROVE  ClaimsCounted'
<1> USE DEF Inv, TypeOK, Release
<1> SUFFICES ASSUME NEW n \in Leases PROVE inFlight'[n] = Cardinality(Claimants(n)')
  BY DEF ClaimsCounted
<1>1. inFlight[n] = Cardinality(Claimants(n)) /\ IsFiniteSet(Claimants(n))
      /\ inFlight[n] \in Nat
  BY ClaimantsFinite DEF ClaimsCounted, PoolType
<1>2. Claimants(n)' = Claimants(n) \ {l}
  BY DEF Claimants, LeaseType
<1>3. CASE granted[l] /\ model[l] = n
  <2>1. l \in Claimants(n)
    BY <1>3 DEF LifeInv, LeaseLife, Claimants
  <2>2. Cardinality(Claimants(n) \ {l}) = Cardinality(Claimants(n)) - 1
    BY <1>1, <2>1, FS_RemoveElement
  <2>3. inFlight[n] > 0
    <3>1. Cardinality(Claimants(n)) # 0
      BY <1>1, <2>1, FS_EmptySet
    <3> QED
      BY <1>1, <3>1
  <2>4. inFlight'[n] = inFlight[n] - 1
    BY <1>3, <2>3 DEF Leave, PoolType
  <2> QED
    BY <1>1, <1>2, <2>2, <2>4
<1>4. CASE ~(granted[l] /\ model[l] = n)
  <2>1. l \notin Claimants(n) /\ inFlight'[n] = inFlight[n]
    BY <1>4 DEF Claimants, Leave, PoolType
  <2> QED
    BY <1>1, <1>2, <2>1
<1> QED
  BY <1>3, <1>4

\* The steps that change a claim.
LEMMA ClaimMoves ==
  ASSUME Inv, Next
  PROVE  \/ \E l \in Leases : Release(l) /\ client[l] # "done"
         \/ \E l, m \in Leases : Grant(l, m) /\ pc[l] # "out"
         \/ UNCHANGED <<granted, finished, model, inFlight>>
<1>1. ASSUME NEW l \in Leases, RequestStep(l)
      PROVE  \/ Release(l) /\ client[l] # "done"
             \/ UNCHANGED <<granted, finished, model, inFlight>>
  BY <1>1 DEF RequestStep, Acquire, Resume, ResumeFailed, Disconnect, DisconnectGranted,
    Finish, poolVars
<1>2. ASSUME NEW l \in Leases, Found(l) \/ Loaded(l)
      PROVE  \E m \in Leases : Grant(l, m) /\ pc[l] # "out"
  BY <1>2 DEF Found, Loaded, AtGrant, Waits, ResidentFor, Inv, TypeOK, PoolType
<1>3. ASSUME NEW l \in Leases, ServeStep(l), ~Found(l), ~Loaded(l)
      PROVE  UNCHANGED <<granted, finished, model, inFlight>>
  BY <1>3 DEF ServeStep, Unknown, FoundDying, Missing, MeasuredFits, MeasuredEvicts,
    MeasuredTooBig, ServeRaises, LineCut, DrainWait, EvictAndLoad, EvictRaises, LoadRaises,
    Reject, BeginServe, BeginLoad, leaseVars, poolVars
<1>4. Dequeue \/ Sleep \/ Awake => UNCHANGED <<granted, finished, model, inFlight>>
  BY DEF Dequeue, BeginServe, Sleep, Awake, leaseVars, poolVars
<1>5. ASSUME NEW p \in Pruners, PruneStep(p)
      PROVE  UNCHANGED <<granted, finished, model, inFlight>>
  BY <1>5 DEF PruneStep, PruneBegin, PruneScanned, PruneTeardown, PruneReaped, PruneRaises,
    Select, leaseVars, poolVars
<1>6. (\E m \in Leases : Age(m)) \/ Terminating
        => UNCHANGED <<granted, finished, model, inFlight>>
  BY DEF Age, Terminating, vars, leaseVars, poolVars
<1> QED
  BY <1>1, <1>2, <1>3, <1>4, <1>5, <1>6 DEF Next, Coordinator

LEMMA CountStep ==
  ASSUME Inv, PatientInv, ClaimsCounted, [Next]_vars
  PROVE  ClaimsCounted'
<1>1. UNCHANGED <<granted, finished, model, inFlight>> => ClaimsCounted'
  BY DEF ClaimsCounted, Claimants
<1>2. UNCHANGED vars => UNCHANGED <<granted, finished, model, inFlight>>
  BY DEF vars, leaseVars, poolVars
<1> QED
  BY <1>1, <1>2, ClaimMoves, ReleaseCounts, GrantCounts

LEMMA PatientAlways ==
  ASSUME Impatient = {}
  PROVE  Spec => [](PatientInv /\ ClaimsCounted)
<1>1. Init => PatientInv /\ ClaimsCounted
  <2>1. Init => PatientInv
    BY DEF Init, PatientInv
  <2>2. ASSUME Init, NEW m \in Leases
        PROVE  inFlight[m] = Cardinality(Claimants(m))
    <3>1. Claimants(m) = {} /\ inFlight[m] = 0
      BY <2>2 DEF Init, Claimants
    <3> QED
      BY <3>1, FS_EmptySet
  <2> QED
    BY <2>1, <2>2 DEF ClaimsCounted
<1>2. Inv /\ (PatientInv /\ ClaimsCounted) /\ [Next]_vars => (PatientInv /\ ClaimsCounted)'
  BY PatientStep, CountStep
<1> QED
  BY <1>1, <1>2, InvAlways, PTL DEF Spec

\* Lease.acquire, Scheduler._grant: what a request holds is counted in
\* in_flight, so no eviction path takes it.  (A client that hangs up in the
\* turn of the grant can be counted out and still be handed the model: the
\* finding of the run theft.)
THEOREM HeldModelsAreCounted ==
  ASSUME Impatient = {}
  PROVE  Spec => []HeldIsCounted
<1>1. Inv /\ PatientInv /\ ClaimsCounted => HeldIsCounted
  <2> SUFFICES ASSUME Inv, PatientInv, ClaimsCounted, NEW m \in Leases
               PROVE  inFlight[m] >= Cardinality({l \in Claimants(m) : client[l] = "holding"})
    BY DEF HeldIsCounted
  <2> DEFINE holders == {l \in Claimants(m) : client[l] = "holding"}
  <2>1. IsFiniteSet(Claimants(m)) /\ holders \subseteq Claimants(m)
    BY ClaimantsFinite
  <2> HIDE DEF holders
  <2>2. /\ Cardinality(holders) <= Cardinality(Claimants(m)) /\ IsFiniteSet(holders)
        /\ Cardinality(holders) \in Nat /\ Cardinality(Claimants(m)) \in Nat
    BY <2>1, FS_Subset, FS_CardinalityType
  <2>3. inFlight[m] = Cardinality(Claimants(m))
    BY DEF ClaimsCounted
  <2> QED
    BY <2>2, <2>3 DEF holders
<1> QED
  BY <1>1, InvAlways, PatientAlways, PTL

-------------------------------------------------------------------------------
(* Slots.  No two resident models are one server process or one instance     *)
(* at LM Studio, because a load starts only for a slot without a model, and  *)
(* nothing comes into that slot until the load is over.                     *)

Past == {"measure", "quiesce", "loading"}

\* A slot past its lookup is without a model.
ClearPast ==
  \A l \in Serving, m \in resident : pc[l] \in Past => Slot(m) # Slot(l)

\* While it waits to evict, what is served ahead of the queue goes elsewhere.
ClearAhead ==
  \A l, k \in Serving :
    pc[l] = "quiesce" /\ k # l /\ modelId[k] \in Known => Slot(k) # Slot(l)

\* A dying model is the only one of its slot.
DyingKnown ==
  \A l \in Serving : pc[l] = "evictwait" =>
    modelId[l] \in Known /\ \A m \in resident : Slot(m) = Slot(l) => m = target[l]

NeverEvicts == AllFit => \A l \in Leases : pc[l] # "quiesce"

SlotInv == OneResidentPerSlot /\ ClearPast /\ ClearAhead /\ DyingKnown /\ NeverEvicts

\* The resident models that answer a request are those of its slot.
LEMMA AnswersAreOfSlot ==
  ASSUME MadeInv, NEW l \in Leases, modelId[l] \in Known
  PROVE  /\ \A m \in ResidentFor(Owner(l), modelId[l]) : m \in resident /\ Slot(m) = Slot(l)
         /\ ResidentFor(Owner(l), modelId[l]) = {} => \A m \in resident : Slot(m) # Slot(l)
<1> DEFINE p == Owner(l)
           id == modelId[l]
           exact == {m \in resident : modelId[m] = id}
<1>1. \A m \in resident : modelId[m] \in Known
  BY DEF MadeInv, Made
<1>2. \A k \in Leases : modelId[k] \in Known =>
        Owner(k) \in Providers /\ modelId[k] \in ModelIds /\ Owner(k) # modelId[k]
        /\ \A j \in Leases : modelId[j] \in Known => modelId[j] # Owner(k)
  BY ProvidersAssumption, SlotsAssumption DEF Owner
<1>3. \A m \in exact : Owner(m) = p /\ Slot(m) = Slot(l)
  BY DEF Owner, Slot
<1>4. resident \subseteq Leases
  BY DEF MadeInv, Made
<1>5. CASE p \in SingleResident
  <2>1. Slot(l) = p
    BY <1>5 DEF Slot
  <2>2. \A m \in resident : Slot(m) = Slot(l) <=> Owner(m) = p
    BY <2>1, <1>1, <1>2, <1>4, <1>5 DEF Slot
  <2>3. ResidentFor(p, id) = IF exact # {} THEN exact ELSE {m \in resident : Owner(m) = p}
    BY <1>5 DEF ResidentFor
  <2> QED
    BY <2>2, <2>3, <1>3
<1>6. CASE p \notin SingleResident
  <2>1. Slot(l) = id
    BY <1>6 DEF Slot
  <2>2. \A m \in resident : Slot(m) = Slot(l) => m \in exact
    BY <2>1, <1>1, <1>2, <1>4 DEF Slot
  <2>3. ResidentFor(p, id) = exact
    BY <1>6 DEF ResidentFor
  <2> QED
    BY <2>2, <2>3, <1>3
<1> QED
  BY <1>5, <1>6

\* Models of different ids together take no more than one of every id.
LEMMA IdsFit ==
  ASSUME AllFit, NEW S \in SUBSET Leases, \A l \in S : modelId[l] \in Known,
         \A l, k \in S : modelId[l] = modelId[k] => l = k
  PROVE  Held([m \in S |-> Mem[modelId[m]]], S) <= Budget
<1> DEFINE mem == [m \in S |-> Mem[modelId[m]]]
           ids == {modelId[m] : m \in S}
<1>1. IsFiniteSet(S)
  BY LeasesAssumption, FS_Subset
<1>2. HasSizes(mem, S) /\ HasSizes(Mem, Known)
  BY MemAssumption DEF HasSizes
<1>3. \A m \in S : mem[m] = Mem[modelId[m]]
  OBVIOUS
<1>4. ids \in SUBSET Known
  OBVIOUS
<1> HIDE DEF mem
<1>5. Held(mem, S) = Held(Mem, ids)
  BY <1>1, <1>2, <1>3, HeldRenamed
<1> HIDE DEF ids
<1>6. IsFiniteSet(Known) /\ Held(Mem, Known) <= Budget
  BY DEF AllFit
<1>7. IsFiniteSet(ids) /\ HasSizes(Mem, ids)
  BY <1>2, <1>4, <1>6, FS_Subset DEF HasSizes
<1>8. Held(Mem, ids) \in Nat /\ Held(Mem, Known) \in Nat
  BY <1>2, <1>6, <1>7, HeldType
<1>9. Held(Mem, ids) <= Held(Mem, Known)
  BY <1>2, <1>4, <1>6, HeldMonotone
<1>10. Budget \in Nat
  BY MemAssumption
<1> QED
  BY <1>5, <1>6, <1>8, <1>9, <1>10 DEF mem

\* The resident models, and one that is measured or loaded, have an id each.
LEMMA IdsApart ==
  ASSUME Inv, MadeInv, SlotInv
  PROVE  /\ resident \subseteq Leases
         /\ \A m \in resident : modelId[m] \in Known
         /\ \A m, n \in resident : modelId[m] = modelId[n] => m = n
         /\ \A l \in Serving, m \in resident :
              pc[l] \in Past => modelId[m] # modelId[l] /\ modelId[l] \in Known /\ l # m
<1>1. \A m, n \in Leases : modelId[m] = modelId[n] => Slot(m) = Slot(n)
  BY DEF Slot, Owner
<1>2. \A l \in Serving : l \in Leases /\ ~granted[l] /\ (pc[l] \in Past => modelId[l] \in Known)
  BY DEF Serving, Inv, LifeInv, ServesLive, Past
<1> QED
  BY <1>1, <1>2 DEF MadeInv, Made, SlotInv, OneResidentPerSlot, ClearPast

\* Where everything fits, nothing is ever short.
LEMMA NothingShort ==
  ASSUME AllFit, Inv, MadeInv, SlotInv, NEW l \in Leases, pc[l] = "measure"
  PROVE  Fits(l)
<1> DEFINE S == resident \cup {l}
           mem == [m \in S |-> Mem[modelId[m]]]
           rest == [m \in resident |-> Mem[modelId[m]]]
<1>1. /\ resident \subseteq Leases /\ l \notin resident /\ modelId[l] \in Known
      /\ \A m \in S : modelId[m] \in Known
      /\ \A m, n \in S : modelId[m] = modelId[n] => m = n
  <2>1. l \in Serving /\ pc[l] \in Past
    BY DEF Serving, Past
  <2>2. modelId[l] \in Known
    BY DEF Inv, LifeInv, ServesLive
  <2>3. l \notin resident
    BY <2>1, IdsApart
  <2> QED
    BY <2>1, <2>2, <2>3, IdsApart
<1>2. Held(mem, S) <= Budget
  BY <1>1, IdsFit
<1>3. IsFiniteSet(resident)
  BY <1>1, LeasesAssumption, FS_Subset
<1>4. HasSizes(mem, resident) /\ HasSizes(rest, resident) /\ mem[l] \in Nat
      /\ mem[l] = Mem[modelId[l]] /\ \A m \in resident : rest[m] = mem[m]
  BY <1>1, MemAssumption DEF HasSizes
<1> HIDE DEF mem
<1>5. Held(mem, S) = Held(mem, resident) + mem[l]
  BY <1>1, <1>3, <1>4, HeldAdd
<1>6. Used = Held(mem, resident)
  <2>1. Used = Held(rest, resident)
    BY DEF Used
  <2> HIDE DEF rest
  <2>2. Held(rest, resident) = Held(mem, resident)
    BY <1>3, <1>4, HeldAgree
  <2> QED
    BY <2>1, <2>2
<1>7. Held(mem, resident) \in Nat /\ Budget \in Nat
  BY <1>3, <1>4, HeldType, MemAssumption
<1> QED
  BY <1>2, <1>4, <1>5, <1>6, <1>7 DEF Fits, Shortfall

\* The ids of resident models and of requests being served are settled.
LEMMA SlotsAreKept ==
  ASSUME Inv, MadeInv, Next
  PROVE  /\ resident \subseteq Leases
         /\ \A m \in resident \cup Serving :
              modelId'[m] = modelId[m] /\ Slot(m)' = Slot(m) /\ Owner(m)' = Owner(m)
<1>1. \A m \in resident \cup Serving : m \in Leases /\ client[m] # "new"
  BY DEF MadeInv, Made, Serving, Inv, LifeInv, ServesLive, LeaseLife
<1> QED
  BY <1>1, IdsAreKept DEF Slot, Owner

\* Serves that end, or that go from one stage past the lookup to the load,
\* and models that go, disturb nothing.
LEMMA SlotKept ==
  ASSUME Inv, MadeInv, SlotInv, Next, resident' \subseteq resident,
         \A k \in Leases : \/ pc'[k] = "out"
                           \/ pc'[k] = pc[k] /\ target'[k] = target[k]
                           \/ pc[k] \in Past /\ pc'[k] = "loading"
  PROVE  SlotInv'
<1>1. Serving' \subseteq Serving
  BY DEF Serving, Past
<1>2. \A m \in resident \cup Serving : modelId'[m] = modelId[m] /\ Slot(m)' = Slot(m)
  BY SlotsAreKept
<1>3. OneResidentPerSlot'
  BY <1>2 DEF SlotInv, OneResidentPerSlot
<1>4. \A l \in Serving' : pc'[l] \in Past => pc[l] \in Past
  BY DEF Serving
<1>5. ClearPast'
  BY <1>1, <1>2, <1>4 DEF SlotInv, ClearPast
<1>6. ClearAhead'
  BY <1>1, <1>2 DEF SlotInv, ClearAhead, Serving
<1>7. DyingKnown'
  BY <1>1, <1>2 DEF SlotInv, DyingKnown, Serving
<1>8. NeverEvicts'
  BY DEF SlotInv, NeverEvicts, AllFit
<1> QED
  BY <1>3, <1>5, <1>6, <1>7, <1>8 DEF SlotInv

\* A serve that begins while another waits to evict is for a victim.
LEMMA SlotEnters ==
  ASSUME NoneSingle \/ AllFit, Inv, MadeInv, SlotInv, Next, NEW k \in Leases, Enters(k),
         UNCHANGED <<leaseVars, target, resident>>,
         stack # <<>> => \E l \in Leases :
           pc[l] = "quiesce" /\ Targets(modelId[k], evict[l]),
         StackInv
  PROVE  SlotInv'
<1>0. pc \in [Leases -> {"out", "lookup", "evictwait", "measure", "quiesce", "loading"}]
  BY DEF Inv, TypeOK, CoordType
<1>1. Serving' = Serving \cup {k} /\ pc'[k] = "lookup" /\ \A l \in Serving : pc'[l] = pc[l]
  BY <1>0 DEF Serving, Enters
<1>2. UNCHANGED <<modelId, target, resident>> /\ \A m : Slot(m)' = Slot(m)
  BY DEF leaseVars, Slot, Owner
<1>3. OneResidentPerSlot' /\ NeverEvicts'
  BY <1>0, <1>1, <1>2 DEF SlotInv, OneResidentPerSlot, NeverEvicts, AllFit, Enters
<1>4. ClearPast' /\ DyingKnown'
  BY <1>1, <1>2 DEF SlotInv, ClearPast, DyingKnown, Past
<1>5. ASSUME NEW l \in Serving, pc[l] = "quiesce", modelId[k] \in Known
      PROVE  Slot(k) # Slot(l)
  <2>1. NoneSingle
    BY <1>5 DEF SlotInv, NeverEvicts, Serving
  <2>2. stack # <<>>
    BY <1>5 DEF StackInv, ToSet
  <2>3. PICK m \in resident : modelId[m] = modelId[k]
    BY <2>1, <2>2 DEF Targets, ResidentFor, NoneSingle
  <2>4. Slot(m) = Slot(k)
    BY <2>3 DEF Slot, Owner
  <2>5. Slot(m) # Slot(l)
    BY <1>5, <2>3 DEF SlotInv, ClearPast, Past
  <2> QED
    BY <2>4, <2>5
<1>6. ClearAhead'
  BY <1>1, <1>2, <1>5 DEF SlotInv, ClearAhead
<1> QED
  BY <1>3, <1>4, <1>6 DEF SlotInv

\* What comes in is of no slot that is taken, or that another load is for.
LEMMA SlotLoaded ==
  ASSUME Inv, MadeInv, StackInv, SlotInv, Next, NEW l \in Leases, Loaded(l)
  PROVE  SlotInv'
<1>1. /\ resident' = resident \cup {l} /\ pc[l] = "loading" /\ l \in Serving /\ Exits(l)
      /\ modelId[l] \in Known
  BY LoadedMakes DEF Inv, LifeInv, ServesLive
<1>2. Serving' = Serving \ {l} /\ \A k \in Serving' : pc'[k] = pc[k] /\ pc[k] = "quiesce"
  BY <1>1 DEF Exits, Serving, Inv, TypeOK, CoordType, StackInv
<1>3. \A m \in resident \cup Serving : modelId'[m] = modelId[m] /\ Slot(m)' = Slot(m)
  BY SlotsAreKept
<1>4. OneResidentPerSlot'
  BY <1>1, <1>3 DEF SlotInv, OneResidentPerSlot, ClearPast, Past
<1>5. ClearPast'
  BY <1>1, <1>2, <1>3 DEF SlotInv, ClearPast, ClearAhead, Past
<1>6. ClearAhead'
  BY <1>1, <1>2, <1>3 DEF SlotInv, ClearAhead
<1>7. DyingKnown' /\ NeverEvicts'
  BY <1>1, <1>2 DEF SlotInv, DyingKnown, NeverEvicts, AllFit, Exits, Inv, TypeOK, CoordType
<1> QED
  BY <1>4, <1>5, <1>6, <1>7 DEF SlotInv

\* The lookup leaves a slot to be filled, or one with a single dying model.
LEMMA SlotLookup ==
  ASSUME Inv, MadeInv, SlotInv, Next, NEW l \in Leases, Missing(l) \/ FoundDying(l)
  PROVE  SlotInv'
<1>1. /\ pc[l] \in {"lookup", "evictwait"} /\ modelId[l] \in Known /\ l \in Serving
      /\ UNCHANGED <<modelId, resident>> /\ \A m : Slot(m)' = Slot(m)
      /\ Owner(l) = ProviderOf[modelId[l]]
  BY DEF Missing, FoundDying, At, Waits, Serving, leaseVars, poolVars, Slot, Owner
<1>2. /\ Serving' = Serving
      /\ \A k \in Leases : k # l => pc'[k] = pc[k] /\ target'[k] = target[k]
      /\ pc'[l] \in {"measure", "evictwait"}
  BY <1>1 DEF Missing, FoundDying, Serving, Inv, TypeOK, CoordType
<1>3. OneResidentPerSlot'
  BY <1>1 DEF SlotInv, OneResidentPerSlot
<1>4. ClearAhead' /\ NeverEvicts'
  <2>1. \A k \in Leases : pc'[k] = "quiesce" => pc[k] = "quiesce"
    BY <1>2
  <2>2. ClearAhead'
    BY <1>1, <1>2, <2>1 DEF SlotInv, ClearAhead, Serving
  <2> QED
    BY <2>1, <2>2 DEF SlotInv, NeverEvicts, AllFit
<1>5. CASE Missing(l)
  <2>1. \A m \in resident : Slot(m) # Slot(l)
    BY <1>1, <1>5, AnswersAreOfSlot DEF Missing
  <2>2. pc'[l] = "measure"
    BY <1>5 DEF Missing, Inv, TypeOK, CoordType
  <2>3. ClearPast'
    BY <1>1, <1>2, <2>1 DEF SlotInv, ClearPast, Serving
  <2>4. DyingKnown'
    BY <1>1, <1>2, <2>2 DEF SlotInv, DyingKnown, Serving
  <2> QED
    BY <1>3, <1>4, <2>3, <2>4 DEF SlotInv
<1>6. CASE FoundDying(l)
  <2>1. PICK m \in ResidentFor(Owner(l), modelId[l]) : target' = [target EXCEPT ![l] = m]
    BY <1>1, <1>6 DEF FoundDying
  <2>2. m \in resident /\ Slot(m) = Slot(l)
    BY <1>1, <2>1, AnswersAreOfSlot
  <2>3. target'[l] = m /\ pc'[l] = "evictwait"
    BY <1>6, <2>1 DEF FoundDying, Inv, TypeOK, CoordType
  <2>4. DyingKnown'
    BY <1>1, <1>2, <2>2, <2>3 DEF SlotInv, DyingKnown, OneResidentPerSlot, Serving
  <2>5. ClearPast'
    BY <1>1, <1>2, <2>3 DEF SlotInv, ClearPast, Past, Serving
  <2> QED
    BY <1>3, <1>4, <2>4, <2>5 DEF SlotInv
<1> QED
  BY <1>5, <1>6

\* A serve that starts to wait is inside others that wait.
LEMMA SlotEvicts ==
  ASSUME Inv, MadeInv, StackInv, SlotInv, Next, NEW l \in Leases, MeasuredEvicts(l)
  PROVE  SlotInv'
<1>1. /\ pc[l] = "measure" /\ l = Last(stack) /\ l \in Serving /\ ~Fits(l)
      /\ modelId[l] \in Known
      /\ UNCHANGED <<modelId, resident, target>> /\ \A m : Slot(m)' = Slot(m)
  BY DEF MeasuredEvicts, At, Waits, Serving, leaseVars, poolVars, Slot, Owner,
         Inv, LifeInv, ServesLive
<1>2. /\ Serving' = Serving /\ pc'[l] = "quiesce"
      /\ \A k \in Leases : k # l => pc'[k] = pc[k]
  BY <1>1 DEF MeasuredEvicts, Serving, Inv, TypeOK, CoordType
<1>3. ~AllFit
  BY <1>1, NothingShort
<1>4. \A k \in Serving : k # l => pc[k] = "quiesce"
  BY <1>1 DEF StackInv
<1>5. OneResidentPerSlot' /\ NeverEvicts' /\ ClearPast'
  <2>1. OneResidentPerSlot' /\ NeverEvicts'
    BY <1>1, <1>3 DEF SlotInv, OneResidentPerSlot, NeverEvicts, AllFit
  <2>2. \A k \in Serving' : pc'[k] \in Past => k \in Serving /\ pc[k] \in Past
    BY <1>1, <1>2 DEF Past, Serving
  <2>3. ClearPast'
    BY <1>1, <2>2 DEF SlotInv, ClearPast
  <2> QED
    BY <2>1, <2>3
<1>6. ClearAhead'
  <2>1. \A k \in Serving : k # l => Slot(k) # Slot(l)
    BY <1>1, <1>4 DEF SlotInv, ClearAhead
  <2> QED
    BY <1>1, <1>2, <2>1 DEF SlotInv, ClearAhead, Serving
<1>7. DyingKnown'
  BY <1>1, <1>2 DEF SlotInv, DyingKnown, Serving
<1> QED
  BY <1>5, <1>6, <1>7 DEF SlotInv

LEMMA SlotServes ==
  ASSUME NoneSingle \/ AllFit, Inv, MadeInv, StackInv, SlotInv, Next,
         NEW l \in Leases, ServeStep(l)
  PROVE  SlotInv'
<1> USE DEF At, AtGrant, Waits, Drained, Inv, TypeOK, CoordType
<1>1. CASE Unknown(l) \/ Found(l) \/ MeasuredTooBig(l) \/ ServeRaises(l) \/ EvictRaises(l)
           \/ LoadRaises(l)
  <2>1. EndServe(l) /\ UNCHANGED resident
    BY <1>1 DEF Unknown, Found, MeasuredTooBig, ServeRaises, EvictRaises, LoadRaises, poolVars
  <2> QED
    BY <2>1, SlotKept DEF EndServe
<1>2. CASE MeasuredFits(l) \/ EvictAndLoad(l)
  <2>1. pc[l] \in Past /\ resident' \subseteq resident
    BY <1>2 DEF MeasuredFits, EvictAndLoad, Past
  <2>2. pc' = [pc EXCEPT ![l] = "loading"] /\ target' = target
    BY <1>2 DEF MeasuredFits, EvictAndLoad, BeginLoad
  <2> QED
    BY <2>1, <2>2, SlotKept
<1>3. CASE DrainWait(l)
  BY <1>3, SlotKept DEF DrainWait, poolVars
<1>4. CASE LineCut(l)
  <2>1. PICK k \in Leases :
          /\ Enters(k) /\ UNCHANGED <<leaseVars, target, evict, poolVars, pruneVars>>
          /\ Targets(modelId[k], evict[l])
    BY <1>4, LineCutEnters
  <2>2. pc[l] = "quiesce" /\ UNCHANGED resident
    BY <1>4, <2>1 DEF LineCut, poolVars
  <2> QED
    BY <2>1, <2>2, SlotEnters
<1> QED
  BY <1>1, <1>2, <1>3, <1>4, SlotLoaded, SlotLookup, SlotEvicts DEF ServeStep

LEMMA SlotStep ==
  ASSUME NoneSingle \/ AllFit, Inv, MadeInv, StackInv, SlotInv, [Next]_vars
  PROVE  SlotInv'
<1>1. CASE Next /\ \E l \in Leases : ServeStep(l)
  BY <1>1, SlotServes
<1>2. CASE Next /\ Dequeue
  <2>1. PICK l \in Leases :
          Enters(l) /\ UNCHANGED <<leaseVars, target, evict, poolVars, pruneVars>>
    BY <1>2, DequeueEnters
  <2>2. stack = <<>> /\ UNCHANGED resident
    BY <1>2, <2>1 DEF Dequeue, poolVars
  <2> QED
    BY <1>2, <2>1, <2>2, SlotEnters
<1>3. CASE Next /\ ~Dequeue /\ \A l \in Leases : ~ServeStep(l)
  <2>1. UNCHANGED <<pc, target>>
    BY <1>3, OtherStepsStay
  <2>2. resident' \subseteq resident
    BY <1>3, ResidentMoves DEF ServeStep, PruneReaped
  <2> QED
    BY <1>3, <2>1, <2>2, SlotKept
<1>4. CASE UNCHANGED vars
  BY <1>4 DEF vars, leaseVars, coordVars, poolVars, SlotInv, OneResidentPerSlot, ClearPast,
    ClearAhead, DyingKnown, NeverEvicts, Serving, Slot, Owner, AllFit
<1> QED
  BY <1>1, <1>2, <1>3, <1>4

LEMMA SlotAlways ==
  ASSUME NoneSingle \/ AllFit
  PROVE  Spec => []SlotInv
<1>1. Init => SlotInv
  BY DEF Init, SlotInv, OneResidentPerSlot, ClearPast, ClearAhead, DyingKnown, NeverEvicts,
         Serving
<1>2. Inv /\ MadeInv /\ StackInv /\ SlotInv /\ [Next]_vars => SlotInv'
  BY SlotStep
<1> QED
  BY <1>1, <1>2, InvAlways, MadeAlways, StackAlways, PTL DEF Spec

\* One server process, or one instance at LM Studio, is never two resident
\* models, so unloading a model takes no other one down.
THEOREM OneModelPerSlot ==
  ASSUME NoneSingle \/ AllFit
  PROVE  Spec => []OneResidentPerSlot
<1>1. SlotInv => OneResidentPerSlot
  BY DEF SlotInv
<1> QED
  BY <1>1, SlotAlways, PTL

-------------------------------------------------------------------------------
(* Dying models.                                                           *)

\* The model a lookup finds, at once or after a wait, is resident and not
\* dying.
LEMMA FoundLives ==
  ASSUME Inv, MadeInv, SlotInv, NEW l \in Leases, Found(l)
  PROVE  \E m \in resident \ evicting :
           Grant(l, m) /\ m \in ResidentFor(Owner(l), modelId[l]) /\ Slot(m) = Slot(l)
<1>1. modelId[l] \in Known /\ Owner(l) = ProviderOf[modelId[l]] /\ l \in Serving
  BY DEF Found, AtGrant, Waits, Serving, Owner
<1>2. PICK m \in ResidentFor(Owner(l), modelId[l]) :
        Grant(l, m) /\ (pc[l] = "lookup" => m \notin evicting)
  BY <1>1 DEF Found
<1>3. m \in resident /\ Slot(m) = Slot(l)
  BY <1>1, <1>2, AnswersAreOfSlot
<1>4. m \notin evicting
  <2>1. CASE pc[l] = "lookup"
    BY <1>2, <2>1
  <2>2. CASE pc[l] = "evictwait" /\ target[l] \notin evicting
    BY <1>1, <1>3, <2>2 DEF SlotInv, DyingKnown
  <2> QED
    BY <2>1, <2>2 DEF Found, AtGrant, Waits
<1> QED
  BY <1>2, <1>3, <1>4

\* Only these two steps hand out a model.
LEMMA GrantMoves ==
  ASSUME Inv, Next, NEW l \in Leases, granted'[l] # granted[l] \/ model'[l] # model[l]
  PROVE  Found(l) \/ Loaded(l)
<1>1. ASSUME NEW k \in Leases, RequestStep(k)
      PROVE  UNCHANGED <<granted, model>>
  BY <1>1 DEF RequestStep, Acquire, Resume, ResumeFailed, Disconnect, DisconnectGranted,
    Finish, Release
<1>2. ASSUME NEW k \in Leases, Found(k) \/ Loaded(k), k # l
      PROVE  FALSE
  <2>1. PICK m : Grant(k, m)
    BY <1>2 DEF Found, Loaded
  <2> QED
    BY <1>2, <2>1 DEF Grant, Inv, TypeOK, LeaseType
<1>3. ASSUME NEW k \in Leases, ServeStep(k), ~Found(k), ~Loaded(k)
      PROVE  UNCHANGED <<granted, model>>
  BY <1>3 DEF ServeStep, Unknown, FoundDying, Missing, MeasuredFits, MeasuredEvicts,
    MeasuredTooBig, ServeRaises, LineCut, DrainWait, EvictAndLoad, EvictRaises, LoadRaises,
    Reject, BeginServe, BeginLoad, leaseVars
<1>4. Dequeue \/ Sleep \/ Awake => UNCHANGED <<granted, model>>
  BY DEF Dequeue, BeginServe, Sleep, Awake, leaseVars
<1>5. ASSUME NEW p \in Pruners, PruneStep(p)
      PROVE  UNCHANGED <<granted, model>>
  BY <1>5, PruneLeavesLeases DEF leaseVars
<1>6. (\E m \in Leases : Age(m)) \/ Terminating => UNCHANGED <<granted, model>>
  BY DEF Age, Terminating, vars, leaseVars
<1> QED
  BY <1>1, <1>2, <1>3, <1>4, <1>5, <1>6 DEF Next, Coordinator

\* Scheduler._evicting: a model whose unload is dispatched is never granted.
\* A lookup that finds it dying waits for it to go, and looks again.
THEOREM DyingIsNotGranted ==
  ASSUME NoneSingle \/ AllFit
  PROVE  Spec => NoGrantWhileDying
<1>1. ASSUME Inv, MadeInv, SlotInv, [Next]_vars, NEW l \in Leases, model'[l] # model[l]
      PROVE  model'[l] \notin evicting
  <2>1. Next
    BY <1>1 DEF vars, leaseVars
  <2>2. CASE Found(l)
    <3>1. PICK m \in resident \ evicting : Grant(l, m)
      BY <1>1, <2>2, FoundLives
    <3> QED
      BY <1>1, <3>1 DEF Grant, Inv, TypeOK, LeaseType
  <2>3. CASE Loaded(l)
    <3>1. l \notin Made /\ Grant(l, l)
      BY <1>1, <2>3, LoadedMakes DEF Loaded
    <3> QED
      BY <1>1, <3>1 DEF Grant, Inv, TypeOK, LeaseType, MadeInv
  <2> QED
    BY <1>1, <2>1, <2>2, <2>3, GrantMoves
<1>2. Inv /\ MadeInv /\ SlotInv /\ [Next]_vars
        => [\A l \in Leases : model'[l] # model[l] => model'[l] \notin evicting]_vars
  BY <1>1
<1> QED
  BY <1>2, InvAlways, MadeAlways, SlotAlways, PTL DEF Spec, NoGrantWhileDying

-------------------------------------------------------------------------------
(* One prune at a time, where nothing is ever evicted for room: what it      *)
(* has chosen stays as it was when it chose it.                             *)

Busy == {"unload", "reap"}

TeardownInv ==
  /\ \A p \in Pruners : prunePc[p] \in Busy => cur[p] \in resident /\ cur[p] \in evicting
  /\ \A p \in Pruners : cands[p] \subseteq resident \ {cur[p]}
  /\ \A m \in evicting : \E p \in Pruners : prunePc[p] \in Busy /\ m = cur[p]
  /\ \A p \in Pruners : prunePc[p] = "unload" => Slot(cur[p]) \in up
  /\ ResidentIsUp

\* A prune looks for the next model among candidates that are up.
LEMMA LooksTeardown ==
  ASSUME OnePruner, Inv, NEW p \in Pruners, NEW C, NEW res \in SUBSET resident,
         Looks(p, C, res, {}), C \subseteq res, \A m \in res : Slot(m) \in up,
         UNCHANGED leaseVars
  PROVE  TeardownInv'
<1>1. prunePc' \in [Pruners -> {"idle", "unload"}] /\ Pruners = {p}
      /\ DOMAIN cands' = Pruners /\ DOMAIN cur' = Pruners
  BY DEF OnePruner, Looks, Visit, Inv, TypeOK, PruneType
<1>2. \A m : Slot(m)' = Slot(m)
  BY DEF Slot, Owner, leaseVars
<1>3. CASE evicting' = {} /\ prunePc'[p] = "idle" /\ cands'[p] = {}
  BY <1>1, <1>2, <1>3 DEF TeardownInv, ResidentIsUp, Looks, Busy
<1>4. CASE \E m \in C : evicting' = {m} /\ prunePc'[p] = "unload" /\ cur'[p] = m
                        /\ cands'[p] \subseteq C \ {m}
  BY <1>1, <1>2, <1>4 DEF TeardownInv, ResidentIsUp, Looks, Busy
<1> QED
  BY <1>1, <1>3, <1>4 DEF Looks, Visit, Inv, TypeOK, PruneType

LEMMA TeardownPrune ==
  ASSUME OnePruner, Inv, SlotInv, TeardownInv, NEW p \in Pruners, PruneStep(p)
  PROVE  TeardownInv'
<1>1. \A q \in Pruners : q = p
  BY DEF OnePruner
<1>2. UNCHANGED leaseVars /\ \A m : Slot(m)' = Slot(m)
  BY PruneLeavesLeases DEF Slot, Owner, leaseVars
<1>3. evicting \subseteq {cur[p]} /\ (prunePc[p] \notin Busy => evicting = {})
  BY <1>1 DEF TeardownInv
<1>4. CASE /\ prunePc[p] \in {"idle", "scan"}
           /\ \E C \in SUBSET resident : Looks(p, C, resident, evicting)
  <2>1. evicting = {} /\ \A m \in resident : Slot(m) \in up
    BY <1>3, <1>4 DEF TeardownInv, ResidentIsUp, Busy
  <2> QED
    BY <1>2, <1>4, <2>1, LooksTeardown
<1>5. CASE PruneReaped(p) /\ Looks(p, cands[p], resident', evicting \ {cur[p]})
  <2>1. resident' = resident \ {cur[p]} /\ evicting \ {cur[p]} = {}
    BY <1>3, <1>5 DEF PruneReaped
  <2>2. cands[p] \subseteq resident' /\ \A m \in resident' : Slot(m) \in up
    BY <1>3, <2>1 DEF TeardownInv, ResidentIsUp
  <2> QED
    BY <1>2, <1>5, <2>1, <2>2, LooksTeardown
<1>6. CASE PruneTeardown(p)
  <2>1. /\ prunePc[p] = "unload" /\ up' = up \ {Slot(cur[p])} /\ prunePc'[p] = "reap"
        /\ UNCHANGED <<resident, evicting, cands, cur>>
    BY <1>6 DEF PruneTeardown, Inv, TypeOK, PruneType
  <2>2. cur[p] \in resident /\ cur[p] \in evicting
    BY <2>1 DEF TeardownInv, Busy
  <2>3. ResidentIsUp'
    BY <1>2, <2>1, <2>2 DEF TeardownInv, ResidentIsUp, SlotInv, OneResidentPerSlot
  <2> QED
    BY <1>1, <2>1, <2>3 DEF TeardownInv, Busy
<1>7. CASE PruneRaises(p)
  <2>1. /\ prunePc[p] = "unload" /\ prunePc'[p] = "dead" /\ cands'[p] = {}
        /\ evicting' = evicting \ {cur[p]} /\ UNCHANGED <<resident, up>>
    BY <1>7 DEF PruneRaises, Inv, TypeOK, PruneType
  <2>2. evicting' = {} /\ Slot(cur[p]) \in up
    BY <1>3, <2>1 DEF TeardownInv
  <2>3. ResidentIsUp'
    BY <1>2, <1>3, <2>1, <2>2 DEF TeardownInv, ResidentIsUp
  <2> QED
    BY <1>1, <2>1, <2>2, <2>3 DEF TeardownInv, Busy
<1>8. CASE /\ prunePc[p] = "idle" /\ prunePc' = [prunePc EXCEPT ![p] = "scan"]
           /\ UNCHANGED <<resident, evicting, up, cands, cur>>
  <2>1. prunePc'[p] = "scan" /\ evicting = {}
    BY <1>3, <1>8 DEF Inv, TypeOK, PruneType, Busy
  <2>2. ResidentIsUp'
    BY <1>2, <1>8 DEF TeardownInv, ResidentIsUp
  <2> QED
    BY <1>1, <1>8, <2>1, <2>2 DEF TeardownInv, Busy
<1> QED
  BY <1>4, <1>5, <1>6, <1>7, <1>8, PruneMoves

\* The steps that take something down at a provider.
LEMMA UpMoves ==
  ASSUME Inv, Next, \A p \in Pruners : ~PruneStep(p)
  PROVE  \/ up \subseteq up'
         \/ \E l \in Leases : EvictAndLoad(l) \/ EvictRaises(l) \/ LoadRaises(l)
<1>1. ASSUME NEW l \in Leases, RequestStep(l)
      PROVE  UNCHANGED up
  BY <1>1 DEF RequestStep, Acquire, Resume, ResumeFailed, Disconnect, DisconnectGranted,
    Finish, Release, poolVars
<1>2. ASSUME NEW l \in Leases, MeasuredFits(l) \/ Loaded(l)
      PROVE  up \subseteq up'
  BY <1>2 DEF MeasuredFits, BeginLoad, Loaded
<1>3. ASSUME NEW l \in Leases, ServeStep(l), ~MeasuredFits(l), ~Loaded(l),
             ~EvictAndLoad(l), ~EvictRaises(l), ~LoadRaises(l)
      PROVE  UNCHANGED up
  BY <1>3 DEF ServeStep, Unknown, Found, FoundDying, Missing, MeasuredEvicts, MeasuredTooBig,
    ServeRaises, LineCut, DrainWait, BeginServe, poolVars
<1>4. Dequeue \/ Sleep \/ Awake => UNCHANGED up
  BY DEF Dequeue, Sleep, Awake, BeginServe, poolVars
<1>5. (\E m \in Leases : Age(m)) \/ Terminating => UNCHANGED up
  BY DEF Age, Terminating, vars, poolVars
<1> QED
  BY <1>1, <1>2, <1>3, <1>4, <1>5 DEF Next, Coordinator

\* The coordinator and the requests leave what is resident up.
LEMMA TeardownServe ==
  ASSUME AllFit, Inv, MadeInv, SlotInv, TeardownInv, Next, \A p \in Pruners : ~PruneStep(p)
  PROVE  TeardownInv'
<1>1. UNCHANGED <<evicting, pruneVars>>
  BY DyingMoves
<1>2. \A l \in Leases : ~EvictAndLoad(l) /\ ~EvictRaises(l)
  BY DEF EvictAndLoad, EvictRaises, Drained, At, Waits, SlotInv, NeverEvicts
<1>3. resident \subseteq resident'
        /\ \A m \in resident' : m \in resident \/ (Loaded(m) /\ Slot(m)' \in up')
  <2>1. ASSUME NEW l \in Leases, Loaded(l)
        PROVE  resident' = resident \cup {l} /\ Slot(l)' \in up'
    <3>1. Slot(l)' = Slot(l)
      BY <2>1, SlotsAreKept, LoadedMakes
    <3> QED
      BY <2>1, <3>1 DEF Loaded
  <2> QED
    BY <1>2, <2>1, ResidentMoves DEF PruneStep
<1>4. \A m \in resident : Slot(m) \in up => Slot(m)' \in up'
  <2>1. \A m \in resident : Slot(m)' = Slot(m)
    BY SlotsAreKept
  <2>2. CASE up \subseteq up'
    BY <2>1, <2>2
  <2>3. ASSUME NEW l \in Leases, LoadRaises(l)
        PROVE  \A m \in resident : Slot(m) \in up => Slot(m) \in up'
    <3>1. l \in Serving /\ pc[l] \in Past /\ up \ {Slot(l)} \subseteq up'
      BY <2>3 DEF LoadRaises, At, Waits, Serving, Past
    <3> QED
      BY <3>1 DEF SlotInv, ClearPast
  <2> QED
    BY <1>2, <2>1, <2>2, <2>3, UpMoves
<1>5. ResidentIsUp'
  BY <1>1, <1>3, <1>4 DEF TeardownInv, ResidentIsUp
<1>6. UNCHANGED <<prunePc, cands, cur, evicting>>
  BY <1>1 DEF pruneVars
<1>7. \A p \in Pruners : prunePc'[p] = "unload" => Slot(cur[p])' \in up'
  <2> SUFFICES ASSUME NEW p \in Pruners, prunePc[p] = "unload"
               PROVE  Slot(cur[p])' \in up'
    BY <1>6
  <2>1. PICK m \in resident : m = cur[p] /\ Slot(m) \in up
    BY DEF TeardownInv, Busy
  <2>2. Slot(m)' \in up' /\ m = cur'[p]
    BY <1>4, <1>6, <2>1
  <2> QED
    BY <2>2 DEF Slot, Owner
<1>8. \A p \in Pruners : cands'[p] \subseteq resident' \ {cur'[p]}
  BY <1>3, <1>6 DEF TeardownInv
<1>9. /\ \A p \in Pruners : prunePc'[p] \in Busy => cur'[p] \in resident' /\ cur'[p] \in evicting'
      /\ \A m \in evicting' : \E p \in Pruners : prunePc'[p] \in Busy /\ m = cur'[p]
  BY <1>3, <1>6 DEF TeardownInv
<1> QED
  BY <1>5, <1>7, <1>8, <1>9 DEF TeardownInv

LEMMA TeardownStep ==
  ASSUME AllFit, OnePruner, Inv, MadeInv, SlotInv, TeardownInv, [Next]_vars
  PROVE  TeardownInv'
<1>1. CASE UNCHANGED vars
  BY <1>1 DEF vars, leaseVars, poolVars, pruneVars, TeardownInv, ResidentIsUp, Slot, Owner
<1>2. CASE Next /\ \E p \in Pruners : PruneStep(p)
  BY <1>2, TeardownPrune
<1>3. CASE Next /\ \A p \in Pruners : ~PruneStep(p)
  BY <1>3, TeardownServe
<1> QED
  BY <1>1, <1>2, <1>3

LEMMA TeardownAlways ==
  ASSUME AllFit, OnePruner
  PROVE  Spec => []TeardownInv
<1>1. Init => TeardownInv
  BY DEF Init, TeardownInv, ResidentIsUp, Busy
<1>2. Inv /\ MadeInv /\ SlotInv /\ TeardownInv /\ [Next]_vars => TeardownInv'
  BY TeardownStep
<1> QED
  BY <1>1, <1>2, InvAlways, MadeAlways, SlotAlways, PTL DEF Spec

\* _prune, _waiting_on: a prune looks at its candidates again before each
\* unload, so it never takes one that a request has named meanwhile.
THEOREM NamedAreSpared ==
  ASSUME AllFit, OnePruner
  PROVE  Spec => PruneSparesNamed
<1>1. ASSUME NEW p \in Pruners, NEW C, NEW res, NEW dying \in SUBSET evicting,
             Looks(p, C, res, dying), C \subseteq res, NEW m \in evicting' \ evicting
      PROVE  modelId[m] \notin Wanted
  <2>1. PICK known : Visit(p, C, known, res, dying)
    BY <1>1 DEF Looks
  <2>2. m \in C /\ m \notin WaitingOn(known, res)
    BY <1>1, <2>1 DEF Visit
  <2> QED
    BY <1>1, <2>2 DEF WaitingOn
<1>2. ASSUME TeardownInv, Inv, [Next]_vars, NEW m \in evicting' \ evicting
      PROVE  modelId[m] \notin Wanted
  <2>1. PICK p \in Pruners : PruneStep(p)
    BY <1>2, DyingMoves DEF vars, poolVars
  <2>2. CASE \E C \in SUBSET resident : Looks(p, C, resident, evicting)
    BY <1>1, <1>2, <2>2
  <2>3. CASE PruneReaped(p) /\ Looks(p, cands[p], resident', evicting \ {cur[p]})
    <3>1. cands[p] \subseteq resident' /\ evicting \ {cur[p]} \subseteq evicting
      BY <1>2, <2>3 DEF TeardownInv, PruneReaped
    <3> QED
      BY <1>1, <1>2, <2>3, <3>1
  <2>4. CASE evicting' \subseteq evicting
    BY <1>2, <2>4
  <2> QED
    BY <2>1, <2>2, <2>3, <2>4, PruneMoves DEF PruneTeardown, PruneRaises
<1>3. TeardownInv /\ Inv /\ [Next]_vars
        => [\A m \in evicting' \ evicting : modelId[m] \notin Wanted]_vars
  BY <1>2
<1> QED
  BY <1>3, InvAlways, TeardownAlways, PTL DEF Spec, PruneSparesNamed

-------------------------------------------------------------------------------
(* Memory.                                                                 *)

\* MiB of the models S, whose ids are id.
Load(id, S) == Held([m \in S |-> Mem[id[m]]], S)

LEMMA LoadType ==
  ASSUME NEW id, NEW S \in SUBSET Leases, \A m \in S : id[m] \in Known
  PROVE  IsFiniteSet(S) /\ Load(id, S) \in Nat
<1> DEFINE mem == [m \in S |-> Mem[id[m]]]
<1>1. IsFiniteSet(S)
  BY LeasesAssumption, FS_Subset
<1>2. HasSizes(mem, S)
  BY MemAssumption DEF HasSizes
<1> HIDE DEF mem
<1>3. Held(mem, S) \in Nat
  BY <1>1, <1>2, HeldType
<1> QED
  BY <1>1, <1>3 DEF Load, mem

LEMMA LoadPart ==
  ASSUME NEW id, NEW S \in SUBSET Leases, \A m \in S : id[m] \in Known, NEW T \in SUBSET S
  PROVE  Held([m \in S |-> Mem[id[m]]], T) = Load(id, T)
<1> DEFINE mem == [m \in S |-> Mem[id[m]]]
           own == [m \in T |-> Mem[id[m]]]
<1>1. IsFiniteSet(T)
  BY LoadType, FS_Subset
<1>2. HasSizes(mem, T) /\ \A m \in T : mem[m] = own[m]
  BY MemAssumption DEF HasSizes
<1> HIDE DEF mem, own
<1>3. Held(mem, T) = Held(own, T)
  BY <1>1, <1>2, HeldAgree
<1> QED
  BY <1>3 DEF Load, mem, own

LEMMA LoadSplit ==
  ASSUME NEW id, NEW S \in SUBSET Leases, \A m \in S : id[m] \in Known, NEW T \in SUBSET S
  PROVE  Load(id, S) = Load(id, T) + Load(id, S \ T)
<1> DEFINE mem == [m \in S |-> Mem[id[m]]]
<1>1. IsFiniteSet(S) /\ HasSizes(mem, S)
  BY LoadType, MemAssumption DEF HasSizes
<1>2. S \ T \in SUBSET S /\ S \in SUBSET S
  OBVIOUS
<1>3. Held(mem, S) = Load(id, S) /\ Held(mem, T) = Load(id, T)
      /\ Held(mem, S \ T) = Load(id, S \ T)
  BY <1>2, LoadPart
<1> HIDE DEF mem
<1>4. Held(mem, S) = Held(mem, T) + Held(mem, S \ T)
  BY <1>1, HeldSplit
<1> QED
  BY <1>3, <1>4

LEMMA LoadAdd ==
  ASSUME NEW id, NEW S \in SUBSET Leases, NEW l \in Leases, l \notin S,
         \A m \in S \cup {l} : id[m] \in Known
  PROVE  Load(id, S \cup {l}) = Load(id, S) + Mem[id[l]]
<1> DEFINE all == S \cup {l}
           one == {l}
           mem == [m \in one |-> Mem[id[m]]]
<1>1. all \in SUBSET Leases /\ S \in SUBSET all /\ all \ S = one
  OBVIOUS
<1>2. \A m \in all : id[m] \in Known
  OBVIOUS
<1>3. mem[l] = Mem[id[l]] /\ mem[l] \in Nat
  BY MemAssumption
<1> HIDE DEF all, mem
<1>4. Load(id, all) = Load(id, S) + Load(id, all \ S)
  BY <1>1, <1>2, LoadSplit
<1>5. Held(mem, {l}) = mem[l]
  BY <1>3, HeldSingle
<1>6. Load(id, one) = Held(mem, {l})
  BY DEF Load, mem
<1>7. Load(id, all) = Load(id, S) + Mem[id[l]]
  BY <1>1, <1>3, <1>4, <1>5, <1>6
<1> QED
  BY <1>7 DEF all

LEMMA LoadLess ==
  ASSUME NEW id, NEW S \in SUBSET Leases, \A m \in S : id[m] \in Known, NEW T \in SUBSET S
  PROVE  Load(id, T) <= Load(id, S)
<1>1. Load(id, S) = Load(id, T) + Load(id, S \ T)
  BY LoadSplit
<1>2. Load(id, T) \in Nat /\ Load(id, S \ T) \in Nat
  <2>1. T \in SUBSET Leases /\ S \ T \in SUBSET Leases
    OBVIOUS
  <2> QED
    BY <2>1, LoadType
<1> QED
  BY <1>1, <1>2

LEMMA LoadAgrees ==
  ASSUME NEW id, NEW new, NEW S, \A m \in S : id[m] = new[m]
  PROVE  Load(id, S) = Load(new, S)
<1>1. [m \in S |-> Mem[id[m]]] = [m \in S |-> Mem[new[m]]]
  OBVIOUS
<1> QED
  BY <1>1 DEF Load

Loading == {l \in Leases : pc[l] = "loading"}

InMemory == resident \cup Loading

\* The models in memory have a known id each, and at most one is being loaded.
LEMMA InMemoryApart ==
  ASSUME Inv, MadeInv, StackInv, SlotInv
  PROVE  /\ InMemory \subseteq Leases
         /\ \A m \in InMemory : modelId[m] \in Known
         /\ \A m, n \in InMemory : modelId[m] = modelId[n] => m = n
         /\ \A l \in Loading : InMemory = resident \cup {l} /\ l \notin resident
         /\ \A l \in Serving : l = Last(stack) /\ pc[l] # "loading" => Loading = {}
<1>1. Loading \subseteq Serving /\ \A l \in Loading : l = Last(stack) /\ pc[l] \in Past
  BY DEF Loading, Serving, StackInv, Past
<1>2. \A l, k \in Loading : l = k
  BY <1>1
<1>3. /\ resident \subseteq Leases /\ Loading \subseteq Leases
      /\ \A m \in resident : modelId[m] \in Known
      /\ \A m, n \in resident : modelId[m] = modelId[n] => m = n
      /\ \A l \in Loading, m \in resident :
           modelId[m] # modelId[l] /\ modelId[l] \in Known /\ l # m
  BY <1>1, IdsApart DEF Loading
<1>4. \A l \in Loading : modelId[l] \in Known
  BY DEF Loading, Inv, LifeInv, ServesLive
<1>5. \A m, n \in InMemory : modelId[m] = modelId[n] => m = n
  BY <1>2, <1>3 DEF InMemory
<1>6. \A l \in Loading : InMemory = resident \cup {l} /\ l \notin resident
  BY <1>2, <1>3 DEF InMemory
<1>7. \A l \in Serving : l = Last(stack) /\ pc[l] # "loading" => Loading = {}
  BY <1>1 DEF Loading
<1> QED
  BY <1>3, <1>4, <1>5, <1>6, <1>7 DEF InMemory

\* README, "Reallocation": a load that does not fit fails "rather than
\* over-committing".  Here it always fits, whatever comes and goes.
LEMMA AllInBudget ==
  ASSUME AllFit, Inv, MadeInv, StackInv, SlotInv
  PROVE  BudgetRespected
<1>1. /\ InMemory \in SUBSET Leases
      /\ \A m \in InMemory : modelId[m] \in Known
      /\ \A m, n \in InMemory : modelId[m] = modelId[n] => m = n
  BY InMemoryApart
<1> QED
  BY <1>1, IdsFit DEF BudgetRespected, InMemory, Loading

-------------------------------------------------------------------------------
(* Reallocation, where each id has an instance of its own and no prune runs. *)
(* While a load waits for its victims to drain, all that is served is       *)
(* requests for models that are resident, so nothing comes into memory and  *)
(* the room computed at the measurement is there when the load begins.      *)

Apart == NoneSingle /\ Pruners = {}

\* What is served ahead of the queue finds its model.
AheadIsResident ==
  \A l, k \in Serving : pc[l] = "quiesce" /\ k # l =>
    pc[k] = "lookup" /\ \E m \in resident : modelId[m] = modelId[k]

\* The victims are there, and without them the load fits.
RoomKeptFree ==
  \A l \in Serving : pc[l] = "quiesce" =>
    /\ evict[l] \subseteq resident
    /\ Load(modelId, resident \ evict[l]) + Mem[modelId[l]] <= Budget

NothingDies == evicting = {} /\ \A l \in Leases : pc[l] # "evictwait"

InBudget == Load(modelId, InMemory) <= Budget

RoomInv == NothingDies /\ AheadIsResident /\ RoomKeptFree /\ InBudget

LEMMA DyingStays ==
  ASSUME Apart, Inv, Next
  PROVE  UNCHANGED evicting
  BY DyingMoves DEF Apart

\* Serves that end change nothing in memory.
LEMMA RoomKept ==
  ASSUME Apart, Inv, MadeInv, StackInv, SlotInv, RoomInv, Next, UNCHANGED resident,
         \A k \in Leases : \/ pc'[k] = "out"
                           \/ pc'[k] = pc[k] /\ evict'[k] = evict[k]
  PROVE  RoomInv'
<1>1. Serving' \subseteq Serving /\ InMemory' \subseteq InMemory
      /\ \A k \in Serving' : pc'[k] = pc[k] /\ evict'[k] = evict[k]
  BY DEF Serving, InMemory, Loading
<1>2. /\ resident \subseteq Leases
      /\ \A m \in resident \cup Serving : modelId'[m] = modelId[m]
  BY SlotsAreKept
<1>3. NothingDies'
  BY DyingStays DEF RoomInv, NothingDies
<1>4. AheadIsResident'
  BY <1>1, <1>2 DEF RoomInv, AheadIsResident
<1>5. RoomKeptFree'
  <2> SUFFICES ASSUME NEW l \in Serving', pc[l] = "quiesce"
               PROVE  /\ evict[l] \subseteq resident
                      /\ Load(modelId', resident \ evict[l]) + Mem[modelId[l]] <= Budget
    BY <1>1, <1>2 DEF RoomKeptFree
  <2>1. Load(modelId', resident \ evict[l]) = Load(modelId, resident \ evict[l])
    <3>1. \A m \in resident \ evict[l] : modelId[m] = modelId'[m]
      BY <1>2
    <3> QED
      BY <3>1, LoadAgrees
  <2> QED
    BY <1>1, <2>1 DEF RoomInv, RoomKeptFree
<1>6. InBudget'
  <2>1. InMemory \in SUBSET Leases /\ (\A m \in InMemory : modelId[m] \in Known)
        /\ InMemory \subseteq resident \cup Serving
    BY InMemoryApart DEF InMemory, Loading, Serving
  <2>2. Load(modelId, InMemory') <= Load(modelId, InMemory)
    BY <1>1, <2>1, LoadLess
  <2>3. Load(modelId', InMemory') = Load(modelId, InMemory')
    <3>1. \A m \in InMemory' : modelId[m] = modelId'[m]
      BY <1>1, <1>2, <2>1
    <3> QED
      BY <3>1, LoadAgrees
  <2>4. Load(modelId, InMemory) \in Nat /\ Load(modelId, InMemory') \in Nat /\ Budget \in Nat
    BY <1>1, <2>1, LoadType, MemAssumption
  <2> QED
    BY <2>2, <2>3, <2>4 DEF RoomInv, InBudget
<1> QED
  BY <1>3, <1>4, <1>5, <1>6 DEF RoomInv

\* A serve past its lookup is the only one.
LEMMA AloneIfPast ==
  ASSUME StackInv, RoomInv, NEW l \in Leases, l = Last(stack),
         pc[l] \in {"measure", "quiesce", "loading"}
  PROVE  Serving = {l} /\ (pc[l] # "loading" => InMemory = resident)
<1>1. l \in Serving /\ \A k \in Serving : k # l => pc[k] = "quiesce"
  BY DEF StackInv, Serving
<1>2. Serving = {l}
  BY <1>1 DEF RoomInv, AheadIsResident
<1> QED
  BY <1>2 DEF InMemory, Loading, Serving

\* A serve that cuts the line is for a model that waits to be evicted.
LEMMA RoomEnters ==
  ASSUME Apart, Inv, MadeInv, StackInv, SlotInv, RoomInv, Next, NEW k \in Leases, Enters(k),
         UNCHANGED <<leaseVars, evict, resident>>,
         stack # <<>> => \E l \in Leases :
           pc[l] = "quiesce" /\ l = Last(stack) /\ Targets(modelId[k], evict[l])
  PROVE  RoomInv'
<1>1. /\ Serving' = Serving \cup {k} /\ pc'[k] = "lookup" /\ k \notin Serving
      /\ \A l \in Leases : l # k => pc'[l] = pc[l]
  BY DEF Serving, Enters, Inv, TypeOK, CoordType
<1>2. UNCHANGED <<modelId, evict, resident>> /\ InMemory' = InMemory
  BY <1>1 DEF leaseVars, InMemory, Loading, Enters
<1>3. NothingDies'
  BY <1>1, DyingStays DEF RoomInv, NothingDies
<1>4. AheadIsResident'
  <2>1. ASSUME NEW l \in Serving, pc[l] = "quiesce"
        PROVE  \E m \in resident : modelId[m] = modelId[k]
    <3>1. stack # <<>>
      BY <2>1 DEF StackInv, ToSet
    <3>2. PICK j \in Leases : pc[j] = "quiesce" /\ j = Last(stack) /\ Targets(modelId[k], evict[j])
      BY <3>1
    <3>3. j \in Serving
      BY <3>2 DEF Serving
    <3>4. PICK m \in evict[j] : m \in ResidentFor(Owner(m), modelId[k])
      BY <3>2 DEF Targets
    <3>5. m \in resident /\ modelId[m] = modelId[k]
      BY <3>4 DEF ResidentFor, Apart, NoneSingle
    <3> QED
      BY <3>5
  <2> QED
    BY <1>1, <1>2, <2>1 DEF RoomInv, AheadIsResident, Serving
<1>5. RoomKeptFree'
  BY <1>1, <1>2 DEF RoomInv, RoomKeptFree, Serving
<1>6. InBudget'
  BY <1>2 DEF RoomInv, InBudget
<1> QED
  BY <1>3, <1>4, <1>5, <1>6 DEF RoomInv

\* A lookup that finds nothing is not ahead of the queue.
LEMMA RoomMissing ==
  ASSUME Apart, Inv, MadeInv, StackInv, SlotInv, RoomInv, Next, NEW l \in Leases, Missing(l)
  PROVE  RoomInv'
<1>1. /\ pc[l] = "lookup" /\ l = Last(stack) /\ l \in Serving /\ pc'[l] = "measure"
      /\ UNCHANGED <<modelId, resident>> /\ \A k \in Leases : k # l => pc'[k] = pc[k]
      /\ modelId[l] \in Known /\ Owner(l) = ProviderOf[modelId[l]]
  BY DEF Missing, At, Waits, Serving, RoomInv, NothingDies, leaseVars, poolVars, Owner,
         Inv, TypeOK, CoordType
<1>2. \A m \in resident : modelId[m] # modelId[l]
  BY <1>1 DEF Missing, ResidentFor
<1>3. \A k \in Serving' : pc'[k] # "quiesce"
  BY <1>1, <1>2 DEF RoomInv, AheadIsResident, Serving
<1>4. InMemory' = InMemory
  BY <1>1 DEF InMemory, Loading
<1>5. NothingDies'
  BY <1>1, DyingStays DEF RoomInv, NothingDies
<1> QED
  BY <1>1, <1>3, <1>4, <1>5 DEF RoomInv, AheadIsResident, RoomKeptFree, InBudget

\* What the choice of victims frees is what the load is short of.
LEMMA VictimsMakeRoom ==
  ASSUME Inv, MadeInv, NEW l \in Leases, modelId[l] \in Known, ~Fits(l), NEW E \in Victims(l)
  PROVE  E \subseteq resident
         /\ Load(modelId, resident \ E) + Mem[modelId[l]] <= Budget
<1> DEFINE mem == [m \in resident |-> Mem[modelId[m]]]
           among == {m \in resident : modelId[m] \notin Protected}
           short == Shortfall(l)
<1>1. resident \in SUBSET Leases /\ \A m \in resident : modelId[m] \in Known
  BY DEF MadeInv, Made
<1>2. Used = Load(modelId, resident) /\ Used \in Nat /\ Budget \in Nat /\ Mem[modelId[l]] \in Nat
  BY <1>1, LoadType, MemAssumption DEF Used, Load
<1>3. short \in Nat \ {0} /\ short = Mem[modelId[l]] - (Budget - Used)
  BY <1>2 DEF Fits, Shortfall
<1>4. IsFiniteSet(resident)
  BY <1>1, LoadType
<1>5. IsFiniteSet(among) /\ HasSizes(mem, among)
  BY <1>1, <1>4, FS_Subset, MemAssumption DEF HasSizes
<1>6. E \in EvictionChoices(mem, among, short)
  BY DEF Victims
<1> HIDE DEF short, mem
<1>7. E \subseteq among /\ Held(mem, E) >= short
  <2> HIDE DEF among
  <2> QED
    BY <1>3, <1>5, <1>6, ChoicesCover
<1>8. E \in SUBSET resident
  BY <1>7
<1>9. Held(mem, E) = Load(modelId, E)
  BY <1>1, <1>8, LoadPart DEF mem
<1>10. Load(modelId, resident) = Load(modelId, E) + Load(modelId, resident \ E)
  BY <1>1, <1>8, LoadSplit
<1>11. Load(modelId, E) \in Nat /\ Load(modelId, resident \ E) \in Nat
  <2>1. E \in SUBSET Leases /\ resident \ E \in SUBSET Leases
    BY <1>1, <1>8
  <2> QED
    BY <1>1, <1>8, <2>1, LoadType
<1>12. Load(modelId, resident \ E) + Mem[modelId[l]] <= Budget
  BY <1>2, <1>3, <1>7, <1>9, <1>10, <1>11
<1> QED
  BY <1>8, <1>12

LEMMA RoomEvicts ==
  ASSUME Apart, Inv, MadeInv, StackInv, SlotInv, RoomInv, Next, NEW l \in Leases,
         MeasuredEvicts(l)
  PROVE  RoomInv'
<1>1. /\ pc[l] = "measure" /\ l = Last(stack) /\ pc'[l] = "quiesce" /\ ~Fits(l)
      /\ UNCHANGED <<modelId, resident>> /\ \A k \in Leases : k # l => pc'[k] = pc[k]
      /\ modelId[l] \in Known
  BY DEF MeasuredEvicts, At, Waits, leaseVars, poolVars, Inv, TypeOK, CoordType, LifeInv,
         ServesLive
<1>2. Serving = {l} /\ InMemory = resident
  BY <1>1, AloneIfPast
<1>3. Serving' = {l} /\ InMemory' = resident
  BY <1>1, <1>2 DEF Serving, InMemory, Loading
<1>4. PICK E \in Victims(l) : evict'[l] = E
  BY DEF MeasuredEvicts, Inv, TypeOK, CoordType
<1>5. E \subseteq resident /\ Load(modelId, resident \ E) + Mem[modelId[l]] <= Budget
  BY <1>1, VictimsMakeRoom
<1>6. AheadIsResident' /\ RoomKeptFree'
  BY <1>1, <1>3, <1>4, <1>5 DEF AheadIsResident, RoomKeptFree
<1>7. NothingDies'
  BY <1>1, DyingStays DEF RoomInv, NothingDies
<1>8. InBudget'
  BY <1>1, <1>2, <1>3 DEF RoomInv, InBudget
<1> QED
  BY <1>6, <1>7, <1>8 DEF RoomInv

\* The load begins with the room it was promised.
LEMMA RoomLoads ==
  ASSUME Apart, Inv, MadeInv, StackInv, SlotInv, RoomInv, Next, NEW l \in Leases,
         MeasuredFits(l) \/ EvictAndLoad(l)
  PROVE  RoomInv'
<1>1. /\ pc[l] \in {"measure", "quiesce"} /\ l = Last(stack) /\ pc'[l] = "loading"
      /\ UNCHANGED modelId /\ \A k \in Leases : k # l => pc'[k] = pc[k]
      /\ modelId[l] \in Known
  BY DEF MeasuredFits, EvictAndLoad, Drained, BeginLoad, At, Waits, leaseVars, Inv, TypeOK,
         CoordType, LifeInv, ServesLive
<1>2. Serving = {l} /\ InMemory = resident
  BY <1>1, AloneIfPast
<1>3. Serving' = {l} /\ InMemory' = resident' \cup {l}
  BY <1>1, <1>2 DEF Serving, InMemory, Loading
<1>4. /\ resident \in SUBSET Leases /\ \A m \in resident : modelId[m] \in Known
      /\ l \notin resident
  BY <1>1, <1>2, IdsApart DEF Past
<1>5. resident' \subseteq resident
  BY DEF MeasuredFits, EvictAndLoad
<1>6. Load(modelId, resident') + Mem[modelId[l]] <= Budget
  <2>1. CASE MeasuredFits(l)
    <3>1. Used = Load(modelId, resident) /\ Used \in Nat /\ Budget \in Nat
          /\ Mem[modelId[l]] \in Nat
      BY <1>1, <1>4, LoadType, MemAssumption DEF Used, Load
    <3>2. Used <= Budget
      BY <1>2, <3>1 DEF RoomInv, InBudget
    <3> QED
      BY <2>1, <3>1, <3>2 DEF MeasuredFits, Fits, Shortfall
  <2>2. CASE EvictAndLoad(l)
    BY <1>2, <2>2 DEF EvictAndLoad, Drained, At, Waits, RoomInv, RoomKeptFree
  <2> QED
    BY <2>1, <2>2
<1>7. Load(modelId, resident' \cup {l}) = Load(modelId, resident') + Mem[modelId[l]]
  <2>1. resident' \in SUBSET Leases /\ l \notin resident'
        /\ \A m \in resident' \cup {l} : modelId[m] \in Known
    BY <1>1, <1>4, <1>5
  <2> QED
    BY <2>1, LoadAdd
<1>8. InBudget'
  BY <1>1, <1>3, <1>6, <1>7 DEF InBudget
<1>9. NothingDies' /\ AheadIsResident' /\ RoomKeptFree'
  BY <1>1, <1>3, DyingStays DEF RoomInv, NothingDies, AheadIsResident, RoomKeptFree
<1> QED
  BY <1>8, <1>9 DEF RoomInv

LEMMA RoomLoaded ==
  ASSUME Apart, Inv, MadeInv, StackInv, SlotInv, RoomInv, Next, NEW l \in Leases, Loaded(l)
  PROVE  RoomInv'
<1>1. /\ pc[l] = "loading" /\ l = Last(stack) /\ pc' = [pc EXCEPT ![l] = "out"]
      /\ UNCHANGED modelId /\ resident' = resident \cup {l}
  BY LoadedMakes DEF Loaded, Exits, Grant
<1>2. Serving = {l} /\ Loading = {l}
  BY <1>1, AloneIfPast DEF Loading, Serving
<1>3. Serving' = {} /\ Loading' = {}
  BY <1>1, <1>2 DEF Serving, Loading, Inv, TypeOK, CoordType
<1>4. InMemory' = InMemory
  BY <1>1, <1>2, <1>3 DEF InMemory
<1>5. NothingDies'
  BY <1>1, DyingStays DEF RoomInv, NothingDies, Inv, TypeOK, CoordType
<1> QED
  BY <1>1, <1>3, <1>4, <1>5 DEF RoomInv, AheadIsResident, RoomKeptFree, InBudget

LEMMA RoomServes ==
  ASSUME Apart, Inv, MadeInv, StackInv, SlotInv, RoomInv, Next,
         NEW l \in Leases, ServeStep(l)
  PROVE  RoomInv'
<1>1. CASE Unknown(l) \/ Found(l) \/ MeasuredTooBig(l) \/ ServeRaises(l) \/ EvictRaises(l)
           \/ LoadRaises(l)
  <2>1. EndServe(l) /\ UNCHANGED resident
    BY <1>1 DEF Unknown, Found, MeasuredTooBig, ServeRaises, EvictRaises, LoadRaises, poolVars
  <2>2. \A k \in Leases : pc'[k] = "out" \/ (pc'[k] = pc[k] /\ evict'[k] = evict[k])
    BY <2>1 DEF EndServe, Inv, TypeOK, CoordType
  <2> QED
    BY <2>1, <2>2, RoomKept
<1>2. CASE DrainWait(l)
  BY <1>2, RoomKept DEF DrainWait, poolVars
<1>3. CASE LineCut(l)
  <2>1. PICK k \in Leases :
          /\ Enters(k) /\ UNCHANGED <<leaseVars, target, evict, poolVars, pruneVars>>
          /\ Targets(modelId[k], evict[l])
    BY <1>3, LineCutEnters
  <2>2. pc[l] = "quiesce" /\ l = Last(stack) /\ UNCHANGED resident
    BY <1>3, <2>1 DEF LineCut, At, Waits, poolVars
  <2> QED
    BY <2>1, <2>2, RoomEnters
<1>4. ~FoundDying(l)
  BY DEF FoundDying, RoomInv, NothingDies
<1> QED
  BY <1>1, <1>2, <1>3, <1>4, RoomMissing, RoomEvicts, RoomLoads, RoomLoaded DEF ServeStep

LEMMA RoomStep ==
  ASSUME Apart, Inv, MadeInv, StackInv, SlotInv, RoomInv, [Next]_vars
  PROVE  RoomInv'
<1>1. CASE Next /\ \E l \in Leases : ServeStep(l)
  BY <1>1, RoomServes
<1>2. CASE Next /\ Dequeue
  <2>1. PICK l \in Leases :
          Enters(l) /\ UNCHANGED <<leaseVars, target, evict, poolVars, pruneVars>>
    BY <1>2, DequeueEnters
  <2>2. stack = <<>> /\ UNCHANGED resident
    BY <1>2, <2>1 DEF Dequeue, poolVars
  <2> QED
    BY <1>2, <2>1, <2>2, RoomEnters
<1>3. CASE Next /\ ~Dequeue /\ \A l \in Leases : ~ServeStep(l)
  <2>1. UNCHANGED <<pc, evict>>
    BY <1>3, OtherStepsStay
  <2>2. UNCHANGED resident
    BY <1>3, ResidentMoves DEF ServeStep, Apart
  <2> QED
    BY <1>3, <2>1, <2>2, RoomKept
<1>4. CASE UNCHANGED vars
  BY <1>4 DEF vars, leaseVars, coordVars, poolVars, RoomInv, NothingDies, AheadIsResident,
    RoomKeptFree, InBudget, InMemory, Loading, Serving
<1> QED
  BY <1>1, <1>2, <1>3, <1>4

LEMMA ApartSlots ==
  ASSUME Apart
  PROVE  Spec => [](Inv /\ MadeInv /\ StackInv /\ SlotInv)
<1>1. Spec => []SlotInv
  BY SlotAlways DEF Apart
<1> QED
  BY <1>1, InvAlways, MadeAlways, StackAlways, PTL

LEMMA RoomAlways ==
  ASSUME Apart
  PROVE  Spec => []RoomInv
<1>1. Init => RoomInv
  <2>1. ASSUME Init
        PROVE  InMemory = {} /\ Serving = {} /\ NothingDies
    BY <2>1 DEF Init, InMemory, Loading, Serving, NothingDies
  <2>2. Load(modelId, {}) <= Budget
    BY HeldEmpty, MemAssumption DEF Load
  <2> QED
    BY <2>1, <2>2 DEF RoomInv, AheadIsResident, RoomKeptFree, InBudget
<1>2. Inv /\ MadeInv /\ StackInv /\ SlotInv /\ RoomInv /\ [Next]_vars => RoomInv'
  BY RoomStep
<1> QED
  BY <1>1, <1>2, ApartSlots, PTL DEF Spec

\* README, "Reallocation": "If neither candidate can free enough, the request
\* fails rather than over-committing".  What is resident and what is being
\* loaded fit the budget together: always where everything fits, and where
\* each id has an instance of its own, by the eviction that makes the room.
THEOREM BudgetIsKept ==
  ASSUME AllFit \/ (NoneSingle /\ Pruners = {})
  PROVE  Spec => []BudgetRespected
<1>1. CASE AllFit
  <2>1. Inv /\ MadeInv /\ StackInv /\ SlotInv => BudgetRespected
    BY <1>1, AllInBudget
  <2>2. Spec => []SlotInv
    BY <1>1, SlotAlways
  <2> QED
    BY <2>1, <2>2, InvAlways, MadeAlways, StackAlways, PTL
<1>2. CASE NoneSingle /\ Pruners = {}
  <2>1. RoomInv => BudgetRespected
    BY DEF RoomInv, InBudget, Load, BudgetRespected, InMemory, Loading
  <2>2. Spec => []RoomInv
    BY <1>2, RoomAlways DEF Apart
  <2> QED
    BY <2>1, <2>2, PTL
<1> QED
  BY <1>1, <1>2

-------------------------------------------------------------------------------
(* What is resident is up.                                                 *)

\* An eviction takes the victims down and nothing else.
LEMMA UpServe ==
  ASSUME Apart, Flaky = {}, Inv, MadeInv, SlotInv, RoomInv, ResidentIsUp, Next
  PROVE  ResidentIsUp'
<1>1. evicting = {} /\ evicting' = {} /\ \A m \in resident : Slot(m) \in up
  BY DyingStays DEF RoomInv, NothingDies, ResidentIsUp
<1>2. \A m \in resident : Slot(m)' = Slot(m)
  BY SlotsAreKept
<1>3. \A l \in Leases : Owner(l) \notin SingleResident
  BY DEF Apart, NoneSingle
<1>4. ASSUME NEW l \in Leases, EvictAndLoad(l)
      PROVE  ResidentIsUp'
  <2>1. /\ resident' = resident \ evict[l] /\ up' = up \ {Slot(m) : m \in evict[l]}
        /\ pc[l] = "quiesce" /\ l \in Serving
    BY <1>3, <1>4 DEF EvictAndLoad, BeginLoad, Drained, At, Waits, Serving
  <2>2. evict[l] \subseteq resident
    BY <2>1 DEF RoomInv, RoomKeptFree
  <2>3. \A m \in resident' : Slot(m) \in up'
    BY <1>1, <2>1, <2>2 DEF SlotInv, OneResidentPerSlot
  <2> QED
    BY <1>1, <1>2, <2>1, <2>3 DEF ResidentIsUp
<1>5. ASSUME NEW l \in Leases, Loaded(l)
      PROVE  ResidentIsUp'
  <2>1. resident' = resident \cup {l} /\ up' = up \cup {Slot(l)} /\ l \in Serving
    BY <1>5, LoadedMakes DEF Loaded
  <2>2. Slot(l)' = Slot(l)
    BY <2>1, SlotsAreKept
  <2> QED
    BY <1>1, <1>2, <2>1, <2>2 DEF ResidentIsUp
<1>6. CASE \A l \in Leases : ~EvictAndLoad(l) /\ ~Loaded(l)
  <2>1. UNCHANGED resident
    BY <1>6, ResidentMoves DEF Apart
  <2>2. \A l \in Leases : ~EvictRaises(l) /\ ~LoadRaises(l)
    BY <1>3 DEF EvictRaises, LoadRaises
  <2>3. up \subseteq up'
    BY <1>6, <2>2, UpMoves DEF Apart
  <2> QED
    BY <1>1, <1>2, <2>1, <2>3 DEF ResidentIsUp
<1> QED
  BY <1>4, <1>5, <1>6

\* The books agree with the providers: what is resident, and not being taken
\* down, is loaded there.
THEOREM BooksAgree ==
  ASSUME (AllFit /\ OnePruner) \/ (NoneSingle /\ Pruners = {} /\ Flaky = {})
  PROVE  Spec => []ResidentIsUp
<1>1. CASE AllFit /\ OnePruner
  <2>1. TeardownInv => ResidentIsUp
    BY DEF TeardownInv
  <2>2. Spec => []TeardownInv
    BY <1>1, TeardownAlways
  <2> QED
    BY <2>1, <2>2, PTL
<1>2. CASE NoneSingle /\ Pruners = {} /\ Flaky = {}
  <2>1. Init => ResidentIsUp
    BY DEF Init, ResidentIsUp
  <2>2. Inv /\ MadeInv /\ SlotInv /\ RoomInv /\ ResidentIsUp /\ [Next]_vars => ResidentIsUp'
    <3>1. UNCHANGED vars /\ ResidentIsUp => ResidentIsUp'
      BY DEF vars, leaseVars, poolVars, ResidentIsUp, Slot, Owner
    <3> QED
      BY <1>2, <3>1, UpServe DEF Apart
  <2>3. Spec => [](Inv /\ MadeInv /\ StackInv /\ SlotInv)
    BY <1>2, ApartSlots DEF Apart
  <2>4. Spec => []RoomInv
    BY <1>2, RoomAlways DEF Apart
  <2> QED
    BY <2>1, <2>2, <2>3, <2>4, PTL DEF Spec
<1> QED
  BY <1>1, <1>2

-------------------------------------------------------------------------------
(* What is held stays.                                                     *)

\* A request that has been granted a model and not released finds it
\* resident, and no prune taking it.
HolderInv ==
  \A l \in Leases : granted[l] /\ ~finished[l] => model[l] \in resident \ evicting

\* A model in use is counted as such.
LEMMA HeldIsBusy ==
  ASSUME Inv, ClaimsCounted, NEW l \in Leases, granted[l], ~finished[l], model[l] \in Leases
  PROVE  inFlight[model[l]] > 0
<1> DEFINE m == model[l]
<1>1. l \in Claimants(m) /\ IsFiniteSet(Claimants(m))
  BY ClaimantsFinite DEF Claimants
<1>2. inFlight[m] = Cardinality(Claimants(m)) /\ Cardinality(Claimants(m)) \in Nat
  BY <1>1, FS_CardinalityType DEF ClaimsCounted
<1>3. Cardinality(Claimants(m)) # 0
  BY <1>1, FS_EmptySet
<1> HIDE DEF m
<1>4. inFlight[m] > 0
  BY <1>2, <1>3
<1> QED
  BY <1>4 DEF m

\* A prune takes no model in use.
LEMMA BusyIsSpared ==
  ASSUME Inv, Next, NEW m \in Leases, inFlight[m] > 0, m \notin evicting
  PROVE  m \notin evicting'
<1>1. ASSUME NEW p \in Pruners, NEW C, NEW res, NEW dying \in SUBSET evicting,
             Looks(p, C, res, dying)
      PROVE  m \notin evicting'
  BY <1>1 DEF Looks, Visit
<1>2. ASSUME NEW p \in Pruners, PruneStep(p)
      PROVE  m \notin evicting'
  <2>1. evicting \in SUBSET evicting /\ evicting \ {cur[p]} \in SUBSET evicting
    OBVIOUS
  <2>2. PruneTeardown(p) \/ PruneRaises(p) => evicting' \subseteq evicting
    BY DEF PruneTeardown, PruneRaises
  <2> QED
    BY <1>1, <1>2, <2>1, <2>2, PruneMoves
<1>3. CASE \A p \in Pruners : ~PruneStep(p)
  BY <1>3, DyingMoves
<1> QED
  BY <1>2, <1>3

\* Nor does an eviction, and what a prune drops nobody uses.
LEMMA BusyStays ==
  ASSUME Inv, Next, Pruners = {} \/ TeardownInv, NEW m \in resident \ evicting,
         inFlight[m] > 0
  PROVE  m \in resident' \ evicting'
<1>1. m \in Leases
  BY DEF Inv, TypeOK, PoolType
<1>2. m \notin evicting'
  BY <1>1, BusyIsSpared
<1>3. ASSUME NEW k \in Leases, EvictAndLoad(k)
      PROVE  m \in resident'
  <2>1. resident' = resident \ evict[k] /\ \A n \in evict[k] : inFlight[n] = 0
    BY <1>3 DEF EvictAndLoad, Drained
  <2> QED
    BY <2>1
<1>4. ASSUME NEW p \in Pruners, PruneReaped(p)
      PROVE  m \in resident'
  <2>1. resident' = resident \ {cur[p]} /\ prunePc[p] = "reap"
    BY <1>4 DEF PruneReaped
  <2>2. cur[p] \in evicting
    BY <2>1 DEF TeardownInv, Busy
  <2> QED
    BY <2>1, <2>2
<1>5. ASSUME NEW k \in Leases, Loaded(k)
      PROVE  m \in resident'
  BY <1>5 DEF Loaded
<1> QED
  BY <1>2, <1>3, <1>4, <1>5, ResidentMoves

LEMMA HolderStep ==
  ASSUME Inv, MadeInv, SlotInv, ClaimsCounted, HolderInv, Pruners = {} \/ TeardownInv,
         [Next]_vars
  PROVE  HolderInv'
<1>1. CASE UNCHANGED vars
  BY <1>1 DEF vars, leaseVars, poolVars, HolderInv
<1>2. CASE Next
  <2> SUFFICES ASSUME NEW l \in Leases, granted'[l], ~finished'[l]
               PROVE  model'[l] \in resident' \ evicting'
    BY DEF HolderInv
  <2>1. CASE Found(l)
    <3>1. PICK m \in resident \ evicting : Grant(l, m)
      BY <2>1, FoundLives
    <3>2. model'[l] = m /\ UNCHANGED <<resident, evicting>>
      BY <2>1, <3>1 DEF Grant, Found, Inv, TypeOK, LeaseType
    <3> QED
      BY <3>2
  <2>2. CASE Loaded(l)
    <3>1. l \notin evicting /\ evicting' = evicting /\ l \in resident'
      BY <2>2, LoadedMakes DEF Loaded, MadeInv
    <3>2. model'[l] = l
      BY <2>2 DEF Loaded, Grant, Inv, TypeOK, LeaseType
    <3> QED
      BY <3>1, <3>2
  <2>3. CASE granted'[l] = granted[l] /\ model'[l] = model[l]
    <3>1. ~finished[l]
      <4>1. ASSUME NEW k \in Leases, Release(k)
            PROVE  finished[l] => finished'[l]
        BY <4>1 DEF Release, Inv, TypeOK, LeaseType
      <4>2. ASSUME NEW k \in Leases, NEW m \in Leases, Grant(k, m)
            PROVE  finished' = finished
        BY <4>2 DEF Grant
      <4> QED
        BY <1>2, <4>1, <4>2, ClaimMoves
    <3>2. model[l] \in resident \ evicting
      BY <2>3, <3>1 DEF HolderInv
    <3>3. inFlight[model[l]] > 0
      BY <2>3, <3>1, <3>2, HeldIsBusy DEF Inv, TypeOK, PoolType
    <3> QED
      BY <1>2, <2>3, <3>2, <3>3, BusyStays
  <2> QED
    BY <1>2, <2>1, <2>2, <2>3, GrantMoves
<1> QED
  BY <1>1, <1>2

LEMMA HolderAlways ==
  ASSUME Impatient = {}, (AllFit /\ OnePruner) \/ (NoneSingle /\ Pruners = {})
  PROVE  Spec => []HolderInv
<1>1. Init => HolderInv
  BY DEF Init, HolderInv
<1>2. Inv /\ MadeInv /\ SlotInv /\ (PatientInv /\ ClaimsCounted) /\ HolderInv
        /\ (Pruners = {} \/ TeardownInv) /\ [Next]_vars => HolderInv'
  BY HolderStep
<1>3. Spec => []SlotInv
  BY SlotAlways
<1>4. Spec => [](PatientInv /\ ClaimsCounted)
  BY PatientAlways
<1>5. Spec => [](Pruners = {} \/ TeardownInv)
  <2>1. CASE AllFit /\ OnePruner
    <3>1. TeardownInv => (Pruners = {} \/ TeardownInv)
      OBVIOUS
    <3>2. Spec => []TeardownInv
      BY <2>1, TeardownAlways
    <3> QED
      BY <3>1, <3>2, PTL
  <2>2. CASE Pruners = {}
    <3>1. Inv => (Pruners = {} \/ TeardownInv)
      BY <2>2
    <3> QED
      BY <3>1, InvAlways, PTL
  <2> QED
    BY <2>1, <2>2
<1> QED
  BY <1>1, <1>2, <1>3, <1>4, <1>5, InvAlways, MadeAlways, PTL DEF Spec

\* README: requests in flight are drained "before the model is actually
\* unloaded, so no request is cut off mid-generation".  The model a request
\* holds is loaded at its provider for as long as it holds it.
THEOREM GenerationsAreNeverCut ==
  ASSUME Impatient = {},
         (AllFit /\ OnePruner) \/ (NoneSingle /\ Pruners = {} /\ Flaky = {})
  PROVE  Spec => []GenerationNeverCut
<1>1. Inv /\ (PatientInv /\ ClaimsCounted) /\ HolderInv /\ ResidentIsUp => GenerationNeverCut
  <2> SUFFICES ASSUME Inv, PatientInv, HolderInv, ResidentIsUp,
                      NEW l \in Leases, client[l] = "holding"
               PROVE  Slot(model[l]) \in up
    BY DEF GenerationNeverCut
  <2>1. granted[l] /\ ~finished[l]
    BY DEF PatientInv, Inv, LifeInv, LeaseLife
  <2>2. model[l] \in resident \ evicting
    BY <2>1 DEF HolderInv
  <2> QED
    BY <2>2 DEF ResidentIsUp
<1>2. Spec => []HolderInv
  BY HolderAlways
<1>3. Spec => []ResidentIsUp
  BY BooksAgree
<1>4. Spec => [](PatientInv /\ ClaimsCounted)
  BY PatientAlways
<1> QED
  BY <1>1, <1>2, <1>3, <1>4, InvAlways, PTL

-------------------------------------------------------------------------------
(* The promise of ModelPool, where each id has an instance of its own and    *)
(* only the coordinator unloads.                                            *)

Settled == Apart /\ Impatient = {}

\* A grant answers the request, with a model of the id it asked for.
AnswerInv ==
  \A l \in Leases : granted[l] =>
    future[l] = "result" /\ granted[model[l]] /\ modelId[model[l]] = modelId[l]

\* An answer is kept.
LEMMA AnswersAreKept ==
  ASSUME Impatient = {}, Inv, Next, NEW l \in Leases, granted[l], future[l] = "result"
  PROVE  future'[l] = "result"
<1>1. pc[l] = "out"
  BY DEF Inv, LifeInv, ServesLive
<1>2. ASSUME NEW k \in Leases, RequestStep(k)
      PROVE  future'[l] = future[l]
  BY <1>2 DEF RequestStep, Acquire, Resume, ResumeFailed, Disconnect, DisconnectGranted,
    Finish, Release, Inv, TypeOK, LeaseType
<1>3. ASSUME NEW k \in Leases, k # l, Reject(k) \/ \E m \in Leases : Grant(k, m)
      PROVE  future'[l] = future[l]
  BY <1>3 DEF Reject, Grant, Inv, TypeOK, LeaseType
<1>4. ASSUME NEW k \in Leases, ServeStep(k)
      PROVE  future'[l] = future[l]
  <2>1. CASE Unknown(k) \/ MeasuredTooBig(k) \/ ServeRaises(k) \/ EvictRaises(k) \/ LoadRaises(k)
    <3>1. Reject(k) /\ pc[k] # "out"
      BY <2>1 DEF Unknown, MeasuredTooBig, ServeRaises, EvictRaises, LoadRaises, Drained, At,
        Waits
    <3> QED
      BY <1>1, <1>3, <3>1
  <2>2. CASE Found(k) \/ Loaded(k)
    <3>1. pc[k] # "out" /\ \E m \in Leases : Grant(k, m)
      BY <2>2 DEF Found, Loaded, AtGrant, Waits, ResidentFor, Inv, TypeOK, PoolType
    <3> QED
      BY <1>1, <1>3, <3>1
  <2>3. CASE FoundDying(k) \/ Missing(k) \/ MeasuredFits(k) \/ MeasuredEvicts(k) \/ LineCut(k)
             \/ DrainWait(k) \/ EvictAndLoad(k)
    BY <2>3 DEF FoundDying, Missing, MeasuredFits, MeasuredEvicts, LineCut, DrainWait,
      EvictAndLoad, BeginLoad, BeginServe, leaseVars
  <2> QED
    BY <1>4, <2>1, <2>2, <2>3 DEF ServeStep
<1>5. Dequeue \/ Sleep \/ Awake => future' = future
  BY DEF Dequeue, Sleep, Awake, BeginServe, leaseVars
<1>6. ASSUME NEW p \in Pruners, PruneStep(p)
      PROVE  future' = future
  BY <1>6, PruneLeavesLeases DEF leaseVars
<1>7. (\E m \in Leases : Age(m)) \/ Terminating => future' = future
  BY DEF Age, Terminating, vars, leaseVars
<1> QED
  BY <1>2, <1>4, <1>5, <1>6, <1>7 DEF Next, Coordinator

LEMMA AnswerStep ==
  ASSUME Settled, Inv, MadeInv, SlotInv, PatientInv, AnswerInv, [Next]_vars
  PROVE  AnswerInv'
<1>1. CASE UNCHANGED vars
  BY <1>1 DEF vars, leaseVars, AnswerInv
<1>2. CASE Next
  <2> SUFFICES ASSUME NEW l \in Leases, granted'[l]
               PROVE  /\ future'[l] = "result"
                      /\ granted'[model'[l]] /\ modelId'[model'[l]] = modelId'[l]
    BY DEF AnswerInv
  <2>1. ASSUME NEW m \in Leases, Grant(l, m), pc[l] # "out"
        PROVE  /\ future'[l] = "result" /\ model'[l] = m
               /\ UNCHANGED modelId
    <3>1. future[l] = "pending" /\ ~finished[l]
      BY <2>1 DEF PatientInv, Inv, LifeInv, LeaseLife
    <3> QED
      BY <2>1, <3>1 DEF Grant, Inv, TypeOK, LeaseType
  <2>2. CASE Found(l)
    <3>1. PICK m \in resident : Grant(l, m) /\ m \in ResidentFor(Owner(l), modelId[l])
      BY <2>2, FoundLives
    <3>2. m \in Leases /\ granted[m]
      BY <3>1 DEF MadeInv, Made
    <3>3. modelId[m] = modelId[l]
      BY <3>1 DEF ResidentFor, Settled, Apart, NoneSingle
    <3>4. granted'[m]
      BY <1>2, <3>2, GrantsAreKept
    <3>5. pc[l] # "out"
      BY <2>2 DEF Found, AtGrant, Waits
    <3> QED
      BY <2>1, <3>1, <3>2, <3>3, <3>4, <3>5
  <2>3. CASE Loaded(l)
    <3>1. Grant(l, l) /\ pc[l] # "out"
      BY <2>3, LoadedMakes DEF Loaded
    <3> QED
      BY <2>1, <3>1
  <2>4. CASE granted'[l] = granted[l] /\ model'[l] = model[l]
    <3>1. model[l] \in Leases /\ granted[model[l]] /\ modelId[model[l]] = modelId[l]
          /\ future[l] = "result"
      BY <2>4 DEF AnswerInv, Inv, LifeInv, LeaseLife
    <3>2. future'[l] = "result"
      BY <1>2, <2>4, <3>1, AnswersAreKept DEF Settled
    <3>3. granted'[model[l]] /\ modelId'[model[l]] = modelId[model[l]]
      BY <1>2, <3>1, GrantsAreKept
    <3>4. modelId'[l] = modelId[l]
      BY <1>2, <2>4, GrantsAreKept
    <3> QED
      BY <2>4, <3>1, <3>2, <3>3, <3>4
  <2> QED
    BY <1>2, <2>2, <2>3, <2>4, GrantMoves
<1> QED
  BY <1>1, <1>2

LEMMA SettledAlways ==
  ASSUME Settled
  PROVE  Spec => []((PatientInv /\ ClaimsCounted) /\ RoomInv /\ HolderInv /\ AnswerInv)
<1>1. Init => AnswerInv
  BY DEF Init, AnswerInv
<1>2. (Inv /\ MadeInv /\ StackInv /\ SlotInv) /\ (PatientInv /\ ClaimsCounted) /\ AnswerInv
        /\ [Next]_vars => AnswerInv'
  BY AnswerStep
<1>3. Spec => [](Inv /\ MadeInv /\ StackInv /\ SlotInv)
  BY ApartSlots DEF Settled
<1>4. Spec => [](PatientInv /\ ClaimsCounted)
  BY PatientAlways DEF Settled
<1>5. Spec => []RoomInv
  BY RoomAlways DEF Settled
<1>6. Spec => []HolderInv
  BY HolderAlways DEF Settled, Apart
<1> QED
  BY <1>1, <1>2, <1>3, <1>4, <1>5, <1>6, PTL DEF Spec

\* What ModelPool sees of a state.
Stages == [l \in Leases |-> Stage(l)]

InPool == {modelId[m] : m \in resident}

LEMMA StagesSame ==
  ASSUME UNCHANGED <<client, future, granted>>
  PROVE  UNCHANGED Stages
BY DEF Stages, Stage

\* A step of one request moves its stage alone.
LEMMA OneStage ==
  ASSUME NEW l \in Leases, NEW s, Stage(l)' = s,
         \A k \in Leases : k # l => client'[k] = client[k] /\ future'[k] = future[k]
                                    /\ granted'[k] = granted[k]
  PROVE  Stages' = [Stages EXCEPT ![l] = s]
<1>1. \A k \in Leases : k # l => Stage(k)' = Stage(k)
  BY DEF Stage
<1> QED
  BY <1>1 DEF Stages

\* The stages, one at a time.
LEMMA StageIs ==
  ASSUME Inv, PatientInv, AnswerInv, NEW l \in Leases
  PROVE  /\ client[l] = "new" => Stage(l) = "none"
         /\ client[l] = "acquiring" /\ future[l] = "pending" => Stage(l) = "waiting"
         /\ granted[l] /\ client[l] # "done" => Stage(l) = "using"
         /\ client[l] = "done" \/ future[l] = "error" => Stage(l) = "over"
         /\ Stage(l) = "using" => granted[l] /\ ~finished[l]
<1>1. /\ client[l] = "new" => ~granted[l] /\ future[l] = "pending"
      /\ granted[l] => future[l] = "result"
      /\ finished[l] <=> client[l] = "done"
  BY DEF Inv, LifeInv, LeaseLife, AnswerInv
<1> QED
  BY <1>1 DEF Stage

\* While the resident models stay, so does the pool.
LEMMA PoolSame ==
  ASSUME Inv, MadeInv, Next, UNCHANGED resident
  PROVE  UNCHANGED InPool
<1>1. \A m \in resident : modelId'[m] = modelId[m]
  BY MadeStays DEF MadeInv
<1> QED
  BY <1>1 DEF InPool

\* A request arrives.
LEMMA AcquireAsks ==
  ASSUME Inv, MadeInv, PatientInv, AnswerInv, PatientInv', AnswerInv', Inv', Next,
         NEW l \in Leases, NEW id \in ModelIds, Acquire(l, id)
  PROVE  Pool!Ask(l)
<1>1. Stage(l) = "none"
  BY StageIs DEF Acquire
<1>2. /\ client'[l] = "acquiring" /\ future'[l] = "pending" /\ ~granted'[l]
      /\ \A k \in Leases : k # l => client'[k] = client[k] /\ future'[k] = future[k]
                                    /\ granted'[k] = granted[k]
  BY DEF Acquire, Inv, TypeOK, LeaseType, LifeInv, LeaseLife
<1>3. Stage(l)' = "waiting"
  BY <1>2 DEF Stage
<1>4. Stages' = [Stages EXCEPT ![l] = "waiting"]
  BY <1>2, <1>3, OneStage
<1>5. UNCHANGED InPool /\ modelId' = [modelId EXCEPT ![l] = id]
  BY PoolSame DEF Acquire, poolVars
<1>6. Stages[l] = "none"
  BY <1>1 DEF Stages
<1> QED
  BY <1>4, <1>5, <1>6 DEF Pool!Ask, Stages, InPool

\* A request fails.
LEMMA RejectTurnsAway ==
  ASSUME Inv, MadeInv, PatientInv, AnswerInv, Next,
         NEW l \in Leases, pc[l] # "out", Reject(l), UNCHANGED resident
  PROVE  Pool!TurnAway(l)
<1>1. client[l] = "acquiring" /\ future[l] = "pending" /\ ~finished[l] /\ ~granted[l]
  BY DEF PatientInv, Inv, LifeInv, LeaseLife, ServesLive
<1>2. Stage(l) = "waiting"
  BY <1>1, StageIs
<1>3. /\ client'[l] = "acquiring" /\ future'[l] = "error" /\ ~granted'[l]
      /\ \A k \in Leases : k # l => client'[k] = client[k] /\ future'[k] = future[k]
                                    /\ granted'[k] = granted[k]
  BY <1>1 DEF Reject, Inv, TypeOK, LeaseType
<1>4. Stage(l)' = "over"
  BY <1>3 DEF Stage
<1>5. Stages' = [Stages EXCEPT ![l] = "over"]
  BY <1>3, <1>4, OneStage
<1>6. UNCHANGED InPool /\ UNCHANGED modelId
  BY PoolSame DEF Reject
<1>7. Stages[l] = "waiting"
  BY <1>2 DEF Stages
<1> QED
  BY <1>5, <1>6, <1>7 DEF Pool!TurnAway, Stages, InPool

\* A request ends.
LEMMA FinishLeaves ==
  ASSUME Inv, MadeInv, PatientInv, AnswerInv, Next, NEW l \in Leases, Finish(l)
  PROVE  Pool!Leave(l)
<1>1. client[l] = "holding" /\ granted[l] /\ future[l] = "result"
  BY DEF Finish, PatientInv
<1>2. Stage(l) = "using"
  BY <1>1, StageIs
<1>3. /\ client'[l] = "done"
      /\ \A k \in Leases : k # l => client'[k] = client[k] /\ future'[k] = future[k]
                                    /\ granted'[k] = granted[k]
  BY <1>1 DEF Finish, Release, Inv, TypeOK, LeaseType
<1>4. Stage(l)' = "over"
  BY <1>3 DEF Stage
<1>5. Stages' = [Stages EXCEPT ![l] = "over"]
  BY <1>3, <1>4, OneStage
<1>6. UNCHANGED InPool /\ UNCHANGED modelId
  BY PoolSame DEF Finish, Release
<1>7. Stages[l] = "using"
  BY <1>2 DEF Stages
<1> QED
  BY <1>5, <1>6, <1>7 DEF Pool!Leave, Stages, InPool

PoolFits == Held(Mem, InPool) <= Budget

\* The models in memory are one of each id.
LEMMA PoolIsHeld ==
  ASSUME Inv, MadeInv, StackInv, SlotInv, RoomInv
  PROVE  PoolFits
<1>1. /\ resident \in SUBSET Leases /\ \A m \in resident : modelId[m] \in Known
      /\ \A m, n \in resident : modelId[m] = modelId[n] => m = n
  BY IdsApart
<1>2. InMemory \in SUBSET Leases /\ \A m \in InMemory : modelId[m] \in Known
  BY InMemoryApart
<1>3. resident \in SUBSET InMemory
  BY DEF InMemory
<1>4. Load(modelId, resident) <= Load(modelId, InMemory)
  BY <1>2, <1>3, LoadLess
<1>5. Load(modelId, resident) \in Nat /\ Load(modelId, InMemory) \in Nat /\ Budget \in Nat
  BY <1>1, <1>2, LoadType, MemAssumption
<1>6. Load(modelId, resident) = Held(Mem, InPool)
  <2> DEFINE mem == [m \in resident |-> Mem[modelId[m]]]
  <2>1. IsFiniteSet(resident) /\ HasSizes(mem, resident)
        /\ \A m \in resident : mem[m] = Mem[modelId[m]]
    BY <1>1, LoadType, MemAssumption DEF HasSizes
  <2> HIDE DEF mem
  <2>2. Held(mem, resident) = Held(Mem, {modelId[m] : m \in resident})
    BY <1>1, <2>1, HeldRenamed
  <2> QED
    BY <2>2 DEF Load, InPool, mem
<1> QED
  BY <1>4, <1>5, <1>6 DEF RoomInv, InBudget, PoolFits

\* ModelPool measures the pool as Scheduler does.
LEMMA PoolHeld ==
  ASSUME NEW mem, NEW S
  PROVE  Pool!Held(mem, S) = Held(mem, S)
BY DEF Held, Pool!Held, SumFunctionOnSet, Pool!SumFunctionOnSet, FoldFunctionOnSet,
       Pool!FoldFunctionOnSet, MapThenFoldSet, Pool!MapThenFoldSet

\* A request is granted its model.
LEMMA GrantAdmits ==
  ASSUME Inv, MadeInv, PatientInv, AnswerInv, NEW l \in Leases, NEW m \in Leases,
         pc[l] # "out", Grant(l, m), InPool' = InPool \cup {modelId[l]},
         modelId[l] \notin InPool => Held(Mem, InPool') <= Budget
  PROVE  Pool!Admit(l)
<1>1. client[l] = "acquiring" /\ future[l] = "pending" /\ ~finished[l] /\ ~granted[l]
  BY DEF PatientInv, Inv, LifeInv, LeaseLife, ServesLive
<1>2. Stage(l) = "waiting"
  BY <1>1, StageIs
<1>3. /\ client'[l] = "acquiring" /\ future'[l] = "result" /\ granted'[l]
      /\ \A k \in Leases : k # l => client'[k] = client[k] /\ future'[k] = future[k]
                                    /\ granted'[k] = granted[k]
  BY <1>1 DEF Grant, Inv, TypeOK, LeaseType
<1>4. Stage(l)' = "using"
  BY <1>3 DEF Stage
<1>5. Stages' = [Stages EXCEPT ![l] = "using"]
  BY <1>3, <1>4, OneStage
<1>6. UNCHANGED modelId
  BY DEF Grant
<1>7. Stages[l] = "waiting"
  BY <1>2 DEF Stages
<1>8. modelId[l] \notin InPool => Pool!Held(Mem, InPool') <= Budget
  BY PoolHeld
<1> QED
  BY <1>5, <1>6, <1>7, <1>8 DEF Pool!Admit, Stages, InPool

LEMMA FoundAdmits ==
  ASSUME Settled, Inv, MadeInv, SlotInv, PatientInv, AnswerInv, Next,
         NEW l \in Leases, Found(l)
  PROVE  Pool!Admit(l)
<1>1. PICK m \in resident : Grant(l, m) /\ m \in ResidentFor(Owner(l), modelId[l])
  BY FoundLives
<1>2. m \in Leases /\ modelId[m] = modelId[l]
  BY <1>1 DEF ResidentFor, Settled, Apart, NoneSingle, MadeInv, Made
<1>3. modelId[l] \in InPool
  BY <1>1, <1>2 DEF InPool
<1>4. UNCHANGED InPool
  BY PoolSame DEF Found
<1>5. pc[l] # "out"
  BY DEF Found, AtGrant, Waits
<1> QED
  BY <1>1, <1>2, <1>3, <1>4, <1>5, GrantAdmits

LEMMA LoadedAdmits ==
  ASSUME Inv, MadeInv, PatientInv, AnswerInv, Next, Held(Mem, InPool') <= Budget,
         NEW l \in Leases, Loaded(l)
  PROVE  Pool!Admit(l)
<1>1. pc[l] # "out" /\ Grant(l, l) /\ resident' = resident \cup {l} /\ UNCHANGED modelId
  BY LoadedMakes DEF Loaded, Grant
<1>2. InPool' = InPool \cup {modelId[l]}
  BY <1>1 DEF InPool
<1> QED
  BY <1>1, <1>2, GrantAdmits

\* The victims of an eviction leave, and nobody uses them.
LEMMA EvictUnloads ==
  ASSUME Settled, Inv, MadeInv, SlotInv, RoomInv, PatientInv, ClaimsCounted, HolderInv,
         AnswerInv, NEW l \in Leases, EvictAndLoad(l)
  PROVE  (\E S \in SUBSET InPool : Pool!Unload(S)) \/ UNCHANGED <<Stages, modelId, InPool>>
<1> DEFINE S == {modelId[m] : m \in evict[l]}
<1>1. /\ resident' = resident \ evict[l] /\ UNCHANGED leaseVars
      /\ l \in Serving /\ pc[l] = "quiesce" /\ \A m \in evict[l] : inFlight[m] = 0
  BY DEF EvictAndLoad, BeginLoad, Drained, At, Waits, Serving
<1>2. evict[l] \subseteq resident /\ resident \subseteq Leases
      /\ \A m, n \in resident : modelId[m] = modelId[n] => m = n
  BY <1>1, IdsApart DEF RoomInv, RoomKeptFree
<1>3. UNCHANGED <<Stages, modelId>>
  BY <1>1, StagesSame DEF leaseVars
<1>4. InPool' = InPool \ S
  BY <1>1, <1>2, <1>3 DEF InPool
<1>5. S \subseteq InPool
  BY <1>2 DEF InPool
<1>6. ASSUME NEW r \in Leases, Stage(r) = "using", modelId[r] \in S
      PROVE  FALSE
  <2>1. PICK m \in evict[l] : modelId[r] = modelId[m]
    BY <1>6
  <2>2. granted[r] /\ ~finished[r]
    BY <1>6, StageIs
  <2>3. model[r] \in resident /\ modelId[model[r]] = modelId[r]
    BY <2>2 DEF HolderInv, AnswerInv
  <2>4. model[r] = m
    BY <1>2, <2>1, <2>3
  <2>5. inFlight[m] > 0
    BY <1>2, <2>2, <2>3, <2>4, HeldIsBusy
  <2> QED
    BY <1>1, <2>1, <2>5
<1>7. Pool!Using \cap S = {}
  BY <1>6 DEF Pool!Using
<1> HIDE DEF S
<1>8. CASE S = {}
  BY <1>3, <1>4, <1>8
<1>9. CASE S # {}
  <2>1. Pool!Unload(S)
    BY <1>3, <1>4, <1>5, <1>7, <1>9 DEF Pool!Unload, Stages, InPool
  <2>2. S \in SUBSET InPool
    BY <1>5
  <2> QED
    BY <2>1, <2>2 DEF Pool!Unload
<1> QED
  BY <1>8, <1>9

\* What the tasks do between those steps the pool does not see.
LEMMA QuietRequest ==
  ASSUME Impatient = {}, Inv, MadeInv, PatientInv, AnswerInv, Next, NEW l \in Leases,
         Resume(l) \/ ResumeFailed(l)
  PROVE  UNCHANGED <<Stages, modelId, InPool>>
<1>1. UNCHANGED <<modelId, InPool>>
  BY PoolSame DEF Resume, ResumeFailed, Release, poolVars
<1>2. Stage(l)' = Stage(l)
  <2>1. CASE Resume(l)
    <3>1. granted[l] /\ client[l] = "acquiring" /\ future[l] = "result"
      BY <2>1 DEF Resume, Inv, LifeInv, LeaseLife
    <3>2. granted'[l] /\ client'[l] = "holding" /\ future'[l] = "result"
      BY <2>1, <3>1 DEF Resume, Inv, TypeOK, LeaseType
    <3> QED
      BY <3>1, <3>2 DEF Stage
  <2>2. CASE ResumeFailed(l)
    <3>1. client[l] = "acquiring" /\ future[l] = "error"
      BY <2>2 DEF ResumeFailed, PatientInv
    <3>2. Stage(l) = "over"
      BY <3>1, StageIs
    <3>3. client'[l] = "done"
      BY <2>2 DEF ResumeFailed, Release, Inv, TypeOK, LeaseType
    <3> QED
      BY <3>2, <3>3 DEF Stage
  <2> QED
    BY <2>1, <2>2
<1>3. \A k \in Leases : k # l => Stage(k)' = Stage(k)
  BY DEF Resume, ResumeFailed, Release, Stage, Inv, TypeOK, LeaseType
<1> QED
  BY <1>1, <1>2, <1>3 DEF Stages

LEMMA QuietServe ==
  ASSUME Inv, MadeInv, Next, NEW l \in Leases,
         \/ FoundDying(l) \/ Missing(l) \/ MeasuredFits(l) \/ MeasuredEvicts(l) \/ LineCut(l)
         \/ DrainWait(l)
  PROVE  UNCHANGED <<Stages, modelId, InPool>>
<1>1. UNCHANGED <<leaseVars, resident>>
  BY DEF FoundDying, Missing, MeasuredFits, MeasuredEvicts, LineCut, DrainWait, BeginLoad,
    BeginServe, poolVars
<1> QED
  BY <1>1, StagesSame, PoolSame DEF leaseVars

\* Each step of the scheduler is one of the pool, or none.
LEMMA PoolStep ==
  ASSUME Settled, Inv, MadeInv, StackInv, SlotInv, PatientInv, ClaimsCounted, RoomInv,
         HolderInv, AnswerInv, Next, PoolFits'
  PROVE  Pool!Next \/ UNCHANGED <<Stages, modelId, InPool>>
<1>1. Inv' /\ PatientInv' /\ AnswerInv'
  BY InvStep, PatientStep, AnswerStep DEF Settled
<1>2. ASSUME NEW l \in Leases,
             Pool!Ask(l) \/ Pool!Admit(l) \/ Pool!TurnAway(l) \/ Pool!Leave(l)
      PROVE  Pool!Next
  BY <1>2 DEF Pool!Next
<1>3. ASSUME NEW l \in Leases, RequestStep(l)
      PROVE  Pool!Next \/ UNCHANGED <<Stages, modelId, InPool>>
  <2>1. ASSUME NEW id \in ModelIds, Acquire(l, id)
        PROVE  Pool!Next
    BY <1>1, <1>2, <2>1, AcquireAsks
  <2>2. ~Disconnect(l) /\ ~DisconnectGranted(l)
    BY DEF Disconnect, DisconnectGranted, Settled
  <2>3. CASE Finish(l)
    BY <1>2, <2>3, FinishLeaves
  <2>4. CASE Resume(l) \/ ResumeFailed(l)
    BY <2>4, QuietRequest DEF Settled
  <2> QED
    BY <1>3, <2>1, <2>2, <2>3, <2>4 DEF RequestStep
<1>4. ASSUME NEW l \in Leases, ServeStep(l)
      PROVE  Pool!Next \/ UNCHANGED <<Stages, modelId, InPool>>
  <2>1. CASE Unknown(l) \/ MeasuredTooBig(l) \/ ServeRaises(l) \/ EvictRaises(l) \/ LoadRaises(l)
    <3>1. pc[l] # "out" /\ Reject(l) /\ UNCHANGED resident
      BY <2>1 DEF Unknown, MeasuredTooBig, ServeRaises, EvictRaises, LoadRaises, Drained, At,
        Waits, poolVars
    <3> QED
      BY <1>2, <3>1, RejectTurnsAway
  <2>2. CASE Found(l)
    BY <1>2, <2>2, FoundAdmits
  <2>3. CASE Loaded(l)
    <3>1. Held(Mem, InPool') <= Budget
      BY DEF PoolFits
    <3> QED
      BY <1>2, <2>3, <3>1, LoadedAdmits
  <2>4. CASE EvictAndLoad(l)
    <3>1. (\E S \in SUBSET InPool : Pool!Unload(S)) => Pool!Next
      BY DEF Pool!Next, InPool
    <3> QED
      BY <2>4, <3>1, EvictUnloads
  <2> QED
    BY <1>4, <2>1, <2>2, <2>3, <2>4, QuietServe DEF ServeStep
<1>5. CASE Dequeue \/ Sleep \/ Awake
  <2>1. UNCHANGED <<leaseVars, resident>>
    BY <1>5 DEF Dequeue, Sleep, Awake, BeginServe, poolVars
  <2> QED
    BY <2>1, StagesSame, PoolSame DEF leaseVars
<1>6. \A p \in Pruners : ~PruneStep(p)
  BY DEF Settled, Apart
<1>7. CASE (\E m \in Leases : Age(m)) \/ Terminating
  <2>1. UNCHANGED <<leaseVars, resident>>
    BY <1>7 DEF Age, Terminating, vars, poolVars
  <2> QED
    BY <2>1, StagesSame, PoolSame DEF leaseVars
<1> QED
  BY <1>3, <1>4, <1>5, <1>6, <1>7 DEF Next, Coordinator

\* Where each id has an instance of its own, only the coordinator unloads, and
\* clients wait for their answer, the queue, the nested serves and the
\* evictions add up to a pool that never unloads what is in use, never loads
\* beyond its budget, and admits every request to the model it asked for or
\* turns it away.
THEOREM SchedulerImplementsPool ==
  ASSUME NoneSingle, Pruners = {}, Impatient = {}
  PROVE  Spec => ImplementsPool
<1> DEFINE Kept == (PatientInv /\ ClaimsCounted) /\ RoomInv /\ HolderInv /\ AnswerInv
<1>1. Settled /\ Apart
  BY DEF Settled, Apart
<1>2. Init => Pool!Init
  <2> SUFFICES ASSUME Init PROVE Pool!Init
    OBVIOUS
  <2>1. \A l \in Leases : Stage(l) = "none"
    BY DEF Init, Stage
  <2>2. modelId = [l \in Leases |-> None] /\ resident = {}
    BY DEF Init
  <2> QED
    BY <2>1, <2>2 DEF Pool!Init
<1>3. (Inv /\ MadeInv /\ StackInv /\ SlotInv) /\ Kept /\ PoolFits' /\ [Next]_vars
        => [Pool!Next]_(Pool!poolVars)
  <2> SUFFICES ASSUME Inv, MadeInv, StackInv, SlotInv, Kept, PoolFits',
                      [Next]_vars
               PROVE  Pool!Next \/ UNCHANGED <<Stages, modelId, InPool>>
    BY DEF Pool!poolVars, Stages, InPool
  <2>1. CASE Next
    BY <1>1, <2>1, PoolStep
  <2>2. CASE UNCHANGED vars
    BY <2>2 DEF vars, leaseVars, poolVars, Stages, Stage, InPool
  <2> QED
    BY <2>1, <2>2
<1>4. Spec => [](Inv /\ MadeInv /\ StackInv /\ SlotInv)
  BY <1>1, ApartSlots
<1>5. Spec => []Kept
  BY <1>1, SettledAlways
<1>6. (Inv /\ MadeInv /\ StackInv /\ SlotInv) /\ Kept => PoolFits
  BY PoolIsHeld
<1> QED
  BY <1>2, <1>3, <1>4, <1>5, <1>6, PTL DEF Spec, ImplementsPool, Pool!Spec
===============================================================================
