----------------------------- MODULE ForwardProofs -----------------------------
(***************************************************************************)
(* Theorems of Forward, for any requests and any retry budget: a forward     *)
(* holds its claim and at most one client exactly while it runs, and the     *)
(* shared counter passes its limit only by requests that gave up.            *)
(***************************************************************************)
EXTENDS Forward, FiniteSetTheorems, TLAPS

\* The awaits at which nothing has been reported yet.
Trying == {"acquire", "send", "failed", "sleep", "notfound", "waitready", "reading",
           "relay"}

\* Nothing was reported to a request that is still being tried.
Unreported == \A r \in Requests : pc[r] \in Trying => outcome[r] = "none"

\* A request that goes on has readiness waits left.
WaitsLeft ==
  \A r \in Requests :
    pc[r] \in {"acquire", "send", "failed", "sleep", "notfound", "waitready"}
      => waits[r] < Attempts

\* The inductive invariant.
IInv == TypeOK /\ HoldsWhileForwarding /\ Unreported /\ WaitsLeft

-------------------------------------------------------------------------------
\* Before the first request nothing is claimed, open or counted (main.py:649-653).
LEMMA InitIInv == Init => IInv
BY ForwardAssumption DEF Init, IInv, TypeOK, HoldsWhileForwarding, Unreported,
   WaitsLeft, Kinds, Spawned, Codes, Trying

\* Every await of the two routes keeps the invariant, whichever request it is of.
LEMMA StepIInv == ASSUME IInv, NEW r \in Requests, Step(r) \/ HangUp(r) \/ Again(r) PROVE IInv'
<1> USE ForwardAssumption
    DEF IInv, TypeOK, HoldsWhileForwarding, Unreported, WaitsLeft, Trying,
        Kinds, Spawned, Codes, shared, Goto
<1>1. CASE Granted(r)
  <2>1. CASE Send(r)
    <3>1. clients[r] = 0
      BY <1>1 DEF Granted
    <3>2. /\ pc' = [pc EXCEPT ![r] = "send"]
          /\ clients' = [clients EXCEPT ![r] = 1] /\ claims' = claims \cup {r}
          /\ UNCHANGED <<kind, shared, waits, outcome>>
      BY <1>1, <2>1, <3>1 DEF Granted, Send
    <3>3. pc[r] = "acquire"
      BY <1>1 DEF Granted
    <3> QED BY <3>2, <3>3
  <2>2. CASE ~ Send(r)
    <3>1. /\ pc[r] = "acquire" /\ Goto(r, "post")
          /\ clients' = [clients EXCEPT ![r] = 1] /\ claims' = claims \cup {r}
          /\ UNCHANGED <<kind, shared, waits, outcome>>
      BY <1>1, <2>2 DEF Granted
    <3> QED BY <3>1
  <2> QED BY <2>1, <2>2
<1>2. CASE Refused(r) BY <1>2 DEF Refused
<1>3. CASE Accepted(r) BY <1>3 DEF Accepted
<1>4. CASE Fails(r) BY <1>4 DEF Fails
<1>5. CASE FailureCounted(r)
  BY <1>5 DEF FailureCounted, Close, MarkLoading, Exhausted, Tell
<1>6. CASE Retry(r) BY <1>6 DEF Retry, Send
<1>7. CASE StillLoading(r) BY <1>7 DEF StillLoading
<1>8. CASE WaitReady(r) BY <1>8 DEF WaitReady, Close
<1>9. CASE SeemsReady(r)
  BY <1>9 DEF SeemsReady, WaitCounted, Exhausted, Tell, Send
<1>10. CASE NeverReady(r) BY <1>10 DEF NeverReady, Tell
<1>11. CASE Verdict(r) BY <1>11 DEF Verdict
<1>12. CASE VerdictRead(r) BY <1>12 DEF VerdictRead, Close, Tell
<1>13. CASE Ends(r) BY <1>13 DEF Ends, Unwind
<1>14. CASE RelayBreaks(r) BY <1>14 DEF RelayBreaks, Unwind
<1>15. CASE Unwound(r) BY <1>15 DEF Unwound, Close
<1>16. CASE Posted(r) BY <1>16 DEF Posted, Close
<1>17. CASE HangUp(r) BY <1>17 DEF HangUp, Unwind, Close
<1>18. CASE Again(r) BY <1>18 DEF Again
<1> QED
  BY <1>1, <1>2, <1>3, <1>4, <1>5, <1>6, <1>7, <1>8, <1>9, <1>10, <1>11, <1>12,
     <1>13, <1>14, <1>15, <1>16, <1>17, <1>18 DEF Step

\* The invariant holds in every state of the two routes.
LEMMA SpecIInv == Spec => []IInv
<1>1. IInv /\ [Next]_vars => IInv'
  <2> SUFFICES ASSUME IInv, [Next]_vars PROVE IInv'
    OBVIOUS
  <2>1. CASE \E r \in Requests : Step(r) \/ HangUp(r) \/ Again(r) BY <2>1, StepIInv
  <2>2. CASE UNCHANGED vars
    BY <2>2 DEF vars, shared, IInv, TypeOK, HoldsWhileForwarding, Unreported,
       WaitsLeft
  <2> QED BY <2>1, <2>2 DEF Next, AllOver
<1> QED BY InitIInv, <1>1, PTL DEF Spec

\* Every variable of the forwarding routes keeps its type: in particular no
\* request waits for readiness more often than its budget allows (main.py:703).
THEOREM ForwardTypes == Spec => []TypeOK
BY SpecIInv, PTL DEF IInv

\* A forward holds its claim, and its one client, exactly as long as it runs, at
\* whatever await its client hangs up or its provider fails (main.py:505-519 and
\* 649-782).
THEOREM ForwardHolds == Spec => []HoldsWhileForwarding
BY SpecIInv, PTL DEF IInv

-------------------------------------------------------------------------------
\* The requests that gave up are finitely many, and none is forgotten.
LEMMA GivenUpGrows ==
  ASSUME IInv, NEW r \in Requests, Step(r) \/ HangUp(r) \/ Again(r)
  PROVE  /\ IsFiniteSet(GivenUp) /\ IsFiniteSet(GivenUp')
         /\ Cardinality(GivenUp) \in Nat
         /\ Cardinality(GivenUp) <= Cardinality(GivenUp')
<1>1. GivenUp \subseteq Requests /\ GivenUp' \subseteq Requests
  BY DEF GivenUp
<1>2. IsFiniteSet(GivenUp) /\ IsFiniteSet(GivenUp')
  BY <1>1, FS_Subset, ForwardAssumption
<1>3. GivenUp \subseteq GivenUp'
  <2> USE DEF IInv, TypeOK, Unreported, GivenUp, Trying, Goto, Tell
  <2>1. CASE outcome' = outcome BY <2>1
  <2>2. CASE outcome' # outcome
    <3>1. outcome[r] \notin {"model_not_ready", "provider_start_failed"}
      BY <2>2 DEF Step, HangUp, Granted, Refused, Accepted, Fails,
         FailureCounted, Retry, StillLoading, WaitReady, SeemsReady, NeverReady,
         Verdict, VerdictRead, Ends, RelayBreaks, Unwound, Posted, Again
    <3>2. \A q \in Requests \ {r} : outcome'[q] = outcome[q]
      BY <2>2 DEF Step, HangUp, Granted, Refused, Accepted, Fails,
         FailureCounted, Retry, StillLoading, WaitReady, SeemsReady, NeverReady,
         Verdict, VerdictRead, Ends, RelayBreaks, Unwound, Posted, Again
    <3> QED BY <3>1, <3>2
  <2> QED BY <2>1, <2>2
<1> QED BY <1>2, <1>3, FS_Subset, FS_CardinalityType

\* A request gives up once, and is then one more of those that have.
LEMMA GiveUpAdds ==
  ASSUME IInv, NEW r \in Requests, pc[r] \in Trying,
         outcome' = [outcome EXCEPT ![r] = "model_not_ready"]
         \/ outcome' = [outcome EXCEPT ![r] = "provider_start_failed"]
  PROVE  Cardinality(GivenUp') = Cardinality(GivenUp) + 1
<1>1. IsFiniteSet(GivenUp)
  BY FS_Subset, ForwardAssumption DEF GivenUp
<1>2. outcome[r] = "none"
  BY DEF IInv, Unreported
<1>3. r \notin GivenUp /\ GivenUp' = GivenUp \cup {r}
  BY <1>2 DEF GivenUp, IInv, TypeOK
<1> QED BY <1>1, <1>3, FS_AddElement

\* Without a request that goes on past the limit, the shared counter can exceed
\* it only by the number of those that stopped.
LEMMA StepBounded ==
  ASSUME IInv, CounterBounded, NEW r \in Requests, Step(r) \/ HangUp(r) \/ Again(r)
  PROVE  CounterBounded'
<1> DEFINE G == Cardinality(GivenUp)
           G1 == Cardinality(GivenUp)'
<1>1. G \in Nat /\ G1 \in Nat /\ G <= G1
  BY GivenUpGrows, FS_CardinalityType
<1>2. Attempts \in Nat \ {0} /\ failures \in Nat /\ failures <= Attempts - 1 + G
  BY ForwardAssumption DEF IInv, TypeOK, CounterBounded
<1>3. CASE failures' = failures
  <2> HIDE DEF G, G1
  <2>1. failures' <= Attempts - 1 + G1
    BY <1>1, <1>2, <1>3
  <2> QED BY <2>1 DEF CounterBounded, G1
<1>4. CASE Accepted(r)
  <2>1. failures' = 0
    BY <1>4 DEF Accepted
  <2> HIDE DEF G, G1
  <2>2. failures' <= Attempts - 1 + G1
    BY <1>1, <1>2, <2>1
  <2> QED BY <2>2 DEF CounterBounded, G1
<1>5. CASE FailureCounted(r) /\ ~ Exhausted(failures')
  <2>1. failures' = failures + 1 /\ failures' < Attempts
    BY <1>2, <1>5 DEF FailureCounted, Exhausted
  <2> HIDE DEF G, G1
  <2>2. failures' <= Attempts - 1 + G1
    BY <1>1, <1>2, <2>1
  <2> QED BY <2>2 DEF CounterBounded, G1
<1>6. CASE FailureCounted(r) /\ Exhausted(failures')
  <2>1. failures' = failures + 1 /\ pc[r] \in Trying
    BY <1>6 DEF FailureCounted, Trying
  <2>2. outcome' = [outcome EXCEPT ![r] = "model_not_ready"]
        \/ outcome' = [outcome EXCEPT ![r] = "provider_start_failed"]
    BY <1>6 DEF FailureCounted, Tell
  <2>3. G1 = G + 1
    BY <2>1, <2>2, GiveUpAdds
  <2> HIDE DEF G, G1
  <2>4. failures' <= Attempts - 1 + G1
    BY <1>1, <1>2, <2>1, <2>3
  <2> QED BY <2>4 DEF CounterBounded, G1
<1>7. failures' = failures \/ Accepted(r) \/ FailureCounted(r)
  BY DEF Step, HangUp, Granted, Refused, Fails, Retry, StillLoading, WaitReady,
     SeemsReady, NeverReady, Verdict, VerdictRead, Ends, RelayBreaks, Unwound,
     Posted, Again, shared
<1> QED BY <1>3, <1>4, <1>5, <1>6, <1>7

\* The counter that the requests of a provider share passes the limit only by
\* requests that gave up, however they interleave and reset it (main.py:429-436
\* and 738-769).
THEOREM SharedCounterBounded == Spec => []CounterBounded
<1>1. Init => CounterBounded
  <2> SUFFICES ASSUME Init PROVE CounterBounded
    OBVIOUS
  <2>1. GivenUp = {}
    BY DEF Init, GivenUp
  <2>2. Cardinality(GivenUp) = 0
    BY <2>1, FS_EmptySet
  <2> QED BY <2>2, ForwardAssumption DEF Init, CounterBounded
<1>2. IInv /\ CounterBounded /\ [Next]_vars => CounterBounded'
  <2> SUFFICES ASSUME IInv, CounterBounded, [Next]_vars PROVE CounterBounded'
    OBVIOUS
  <2>1. CASE \E r \in Requests : Step(r) \/ HangUp(r) \/ Again(r) BY <2>1, StepBounded
  <2>2. CASE UNCHANGED vars
    BY <2>2 DEF vars, shared, CounterBounded, GivenUp
  <2> QED BY <2>1, <2>2 DEF Next, AllOver
<1> QED BY SpecIInv, <1>1, <1>2, PTL DEF Spec
===============================================================================
