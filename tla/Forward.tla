-------------------------------- MODULE Forward --------------------------------
(***************************************************************************)
(* The forwarding of chat requests (main.py): once the scheduler has        *)
(* granted its model, a streaming request is sent to the provider and sent  *)
(* again while the provider seems to be starting up; a non-streaming one is *)
(* posted once.  The requests of one provider share its failure counter and *)
(* the load state of its model, and interleave at every await.              *)
(*                                                                         *)
(* What the provider answers is free, and so is how often it succeeds: a    *)
(* client that got its answer may ask again for ever.  Closing an HTTP      *)
(* client is shielded from the client's hang-up, every other await is not.  *)
(***************************************************************************)
EXTENDS Integers, FiniteSets

CONSTANTS
  Requests,
  Attempts    \* STARTUP_ATTEMPTS

ASSUME ForwardAssumption == IsFiniteSet(Requests) /\ Attempts \in Nat \ {0}

Kinds == {"lms", "ds4", "llama_cpp", "dflash-mlx"}

\* Providers YAALLB spawns: not answering means not ready.
Spawned == {"ds4", "llama_cpp", "dflash-mlx"}

\* Providers whose error statuses are verdicts on the request.
RelaysUpstreamErrors == {"lms", "ds4"}

Codes == {"model_load_failed", "model_not_ready", "provider_start_failed",
          "upstream_error"}

VARIABLES
  kind,       \* the provider's _type_id
  failures,   \* provider.startup_failures
  loadState,  \* model._load_state
  pc,         \* the await each request is at
  waits,      \* ready_retries of each request
  claims,     \* requests that hold their lease
  clients,    \* open HTTP clients of each request
  outcome     \* the SSE error each request was sent, "cut" after a relay that
              \* broke off, or "none"

shared == <<failures, loadState>>
vars == <<kind, shared, pc, waits, claims, clients, outcome>>

TypeOK ==
  /\ kind \in Kinds
  /\ failures \in Nat
  /\ loadState \in {"loading", "ready"}
  /\ pc \in [Requests -> {"acquire", "send", "failed", "sleep", "notfound",
                          "waitready", "reading", "telling", "relay", "post",
                          "unwinding", "over"}]
  /\ waits \in [Requests -> 0 .. Attempts]
  /\ claims \subseteq Requests
  /\ clients \in [Requests -> Nat]
  /\ outcome \in [Requests -> Codes \cup {"cut", "none"}]

\* loadModel returned, so a spawned model is ready; LM Studio's is not tracked.
Init ==
  /\ kind \in Kinds
  /\ failures = 0
  /\ loadState = IF kind \in Spawned THEN "ready" ELSE "loading"
  /\ pc = [r \in Requests |-> "acquire"]
  /\ waits = [r \in Requests |-> 0]
  /\ claims = {}
  /\ clients = [r \in Requests |-> 0]
  /\ outcome = [r \in Requests |-> "none"]

-------------------------------------------------------------------------------
Goto(r, where) == pc' = [pc EXCEPT ![r] = where]

\* A new client, and the request on its way.
Send(r) ==
  /\ Goto(r, "send")
  /\ clients' = [clients EXCEPT ![r] = @ + 1]

\* _aclose_quietly: the current client is closed; twice does no harm.
Close(r) == clients' = [clients EXCEPT ![r] = IF @ > 0 THEN @ - 1 ELSE 0]

\* The generator yields an SSE error, after which it returns.
Tell(r, code) ==
  /\ Goto(r, "telling")
  /\ outcome' = [outcome EXCEPT ![r] = code]

\* Mutant: the claim goes back only with the client, on a road a hang-up cuts.
UnwindKeeping(r) == Goto(r, "unwinding") /\ UNCHANGED claims

\* The finally of the route: the claim goes back first, without an await.
Unwind(r) ==
  /\ Goto(r, "unwinding")
  /\ claims' = claims \ {r}

\* Mutant: off by one.
ExhaustedLate(n) == n > Attempts

\* The limit of both budgets, failures and readiness waits.
Exhausted(n) == n >= Attempts

\* A spawned provider that does not answer is not ready.
MarkLoading == loadState' = IF kind \in Spawned THEN "loading" ELSE loadState

\* Mutant: readiness waits are not counted.
WaitUncounted(r) == UNCHANGED waits

WaitCounted(r) == waits' = [waits EXCEPT ![r] = @ + 1]

\* The scheduler grants the model.
Granted(r) ==
  /\ pc[r] = "acquire"
  /\ claims' = claims \cup {r}
  /\ \/ Send(r)
     \/ Goto(r, "post") /\ clients' = [clients EXCEPT ![r] = 1]
  /\ UNCHANGED <<kind, shared, waits, outcome>>

\* The scheduler refuses.
Refused(r) ==
  /\ pc[r] = "acquire"
  /\ Goto(r, "over")
  /\ outcome' = [outcome EXCEPT ![r] = "model_load_failed"]
  /\ UNCHANGED <<kind, shared, waits, claims, clients>>

\* 200: the provider is up, and its answer is relayed.
Accepted(r) ==
  /\ pc[r] = "send"
  /\ Goto(r, "relay")
  /\ failures' = 0
  /\ loadState' = IF kind \in Spawned THEN "ready" ELSE loadState
  /\ UNCHANGED <<kind, waits, claims, clients, outcome>>

\* No connection; or, from a provider taken to be still starting, a status.
Fails(r) ==
  /\ pc[r] = "send"
  /\ Goto(r, "failed")
  /\ UNCHANGED <<kind, shared, waits, claims, clients, outcome>>

\* The client is closed; the failure is counted, for all requests of the
\* provider, and with too many of them the request is given up.
FailureCounted(r) ==
  /\ pc[r] = "failed"
  /\ Close(r)
  /\ MarkLoading
  /\ failures' = failures + 1
  /\ IF Exhausted(failures')
     THEN Tell(r, IF kind \in Spawned /\ loadState' # "ready"
                  THEN "model_not_ready" ELSE "provider_start_failed")
     ELSE Goto(r, "sleep") /\ UNCHANGED outcome
  /\ UNCHANGED <<kind, waits, claims>>

Retry(r) ==
  /\ pc[r] = "sleep"
  /\ Send(r)
  /\ UNCHANGED <<kind, shared, waits, claims, outcome>>

\* LM Studio's 404: the model is still loading.
StillLoading(r) ==
  /\ pc[r] = "send" /\ kind = "lms"
  /\ Goto(r, "notfound")
  /\ UNCHANGED <<kind, shared, waits, claims, clients, outcome>>

WaitReady(r) ==
  /\ pc[r] = "notfound"
  /\ Close(r)
  /\ Goto(r, "waitready")
  /\ UNCHANGED <<kind, shared, waits, claims, outcome>>

\* wait_loaded returns: send again, but not for ever.
SeemsReady(r) ==
  /\ pc[r] = "waitready"
  /\ WaitCounted(r)
  /\ IF Exhausted(waits'[r])
     THEN Tell(r, "model_not_ready") /\ UNCHANGED clients
     ELSE Send(r) /\ UNCHANGED outcome
  /\ UNCHANGED <<kind, shared, claims>>

\* wait_loaded gives up.
NeverReady(r) ==
  /\ pc[r] = "waitready"
  /\ Tell(r, "model_not_ready")
  /\ UNCHANGED <<kind, shared, waits, claims, clients>>

\* Any other status of a provider that answers only when it is up.
Verdict(r) ==
  /\ pc[r] = "send" /\ kind \in RelaysUpstreamErrors
  /\ Goto(r, "reading")
  /\ UNCHANGED <<kind, shared, waits, claims, clients, outcome>>

VerdictRead(r) ==
  /\ pc[r] = "reading"
  /\ Close(r)
  /\ Tell(r, "upstream_error")
  /\ UNCHANGED <<kind, shared, waits, claims>>

\* The event is out, or the relay has come to its end.
Ends(r) ==
  /\ pc[r] \in {"telling", "relay"}
  /\ Unwind(r)
  /\ UNCHANGED <<kind, shared, waits, clients, outcome>>

\* The provider breaks off in the middle of its answer.
RelayBreaks(r) ==
  /\ pc[r] = "relay"
  /\ Unwind(r)
  /\ outcome' = [outcome EXCEPT ![r] = "cut"]
  /\ UNCHANGED <<kind, shared, waits, clients>>

Unwound(r) ==
  /\ pc[r] = "unwinding"
  /\ Close(r)
  /\ Goto(r, "over")
  /\ UNCHANGED <<kind, shared, waits, claims, outcome>>

\* The non-streaming post returns or raises.
Posted(r) ==
  /\ pc[r] = "post"
  /\ Close(r)
  /\ claims' = claims \ {r}
  /\ Goto(r, "over")
  /\ UNCHANGED <<kind, shared, waits, outcome>>

\* The client hangs up: the await it hits raises.
HangUp(r) ==
  /\ \/ pc[r] = "acquire" /\ Goto(r, "over") /\ UNCHANGED <<claims, clients>>
     \/ pc[r] = "post" /\ Goto(r, "over") /\ Close(r) /\ claims' = claims \ {r}
     \/ /\ pc[r] \in {"send", "sleep", "waitready", "reading", "telling", "relay"}
        /\ Unwind(r)
        /\ UNCHANGED clients
  /\ UNCHANGED <<kind, shared, waits, outcome>>

\* A client that was not told an error asks again, as a new request.
Again(r) ==
  /\ pc[r] = "over" /\ outcome[r] = "none"
  /\ Goto(r, "acquire")
  /\ waits' = [waits EXCEPT ![r] = 0]
  /\ UNCHANGED <<kind, shared, claims, clients, outcome>>

-------------------------------------------------------------------------------
Step(r) ==
  \/ Granted(r) \/ Refused(r)
  \/ Accepted(r) \/ Fails(r) \/ FailureCounted(r) \/ Retry(r)
  \/ StillLoading(r) \/ WaitReady(r) \/ SeemsReady(r) \/ NeverReady(r)
  \/ Verdict(r) \/ VerdictRead(r)
  \/ Ends(r) \/ RelayBreaks(r) \/ Unwound(r)
  \/ Posted(r)

AllOver == (\A r \in Requests : pc[r] = "over") /\ UNCHANGED vars

Next == (\E r \in Requests : Step(r) \/ HangUp(r) \/ Again(r)) \/ AllOver

Spec == Init /\ [][Next]_vars

\* The scheduler answers, the provider answers every request or the
\* connection fails, its answers end, and sleeps and waits do.
FairSpec == Spec /\ \A r \in Requests : WF_vars(Step(r))

-------------------------------------------------------------------------------
\* From the grant to the end of its forward a request holds its claim, in the
\* retry sleeps and readiness waits too, and it gives it back however it ends
\* ("Always give the claim back", main.py:509-513 and 775-779); it never has two
\* clients open, and none once it is over.
HoldsWhileForwarding ==
  \A r \in Requests :
    /\ r \in claims <=> pc[r] \notin {"acquire", "unwinding", "over"}
    /\ clients[r] <= IF pc[r] \in {"acquire", "sleep", "waitready", "over"} THEN 0 ELSE 1

\* Requests that were told the provider did not come up.
GivenUp == {r \in Requests : outcome[r] \in {"model_not_ready", "provider_start_failed"}}

\* The counter the requests share passes the limit only by those that gave up
\* on it: with the limit reached, nobody tries on after a failure, whoever
\* counted the others (main.py:429-436, 747-749).
CounterBounded == failures <= Attempts - 1 + Cardinality(GivenUp)

\* Every forward comes to an end, unless others succeed again and again: each
\* success resets the counter it would give up by (main.py:671).
EveryForwardEnds ==
  \A r \in Requests :
    \/ pc[r] = "acquire" ~> pc[r] = "over"
    \/ []<>(\E q \in Requests \ {r} : pc[q] = "relay")

\* main.py:632: "Forward as an SSE stream, retrying transient failures
\* internally (bounded by STARTUP_ATTEMPTS) ...  Exhaustion becomes an SSE
\* error event."
RetriesBounded == \A r \in Requests : pc[r] = "acquire" ~> pc[r] = "over"
===============================================================================
