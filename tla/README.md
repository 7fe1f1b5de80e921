# YAALLB: a verification project

YAALLB is a server in front of several local LLM back ends. It answers the
OpenAI chat API, decides which models are loaded under a memory budget, loads
and unloads them, and forwards each request to the back end that holds its
model. This directory holds TLA+ models of its core, the TLC runs that check
them, and theorems about them that TLAPS proves.

All line numbers are of the files under `src/`; `PROJECT.json` maps every
definition to the lines it stands for.

## 1. Inventory

One process, one asyncio event loop. A task runs alone from one `await` to the
next; blocking provider calls run in worker threads meanwhile.

| Part | State | Operations | Talks to |
|---|---|---|---|
| Eviction policy (`scheduling.py:71-108`) | none | `select_evictions` | called by the coordinator |
| Lease (`scheduling.py:111-178`) | `future`, `_granted`, `_finished`, `model` | `acquire`, `release` | owned by one request task; queued in the scheduler |
| Coordinator (`scheduling.py:425-567`) | `pending`, `serving`, `resident`, `in_flight`, `_wake` | `_run`, `_serve`, `_quiesce`, `_grant`, `_reject`, `_leave` | providers, through threads; leases, through futures |
| Prune (`scheduling.py:317-423`) | `_evicting`, `last_finish` | `_prune` from `evict_idle` and `_ttl_loop` | the same `resident` and `in_flight`, beside the coordinator |
| Start (`main.py:799-862`) | none of its own | `main`: configuration, dflash cache, ds4 builds, warm-up, serve | everything, at startup |
| Lifespan (`main.py:176-205`, `scheduling.py:211-246, 518-533`) | `protected`, the tasks | `start`, `preload_on_start`, `stop`, the final unloads | coordinator, prune, providers |
| HTTP front end (`main.py:412-796`) | `startup_failures` per provider, `_load_state` per model | streaming forward with its retry loop, non-streaming forward, `/v1/models` | leases; back ends over HTTP |
| Console monitor (`main.py:134-173`) | terminal mode | ctrl+e | `evict_idle` |
| Configuration (`main.py:215-409`) | config files | loading, the budget's clamp, `sysctl` | `main` |
| LM Studio provider | descriptor cache (30 s) | load and unload by id over HTTP, `wait_loaded` | LM Studio |
| ds4, llama.cpp, dflash providers | one child process each | spawn and wait until ready; terminate | the spawned server |
| dflash VRAM cache and projection | a file under `/tmp/yaallb`, what each ref was resolved to | resolve, recall or compute, project | dflash provider |
| ds4 memory estimator | a memo of 256 entries, read and written by two threads | build the tool, run it, fall back, remember | ds4 provider |
| ds4 identity (`dwarfstar.py:209-360`, `ds4_models.py`) | what the GGUF turned out to be, the served ids | adopt, publish, strip | estimator; routing |
| Readiness gate (`abstractions/ready.py`) | deadline | poll until ready | spawned server |
| Logging, native tools, tests, packaging | none of interest | | |

What is hard here: a client may hang up at any `await` of its request; the
coordinator serves requests recursively, in the middle of making room for
another; two prune tasks unload models in threads while it looks for models to
grant; what a task read before an `await` may be stale after it; servers are
spawned, probed and terminated by several threads without a lock, and outlive a
YAALLB that is killed; footprints are memoised by two threads and cached on disk
across starts. What must hold nevertheless:

- leases: a claim lives exactly as long as its request, and no slot in the
  queue is lost, left behind or served twice;
- coordinator: every request is answered, the budget holds, and a model is
  never unloaded under a request that uses it;
- prune: neither a model in use, nor one waited for, nor a protected one is
  taken, and a dying one is not granted;
- front end: a forward holds its claim and one HTTP client until it ends, gives
  up after bounded retries, and tells its client of a failure;
- spawned servers: whatever was spawned can be terminated, a probe is answered by
  the server just spawned, and an exit leaves none behind;
- lifespan: "always" models are there from the first request on, and `stop()`
  returns;
- footprints and names: a model is priced by its own footprint, nothing is served
  unpriced, and each published id reaches its own instance;
- policy: what is evicted is enough, and no more than a single model where one
  is enough.

Not all of it does: the runs marked **violated** in section 3, and the divergences
listed there without a run, show where the code and what is said of it part; section
4 says under which conditions the rest is proved.

`PROJECT.json` lists the hazards line by line, with the properties for each.

## 2. The modules

| Module | What it is |
|---|---|
| `Eviction` | the policy as a relation: every set `select_evictions` may return for some order of the resident list |
| `EvictionLoop` | the loops of `select_evictions`, one step at a time, checked against `Eviction` |
| `Scheduler` | leases, request tasks, coordinator and prune tasks, with the providers as they affect them |
| `ModelPool` | the abstract specification: what the scheduler promises its clients |
| `EvictionProofs` | theorems about the policy and the sums it is made of |
| `EvictionLoopProofs` | the invariant of the loops and its theorems |
| `QueueLemmas` | what appending to, popping from and removing in a queue do to its elements; the least element of a set of naturals, induction on a finite set, and what the folds of the community modules compute |
| `SchedulerProofs` | the invariant of `Scheduler` and the theorems about leases and the queue |
| `PoolProofs` | the theorems about the models in memory, and the refinement of `ModelPool` |
| `Forward` | the two forwards of `main.py`, from the grant of the model to the end of the answer |
| `ForwardProofs` | the invariant of `Forward` and its theorems |
| `DflashVram` | the VRAM arithmetic of a dflash target and drafter, as operators |
| `DflashCache` | refs, snapshots, the cache file and what is read from it |
| `Ds4Estimate` | footprint memo of ds4, identity of an instance, published ids, arithmetic |
| `Startup` | composes the two: `main()` from start to serving, kills and restarts |
| `StartupProofs` | its invariants and theorems |
| `SpawnedServer` | loading, probing and unloading by several threads, with the server processes |
| `Lifespan` | extends it with the serving process: preload, requests served one inside another, evictions, prunes, `stop()`, exit, restart |
| `LifespanProofs` | its invariant and theorems |
| `MCEvictionLoop`, `MCScheduler`, `MCForward`, `MCStartup`, `MCLifespan` | instances for TLC |

Definitions marked `Mutant:` are not used by any specification. Each is one
definition as a plausible mistake would have it. Put in its place, it makes one
property of one run fail, which shows that the run can tell the difference.

### How `Scheduler` corresponds to the code

*Actors.* `RequestStep(l)` is the request task of lease `l`; `Coordinator` is the
task `_run`; `PruneStep(p)` is a prune task, `"ctrl_e"` or `"ttl"`. An action is
what its task does between two awaits, or (`PruneTeardown`, the `up'` of
`Loaded`) what a provider thread brings about. Where the coordinator continues
without an await through several actions, `coord = "running"` keeps the other
tasks out.

*Nested serves.* `stack` holds the leases whose `_serve` is active: the outermost
is the one `_run` took from the queue, and each further one was line-cut by
`_quiesce` of the one below. `pc[l]` says at which await `_serve(l)` is. Only the
last of the stack moves. A lease is in `Scheduler.serving` exactly while
`pc[l]` is not `"out"`.

*Models.* A model object is created by the serve of one lease, and is named by
that lease. So `resident` is a set of leases, `modelId[m]` is the id of model `m`,
and `Owner(m)` its provider. The list order of `resident` only breaks ties (which
of several answers first, which of equal size goes first); the model allows all.

*Providers.* `up` is what is really loaded. A single-resident provider (ds4,
llama.cpp, dflash) holds one process, so its slot is the provider; LM Studio
keeps one instance per id, so the slot is the id. An unload clears the slot of
the model, whoever loaded it last. Calls of `Flaky` providers may raise. A
provider's `unloadModel` that terminates a process does not raise.

*Hang-ups.* Cancelling a task cancels the future it awaits at once
(`Disconnect`), or is delivered in place of a result that was set already
(`DisconnectGranted`); the task unwinds in one of the next turns of the loop
(`ResumeFailed`). Its wake-up is queued the moment its future is cancelled, so of
the other tasks only those whose wake-up is queued already run before it. The
one turn that matters is the coordinator granting that same lease; `Prompt`
makes all others wait for the unwinding.

*Time.* `fresh` is the set of models that finished a request less than `ttl`
seconds ago; `Age` takes one out at any time. `DrainWait` and the polling in
`evictwait` stand for any number of sleeps.

*Over-approximation.* `PruneScanned` lets the prune resolve any of the providers
that got a resident while it was resolving others. A prune evaluates the TTL
with the set `fresh` of its selection, where the code reads the clock a moment
earlier.

*Not in it.* `submit()` and the raw `release(model)`, which no route uses;
`start`, `stop` and `preload_on_start` (see `Lifespan`); load options. Ids belong
to the first provider that lists them, as `lookup_model` decides, and do not
move.

### How `Forward` corresponds to the code

`pc[r]` is the await at which the route of request `r` is: the scheduler
(`acquire`), the provider's answer (`send`), the shielded close of a client
(`failed`, `notfound`), the two-second sleep, `wait_loaded`, the body of an error,
the yield of an error event (`telling`), the relay, and the close in the
`finally` (`unwinding`). `post` is the whole non-streaming call. All requests are
to one provider and one model, so they share `failures` (`startup_failures`) and
`loadState`; `waits[r]` is the local `ready_retries`. What the provider answers is
chosen freely among what its kind can lead to: `Accepted` is a 200, `Fails` no
connection, or a status where `_RELAYS_UPSTREAM_ERRORS` does not list the kind,
`StillLoading` LM Studio's 404, `Verdict` any other status. A hang-up is
delivered at any await but a shielded close, and after one at the next await.
The scheduler is reduced to its answer: `Scheduler` shows what a claim is worth,
`Forward` that it is held and given back. `Again` is a client that asks once more,
as a new request, unless it has been told an error: so successes, which reset the
shared counter, may come without end, and `outcome` of a request that gave up
stays for `CounterBounded` to count.

### How `Startup` corresponds to the code

`stage` is where `main()` is: `resolve`, `recall`, `write` and `dump` are
`ensure_dflash_cache`, `build` and `warm` the two ds4 calls after it, `up` is
uvicorn serving. Every way `main()` may end early is an action that goes to
`off` (`CacheFails`, `BuildFails`, `WarmRaises`), and so is `Kill`, at any stage.
Only the cache files and what the user downloaded survive; `Start` reads the
same config again or an edited one of its site. `cutShort` is a history variable:
the files a process was stopped in the middle of writing.

*dflash.* A ref is resolved once per process. A local directory has one content,
which a download replaces; a repository in the Hugging Face cache may have
several snapshots, of which `Resolve` takes any, as the set that
`scan_cache_dir` returns has no order. Weights come from the cache entry, the
target's context terms from its `config.json` at each call, as in
`_projected_from_cache`. `DflashVram` keeps integer bytes and the factor 1.15 in
hundredths; the division into MiB is left out. `CacheKey` is injective because the
hash is of the whole config.

*ds4.* `call[c]` is where thread `c` is inside `estimate()` and
`_adopt_identity`; `"loop"` is the event loop (the main thread before it), and
`"worker"` the thread that prices a model in `_serve`. The dictionary is touched
in separate actions: `CheckFull`, `Oldest`, `Drop`, `Put`. `DropGone` is the
exception of the slower of two threads that drop one entry. What ds4 prints is
the constant `Measured`, and the estimator may fail at any call. The context term
of the fallback is a slope times the context; footprints are compared as
`EstimateMib` computes them. An id is a sequence of name parts, so that a prefix
is put in front of it by concatenation. Two instances of a site may have the same
tree.

### How `SpawnedServer` and `Lifespan` correspond to the code

*Servers.* A server is a pair of its model and a number. It is `booting` from
`Popen`, `up` once it has bound its port (which fails while another is up on it),
and `gone` when it has exited or was signalled and waited for. `handle[m]` is the
provider's `_process`. `load` is the thread inside `loadModel`: `probe` is the
loop of `wait_server_ready`, which any server up on the port answers; `cleanup`
is the `unloadModel` its callers run before they raise. `unloading[t]` is the
thread `t` inside `unloadModel`, with the process it took from the handle at
entry: `"loop"` for evictions and the exit, which run on the event loop,
`"loader"`, and one for each prune. Nothing keeps two of them from unloading one
model.

*Lifespan.* `stage` is where `lifespan()` is: `preload`, `up`, `stop`, `unload`
and then `exited`; `failing` and `failed` when a preload fails; `died` when
`stop()` raises. While the loop itself unloads, or is between the candidates of a
prune or between the drain check and the load (`~LoopFree`), no other task of it
runs, and the threads and servers do.

*Requests.* `req[r].pc` is the await of `_serve` at which request `r` is, and
`stack` the serves that are active, as in `Scheduler`: `LineCut` begins one inside
another, to any depth. `ChooseVictims` fixes the victims before `_quiesce`; after it
`Evicted` unloads them and loads, and looks neither at the budget nor at what is
resident again. A request that hangs up while it is served is marked `left`: the
serve goes on, and its answer goes to nobody. An object is a model and a number, so
the object a nested serve loads differs from the one the outer serve is about to.
Each spawned provider has one id here, and a single-resident one answers any id
(`ResidentFor`), as `_targets` asks with the victim's provider. Two things are left
to `Scheduler`: the order of the queue, which is free here, and the second
`release()` of a lease whose grant was taken back (run `theft`), as claims are
counted exactly here.

*Prunes and exit.* `PruneScan` chooses the candidates, and `PruneNext` and
`PruneSkip` look at each again (`Busy`) when its turn comes. `PruneRaises` ends its
task, and `Stop` meets the exception of the TTL task. `Stop` cancels the
coordinator, and with it the requests being served, but not the thread that loads
for one.

`Die` is a kill in any stage or the end of the process. The next process starts
with empty books beside the servers that are left; `ours` are those of the
current one.

### The abstract specification

`ModelPool` has no queue, coordinator or threads: requests are waiting, using
their model, or over; a model comes into the pool only if it fits and leaves it
only while no request uses it. `Scheduler!ImplementsPool` instantiates it with a
refinement mapping: a lease uses its model from the grant until its release
(`Stage`), and the pool is the set of ids of the resident models. TLC checks it
as a property of `realloc`. It holds for LM Studio ids, clients that stay, and
no prune; each of these restrictions is needed (`theft` and `cutoff` of section 3, and
the over-commitment described after them), and `PoolProofs` proves it under them.

## 3. The runs

Sizes are 2, 3 and 4 MiB for ids `a`, `b`, `c`; `d` is served by nobody. Requests
are interchangeable, so `realloc` and `prune` use their symmetry; `hostile` has a
liveness property and does not.

| Run | Instance | Shows |
|---|---|---|
| `eviction` | 3 models of 0..4 MiB, all list orders, shortfalls 1..8 | the loops return exactly what the relation allows, cover the shortfall, raise only if all models together would not cover it, and never give up more than the smallest sufficient model; a sufficient single model implies the greedy loop succeeded, so lines 101-102 are dead code |
| `realloc` | 4 requests, LM Studio, budget 5 | claims are counted, budget and instances respected, no generation cut; refinement of `ModelPool` |
| `prune` | 4 requests, LM Studio and a ds4 with two ids, budget 9, TTL prune | the prune spares models in use and named; a dying model is not granted; the books agree with the providers |
| `hostile` | 3 requests for two served ids, one request of which may hang up, LM Studio failing, ds4, budget 4, the ds4 model protected, TTL prune, fairness | no claim leaks, no request is lost, no stale lease is queued, protected models stay, every request is answered |
| `forward` | 3 requests that may hang up and ask again, one provider of any kind, a retry budget of 2, fairness | claims and HTTP clients live as long as their forward; the shared counter stops everyone at its limit; a forward ends unless others succeed again and again |
| `startup` | five installations, two threads, a memo of one entry, two contexts, two versions of each download | the memo stays bounded and prices each instance by its own footprint; names and ids are right once ds4 has named the instances; a recalled footprint is the projection; only a process stopped while writing leaves a torn file; nothing is served unpriced |
| `life` | a spawned server and two LM Studio models, five installations (three where on_start models and requests evict and nothing is pruned, two where everything fits and a prune runs), 2 requests, crashes, kills and restarts, fairness | no server is orphaned, none already unloaded answers a probe, only a load cut off outlives the exit, the plan is resident, `stop()` returns; the requests being served are those of the stack |
| `theft` | 2 requests that may hang up | **violated**: `HeldIsCounted` |
| `cutoff` | 3 requests, LM Studio, TTL prune, budget 5 | **violated**: `GenerationNeverCut` |
| `exit` | 1 request, two spawned servers, a plan, a TTL prune, budget 3 | **violated**: `UnloadsEveryResident` |
| `retries` | 2 requests, otherwise as `forward` | **violated**: `RetriesBounded` |
| `orphan` | 2 requests, two spawned servers that exclude each other, no prune | **violated**: `OnlyCutLoadsOutlive` |

*Why these bounds.* The budget 5 holds `a` and `b` together but `c` only alone, so
one load evicts two models and another load one; 4 makes every load of a
different id evict; 9 fits all, so that only the prune removes models. Three
requests are a load, an eviction of its model and a request for the victim
behind it; a fourth makes two claims on a model, or a nested line-cut within a
line-cut, possible. Each request makes one pass, since the code creates a
lease per request. In `forward`, two failures are the limit of the counter and
three requests are one that fails, one that takes the counter over the limit and
one whose success, repeated at will, resets it between them (`STARTUP_ATTEMPTS`
is 10 in the code; what the properties say depends on the limit being reached, not
on its size, and the safety ones are proved for any).

In `startup` a memo of one entry and two threads is the smallest instance with a
full memo and two threads in `_cache_put` at once; the limit and the threads
are arbitrary in the proofs. The sites are: an edited config with one dflash
target and two drafters, both refs downloaded again and deleted; a ds4 tree for
every context beside one that is not built; two instances of one tree and of
different families; one configured for another family than its GGUF; and a
prefixed instance built for the CPU beside a dflash one.

*The lifespan's runs.* Sizes are 2 for `a` and `b` and 1 for `r`, so under the budget 3
`a` and `b` exclude each other and `r` fits beside either; 5 fits all. Of `a`, which
is spawned, two servers may exist at a time (`MaxAtOnce`): one going while its
successor boots, or one left by a killed process. `MaxObjects` is the number of
objects of a model that are referred to at a time; at the values of the runs `New` is
never empty when a load ends, so the bound prevents nothing. The plans of `life` are
an "always" LM Studio model with a spawned one beside it; a "once" model before an
"always" one that evicts it; two "always" models that do not fit, which fails the
start; the first once more with a TTL sweep; and two "always" ones with a terminal. Two
requests are one being served and one that holds a claim, waits, or is line-cut,
which is a serve within a serve. The installations are of the two kinds of the theorems in
section 4, `Careful`, and `orphan` is the smallest that is of neither.

*Fairness* (`hostile`). The coordinator, each request's wake-up and each prune's
continuation are weakly fair: the event loop runs ready tasks and provider calls
return. A response ends (`Finish` is fair): the upstream finishes or the client
leaves. No fairness is assumed for new requests, hang-ups, failures, ageing, or
the start of a prune. The HTTP clients of the front end have no timeout, so the
assumption that every response ends is the back end's to keep. In `forward` the
same assumption is made of every await of a request's task: the scheduler
answers (as `hostile` shows), the provider answers or the connection fails, and
sleeps and waits end; never that the provider comes up, or that a client leaves.
The relay is among these awaits, so a generation ends. Nothing is assumed of
`Again`: `EveryForwardEnds` excepts the behaviours in which others succeed
infinitely often, and `retries` shows one.
In `life`, what the event loop does by itself is fair (`Loop`): the unloads it is in
the middle of (a signalled process that is waited for ends, by SIGKILL at last), the
next candidate of a prune and the next look of `_quiesce`; and the clock
(`Deadline`), and `Stop`. Loads, requests, prunes and servers
have no fairness, so `StopReturns` says that `stop()` returns however long a load
takes.

### What the violated runs show

- `theft`. One request holds a resident model. A second one asks for it, and its
  client hangs up while the coordinator looks the model up. The lookup returns
  before that client's task has had its turn: `_grant` takes the claim straight
  back, since the future is cancelled, but leaves the lease granted and
  unfinished. Then the task unwinds, and its `release()` gives back a claim again:
  the first request's, which is still generating. Its model now looks idle to
  every eviction path.
- `cutoff`. Reallocation chooses a model that a prune is unloading. A queued
  request for it is line-cut, waits for the prune and loads it again. The outer
  serve drains and unloads the old model object, by id: it takes the new
  instance down under the request that has just been granted it.
- `exit`. A TTL prune asks LM Studio to unload a model and gets an error. The
  exception ends the TTL task. At exit `stop()` awaits that task and gets the
  exception again, which it does not catch; `lifespan()` ends there, its loop of
  unloads never runs, and the spawned servers of the resident models live on.
- `retries`. One client's requests succeed, again and again, and each success
  resets the provider's counter (`main.py:671`) before another forward, which
  fails every time, reaches the limit; that one is retried for ever. The comment
  at `main.py:632-634` calls the retries bounded by `STARTUP_ATTEMPTS`.
- `orphan`. `b` is resident, and two requests ask for `a`; each model has a spawned
  server and they exclude each other. The serve of the first chooses `b` and calls
  `_quiesce`, where `_targets` finds that the second request would be answered by
  `b`'s provider; so it is served first, evicts `b`, spawns a server for `a` and gets
  it. The outer serve goes on where it was: it unloads `b` once more, and loads `a`
  without looking whether it is there. `Popen` goes over `_process`, the first
  server answers the probe of the second, and after the exit it is still there.
More divergences have no run of their own:

- A request of another provider is served into room made for somebody else. The
  coordinator evicts a ds4 model. `_targets` asks whether a queued request would be
  answered by the victim, but with the victim's provider, not the request's
  (`scheduling.py:537`); a single-resident provider answers any id, so a request for
  an LM Studio model is line-cut and loads, and the outer load goes on with a
  shortfall computed before, against `README.md:144-145`.
- A prune and an eviction unload one model at once. `evictable` does not exclude
  `_evicting` (`scheduling.py:481-484`). The loop waits for the process and forgets
  it, and the model is loaded again; then the prune's thread, which waited for the
  same process, sets `_process` to `None` over the new server
  (`dwarfstar.py:571`), which nobody can terminate any more.
- Two providers on one port: ds4 and dflash both default to 8000 (`dwarfstar.py:38`,
  `dflash.py:18`). The second server cannot bind, the first one answers its probe, and
  `loadModel` returns for a model that is not there, against
  `abstractions/ready.py:3-5` (`ReadyMeansLoaded`).
- YAALLB is killed and started again. The server it left holds the port and answers
  for the one just spawned (`abstractions/ready.py:31`).
- A prune resolves which ids a ds4 server answers only if some request waits when it
  begins (`scheduling.py:346-353, 384`), so a request for the server's other id that
  arrives later does not save it, against `README.md:185-189`.
- A provider that breaks off after its 200 ends the client's stream without the error
  event that `README.md:236-238` promises (`main.py:771-773`).

## 4. What is proved

`SchedulerProofs` proves, for every set of requests (finite), ids, providers,
sizes, budget, protected ids, prune tasks, impatient clients and failing
providers that satisfy the named assumptions of `Scheduler`:

| Theorem | Says |
|---|---|
| `TypeCorrect` | `Spec => []TypeOK` |
| `QueueHoldsLiveLeases` | `Spec => []QueuedAreLive` |
| `NoRequestIsLost` | `Spec => []NoLostRequest` |
| `NoClaimLeaks` | `Spec => []NoLeakedClaim` |
| `ProtectedAreKept` | `Spec => ProtectedStay` |

*The inductive invariant.* None of these is inductive. `Inv` adds to `TypeOK` the
life of a lease: one in the queue is there once and untouched (`QueueLive`,
`QueueOnce`); one being served has been asked for and not granted, and past the
lookup its id has a provider (`ServesLive`); finished is done, a grant names a
model and a result needs a grant (`LeaseLife`); a waiting request is queued or
served (`WaitingPlaced`). `QueueOnce` is what makes `list.remove` and `list.pop(i)`
take a lease out for good; `ServesLive` is what makes a second grant impossible.

*Claims.* On top of `Inv`, `NoLeakedClaim` is inductive: a grant adds a lease that
was not granted before to the claimants of its model, and at most one to
`in_flight`; a release takes at most one from each. The converse,
`HeldIsCounted`, is what `theft` refutes.

*Protection.* `ProtectInv` says that whatever was chosen to go, as a victim or a
prune candidate, is acquired and unprotected. It lasts because a lease keeps its
id, and it begins with `ChoicesAmongCandidates`: the policy returns a part of
what it is given.

`EvictionProofs` and `EvictionLoopProofs` prove, for any finite set of models, any
sizes and any shortfall above 0:

| Theorem | Says |
|---|---|
| `GreedySumsAgree` | the order of the resident list does not change how much the greedy loop frees |
| `ChoicesCover` | whatever the policy may choose is enough |
| `RaisesExactlyIfHopeless` | it has a choice unless all models together are not enough |
| `LoopTypes` | `EvictionLoop!Spec => []TypeOK` |
| `LoopsMakeAChoice` | `Spec => []ReturnsAChoice` |
| `EvictionFreesEnough` | `Spec => []FreesEnough` |
| `RaisesOnlyWhenHopeless` | `Spec => []RaisesOnlyIfHopeless` |
| `NoSingleIsBetter` | `Spec => []NeverBeatenBySingle` |
| `SingleIsNeverLastResort` | `Spec => []GreedyCoversSingle` |

*Sums.* `Held` is a fold of the community modules, a function defined by recursion
over the subsets of a set. The library's induction theorems take a predicate as an
operator, which the provers cannot instantiate; so the induction is stated for a
set of sets (`SetInduction` of `QueueLemmas`, from the least element of a set of
numbers), and
`SumExists` shows with it that the recursion defines a function at all. The rest
are its consequences: a sum splits in two, does not depend on names, and is
monotone.

*The loops' invariant* (`LoopInv`). The scan has the smallest of the sufficient
models among those it has passed (`SingleBest`); the greedy loop has taken models no
larger than any it left, which fell short before its last one, and `total` is
what they hold (`Greedy`); and a later loop finds the earlier one complete
(`Order`).

`PoolProofs` proves what `Scheduler` says about the models in memory. None of it
holds of every configuration: the runs `theft` and `cutoff`, and the over-commitment
above, are the counterexamples. So a theorem names its configurations, by conditions on the
constants: `NoneSingle` (each id has an instance of its own: LM Studio alone),
`AllFit` (the budget takes a model of every id at once, so nothing is evicted for
room), `OnePruner` (ctrl+e or the TTL sweep, not both), `Pruners = {}`,
`Impatient = {}` (no client hangs up while it waits), and `Flaky = {}` (no
provider call raises). The rest is arbitrary: requests, ids, sizes, budget,
protected ids, and what is not named.

| Theorem | Says | Where |
|---|---|---|
| `HeldModelsAreCounted` | `Spec => []HeldIsCounted` | `Impatient = {}` |
| `OneModelPerSlot` | `Spec => []OneResidentPerSlot` | `NoneSingle` or `AllFit` |
| `DyingIsNotGranted` | `Spec => NoGrantWhileDying` | `NoneSingle` or `AllFit` |
| `NamedAreSpared` | `Spec => PruneSparesNamed` | `AllFit` and `OnePruner` |
| `BudgetIsKept` | `Spec => []BudgetRespected` | `AllFit`; or `NoneSingle` and `Pruners = {}` |
| `BooksAgree` | `Spec => []ResidentIsUp` | `AllFit` and `OnePruner`; or `NoneSingle`, `Pruners = {}` and `Flaky = {}` |
| `GenerationsAreNeverCut` | `Spec => []GenerationNeverCut` | as `BooksAgree`, and `Impatient = {}` |
| `SchedulerImplementsPool` | `Spec => ImplementsPool` | `NoneSingle`, `Pruners = {}` and `Impatient = {}` |

*Why these.* Without `Impatient = {}` a claim can be given back twice (`theft`).
Where a server answers several ids and models must go for room, a request of
another provider can be line-cut and load meanwhile; `NoneSingle`
and `AllFit` each exclude it. Where a prune runs beside a reallocation, both may
unload one model (`cutoff`); `Pruners = {}` and `AllFit` each exclude that. Two
prunes at once may choose the same model, hence `OnePruner`. An unload that raises
half way leaves models in `resident` that are gone, hence `Flaky = {}` for
`BooksAgree` where models are evicted.

*The invariants*, on top of `Inv` of `SchedulerProofs`:

- `StackInv`: each serve is on the stack once, and all but the innermost wait in
  `_quiesce`;
- `MadeInv`: what is resident, dying or a candidate was made for a lease that has
  been granted it, so its id and its slot do not change any more;
- `PatientInv` and `ClaimsCounted`: a served request is waiting for its answer,
  and `in_flight` is the number of its leases, exactly;
- `SlotInv`: a serve past its lookup has its slot to itself; while it waits to
  evict, what is line-cut goes to other slots; and a dying model is the only one of
  its slot, so the wait for it ends with nothing there or with a new model;
- `TeardownInv`: what a prune is unloading is resident and marked, what is marked
  is being unloaded, and its candidates are resident and up;
- `RoomInv`: what is line-cut finds its model resident, so nothing is loaded
  meanwhile, and without its victims the load still fits;
- `HolderInv`: what a request holds is resident and not dying, since every step
  that drops a model looks at `in_flight` first;
- `AnswerInv`: a grant answers the request, with a model of the id it asked for.

*The refinement.* Each step is followed to ModelPool: `Acquire` asks, `Found` and
`Loaded` admit, whatever rejects turns away, `Finish` leaves, `EvictAndLoad`
unloads the ids of the victims, and all else changes nothing it sees. The
eviction is the hard one: were one of its ids in use, `AnswerInv` and `HolderInv`
would give a lease that holds the very victim, and `ClaimsCounted` would make the
victim busy. `Loaded` needs `RoomInv` of the next state.

`ForwardProofs` proves, for any finite set of requests and any retry budget:

| Theorem | Says |
|---|---|
| `ForwardTypes` | `Spec => []TypeOK` |
| `ForwardHolds` | `Spec => []HoldsWhileForwarding` |
| `SharedCounterBounded` | `Spec => []CounterBounded` |

*The forward's invariant.* `IInv` adds that a request still being tried has been
sent no error (`Unreported`) and has readiness waits left (`WaitsLeft`).
`HoldsWhileForwarding` names the awaits at which no client is open, which is what
bounds the clients by one when the loop makes another. `SharedCounterBounded`
counts: past the limit the counter goes up only in a step that adds its request
to `GivenUp`, and by `Unreported` that request was not in it.

`StartupProofs` proves, for any instances, contexts, threads (finitely many),
limit, configs and installations:

| Theorem | Says | Assuming |
|---|---|---|
| `MemoStaysBounded` | `Spec => []MemoBounded` | |
| `EveryPriceIsItsOwn` | `Spec => []PricesItsOwn` | `FootprintsByKey`: instances with one signature measure alike and have the same bytes on disk |
| `OnlyCutShortFilesAreTorn` | `Spec => []TornOnlyWhenCutShort` | a dictionary is not an unreadable file (`TornIsNoDict`), no more is no file |
| `UpstreamUndoesPublish` | `Upstream(p, Publish(p, id)) = id` | |
| `StartupTypes` | `Spec => []TypeOK` | |
| `InstancesTakeTheirNames` | `Spec => []NamedAfterGguf` | `IdentityByGguf`: one GGUF in one tree has one family and one list of aliases, at every context |
| `IdsReachTheirInstances` | `Spec => []EachIdReachesItsInstance` | the same; no two instances of a config publish one id (`DistinctIds`); prefixes and ids are sequences (`IdsAreSequences`) |
| `FootprintsAreTheirOwn` | `Spec => []RecallAgrees` | instances of a config that share an alias share their models (`DistinctAliases`) |
| `PricedBeforeServing` | `Spec => ServesOnlyPriced` | |

The instance of `startup` satisfies `IdentityByGguf`, `DistinctIds` and
`DistinctAliases`. Without the last two the theorems are false: of two instances
that publish one id `lookup_model` takes the first, and of two entries under one
alias the cache keeps the later.

*The memo's invariant.* The length counts together with the threads that have
found room and not yet used it: `Len(memo)` plus the callers at `put` is at most
`Limit` + |`Callers`| - 1. A thread comes to `put` either from a check that saw
fewer than `Limit` entries, or by dropping one. For the prices, every entry of the
memo and every result a thread holds is one that its key allows. That is the
place of `FootprintsByKey`, which is what leaving the file contents out of the
signature costs.

*The cache file's invariant.* What is about to be dumped is a dictionary, and
between the opening and the dump the file of the current config is the torn one.

*The types and the lists* (`TypeInv`). A caller that is inside `estimate()` has an
instance and a context, and from the estimator on a footprint (`CallsFilled`).
Before `up`, only the main thread is inside, and for the head of `todo` (`InTurn`);
that is what makes `Tail(todo)` defined when its call returns. `WarmList` and `Roots`
are folds over the instances of a config: `FoldExists` of `QueueLemmas` shows that
the recursion behind a fold defines a function, and `SetInduction` then gives what
is in the list (`WarmListType`, `RootsCover`).

*Names* (`NamesInv`). `NamedAfterGguf` looks at one moment, the answer; what lasts is
three facts. An entry of the memo says nothing or what ds4 says of every instance
that has its key (`MemoSaysRight`), which needs `IdentityByGguf`, as an instance may
hit what another one put there. A caller about to set ids holds an answer from ds4,
and its instance is adopted (`CallsSayRight`). And an adopted instance has ds4's ids,
unless its profile contradicts them or a caller is about to set them (`IdsRight`).
The second thread that finds an instance adopted sets nothing, so the third fact
must not depend on who set them. `AdoptedIsKnown` turns it into an equation,
`ServedIds(i) = KnownIds(i, ctx)`, and `DistinctIds` speaks of its right side.

*Recalled footprints* (`RecallInv`). Every whole file, of every config, and the dict
once `main()` has it hold for an alias the terms of some versions of that instance's
models (`EntriesRight`); after `resolve` every ref has been resolved to a version
there has been (`ResolvedRight`). Versions only grow, so neither is lost to a
download. It rests on the key being the whole config.

*Nothing served unpriced* (`PriceInv`). A tree is on the list or linked. A context to
warm is on the list or memoised; nothing else is memoised, so as long as the keys
fit, the main thread always finds room for the one it is about to add and never
drops another (`OwnMemoised`, `RoomForMissing`).

`LifespanProofs` proves, for any models, servers, ports, sizes, clients,
installations and budget:

| Theorem | Says | Assuming |
|---|---|---|
| `LifespanTypes` | `Spec => []TypeOK` | |
| `AlwaysModelsAreResident` | `Spec => []StartedAsPlanned` | an "always" entry is the first of its model in the plan (`AlwaysComesFirst`) |
| `NoServerIsOrphaned` | `Spec => []NoOrphan` | `Careful` |
| `ExitLeavesOnlyCutLoads` | `Spec => []OnlyCutLoadsOutlive` | `Careful` |
| `ReadyIsOfTheModel` | `Spec => []ReadyMeansLoaded` | no two spawned models share a port |
| `OnlyTheOwnServerAnswers` | `Spec => []OwnAnswers` | `Careful`, and no two spawned models share a port |

`Careful` says of each installation that it is one of two kinds. `Roomy`: all models
fit the budget together and there is one prune at most, so nothing is evicted and no
two threads unload one model. `Plain`: nothing is pruned and one model at most has a
spawned server; there evictions, line-cuts and nested serves happen. `orphan` is an
installation with two spawned servers that evict each other, and a prune beside
evictions may unload a model twice at once; both break the properties, so neither
condition can be dropped. Nor can the one on ports; and a server of an earlier
process, which `OwnAnswers` allows, may always answer.

*The stack's invariants* (`TypeOK`, `ServeInv`). `stack` lists the requests being
served, each once, and each names its model; all but the innermost are in
`_quiesce`, and a load in progress is the innermost's.

*The servers' invariant* (`IInv`). A model is `Settled` when its handle holds no
running server of this process. A load overwrites the handle, and it may begin for
any model the serve found missing; so every road by which a model stops being
resident must settle it first, and none may load it meanwhile. That is `Apart`: what
is neither resident, loading, nor being unloaded is settled (`Owned`); an unload in
progress has the handle's process in hand or nothing is left to do (`Unloads`); the
loading thread unloads its own model only (`LoaderApart`). What the loop is done
with is settled, and no prune unloads it (`LoopUnloads`). `Calm` is where the two
kinds of installation enter. In a `Roomy` one no serve ever chooses victims, so it
is the only one and what it found missing stays missing. In a `Plain` one no prune
is ever busy, and a request for the spawned model is line-cut only while that model
is a victim: it finds it resident and gets it at once. So only the outermost serve
ever loads it, and nobody has loaded it meanwhile.

*The plan's invariant* (`PlanInv`). The entries are served in their order
(`PlanInTurn`), and a protected model is never given up by an eviction, a prune or the
line-cut (`ProtectedKept`). The hypothesis is needed. With the plan "a once, b once, a always" and a
ttl sweep, the sweep may still be unloading `a` when `b` evicts it and the third entry
loads it again as protected; the end of the sweep then drops it from `resident`.

Of the installation, `StartedAsPlanned` asks nothing else: prunes, evictions and
nested serves may all meet there.

*Left to TLC.* Liveness (`Answered`, `EveryForwardEnds`, `StopReturns`) is out of the
prover's reach, and so are the counterexamples of the violated runs. Every other
property of a passing run is proved, within the restrictions of the tables.

## 5. Not modelled, and the plan

Not modelled: what a stale descriptor of LM Studio leads to beyond an unknown id
or a failing load; `/v1/models`, which reads state only; logging, the terminal,
parsing of configuration and of tool output, HTTP encoding, command lines; the
native estimator tools and the footprints of LM Studio and llama.cpp, which are
numbers of programs that are not in the repository. The `sysctl` write of the wired
limit has no effect on YAALLB's own state.

What could come next: runs for unloads that fail half way (the models that stay in
`resident` without being loaded) and for two prune tasks at once beside the
coordinator; and theorems for the pool's safety with spawned servers beside LM
Studio where nothing is line-cut across providers.
