-------------------------------- MODULE Lifespan ------------------------------
(***************************************************************************)
(* The life of the serving process: lifespan() starts the scheduler's tasks *)
(* and preloads the on_start models, requests come and go, stop() drains    *)
(* what is left and what is resident is unloaded.  The process may be       *)
(* killed at any moment and started again, beside the servers it left.      *)
(*                                                                         *)
(* A request is served as in Scheduler.tla, one serve inside another while  *)
(* the outer waits to evict, and what it unloads and loads are the servers  *)
(* of SpawnedServer.tla.  The queue's order is left to Scheduler: here any  *)
(* queued request may be next.                                              *)
(***************************************************************************)
EXTENDS SpawnedServer, Eviction, Sequences, SequencesExt

CONSTANTS
  Sites,        \* installations: [plan, pruners, vram], the on_start plan, a
                \* sequence of [model, protect]; which prunes there are, "ttl"
                \* if ttl > 0, "ctrl_e" if stdin is a terminal; and
                \* vram_limit_mb, 0 when not given
  Clients,      \* requests over HTTP
  Size,         \* vram_mib of each model
  Wired,        \* wired_limit_mb
  MaxObjects    \* bound: objects of each model that are in use at a time

PlanEntries == [model : Models, protect : BOOLEAN]
Pruners == {"ttl", "ctrl_e"}

ASSUME ThreadsAssumption == Threads = {"loader", "loop", "ttl", "ctrl_e"}
ASSUME SitesAssumption ==
  \A s \in Sites : s.plan \in Seq(PlanEntries) /\ s.pruners \subseteq Pruners
                   /\ s.vram \in Nat
ASSUME ClientsAssumption == "preload" \notin Clients
ASSUME SizeAssumption ==
  IsFiniteSet(Models) /\ Size \in [Models -> Nat] /\ Wired \in Nat /\ MaxObjects \in Nat

VARIABLES
  site,
  stage,     \* of the lifespan
  toPreload, \* what of the plan is left
  protected, \* model ids
  resident,  \* model objects
  req,       \* request |-> [pc, model, object, victims, left]: where it is, the
             \* id it asks for, the object it holds, what its serve evicts, and
             \* whether its client hung up meanwhile
  stack,     \* the requests being served, innermost last
  task,      \* of each pruner: "off", "on", or "dead" by an exception
  prune,     \* of each pruner: [todo, now], the candidates left and the one
             \* being unloaded
  toUnload,  \* what the loop has still to unload before it does anything else
  deadline   \* the 30 s of stop() have passed

lifeVars == <<site, stage, toPreload, protected, resident, req, stack, task,
              prune, toUnload, deadline>>
vars == <<lifeVars, serverVars>>

Requests == Clients \cup {"preload"}

\* createModel makes an object of a model anew for each load.
Objects == Models \X (1 .. MaxObjects)
NoObject == <<NoModel, 0>>
Id(o) == o[1]
ObjSize == [o \in Objects |-> Size[Id(o)]]

\* load_vram_limit: the budget is at most what the hardware allows.
Budget(s) == IF s.vram = 0 \/ s.vram > Wired THEN Wired ELSE s.vram

Idle == [pc |-> "idle", model |-> NoModel, object |-> NoObject, victims |-> {},
         left |-> FALSE]
NoPrune == [todo |-> {}, now |-> NoObject]

In(r, pcs) == req[r].pc \in pcs
AtServe == {"lookup", "dying", "missing", "quiesce", "drain", "evict", "load"}
Serving == {r \in Requests : In(r, AtServe)}

\* What some request holds, and what one is queued or served for.
InUse(o) == \E r \in Requests : In(r, {"held"}) /\ req[r].object = o
Wanted(m) ==
  \E r \in Requests : In(r, AtServe \cup {"queued"}) /\ req[r].model = m

\* _evicting: what a prune is unloading and still waits for.
Dying == {prune[t].now : t \in Pruners} \ {NoObject}

Of(m) == {o \in resident : Id(o) = m}

\* _resident_for, asked with the provider of v: a spawned server is the one
\* resident of its provider and answers every id it is asked for.
ResidentFor(v, m) ==
  IF Of(m) # {} \/ Id(v) \notin Spawned THEN Of(m) ELSE Of(Id(v))
Targets(m, V) == \E v \in V : v \in ResidentFor(v, m)

\* The coordinator, or a prune, is between two awaits.
Running == stack # << >> /\ In(Last(stack), {"quiesce", "evict"})
Visiting(t) == prune[t].now = NoObject /\ prune[t].todo # {}

\* The loop does nothing else while it unloads.
LoopFree ==
  /\ toUnload = {} /\ unloading["loop"] = NoUnload
  /\ ~Running /\ \A t \in Pruners : ~Visiting(t)

Started == stage \in {"preload", "up", "stop"}

Init ==
  /\ site \in Sites
  /\ stage = "down" /\ toPreload = << >> /\ protected = {} /\ resident = {}
  /\ req = [r \in Requests |-> Idle] /\ stack = << >>
  /\ task = [t \in Pruners |-> "off"] /\ prune = [t \in Pruners |-> NoPrune]
  /\ toUnload = {} /\ deadline = FALSE
  /\ proc = [s \in Servers |-> "gone"]
  /\ ServersFresh

----------------------------------------------------------------------------
(* Start *)

Begun(t, which) ==
  IF t = which /\ t \in site.pruners THEN "on" ELSE "off"

Start ==
  /\ stage = "down" /\ stage' = "preload"
  /\ toPreload' = site.plan
  /\ task' = [t \in Pruners |-> Begun(t, "ttl")]
  /\ UNCHANGED <<site, protected, resident, req, stack, prune, toUnload, deadline,
                 serverVars>>

Protects(entry) == IF entry.protect THEN {entry.model} ELSE {}

\* A request is queued.
Queue(r, m) == req' = [req EXCEPT ![r] = [Idle EXCEPT !.pc = "queued", !.model = m]]

\* preload_on_start, one model after the other, each through a lease.
Preload ==
  /\ stage = "preload" /\ LoopFree
  /\ toPreload # << >> /\ In("preload", {"idle"})
  /\ protected' = protected \cup Protects(Head(toPreload))
  /\ Queue("preload", Head(toPreload).model)
  /\ toPreload' = Tail(toPreload)
  /\ UNCHANGED <<site, stage, resident, stack, task, prune, toUnload, deadline,
                 serverVars>>

\* A model that cannot be loaded fails the start; what is resident goes.
PreloadFails ==
  /\ stage = "preload" /\ LoopFree /\ In("preload", {"refused"})
  /\ stage' = "failing" /\ toUnload' = resident
  /\ UNCHANGED <<site, toPreload, protected, resident, req, stack, task, prune,
                 deadline, serverVars>>

Up ==
  /\ stage = "preload" /\ LoopFree
  /\ toPreload = << >> /\ In("preload", {"idle"})
  /\ stage' = "up"
  /\ task' = [t \in Pruners |-> IF t = "ctrl_e" THEN Begun(t, t) ELSE task[t]]
  /\ UNCHANGED <<site, toPreload, protected, resident, req, stack, prune, toUnload,
                 deadline, serverVars>>

----------------------------------------------------------------------------
(* Requests *)

Ask(c) ==
  /\ stage = "up" /\ LoopFree /\ In(c, {"idle"})
  /\ \E m \in Models : Queue(c, m)
  /\ UNCHANGED <<site, stage, toPreload, protected, resident, stack, task, prune,
                 toUnload, deadline, serverVars>>

\* The request ends, or its client hangs up: a claim goes back, a queue entry
\* comes out, and what is being served is served for nobody.
Leave(r) ==
  /\ Started /\ LoopFree
  /\ In(r, {"held"}) \/ (r \in Clients /\ ~In(r, {"idle"}) /\ ~req[r].left)
  /\ req' = [req EXCEPT ![r] = IF r \in Serving THEN [@ EXCEPT !.left = TRUE] ELSE Idle]
  /\ UNCHANGED <<site, stage, toPreload, protected, resident, stack, task, prune,
                 toUnload, deadline, serverVars>>

----------------------------------------------------------------------------
(* _serve, on the coordinator's task *)

\* The innermost serve is r's, at one of pcs; it goes on when the loop is free,
\* or without giving it up.
Acts(r, pcs) == Started /\ stack # << >> /\ r = Last(stack) /\ In(r, pcs)
Turn(r, pcs) == LoopFree /\ Acts(r, pcs)

Goto(r, pc) == req' = [req EXCEPT ![r].pc = pc]

\* The serve ends: r gets object o, or is refused.  A request whose client is
\* gone has nobody to tell, and its claim goes straight back.
Answer(r, pc, o) ==
  /\ req' = [req EXCEPT ![r] =
               IF @.left THEN Idle
               ELSE [pc |-> pc, model |-> @.model, object |-> o, victims |-> {}, left |-> FALSE]]
  /\ stack' = Front(stack)
Grant(r, o) == Answer(r, "held", o)
Reject(r) == Answer(r, "refused", NoObject)

\* _run takes the next request.
Take(r) ==
  /\ Started /\ LoopFree /\ stack = << >>
  /\ In(r, {"queued"}) /\ Goto(r, "lookup")
  /\ stack' = <<r>>
  /\ UNCHANGED <<site, stage, toPreload, protected, resident, task, prune, toUnload,
                 deadline, serverVars>>

\* lookup_model returns.  While a prune is unloading the model, the serve polls
\* until it has, and looks again.
Found(r) ==
  /\ Turn(r, {"lookup"})
  /\ \E o \in Of(req[r].model) \ Dying : Grant(r, o)
  /\ UNCHANGED <<site, stage, toPreload, protected, resident, task, prune, toUnload,
                 deadline, serverVars>>

FoundDying(r) ==
  /\ Turn(r, {"lookup"})
  /\ \E o \in Of(req[r].model) \cap Dying :
       req' = [req EXCEPT ![r] = [@ EXCEPT !.pc = "dying", !.object = o]]
  /\ UNCHANGED <<site, stage, toPreload, protected, resident, stack, task, prune,
                 toUnload, deadline, serverVars>>

FoundAgain(r) ==
  /\ Turn(r, {"dying"}) /\ req[r].object \notin Dying
  /\ \E o \in Of(req[r].model) : Grant(r, o)
  /\ UNCHANGED <<site, stage, toPreload, protected, resident, task, prune, toUnload,
                 deadline, serverVars>>

\* No object of the model is resident: one is made, and measured.
Missing(r) ==
  /\ Turn(r, {"lookup"}) \/ (Turn(r, {"dying"}) /\ req[r].object \notin Dying)
  /\ Of(req[r].model) = {}
  /\ req' = [req EXCEPT ![r] = [@ EXCEPT !.pc = "missing", !.object = NoObject]]
  /\ UNCHANGED <<site, stage, toPreload, protected, resident, stack, task, prune,
                 toUnload, deadline, serverVars>>

\* The lookup or the measurement raises.
LookupRaises(r) ==
  /\ Turn(r, {"lookup", "missing"}) /\ Reject(r)
  /\ UNCHANGED <<site, stage, toPreload, protected, resident, task, prune, toUnload,
                 deadline, serverVars>>

Shortfall(m) == Size[m] - (Budget(site) - Held(ObjSize, resident))
Fits(m) == Size[m] = 0 \/ Shortfall(m) <= 0

\* Mutant: protected models are candidates.
VictimsAny(m) == EvictionChoices(ObjSize, resident, Shortfall(m))
VictimChoices(m) ==
  EvictionChoices(ObjSize, {o \in resident : Id(o) \notin protected}, Shortfall(m))

LoadNow(r) ==
  /\ Turn(r, {"missing"}) /\ Fits(req[r].model)
  /\ Goto(r, "load") /\ StartLoad(req[r].model)
  /\ UNCHANGED <<site, stage, toPreload, protected, resident, stack, task, prune,
                 toUnload, deadline>>

Hopeless(r) ==
  /\ Turn(r, {"missing"})
  /\ ~Fits(req[r].model) /\ VictimChoices(req[r].model) = {}
  /\ Reject(r)
  /\ UNCHANGED <<site, stage, toPreload, protected, resident, task, prune, toUnload,
                 deadline, serverVars>>

\* The victims, chosen here, are what the serve evicts, whatever happens until
\* then.
ChooseVictims(r) ==
  /\ Turn(r, {"missing"})
  /\ ~Fits(req[r].model)
  /\ \E V \in VictimChoices(req[r].model) :
       req' = [req EXCEPT ![r] = [@ EXCEPT !.pc = "quiesce", !.victims = V]]
  /\ UNCHANGED <<site, stage, toPreload, protected, resident, stack, task, prune,
                 toUnload, deadline, serverVars>>

\* _quiesce looks at the queue and at the claims, at once and after each sleep.
Looks(r) == Acts(r, {"quiesce"}) \/ Turn(r, {"drain"})
CutBy(r) == {q \in Requests : In(q, {"queued"}) /\ Targets(req[q].model, req[r].victims)}

\* Mutant: a request that is served ahead of the queue stays in it.
LineCutKept(r, q) ==
  /\ Looks(r) /\ q \in CutBy(r)
  /\ Goto(r, "quiesce") /\ stack' = Append(stack, q)
  /\ UNCHANGED <<site, stage, toPreload, protected, resident, task, prune, toUnload,
                 deadline, serverVars>>
LineCut(r, q) ==
  /\ Looks(r) /\ q \in CutBy(r)
  /\ req' = [req EXCEPT ![r].pc = "quiesce", ![q].pc = "lookup"]
  /\ stack' = Append(stack, q)
  /\ UNCHANGED <<site, stage, toPreload, protected, resident, task, prune, toUnload,
                 deadline, serverVars>>

DrainWait(r) ==
  /\ Acts(r, {"quiesce"}) /\ CutBy(r) = {}
  /\ \E v \in req[r].victims : InUse(v)
  /\ Goto(r, "drain")
  /\ UNCHANGED <<site, stage, toPreload, protected, resident, stack, task, prune,
                 toUnload, deadline, serverVars>>

Quiesced(r) ==
  /\ Looks(r) /\ CutBy(r) = {}
  /\ \A v \in req[r].victims : ~InUse(v)
  /\ Goto(r, "evict") /\ toUnload' = req[r].victims
  /\ UNCHANGED <<site, stage, toPreload, protected, resident, stack, task, prune,
                 deadline, serverVars>>

\* The victims are unloaded, and the load begins: nobody looks again whether it
\* fits, or whether the model has been loaded meanwhile.
Evicted(r) ==
  /\ Acts(r, {"evict"}) /\ toUnload = {} /\ unloading["loop"] = NoUnload
  /\ resident' = resident \ req[r].victims
  /\ Goto(r, "load") /\ StartLoad(req[r].model)
  /\ UNCHANGED <<site, stage, toPreload, protected, stack, task, prune, toUnload,
                 deadline>>

\* An object of m that nobody refers to.
New(m) ==
  {o \in Objects : Id(o) = m} \
     (resident \cup UNION {{req[r].object} \cup req[r].victims : r \in Requests}
               \cup UNION {{prune[t].now} \cup prune[t].todo : t \in Pruners})

\* Mutant: a model nobody waits for any more is not taken in.
LoadedForSomeone(r, o) == IF req[r].left THEN resident ELSE resident \cup {o}
Loaded(r, o) == resident \cup {o}

LoadDone(r) ==
  /\ Turn(r, {"load"}) /\ load.pc = "ok" /\ New(load.model) # {}
  /\ LET o == CHOOSE o \in New(load.model) : TRUE
     IN  resident' = Loaded(r, o) /\ Grant(r, o)
  /\ load' = NoLoad
  /\ UNCHANGED <<site, stage, toPreload, protected, task, prune, toUnload, deadline,
                 proc, ours, handle, unloading>>

LoadFails(r) ==
  /\ Turn(r, {"load"}) /\ load.pc = "failed"
  /\ load' = NoLoad /\ Reject(r)
  /\ UNCHANGED <<site, stage, toPreload, protected, resident, task, prune, toUnload,
                 deadline, proc, ours, handle, unloading>>

----------------------------------------------------------------------------
(* Unloading on the loop: for an eviction, a failed start or the shutdown *)

UnloadNext ==
  /\ unloading["loop"] = NoUnload
  /\ \E o \in toUnload : StartUnload("loop", Id(o)) /\ toUnload' = toUnload \ {o}
  /\ UNCHANGED <<site, stage, toPreload, protected, resident, req, stack, task, prune,
                 deadline>>

\* An exception ends an eviction, with its request; the others are logged.
Unloaded ==
  /\ unloading["loop"].pc \in {"done", "raised"} /\ Forget("loop")
  /\ IF unloading["loop"].pc = "raised" /\ Running
     THEN Reject(Last(stack)) /\ toUnload' = {}
     ELSE UNCHANGED <<req, stack, toUnload>>
  /\ UNCHANGED <<site, stage, toPreload, protected, resident, task, prune, deadline,
                 proc, ours, handle, load>>

Ended ==
  /\ stage \in {"failing", "unload"} /\ LoopFree
  /\ stage' = IF stage = "failing" THEN "failed" ELSE "exited"
  /\ UNCHANGED <<site, toPreload, protected, resident, req, stack, task, prune,
                 toUnload, deadline, serverVars>>

----------------------------------------------------------------------------
(* _prune, for the TTL and for ctrl+e, one model at a time off the loop *)

Busy(o) == InUse(o) \/ Wanted(Id(o))

\* The candidates, all of them for ctrl+e, are chosen once and looked at again
\* when their turn comes; the first one's comes at once.
PruneScan(t) ==
  /\ Started /\ LoopFree /\ task[t] = "on" /\ prune[t] = NoPrune
  /\ LET idle == {o \in resident : ~Busy(o) /\ Id(o) \notin protected}
     IN  \E C \in SUBSET idle :
           /\ t = "ctrl_e" => C = idle
           /\ \E o \in C : /\ prune' = [prune EXCEPT ![t] = [todo |-> C \ {o}, now |-> o]]
                           /\ StartUnload(t, Id(o))
  /\ UNCHANGED <<site, stage, toPreload, protected, resident, req, stack, task,
                 toUnload, deadline>>

PruneNext(t) ==
  /\ Started /\ Visiting(t)
  /\ \E o \in prune[t].todo :
       /\ ~Busy(o)
       /\ prune' = [prune EXCEPT ![t] = [todo |-> @.todo \ {o}, now |-> o]]
       /\ StartUnload(t, Id(o))
  /\ UNCHANGED <<site, stage, toPreload, protected, resident, req, stack, task,
                 toUnload, deadline>>

PruneSkip(t) ==
  /\ Started /\ Visiting(t)
  /\ \E o \in prune[t].todo : Busy(o) /\ prune' = [prune EXCEPT ![t].todo = @ \ {o}]
  /\ UNCHANGED <<site, stage, toPreload, protected, resident, req, stack, task,
                 toUnload, deadline, serverVars>>

PruneEnd(t) ==
  /\ Started /\ LoopFree /\ task[t] = "on" /\ unloading[t].pc = "done" /\ Forget(t)
  /\ resident' = resident \ {prune[t].now}
  /\ prune' = [prune EXCEPT ![t].now = NoObject]
  /\ UNCHANGED <<site, stage, toPreload, protected, req, stack, task, toUnload,
                 deadline, proc, ours, handle, load>>

\* The exception goes through _prune and ends the task.
PruneRaises(t) ==
  /\ Started /\ LoopFree /\ task[t] = "on" /\ unloading[t].pc = "raised" /\ Forget(t)
  /\ task' = [task EXCEPT ![t] = "dead"]
  /\ prune' = [prune EXCEPT ![t] = NoPrune]
  /\ UNCHANGED <<site, stage, toPreload, protected, resident, req, stack, toUnload,
                 deadline, proc, ours, handle, load>>

\* Nobody waits for the thread any more.
PruneDropped(t) ==
  /\ task[t] = "off" /\ unloading[t].pc \in {"done", "raised"} /\ Forget(t)
  /\ UNCHANGED <<lifeVars, proc, ours, handle, load>>

----------------------------------------------------------------------------
(* Shutdown *)

\* Cancels the pruners of P; what they have in hand goes on in its thread.
Cancel(P) ==
  /\ task' = [t \in Pruners |-> IF t \in P /\ task[t] = "on" THEN "off" ELSE task[t]]
  /\ prune' = [t \in Pruners |-> IF t \in P THEN NoPrune ELSE prune[t]]

\* uvicorn (external) comes here when no client is connected any more.  The
\* monitor is cancelled; had it died, its exception is swallowed.
Shutdown ==
  /\ stage = "up" /\ LoopFree
  /\ \A c \in Clients : In(c, {"idle"}) \/ req[c].left
  /\ stage' = "stop" /\ deadline' = FALSE
  /\ Cancel({"ctrl_e"})
  /\ UNCHANGED <<site, toPreload, protected, resident, req, stack, toUnload, serverVars>>

Deadline ==
  /\ stage = "stop" /\ ~deadline /\ deadline' = TRUE
  /\ UNCHANGED <<site, stage, toPreload, protected, resident, req, stack, task, prune,
                 toUnload, serverVars>>

Quiet == \A r \in Requests : In(r, {"idle"})
\* Mutant: stop() waits for as long as it takes.
DrainedQuietly == Quiet
Drained == Quiet \/ deadline

\* The coordinator is cancelled, in the middle of a serve too, and the TTL
\* task; the exception it died of comes out here, and the unloads are skipped.
Stop ==
  /\ stage = "stop" /\ LoopFree /\ Drained
  /\ req' = [r \in Requests |-> Idle] /\ stack' = << >>
  /\ IF task["ttl"] = "dead"
     THEN stage' = "died" /\ UNCHANGED toUnload
     ELSE stage' = "unload" /\ toUnload' = resident
  /\ Cancel(Pruners)
  /\ UNCHANGED <<site, toPreload, protected, resident, deadline, serverVars>>

\* The process ends: killed, or done.
Die ==
  /\ stage # "down" /\ stage' = "down"
  /\ toPreload' = << >> /\ protected' = {} /\ resident' = {}
  /\ req' = [r \in Requests |-> Idle] /\ stack' = << >>
  /\ task' = [t \in Pruners |-> "off"] /\ prune' = [t \in Pruners |-> NoPrune]
  /\ toUnload' = {} /\ deadline' = FALSE
  /\ ServersLeft
  /\ UNCHANGED site

----------------------------------------------------------------------------

Serve(r) ==
  \/ Found(r) \/ FoundDying(r) \/ FoundAgain(r) \/ Missing(r) \/ LookupRaises(r)
  \/ LoadNow(r) \/ Hopeless(r) \/ ChooseVictims(r)
  \/ LoadDone(r) \/ LoadFails(r)

Quiesce(r) ==
  \/ \E q \in Requests : LineCut(r, q)
  \/ DrainWait(r) \/ Quiesced(r) \/ Evicted(r)

LoopUnload ==
  \/ UnloadNext \/ Unloaded \/ Ended
  \/ UnloadStep("loop") /\ UNCHANGED lifeVars

Visit == \E t \in Pruners : PruneNext(t) \/ PruneSkip(t)

\* What the event loop does at once when it can.
Loop == LoopUnload \/ Visit \/ \E r \in Requests : Quiesce(r)

Prune == \E t \in Pruners : PruneScan(t) \/ PruneEnd(t) \/ PruneRaises(t) \/ PruneDropped(t)

Worker ==
  \/ LoadStep /\ UNCHANGED lifeVars
  \/ \E t \in Threads \ {"loop"} : UnloadStep(t) /\ UNCHANGED lifeVars

Environment == (\E s \in Servers : Listen(s) \/ Exit(s)) /\ UNCHANGED lifeVars

Next ==
  \/ Start \/ Preload \/ PreloadFails \/ Up
  \/ \E c \in Clients : Ask(c)
  \/ \E r \in Requests : Leave(r) \/ Take(r) \/ Serve(r)
  \/ Loop \/ Prune \/ Worker \/ Environment
  \/ Shutdown \/ Deadline \/ Stop \/ Die

\* The event loop goes on, and the clock; a signal that cannot be ignored.
\* Loads take as long as they take.
Fairness == WF_vars(Loop) /\ WF_vars(Deadline) /\ WF_vars(Stop)

Spec == Init /\ [][Next]_vars /\ Fairness

----------------------------------------------------------------------------
(* Properties *)

\* The requests being served are those of the stack, each once, and a request
\* that is not idle names its model.
ReqType ==
  /\ req \in [Requests -> [pc : AtServe \cup {"idle", "queued", "held", "refused"},
                           model : Models \cup {NoModel},
                           object : Objects \cup {NoObject},
                           victims : SUBSET Objects, left : BOOLEAN]]
  /\ \A r \in Requests : ~In(r, {"idle"}) => req[r].model \in Models
  /\ stack \in Seq(Requests)
  /\ \A r \in Requests : r \in Serving <=> \E i \in DOMAIN stack : stack[i] = r
  /\ \A i, j \in DOMAIN stack : stack[i] = stack[j] => i = j

LifeType ==
  /\ site \in Sites
  /\ stage \in {"down", "preload", "failing", "failed", "up", "stop", "unload",
                "exited", "died"}
  /\ toPreload \in Seq(PlanEntries)
  /\ protected \subseteq Models /\ resident \subseteq Objects
  /\ ReqType
  /\ task \in [Pruners -> {"off", "on", "dead"}]
  /\ prune \in [Pruners -> [todo : SUBSET Objects, now : Objects \cup {NoObject}]]
  /\ toUnload \subseteq Objects
  /\ deadline \in BOOLEAN

TypeOK == ServerType /\ LifeType

\* A server this process spawned can still be unloaded: it is the one its
\* provider remembers (dwarfstar.py:550: a load that fails "must not orphan the
\* spawned ds4-server").
NoOrphan == \A s \in ours : handle[s[1]] = s

\* Of the servers of this process only the one just spawned answers a readiness
\* probe: nothing it has unloaded still does (scheduling.py:446, "its process is
\* reaped before the prune moves on").
OwnAnswers ==
  load.pc = "ok" /\ load.model \in Spawned =>
    load.by = handle[load.model] \/ load.by \notin ours

\* abstractions/ready.py:3: "Both providers spawn a single-model server that
\* loads the model at launch, so a 200 from GET {endpoint}/models means the model
\* is resident and ready."
ReadyMeansLoaded ==
  load.pc = "ok" /\ load.model \in Spawned => load.by[1] = load.model

\* Once it is up, and until it unloads everything, every "always" model is
\* resident, whatever is evicted or pruned (preload_on_start,
\* scheduling.py:519).
StartedAsPlanned ==
  stage \in {"up", "stop"} =>
    \A n \in DOMAIN site.plan :
      site.plan[n].protect => Of(site.plan[n].model) # {}

\* README.md:919: "On exit (Ctrl-C/SIGTERM), YAALLB flushes queued and
\* in-flight requests, then unloads every resident model": after an orderly exit
\* the only servers left are those of a load that stop() cut off.
OnlyCutLoadsOutlive ==
  stage = "exited" /\ (\A t \in Threads : unloading[t] = NoUnload) =>
    \A s \in ours : s[1] = load.model

\* stop() ends, however long a load takes (scheduling.py:221: "so a stuck
\* upstream ... can't hang shutdown indefinitely").
StopReturns == stage = "stop" ~> stage # "stop"

\* README.md:919: "On exit (Ctrl-C/SIGTERM), YAALLB flushes queued and
\* in-flight requests, then unloads every resident model: ... ds4/llama_cpp/
\* dflash instances simply terminate their spawned server process."
UnloadsEveryResident ==
  stage \in {"exited", "died"} =>
    \A o \in resident : Id(o) \in Spawned => handle[Id(o)] \notin Alive
===============================================================================
