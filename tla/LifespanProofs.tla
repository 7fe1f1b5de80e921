----------------------------- MODULE LifespanProofs ---------------------------
(***************************************************************************)
(* What holds of Lifespan.tla for any models, sizes, ports, clients and     *)
(* plans: its types; that a plan whose "always" models come first stays     *)
(* resident; that a load is answered by a server of its model when ports    *)
(* differ; and, where nothing can orphan a server, that none is orphaned    *)
(* and none outlives an orderly exit.                                       *)
(***************************************************************************)
EXTENDS Lifespan, EvictionProofs

----------------------------------------------------------------------------
(* The stack of the requests that are being served *)

ReqRecords ==
  [pc : AtServe \cup {"idle", "queued", "held", "refused"},
   model : Models \cup {NoModel}, object : Objects \cup {NoObject},
   victims : SUBSET Objects, left : BOOLEAN]

\* Without its last element a sequence is what it was.
LEMMA FrontFacts ==
  ASSUME NEW S, NEW s \in Seq(S), s # << >>
  PROVE  /\ Front(s) \in Seq(S) /\ Len(Front(s)) = Len(s) - 1
         /\ \A i \in 1 .. Len(s) - 1 : Front(s)[i] = s[i]
<1>1. Len(s) \in Nat /\ Len(s) # 0
  OBVIOUS
<1>2. DOMAIN Front(s) = 1 .. Len(s) - 1 /\ \A i \in 1 .. Len(s) - 1 : Front(s)[i] = s[i]
  BY DEF Front
<1> QED BY <1>1, <1>2, FrontType

\* The innermost and the outermost request are being served.
LEMMA StackFacts ==
  ASSUME ReqType, stack # << >>
  PROVE  /\ Len(stack) \in Nat \ {0} /\ DOMAIN stack = 1 .. Len(stack)
         /\ Last(stack) = stack[Len(stack)]
         /\ Last(stack) \in Serving /\ stack[1] \in Serving
         /\ Last(stack) \in Requests
<1>1. /\ Len(stack) \in Nat \ {0} /\ DOMAIN stack = 1 .. Len(stack)
      /\ Last(stack) = stack[Len(stack)]
  BY DEF ReqType, Last
<1>2. stack[Len(stack)] \in Requests /\ stack[1] \in Requests
      /\ 1 \in DOMAIN stack /\ Len(stack) \in DOMAIN stack
  BY <1>1 DEF ReqType
<1> QED BY <1>1, <1>2 DEF ReqType

\* A request that goes on being served.
LEMMA MoveFacts ==
  ASSUME ReqType, NEW r \in Serving, NEW rec \in ReqRecords,
         rec.pc \in AtServe, rec.model = req[r].model,
         req' = [req EXCEPT ![r] = rec], stack' = stack
  PROVE  /\ ReqType' /\ Serving' = Serving
         /\ req'[r] = rec /\ \A q \in Requests : q # r => req'[q] = req[q]
<1>1. r \in Requests
  BY DEF Serving
<1>2. req \in [Requests -> ReqRecords]
  BY DEF ReqType, ReqRecords
<1>3. req'[r] = rec /\ \A q \in Requests : q # r => req'[q] = req[q]
  BY <1>1, <1>2
<1>4. req' \in [Requests -> ReqRecords]
  BY <1>1, <1>2
<1>5. Serving' = Serving
  BY <1>1, <1>3 DEF Serving, In
<1>6. \A q \in Requests : ~In(q, {"idle"})' => req'[q].model \in Models
  BY <1>1, <1>3 DEF ReqType, In, Serving, AtServe
<1> QED BY <1>3, <1>4, <1>5, <1>6 DEF ReqType, ReqRecords

\* The innermost serve ends, and its request is no longer served.
LEMMA AnswerFacts ==
  ASSUME ReqType, stack # << >>, NEW r, r = Last(stack),
         NEW pc \in {"held", "refused"}, NEW o \in Objects \cup {NoObject},
         Answer(r, pc, o)
  PROVE  /\ ReqType' /\ r \in Serving /\ Serving' = Serving \ {r}
         /\ \A q \in Requests : q # r => req'[q] = req[q]
         /\ req'[r] = IF req[r].left THEN Idle
                      ELSE [pc |-> pc, model |-> req[r].model, object |-> o,
                            victims |-> {}, left |-> FALSE]
         /\ stack' # << >> => stack'[1] = stack[1]
<1> DEFINE n == Len(stack)
<1>1. /\ r \in Requests /\ r \in Serving /\ n \in Nat \ {0} /\ DOMAIN stack = 1 .. n
      /\ r = stack[n]
  BY StackFacts
<1>2. req \in [Requests -> ReqRecords] /\ req[r].model \in Models
  BY <1>1 DEF ReqType, ReqRecords, Serving, In, AtServe
<1>3. /\ \A q \in Requests : q # r => req'[q] = req[q]
      /\ req'[r] = IF req[r].left THEN Idle
                   ELSE [pc |-> pc, model |-> req[r].model, object |-> o,
                         victims |-> {}, left |-> FALSE]
  BY <1>1, <1>2 DEF Answer
<1>4. Idle \in ReqRecords
  BY DEF Idle, ReqRecords
<1>5. req' \in [Requests -> ReqRecords]
  <2>1. req'[r] \in ReqRecords
    BY <1>1, <1>2, <1>3, <1>4 DEF ReqRecords
  <2> QED BY <1>2, <1>3, <2>1 DEF Answer
<1>6. ~In(r, AtServe)' /\ (In(r, {"idle"})' \/ req'[r].model \in Models)
  BY <1>2, <1>3 DEF In, AtServe, Idle
<1>7. Serving' = Serving \ {r}
  BY <1>1, <1>3, <1>6 DEF Serving, In
<1>8. /\ stack' \in Seq(Requests) /\ Len(stack') = n - 1
      /\ \A i \in 1 .. n - 1 : stack'[i] = stack[i]
  BY <1>1, FrontFacts DEF ReqType, Answer
<1>9. DOMAIN stack' = 1 .. n - 1
  BY <1>8
<1>10. \A i, j \in DOMAIN stack' : stack'[i] = stack'[j] => i = j
  <2> SUFFICES ASSUME NEW i \in DOMAIN stack', NEW j \in DOMAIN stack',
                      stack'[i] = stack'[j]
               PROVE  i = j
    OBVIOUS
  <2>1. i \in DOMAIN stack /\ j \in DOMAIN stack /\ stack[i] = stack[j]
    BY <1>1, <1>8, <1>9
  <2> QED BY <2>1 DEF ReqType
<1>11. \A q \in Requests : q \in Serving' <=> \E i \in DOMAIN stack' : stack'[i] = q
  <2> SUFFICES ASSUME NEW q \in Requests
               PROVE  q \in Serving' <=> \E i \in DOMAIN stack' : stack'[i] = q
    OBVIOUS
  <2>1. ASSUME q \in Serving' PROVE \E i \in DOMAIN stack' : stack'[i] = q
    <3>1. q \in Serving /\ q # r
      BY <1>7, <2>1
    <3>2. PICK i \in DOMAIN stack : stack[i] = q
      BY <3>1 DEF ReqType
    <3>3. i \in 1 .. n - 1
      BY <1>1, <3>1, <3>2
    <3> QED BY <1>8, <1>9, <3>2, <3>3
  <2>2. ASSUME NEW i \in DOMAIN stack', stack'[i] = q PROVE q \in Serving'
    <3>1. i \in 1 .. n - 1 /\ i \in DOMAIN stack /\ n \in DOMAIN stack /\ i # n
      BY <1>1, <1>9
    <3>2. stack[i] = q /\ stack[i] # stack[n]
      BY <1>1, <1>8, <2>2, <3>1 DEF ReqType
    <3> QED BY <1>1, <1>7, <3>1, <3>2 DEF ReqType
  <2> QED BY <2>1, <2>2
<1>12. stack' # << >> => stack'[1] = stack[1]
  BY <1>1, <1>8
<1>13. \A q \in Requests : ~In(q, {"idle"})' => req'[q].model \in Models
  BY <1>1, <1>3, <1>6 DEF ReqType, In
<1> QED BY <1>1, <1>3, <1>5, <1>7, <1>8, <1>10, <1>11, <1>12, <1>13 DEF ReqType, ReqRecords

\* A queued request is served, on top of those that wait.
LEMMA CutFacts ==
  ASSUME ReqType, NEW r \in Requests, NEW q \in Requests, LineCut(r, q)
  PROVE  /\ ReqType' /\ q \notin Serving /\ Serving' = Serving \cup {q}
         /\ r \in Serving /\ stack # << >>
         /\ \A p \in Requests \ {r, q} : req'[p] = req[p]
         /\ req'[r] = [req[r] EXCEPT !.pc = "quiesce"]
         /\ req'[q] = [req[q] EXCEPT !.pc = "lookup"]
         /\ Last(stack') = q /\ stack'[1] = stack[1]
<1> DEFINE n == Len(stack)
<1>1. /\ stack # << >> /\ r = Last(stack) /\ req[q].pc = "queued"
      /\ req[r].pc \in {"quiesce", "drain"}
      /\ req' = [req EXCEPT ![r].pc = "quiesce", ![q].pc = "lookup"]
      /\ stack' = Append(stack, q)
  BY DEF LineCut, Looks, Turn, Acts, CutBy, In
<1>2. /\ r \in Serving /\ n \in Nat \ {0} /\ DOMAIN stack = 1 .. n /\ r = stack[n]
  BY <1>1, StackFacts
<1>3. req \in [Requests -> ReqRecords] /\ r # q /\ q \notin Serving
  BY <1>1 DEF ReqType, ReqRecords, Serving, In, AtServe
<1>4. /\ \A p \in Requests \ {r, q} : req'[p] = req[p]
      /\ req'[r] = [req[r] EXCEPT !.pc = "quiesce"]
      /\ req'[q] = [req[q] EXCEPT !.pc = "lookup"]
  BY <1>1, <1>3
<1>5. req' \in [Requests -> ReqRecords]
  <2>1. req'[r] \in ReqRecords /\ req'[q] \in ReqRecords
    BY <1>3, <1>4 DEF ReqRecords, AtServe
  <2> QED BY <1>1, <1>3, <1>4, <2>1
<1>6. Serving' = Serving \cup {q}
  BY <1>2, <1>3, <1>4 DEF Serving, In, AtServe, ReqRecords
<1>7. /\ stack' \in Seq(Requests) /\ DOMAIN stack' = 1 .. n + 1 /\ Len(stack') = n + 1
      /\ stack'[n + 1] = q /\ \A i \in 1 .. n : stack'[i] = stack[i]
  BY <1>1, <1>2 DEF ReqType
<1>8. \A i \in DOMAIN stack : stack[i] # q
  BY <1>3 DEF ReqType
<1>9. \A i, j \in DOMAIN stack' : stack'[i] = stack'[j] => i = j
  BY <1>2, <1>7, <1>8 DEF ReqType
<1>10. \A p \in Requests : p \in Serving' <=> \E i \in DOMAIN stack' : stack'[i] = p
  <2> SUFFICES ASSUME NEW p \in Requests
               PROVE  p \in Serving' <=> \E i \in DOMAIN stack' : stack'[i] = p
    OBVIOUS
  <2>1. CASE p = q
    BY <1>2, <1>6, <1>7, <2>1
  <2>2. CASE p # q
    <3>1. p \in Serving' <=> \E i \in 1 .. n : stack[i] = p
      BY <1>2, <1>6, <2>2 DEF ReqType
    <3>2. \A i \in 1 .. n + 1 : i \in 1 .. n \/ stack'[i] = q
      BY <1>2, <1>7
    <3>3. \A i \in 1 .. n : i \in 1 .. n + 1
      BY <1>2
    <3> QED BY <1>7, <2>2, <3>1, <3>2, <3>3
  <2> QED BY <2>1, <2>2
<1>11. \A p \in Requests : ~In(p, {"idle"})' => req'[p].model \in Models
  <2>1. req'[r].model = req[r].model /\ req'[q].model = req[q].model
    BY <1>3, <1>4 DEF ReqRecords
  <2> QED BY <1>1, <1>3, <1>4, <2>1 DEF ReqType, In
<1>12. Last(stack') = q /\ stack'[1] = stack[1]
  BY <1>2, <1>7 DEF Last
<1> QED BY <1>1, <1>2, <1>3, <1>4, <1>5, <1>6, <1>7, <1>9, <1>10, <1>11, <1>12
        DEF ReqType, ReqRecords

----------------------------------------------------------------------------
(* Types *)

\* The victims of an eviction are resident and not protected.
LEMMA ChosenAreResident ==
  ASSUME NEW m, NEW V \in VictimChoices(m)
  PROVE  V \subseteq resident /\ \A v \in V : Id(v) \notin protected
<1> DEFINE cands == {o \in resident : Id(o) \notin protected}
<1>1. CASE V \in GreedyChoices(ObjSize, cands, Shortfall(m))
  BY <1>1 DEF GreedyChoices, Sized
<1>2. CASE \E a \in SingleChoices(ObjSize, cands, Shortfall(m)) : V = {a}
  BY <1>2 DEF SingleChoices, Sized
<1> QED BY <1>1, <1>2 DEF VictimChoices, EvictionChoices

\* What the servers and the threads do keeps their types.
LEMMA UnloadStepType ==
  ASSUME ServerType, NEW t \in Threads, UnloadStep(t) PROVE ServerType'
<1> USE DEF ServerType
<1>1. CASE Terminate(t)
  BY <1>1 DEF Terminate, Gone
<1>2. CASE Unload(t)
  BY <1>2, NoServerAssumption DEF Unload
<1>3. CASE LmsUnload(t)
  BY <1>3 DEF LmsUnload
<1> QED BY <1>1, <1>2, <1>3 DEF UnloadStep

LEMMA LoadStepType == ASSUME ServerType, LoadStep PROVE ServerType'
<1> USE SpawnedAssumption DEF ServerType
<1>1. CASE SpawnFails
  BY <1>1 DEF SpawnFails
<1>2. CASE Popen
  <2>1. PICK s \in Servers \ Alive :
          /\ proc' = [proc EXCEPT ![s] = "booting"]
          /\ ours' = ours \cup {s}
          /\ handle' = [handle EXCEPT ![load.model] = s]
    BY <1>2 DEF Popen
  <2> QED BY <1>2, <2>1 DEF Popen
<1>3. CASE Answered
  BY <1>3 DEF Answered
<1>4. CASE NotReady
  BY <1>4 DEF NotReady, BeginUnload
<1>5. CASE CleanedUp
  BY <1>5 DEF CleanedUp, Forget, NoUnload
<1>6. CASE LmsLoad
  BY <1>6 DEF LmsLoad
<1> QED BY <1>1, <1>2, <1>3, <1>4, <1>5, <1>6 DEF LoadStep

LEMMA StartUnloadType ==
  ASSUME ServerType, NEW t \in Threads, NEW m \in Models, StartUnload(t, m)
  PROVE  ServerType'
BY DEF ServerType, StartUnload, BeginUnload

LEMMA ForgetType ==
  ASSUME ServerType, NEW t \in Threads, Forget(t), UNCHANGED <<proc, ours, handle, load>>
  PROVE  ServerType'
BY DEF ServerType, Forget, NoUnload

LEMMA LoadForgotten ==
  ASSUME ServerType, load' = NoLoad, UNCHANGED <<proc, ours, handle, unloading>>
  PROVE  ServerType'
BY DEF ServerType, NoLoad

LEMMA SameServers == ASSUME ServerType, UNCHANGED serverVars PROVE ServerType'
BY DEF ServerType, serverVars

\* What is in memory, in a queue of a prune or of the loop, and in the plan.
BookType ==
  /\ toPreload \in Seq(PlanEntries)
  /\ protected \subseteq Models /\ resident \subseteq Objects
  /\ task \in [Pruners -> {"off", "on", "dead"}]
  /\ prune \in [Pruners -> [todo : SUBSET Objects, now : Objects \cup {NoObject}]]
  /\ toUnload \subseteq Objects

bookVars == <<toPreload, protected, resident, task, prune, toUnload>>
stageVars == <<site, stage, deadline>>

LEMMA SameBooks == ASSUME BookType, UNCHANGED bookVars PROVE BookType'
BY DEF BookType, bookVars

LEMMA SameRequests == ASSUME ReqType, UNCHANGED <<req, stack>> PROVE ReqType'
BY DEF ReqType, Serving, In

StageType ==
  /\ site \in Sites
  /\ stage \in {"down", "preload", "failing", "failed", "up", "stop", "unload",
                "exited", "died"}
  /\ deadline \in BOOLEAN

LEMMA TypeParts ==
  /\ TypeOK <=> ServerType /\ StageType /\ ReqType /\ BookType
  /\ TypeOK' <=> ServerType' /\ StageType' /\ ReqType' /\ BookType'
BY DEF TypeOK, LifeType, StageType, BookType

LEMMA ObjectIds == \A o \in Objects : Id(o) \in Models
BY DEF Objects, Id

\* A request is asked for, given up, or queued.
LEMMA AskType ==
  ASSUME ReqType, NEW r \in Requests, NEW rec \in ReqRecords, r \notin Serving,
         rec.pc \notin AtServe, rec.pc # "idle" => rec.model \in Models,
         req' = [req EXCEPT ![r] = rec], stack' = stack
  PROVE  /\ ReqType' /\ Serving' = Serving
         /\ req'[r] = rec /\ \A q \in Requests : q # r => req'[q] = req[q]
<1>1. req \in [Requests -> ReqRecords]
  BY DEF ReqType, ReqRecords
<1>2. req'[r] = rec /\ \A q \in Requests : q # r => req'[q] = req[q]
  BY <1>1
<1>3. req' \in [Requests -> ReqRecords]
  BY <1>1
<1>4. Serving' = Serving
  BY <1>2 DEF Serving, In
<1> QED BY <1>2, <1>3, <1>4 DEF ReqType, ReqRecords, In

\* A serve goes on within its request, or begins or ends.
LEMMA ServeType ==
  ASSUME ReqType, BookType, load.pc = "ok" => load.model \in Models, NEW r \in Requests,
         \/ Found(r) \/ FoundDying(r) \/ FoundAgain(r) \/ Missing(r) \/ LookupRaises(r)
         \/ LoadNow(r) \/ Hopeless(r) \/ ChooseVictims(r) \/ LoadDone(r) \/ LoadFails(r)
         \/ DrainWait(r) \/ Quiesced(r) \/ Evicted(r)
  PROVE  ReqType'
<1> DEFINE top == Last(stack)
<1>1. stack # << >> /\ r = top /\ r \in Serving /\ r \in Requests
  BY StackFacts DEF Found, FoundDying, FoundAgain, Missing, LookupRaises, LoadNow,
     Hopeless, ChooseVictims, LoadDone, LoadFails, DrainWait, Quiesced, Evicted,
     Looks, Turn, Acts
<1>2. req[r] \in ReqRecords /\ resident \subseteq Objects
  BY <1>1 DEF ReqType, BookType, ReqRecords
<1>3. CASE Found(r) \/ FoundAgain(r) \/ LookupRaises(r) \/ Hopeless(r) \/ LoadDone(r)
             \/ LoadFails(r)
  <2>1. \A o \in New(load.model) : o \in Objects
    BY DEF New
  <2>2. \E pc \in {"held", "refused"}, o \in Objects \cup {NoObject} : Answer(r, pc, o)
    BY <1>2, <1>3, <2>1 DEF Found, FoundAgain, LookupRaises, Hopeless, LoadDone, LoadFails,
       Grant, Reject, Of
  <2> QED BY <1>1, <2>2, AnswerFacts
<1>4. CASE FoundDying(r)
  <2>1. PICK o \in resident : req' = [req EXCEPT ![r] = [req[r] EXCEPT !.pc = "dying", !.object = o]]
    BY <1>4 DEF FoundDying, Of
  <2> DEFINE rec == [req[r] EXCEPT !.pc = "dying", !.object = o]
  <2>2. rec \in ReqRecords /\ rec.pc \in AtServe /\ rec.model = req[r].model
    BY <1>2 DEF ReqRecords, AtServe
  <2> QED BY <1>1, <1>4, <2>1, <2>2, MoveFacts DEF FoundDying
<1>5. CASE Missing(r)
  <2> DEFINE rec == [req[r] EXCEPT !.pc = "missing", !.object = NoObject]
  <2>1. rec \in ReqRecords /\ rec.pc \in AtServe /\ rec.model = req[r].model
    BY <1>2 DEF ReqRecords, AtServe
  <2> QED BY <1>1, <1>5, <2>1, MoveFacts DEF Missing
<1>6. CASE ChooseVictims(r)
  <2>1. PICK V \in VictimChoices(req[r].model) :
          req' = [req EXCEPT ![r] = [req[r] EXCEPT !.pc = "quiesce", !.victims = V]]
    BY <1>6 DEF ChooseVictims
  <2> DEFINE rec == [req[r] EXCEPT !.pc = "quiesce", !.victims = V]
  <2>2. V \subseteq Objects
    BY <1>2, <2>1, ChosenAreResident
  <2>3. rec \in ReqRecords /\ rec.pc \in AtServe /\ rec.model = req[r].model
    BY <1>2, <2>2 DEF ReqRecords, AtServe
  <2> QED BY <1>1, <1>6, <2>1, <2>3, MoveFacts DEF ChooseVictims
<1>7. CASE LoadNow(r) \/ DrainWait(r) \/ Quiesced(r) \/ Evicted(r)
  <2>1. PICK pc \in AtServe : Goto(r, pc) /\ stack' = stack
    BY <1>7 DEF LoadNow, DrainWait, Quiesced, Evicted, AtServe
  <2> DEFINE rec == [req[r] EXCEPT !.pc = pc]
  <2>2. rec \in ReqRecords /\ rec.pc \in AtServe /\ rec.model = req[r].model
    BY <1>2 DEF ReqRecords, AtServe
  <2>3. req' = [req EXCEPT ![r] = rec]
    BY <2>1 DEF Goto
  <2> QED BY <1>1, <2>1, <2>2, <2>3, MoveFacts
<1> QED BY <1>3, <1>4, <1>5, <1>6, <1>7

\* The servers and the threads, under every step.
LEMMA ServerTypeStep == ASSUME TypeOK, [Next]_vars PROVE ServerType'
<1> USE TypeParts
<1>1. /\ \A r \in Requests : In(r, AtServe \cup {"queued"}) => req[r].model \in Models
      /\ \A o \in toUnload : Id(o) \in Models
      /\ \A t \in Pruners : \A o \in resident \cup prune[t].todo : Id(o) \in Models
      /\ Threads = Pruners \cup {"loader", "loop"}
  BY ObjectIds, ThreadsAssumption DEF ReqType, BookType, In, AtServe, Pruners
<1>2. CASE UNCHANGED serverVars
  BY <1>2, SameServers
<1>3. ASSUME NEW m \in Models, StartLoad(m) PROVE ServerType'
  BY <1>3 DEF StartLoad, NoLoad, ServerType
<1>4. CASE \E r \in Requests : LoadNow(r) \/ Evicted(r)
  BY <1>1, <1>3, <1>4 DEF LoadNow, Evicted, Turn, Acts, In, AtServe
<1>5. CASE \E r \in Requests : LoadDone(r) \/ LoadFails(r)
  BY <1>5, LoadForgotten DEF LoadDone, LoadFails
<1>6. CASE UnloadNext \/ \E t \in Pruners : PruneScan(t) \/ PruneNext(t)
  <2>1. PICK t \in Threads, m \in Models : StartUnload(t, m)
    BY <1>1, <1>6 DEF UnloadNext, PruneScan, PruneNext
  <2> QED BY <2>1, StartUnloadType
<1>7. CASE Unloaded \/ \E t \in Pruners : PruneEnd(t) \/ PruneRaises(t) \/ PruneDropped(t)
  <2>1. PICK t \in Threads : Forget(t)
    BY <1>1, <1>7 DEF Unloaded, PruneEnd, PruneRaises, PruneDropped
  <2>2. UNCHANGED <<proc, ours, handle, load>>
    BY <1>7 DEF Unloaded, PruneEnd, PruneRaises, PruneDropped
  <2> QED BY <2>1, <2>2, ForgetType
<1>8. CASE LoadStep
  BY <1>8, LoadStepType
<1>9. CASE \E t \in Threads : UnloadStep(t)
  BY <1>9, UnloadStepType
<1>10. CASE Environment
  BY <1>10 DEF Environment, Listen, Exit, Gone, ServerType
<1>11. CASE Die
  BY <1>11 DEF Die, ServersLeft, ServerType, NoLoad, NoUnload
<1>12. CASE \/ Start \/ Preload \/ PreloadFails \/ Up \/ Ended \/ Shutdown \/ Deadline \/ Stop
            \/ \E r \in Requests : Ask(r) \/ Leave(r) \/ Take(r)
  BY <1>2, <1>12 DEF Start, Preload, PreloadFails, Up, Ended, Shutdown, Deadline, Stop,
     Ask, Leave, Take
<1>13. CASE \E r \in Requests :
              \/ Found(r) \/ FoundDying(r) \/ FoundAgain(r) \/ Missing(r)
              \/ LookupRaises(r) \/ Hopeless(r) \/ ChooseVictims(r) \/ DrainWait(r)
              \/ Quiesced(r) \/ \E q \in Requests : LineCut(r, q)
  BY <1>2, <1>13 DEF Found, FoundDying, FoundAgain, Missing, LookupRaises, Hopeless,
     ChooseVictims, DrainWait, Quiesced, LineCut
<1>14. CASE \E t \in Pruners : PruneSkip(t)
  BY <1>2, <1>14 DEF PruneSkip
<1>15. CASE UNCHANGED vars
  BY <1>2, <1>15 DEF vars
<1> QED BY <1>1, <1>4, <1>5, <1>6, <1>7, <1>8, <1>9, <1>10, <1>11, <1>12, <1>13, <1>14, <1>15
        DEF Next, Serve, Loop, Quiesce, LoopUnload, Visit, Prune, Worker, Requests

\* The stage, under every step.
LEMMA StageTypeStep == ASSUME StageType, [Next]_vars PROVE StageType'
<1> USE DEF StageType
<1>1. CASE Start \/ Preload \/ PreloadFails \/ Up
  BY <1>1 DEF Start, Preload, PreloadFails, Up
<1>2. CASE Shutdown \/ Deadline \/ Stop \/ Die \/ Ended
  BY <1>2 DEF Shutdown, Deadline, Stop, Die, Ended
<1>3. CASE UNCHANGED stageVars
  BY <1>3 DEF stageVars
<1>4. CASE \E r \in Requests : Ask(r) \/ Leave(r) \/ Take(r) \/ Serve(r)
  BY <1>3, <1>4 DEF Ask, Leave, Take, Serve, Found, FoundDying, FoundAgain, Missing,
     LookupRaises, Hopeless, ChooseVictims, LoadNow, LoadDone, LoadFails, stageVars
<1>5. CASE \E r \in Requests : Quiesce(r)
  BY <1>3, <1>5 DEF Quiesce, DrainWait, Quiesced, LineCut, Evicted, stageVars
<1>6. CASE UnloadNext \/ Unloaded \/ Visit \/ Prune \/ UNCHANGED lifeVars
  BY <1>3, <1>6 DEF UnloadNext, Unloaded, Visit, Prune, PruneScan, PruneNext, PruneSkip,
     PruneEnd, PruneRaises, PruneDropped, stageVars, lifeVars
<1> QED BY <1>1, <1>2, <1>4, <1>5, <1>6
        DEF Next, Loop, LoopUnload, Worker, Environment, Requests, vars

\* The requests, under every step.
LEMMA ReqTypeStep == ASSUME TypeOK, [Next]_vars PROVE ReqType'
<1> USE TypeParts
<1>1. CASE UNCHANGED <<req, stack>>
  BY <1>1, SameRequests
<1>2. Idle \in ReqRecords /\ Idle.pc = "idle"
  BY DEF Idle, ReqRecords
<1>3. ASSUME NEW r \in Requests, NEW m \in Models, In(r, {"idle"}), Queue(r, m), stack' = stack
      PROVE  ReqType'
  <2> DEFINE rec == [Idle EXCEPT !.pc = "queued", !.model = m]
  <2>1. rec \in ReqRecords /\ rec.pc = "queued" /\ rec.model = m
    BY DEF Idle, ReqRecords
  <2>2. r \notin Serving
    BY <1>3 DEF Serving, In, AtServe
  <2> QED BY <1>3, <2>1, <2>2, AskType DEF Queue, AtServe
<1>4. CASE Preload
  <2>1. Head(toPreload) \in PlanEntries
    <3>1. toPreload \in Seq(PlanEntries) /\ toPreload # << >>
      BY <1>4 DEF Preload, BookType
    <3> QED BY <3>1
  <2> QED BY <1>3, <1>4, <2>1 DEF Preload, Requests, PlanEntries
<1>5. CASE \E c \in Clients : Ask(c)
  BY <1>3, <1>5 DEF Ask, Requests
<1>6. ASSUME NEW r \in Requests, Leave(r) PROVE ReqType'
  <2>1. req \in [Requests -> ReqRecords]
    BY DEF ReqType, ReqRecords
  <2>2. CASE r \in Serving
    <3> DEFINE rec == [req[r] EXCEPT !.left = TRUE]
    <3>1. rec \in ReqRecords /\ rec.pc \in AtServe /\ rec.model = req[r].model
      BY <2>1, <2>2 DEF ReqRecords, Serving, In
    <3> QED BY <1>6, <2>2, <3>1, MoveFacts DEF Leave
  <2>3. CASE r \notin Serving
    BY <1>2, <1>6, <2>3, AskType DEF Leave, AtServe
  <2> QED BY <2>2, <2>3
<1>7. ASSUME NEW r \in Requests, Take(r) PROVE ReqType'
  <2>1. req \in [Requests -> ReqRecords] /\ stack = << >> /\ req[r].pc = "queued"
        /\ stack' = <<r>> /\ req' = [req EXCEPT ![r].pc = "lookup"]
    BY <1>7 DEF ReqType, ReqRecords, Take, In, Goto
  <2>2. \A q \in Requests : q \notin Serving
    BY <2>1 DEF ReqType
  <2>3. /\ req'[r] = [req[r] EXCEPT !.pc = "lookup"]
        /\ \A q \in Requests : q # r => req'[q] = req[q]
    BY <2>1
  <2>4. req' \in [Requests -> ReqRecords]
    <3>1. req'[r] \in ReqRecords
      BY <2>1, <2>3 DEF ReqRecords, AtServe
    <3> QED BY <2>1, <3>1
  <2>5. \A q \in Requests : q \in Serving' <=> q = r
    BY <2>1, <2>2, <2>3 DEF Serving, In, AtServe, ReqRecords
  <2>6. \A q \in Requests : ~In(q, {"idle"})' => req'[q].model \in Models
    BY <2>1, <2>3 DEF ReqType, In, ReqRecords
  <2>7. DOMAIN stack' = {1} /\ stack'[1] = r /\ stack' \in Seq(Requests)
    BY <2>1
  <2> QED BY <2>4, <2>5, <2>6, <2>7 DEF ReqType, ReqRecords
<1>8. CASE \E r \in Requests : Serve(r)
  BY <1>8, ServeType DEF Serve, ServerType
<1>9. CASE \E r \in Requests : Quiesce(r)
  BY <1>9, ServeType, CutFacts DEF Quiesce, ServerType
<1>10. CASE Unloaded
  <2>1. CASE unloading["loop"].pc = "raised" /\ Running
    <3>1. stack # << >> /\ Answer(Last(stack), "refused", NoObject)
      BY <1>10, <2>1 DEF Unloaded, Running, Reject
    <3> QED BY <3>1, AnswerFacts
  <2> QED BY <1>1, <1>10, <2>1 DEF Unloaded
<1>11. CASE Stop \/ Die
  <2>1. req' = [r \in Requests |-> Idle] /\ stack' = << >>
    BY <1>11 DEF Stop, Die
  <2>2. req' \in [Requests -> ReqRecords] /\ \A r \in Requests : In(r, {"idle"})'
    BY <1>2, <2>1 DEF In
  <2> QED BY <2>1, <2>2 DEF ReqType, ReqRecords, Serving, In, AtServe
<1>12. CASE Start \/ PreloadFails \/ Up \/ Shutdown \/ Deadline
  BY <1>1, <1>12 DEF Start, PreloadFails, Up, Shutdown, Deadline
<1>13. CASE UnloadNext \/ Ended \/ Visit \/ Prune \/ UNCHANGED lifeVars
  BY <1>1, <1>13 DEF UnloadNext, Ended, Visit, Prune, PruneScan, PruneNext, PruneSkip,
     PruneEnd, PruneRaises, PruneDropped, lifeVars
<1> QED BY <1>4, <1>5, <1>6, <1>7, <1>8, <1>9, <1>10, <1>11, <1>12, <1>13
        DEF Next, Loop, LoopUnload, Worker, Environment, vars

\* What is resident, pruned and to be unloaded, under every step.
LEMMA BookTypeStep == ASSUME TypeOK, [Next]_vars PROVE BookType'
<1> USE TypeParts
<1>1. CASE UNCHANGED bookVars
  BY <1>1, SameBooks
<1>2. \A P : Cancel(P) => /\ task' \in [Pruners -> {"off", "on", "dead"}]
                          /\ prune' \in [Pruners -> [todo : SUBSET Objects,
                                                     now : Objects \cup {NoObject}]]
  BY DEF Cancel, NoPrune, BookType
<1>3. CASE Start
  BY <1>3, SitesAssumption DEF Start, Begun, BookType, StageType
<1>4. CASE Preload
  <2>1. toPreload \in Seq(PlanEntries) /\ toPreload # << >>
    BY <1>4 DEF Preload, BookType
  <2>2. Head(toPreload) \in PlanEntries /\ Tail(toPreload) \in Seq(PlanEntries)
    BY <2>1
  <2>3. Protects(Head(toPreload)) \subseteq Models
    BY <2>2 DEF Protects, PlanEntries
  <2> QED BY <1>4, <2>2, <2>3 DEF Preload, BookType
<1>5. CASE PreloadFails \/ Up
  BY <1>5 DEF PreloadFails, Up, Begun, BookType
<1>6. CASE Shutdown \/ Stop
  BY <1>2, <1>6 DEF Shutdown, Stop, BookType
<1>7. CASE Die
  BY <1>7 DEF Die, NoPrune, BookType
<1>8. CASE \E r \in Requests : LoadDone(r)
  <2>1. PICK r \in Requests : LoadDone(r)
    BY <1>8
  <2>2. PICK o \in New(load.model) : resident' = Loaded(r, o)
    BY <2>1 DEF LoadDone
  <2>3. o \in Objects
    BY <2>2 DEF New
  <2> QED BY <2>1, <2>2, <2>3 DEF LoadDone, Loaded, BookType
<1>9. CASE \E r \in Requests : Quiesced(r) \/ Evicted(r)
  <2>1. \A r \in Requests : req[r].victims \subseteq Objects
    BY DEF ReqType
  <2> QED BY <1>9, <2>1 DEF Quiesced, Evicted, BookType
<1>10. CASE UnloadNext \/ Unloaded
  BY <1>10 DEF UnloadNext, Unloaded, BookType
<1>11. CASE Visit
  <2>1. PICK t \in Pruners : \E o \in prune[t].todo :
          \/ prune' = [prune EXCEPT ![t] = [todo |-> @.todo \ {o}, now |-> o]]
          \/ prune' = [prune EXCEPT ![t].todo = @ \ {o}]
    BY <1>11 DEF Visit, PruneNext, PruneSkip
  <2>2. prune[t].todo \subseteq Objects
    BY DEF BookType
  <2>3. prune' \in [Pruners -> [todo : SUBSET Objects, now : Objects \cup {NoObject}]]
    BY <2>1, <2>2 DEF BookType
  <2>4. UNCHANGED <<toPreload, protected, resident, task, toUnload>>
    BY <1>11 DEF Visit, PruneNext, PruneSkip
  <2> QED BY <2>3, <2>4 DEF BookType
<1>12. CASE Prune
  BY <1>1, <1>12 DEF Prune, PruneScan, PruneEnd, PruneRaises, PruneDropped, NoPrune, BookType,
     lifeVars, bookVars
<1>13. CASE \E r \in Requests :
              \/ Ask(r) \/ Leave(r) \/ Take(r) \/ Found(r) \/ FoundDying(r) \/ FoundAgain(r)
              \/ Missing(r) \/ LookupRaises(r) \/ Hopeless(r) \/ ChooseVictims(r)
              \/ LoadNow(r) \/ LoadFails(r) \/ DrainWait(r) \/ \E q \in Requests : LineCut(r, q)
  BY <1>1, <1>13 DEF Ask, Leave, Take, Found, FoundDying, FoundAgain, Missing, LookupRaises,
     Hopeless, ChooseVictims, LoadNow, LoadFails, DrainWait, LineCut, bookVars
<1>14. CASE Deadline \/ Ended \/ UNCHANGED lifeVars
  BY <1>1, <1>14 DEF Deadline, Ended, lifeVars, bookVars
<1> QED BY <1>3, <1>4, <1>5, <1>6, <1>7, <1>8, <1>9, <1>10, <1>11, <1>12, <1>13, <1>14
        DEF Next, Serve, Quiesce, Loop, LoopUnload, Worker, Environment, Requests, vars

LEMMA InitType == Init => TypeOK
<1> SUFFICES ASSUME Init PROVE TypeOK
  OBVIOUS
<1>1. ServerType
  BY NoServerAssumption DEF Init, ServersFresh, ServerType, NoLoad, NoUnload
<1>2. StageType
  BY DEF Init, StageType
<1>3. BookType
  BY DEF Init, BookType, NoPrune
<1>4. ReqType
  <2>1. req \in [Requests -> ReqRecords] /\ \A r \in Requests : In(r, {"idle"})
    BY DEF Init, Idle, ReqRecords, In
  <2> QED BY <2>1 DEF Init, ReqType, ReqRecords, Serving, In, AtServe
<1> QED BY <1>1, <1>2, <1>3, <1>4, TypeParts

LEMMA TypeStep == TypeOK /\ [Next]_vars => TypeOK'
BY ServerTypeStep, StageTypeStep, ReqTypeStep, BookTypeStep, TypeParts

\* The type invariant holds: the requests being served are at all times those
\* of the stack, each once, and name their models (_serve, scheduling.py:447).
THEOREM LifespanTypes == Spec => []TypeOK
BY InitType, TypeStep, PTL DEF Spec

----------------------------------------------------------------------------
(* One serve inside another *)

\* Only the innermost serve is between an await and the next; the others wait
\* in _quiesce.
Nested == \A r \in Serving : r # Last(stack) => In(r, {"quiesce"})

\* What is loading is what the innermost serve has asked for.
LoadServed ==
  /\ load = NoLoad \/ load.pc # "none"
  /\ stage = "down" => load = NoLoad
  /\ Started /\ load # NoLoad =>
       /\ stack # << >> /\ In(Last(stack), {"load"})
       /\ req[Last(stack)].model = load.model

ServeInv == Nested /\ LoadServed

\* Requests that are not served come and go.
LEMMA ServeAside ==
  ASSUME ReqType, ServeInv, Started' => Started, stage' # "down", load' = load,
         stack' = stack, Serving' = Serving,
         \A q \in Serving : req'[q].pc = req[q].pc /\ req'[q].model = req[q].model
  PROVE  ServeInv'
<1>1. Nested'
  BY DEF ServeInv, Nested, In
<1>2. stack # << >> => Last(stack) \in Serving
  BY StackFacts
<1>3. LoadServed'
  BY <1>2 DEF ServeInv, LoadServed, In
<1> QED BY <1>1, <1>3 DEF ServeInv

\* A load goes on.
LEMMA ServeLoads ==
  ASSUME ServeInv, UNCHANGED <<stage, req, stack>>, load'.model = load.model,
         load # NoLoad, load'.pc # "none"
  PROVE  ServeInv'
BY DEF ServeInv, Nested, LoadServed, Serving, In, Started, NoLoad

\* A serve ends.
LEMMA ServeEnds ==
  ASSUME ReqType, ServeInv, stack # << >>, NEW pc \in {"held", "refused"},
         NEW o \in Objects \cup {NoObject}, Answer(Last(stack), pc, o),
         stage' # "down", load' = NoLoad
  PROVE  ServeInv'
<1>1. /\ Serving' = Serving \ {Last(stack)}
      /\ \A q \in Serving' : req'[q] = req[q]
  BY AnswerFacts DEF Serving
<1>2. Nested'
  BY <1>1 DEF ServeInv, Nested, In
<1> QED BY <1>2 DEF ServeInv, LoadServed

\* The innermost serve goes on.
LEMMA ServeMoves ==
  ASSUME ReqType, ServeInv, stack # << >>, NEW r, r = Last(stack), NEW rec \in ReqRecords,
         rec.pc \in AtServe, rec.model = req[r].model,
         req' = [req EXCEPT ![r] = rec], stack' = stack, stage' # "down",
         \/ load' = NoLoad
         \/ rec.pc = "load" /\ load'.pc # "none" /\ load'.model = req[r].model
  PROVE  ServeInv'
<1>1. r \in Serving
  BY StackFacts
<1>2. /\ Serving' = Serving /\ req'[r] = rec /\ Last(stack') = r
      /\ \A q \in Serving : q # r => req'[q] = req[q]
  BY <1>1, MoveFacts DEF Serving
<1>3. Nested'
  BY <1>2 DEF ServeInv, Nested, In
<1>4. LoadServed'
  BY <1>2 DEF LoadServed, In, NoLoad
<1> QED BY <1>3, <1>4 DEF ServeInv

\* The thread that loads works for the innermost serve.
LEMMA LoadStepKeeps ==
  ASSUME ServerType, LoadStep
  PROVE  load # NoLoad /\ load'.pc # "none" /\ load'.model = load.model
<1>1. load.pc # "none"
  BY DEF LoadStep, SpawnFails, Popen, Answered, NotReady, CleanedUp, LmsLoad
<1>2. \/ \E pc \in {"probe", "cleanup", "ok", "failed"} : load' = [load EXCEPT !.pc = pc]
      \/ \E s \in Servers : load' = [load EXCEPT !.pc = "ok", !.by = s]
  BY DEF LoadStep, SpawnFails, Popen, Answered, NotReady, CleanedUp, LmsLoad
<1>3. load'.pc # "none" /\ load'.model = load.model
  BY <1>2 DEF ServerType
<1> QED BY <1>1, <1>3 DEF NoLoad

LEMMA ServeStep == ASSUME TypeOK, ServeInv, [Next]_vars PROVE ServeInv'
<1> USE TypeParts
<1>1. \A r \in Requests : Turn(r, AtServe \ {"load"}) \/ Acts(r, AtServe \ {"load"}) => load = NoLoad
  BY DEF Turn, Acts, In, ServeInv, LoadServed
<1>2. CASE UNCHANGED <<stage, req, stack, load>>
  BY <1>2 DEF ServeInv, Nested, LoadServed, Serving, In, Started
<1>3. CASE UNCHANGED <<req, stack, load>> /\ (Started' => Started) /\ stage' # "down"
  BY <1>3 DEF ServeInv, Nested, LoadServed, Serving, In
<1>4. CASE Start
  <2>1. load' = NoLoad /\ UNCHANGED <<req, stack>>
    BY <1>4 DEF Start, serverVars, ServeInv, LoadServed
  <2> QED BY <2>1 DEF ServeInv, Nested, LoadServed, Serving, In
<1>5. CASE PreloadFails \/ Up \/ Shutdown \/ Deadline \/ Ended
  BY <1>3, <1>5 DEF PreloadFails, Up, Shutdown, Deadline, Ended, Started, serverVars
<1>6. CASE Stop \/ Die
  <2>1. /\ \A r \in Requests : req'[r] = Idle
        /\ stage' \notin {"preload", "up", "stop"}
        /\ load' = load \/ load' = NoLoad
        /\ stage' = "down" => load' = NoLoad
    BY <1>6 DEF Stop, Die, serverVars, ServersLeft
  <2>2. Serving' = {} /\ ~Started'
    BY <2>1 DEF Serving, In, Idle, AtServe, Started
  <2> QED BY <2>1, <2>2 DEF ServeInv, Nested, LoadServed, NoLoad
<1>7. CASE Preload \/ \E c \in Clients : Ask(c)
  <2>1. PICK r \in Requests : In(r, {"idle"}) /\ \E m : Queue(r, m)
    BY <1>7 DEF Preload, Ask, Requests
  <2>2. \A q \in Requests : q # r => req'[q] = req[q]
    BY <2>1 DEF Queue, ReqType
  <2>3. req[r].pc = "idle" /\ req'[r].pc = "queued"
    BY <2>1 DEF Queue, In, ReqType, Idle
  <2>4. Serving' = Serving /\ \A q \in Serving : req'[q] = req[q]
    BY <2>2, <2>3 DEF Serving, In, AtServe
  <2>5. stack' = stack /\ load' = load /\ stage' = stage /\ stage # "down"
    BY <1>7 DEF Preload, Ask, serverVars
  <2> QED BY <2>4, <2>5, ServeAside DEF Started
<1>8. ASSUME NEW r \in Requests, Leave(r) PROVE ServeInv'
  <2>1. stack' = stack /\ load' = load /\ stage' = stage /\ Started
    BY <1>8 DEF Leave, serverVars
  <2>2. \A q \in Requests : q # r => req'[q] = req[q]
    BY <1>8 DEF Leave, ReqType
  <2>3. IF r \in Serving THEN req'[r].pc = req[r].pc /\ req'[r].model = req[r].model
        ELSE req'[r].pc = "idle"
    BY <1>8 DEF Leave, ReqType, Idle
  <2>4. Serving' = Serving
        /\ \A q \in Serving : req'[q].pc = req[q].pc /\ req'[q].model = req[q].model
    BY <2>2, <2>3 DEF Serving, In, AtServe
  <2> QED BY <2>1, <2>4, ServeAside DEF Started
<1>9. ASSUME NEW r \in Requests, Take(r) PROVE ServeInv'
  <2>1. /\ Started /\ stack = << >> /\ stack' = <<r>> /\ UNCHANGED <<stage, load>>
        /\ req' = [req EXCEPT ![r].pc = "lookup"]
    BY <1>9 DEF Take, Goto, serverVars
  <2>2. load' = NoLoad /\ \A q \in Requests : q \notin Serving
    BY <2>1 DEF ServeInv, LoadServed, ReqType
  <2>3. \A q \in Serving' : q = r
    BY <2>1, <2>2 DEF ReqType, Serving, In
  <2>4. Last(stack') = r
    BY <2>1 DEF Last
  <2> QED BY <2>1, <2>2, <2>3, <2>4 DEF ServeInv, Nested, LoadServed, Started
<1>10. ASSUME NEW r \in Requests,
              \/ Found(r) \/ FoundAgain(r) \/ LookupRaises(r) \/ Hopeless(r)
              \/ LoadDone(r) \/ LoadFails(r)
       PROVE  ServeInv'
  <2>1. \A o \in New(load.model) : o \in Objects
    BY DEF New
  <2>2. \E pc \in {"held", "refused"}, o \in Objects \cup {NoObject} : Answer(r, pc, o)
    BY <1>10, <2>1 DEF Found, FoundAgain, LookupRaises, Hopeless, LoadDone, LoadFails,
       Grant, Reject, Of, BookType
  <2>3. stack # << >> /\ r = Last(stack) /\ stage' = stage /\ Started
    BY <1>10 DEF Found, FoundAgain, LookupRaises, Hopeless, LoadDone, LoadFails, Turn, Acts
  <2>4. load' = NoLoad
    BY <1>1, <1>10 DEF Found, FoundAgain, LookupRaises, Hopeless, LoadDone, LoadFails, Turn,
       Acts, In, AtServe, serverVars
  <2> QED BY <2>2, <2>3, <2>4, ServeEnds DEF Started
<1>11. ASSUME NEW r \in Requests,
              \/ FoundDying(r) \/ Missing(r) \/ ChooseVictims(r) \/ LoadNow(r)
              \/ DrainWait(r) \/ Quiesced(r) \/ Evicted(r)
       PROVE  ServeInv'
  <2>1. stack # << >> /\ r = Last(stack) /\ stage' = stage /\ Started /\ stack' = stack
        /\ r \in Serving
    BY <1>11, StackFacts DEF FoundDying, Missing, ChooseVictims, LoadNow, DrainWait, Quiesced,
       Evicted, Looks, Turn, Acts
  <2>2. req \in [Requests -> ReqRecords] /\ req[r] \in ReqRecords
    BY DEF ReqType, ReqRecords
  <2>3. PICK rec : /\ req' = [req EXCEPT ![r] = rec] /\ rec.model = req[r].model
                   /\ rec.pc \in AtServe
                   /\ LoadNow(r) \/ Evicted(r) => rec.pc = "load"
    <3>1. CASE FoundDying(r)
      <4>1. PICK o : req' = [req EXCEPT ![r] = [req[r] EXCEPT !.pc = "dying", !.object = o]]
        BY <3>1 DEF FoundDying
      <4> DEFINE new == [req[r] EXCEPT !.pc = "dying", !.object = o]
      <4>2. new.model = req[r].model /\ new.pc = "dying"
        BY <2>2 DEF ReqRecords
      <4>3. ~LoadNow(r) /\ ~Evicted(r)
        BY <3>1 DEF FoundDying, LoadNow, Evicted, Turn, Acts, In
      <4> QED BY <4>1, <4>2, <4>3 DEF AtServe
    <3>2. CASE Missing(r)
      <4> DEFINE new == [req[r] EXCEPT !.pc = "missing", !.object = NoObject]
      <4>2. new.model = req[r].model /\ new.pc = "missing"
        BY <2>2 DEF ReqRecords
      <4>3. ~LoadNow(r) /\ ~Evicted(r)
        BY <3>2 DEF Missing, LoadNow, Evicted, Turn, Acts, In
      <4> QED BY <3>2, <4>2, <4>3 DEF AtServe, Missing
    <3>3. CASE ChooseVictims(r)
      <4>1. PICK V : req' = [req EXCEPT ![r] = [req[r] EXCEPT !.pc = "quiesce", !.victims = V]]
        BY <3>3 DEF ChooseVictims
      <4> DEFINE new == [req[r] EXCEPT !.pc = "quiesce", !.victims = V]
      <4>2. new.model = req[r].model /\ new.pc = "quiesce"
        BY <2>2 DEF ReqRecords
      <4>3. ~LoadNow(r) /\ ~Evicted(r)
        BY <3>3 DEF ChooseVictims, LoadNow, Evicted, Turn, Acts, In
      <4> QED BY <4>1, <4>2, <4>3 DEF AtServe
    <3>4. CASE DrainWait(r) \/ Quiesced(r)
      <4>1. PICK pc \in {"drain", "evict"} : Goto(r, pc)
        BY <3>4 DEF DrainWait, Quiesced
      <4> DEFINE new == [req[r] EXCEPT !.pc = pc]
      <4>2. new.model = req[r].model /\ new.pc = pc /\ req' = [req EXCEPT ![r] = new]
        BY <2>2, <4>1 DEF ReqRecords, Goto
      <4>3. ~LoadNow(r) /\ ~Evicted(r)
        BY <3>4 DEF DrainWait, Quiesced, LoadNow, Evicted, Looks, Turn, Acts, In
      <4> QED BY <4>2, <4>3 DEF AtServe
    <3>5. CASE LoadNow(r) \/ Evicted(r)
      <4>1. Goto(r, "load")
        BY <3>5 DEF LoadNow, Evicted
      <4> DEFINE new == [req[r] EXCEPT !.pc = "load"]
      <4>2. new.model = req[r].model /\ new.pc = "load" /\ req' = [req EXCEPT ![r] = new]
        BY <2>2, <4>1 DEF ReqRecords, Goto
      <4> QED BY <4>2 DEF AtServe
    <3> QED BY <1>11, <3>1, <3>2, <3>3, <3>4, <3>5
  <2>4. LoadNow(r) \/ Evicted(r) => load'.pc = "begin" /\ load'.model = req[r].model
    BY DEF LoadNow, Evicted, StartLoad, NoLoad
  <2>5. ~(LoadNow(r) \/ Evicted(r)) => load' = NoLoad
    BY <1>1, <1>11 DEF FoundDying, Missing, ChooseVictims, DrainWait, Quiesced, Looks, Turn,
       Acts, In, AtServe, serverVars
  <2>6. rec \in ReqRecords
    <3>1. req'[r] = rec /\ req' \in [Requests -> ReqRecords]
      BY <2>2, <2>3, ReqTypeStep DEF ReqType, ReqRecords
    <3> QED BY <3>1
  <2> QED BY <2>1, <2>3, <2>4, <2>5, <2>6, ServeMoves DEF Started
<1>12. ASSUME NEW r \in Requests, NEW q \in Requests, LineCut(r, q) PROVE ServeInv'
  <2>1. load' = NoLoad /\ stage' = stage /\ Started /\ r = Last(stack)
    BY <1>1, <1>12 DEF LineCut, Looks, Turn, Acts, In, AtServe, serverVars
  <2>2. /\ Serving' = Serving \cup {q} /\ Last(stack') = q
        /\ \A p \in Requests \ {r, q} : req'[p] = req[p]
        /\ req'[r].pc = "quiesce" /\ r \in Serving
    <3>1. req'[r] = [req[r] EXCEPT !.pc = "quiesce"]
      BY <1>12, CutFacts
    <3>2. req[r] \in ReqRecords
      BY DEF ReqType, ReqRecords
    <3>3. req'[r].pc = "quiesce"
      BY <3>1, <3>2 DEF ReqRecords
    <3> QED BY <1>12, <3>3, CutFacts
  <2>3. Nested'
    BY <2>1, <2>2 DEF ServeInv, Nested, In, Serving
  <2> QED BY <2>1, <2>3 DEF ServeInv, LoadServed, Started
<1>13. CASE Unloaded
  <2>1. CASE unloading["loop"].pc = "raised" /\ Running
    <3>1. stack # << >> /\ Answer(Last(stack), "refused", NoObject) /\ load' = load
          /\ stage' = stage /\ In(Last(stack), {"quiesce", "evict"})
      BY <1>13, <2>1 DEF Unloaded, Running, Reject
    <3>2. CASE Started
      <4>1. load' = NoLoad
        BY <3>1, <3>2 DEF In, ServeInv, LoadServed
      <4> QED BY <3>1, <3>2, <4>1, ServeEnds DEF Started
    <3>3. CASE ~Started
      <4>1. Serving' = Serving \ {Last(stack)} /\ \A q \in Serving' : req'[q] = req[q]
        BY <3>1, AnswerFacts DEF Serving
      <4>2. Nested'
        BY <4>1 DEF ServeInv, Nested, In
      <4> QED BY <3>1, <3>3, <4>2 DEF ServeInv, LoadServed, Started
    <3> QED BY <3>2, <3>3
  <2> QED BY <1>2, <1>13, <2>1 DEF Unloaded
<1>14. CASE LoadStep /\ UNCHANGED lifeVars
  BY <1>14, LoadStepKeeps, ServeLoads DEF lifeVars
<1>15. CASE (\E t \in Threads : UnloadStep(t) /\ UNCHANGED lifeVars) \/ Environment
  BY <1>2, <1>15 DEF UnloadStep, Terminate, Unload, LmsUnload, Environment, Listen, Exit, lifeVars
<1>16. CASE UnloadNext \/ Visit \/ Prune
  BY <1>2, <1>16 DEF UnloadNext, Visit, Prune, PruneScan, PruneNext, PruneSkip,
     PruneEnd, PruneRaises, PruneDropped, StartUnload, lifeVars, serverVars
<1>17. CASE UNCHANGED vars
  BY <1>2, <1>17 DEF vars, lifeVars, serverVars
<1>18. "loop" \in Threads
  BY ThreadsAssumption
<1> QED BY <1>4, <1>5, <1>6, <1>7, <1>8, <1>9, <1>10, <1>11, <1>12, <1>13, <1>14, <1>15, <1>16,
           <1>17, <1>18
        DEF Next, Serve, Quiesce, Loop, LoopUnload, Worker

LEMMA InitServe == Init => ServeInv
BY DEF Init, ServersFresh, ServeInv, Nested, LoadServed, Serving, In, Idle, AtServe, Started

----------------------------------------------------------------------------
(* The plan *)

\* How many entries of the plan have been preloaded, or are being.
Preloaded == Len(site.plan) - Len(toPreload)

\* What an eviction or a prune has chosen.
Doomed ==
  {o \in Objects \cup {NoObject} :
     \/ \E r \in Requests : o \in req[r].victims
     \/ \E t \in Pruners : o \in prune[t].todo \cup {prune[t].now}}

\* The models that are resident, or chosen, or asked for.
Touched ==
  {NoModel} \cup {Id(o) : o \in resident \cup Doomed} \cup {req[r].model : r \in Requests}

\* Until its turn comes, nobody has touched a model of the plan.
PlanInTurn ==
  /\ stage = "down" => Touched = {NoModel} /\ protected = {}
  /\ stage = "preload" =>
       /\ Len(toPreload) <= Len(site.plan)
       /\ \A n \in 1 .. Len(toPreload) : toPreload[n] = site.plan[Preloaded + n]
       /\ Touched \subseteq {site.plan[n].model : n \in 1 .. Preloaded} \cup {NoModel}
       /\ \A n \in 1 .. Preloaded : site.plan[n].protect => site.plan[n].model \in protected
  /\ stage \in {"up", "stop"} =>
       /\ In("preload", {"idle"})
       /\ \A n \in DOMAIN site.plan : site.plan[n].protect => site.plan[n].model \in protected

Asks(m) == In("preload", AtServe \cup {"queued", "refused"}) /\ req["preload"].model = m

\* A protected model is resident once its preload has been answered, and nobody
\* has chosen it.
ProtectedKept ==
  /\ ~req["preload"].left
  /\ Started => /\ \A o \in Doomed : Id(o) \notin protected
                /\ \A m \in protected : Of(m) # {} \/ Asks(m)

PlanInv == PlanInTurn /\ ProtectedKept

\* No "always" entry of a plan comes after another entry of its model.
AlwaysComesFirst ==
  \A s \in Sites : \A m, n \in DOMAIN s.plan :
    m < n /\ s.plan[n].protect => s.plan[m].model # s.plan[n].model

\* What does not move the plan on.
LEMMA PlanKept ==
  ASSUME PlanInv, UNCHANGED <<site, stage, toPreload, protected>>,
         Touched' \subseteq Touched \/ stage \in {"up", "stop"},
         \A o \in Doomed' \ Doomed : Id(o) \notin protected,
         \A m \in protected : Of(m) # {} => Of(m)' # {},
         \/ req'["preload"] = req["preload"]
         \/ /\ ~In("preload", {"idle"}) /\ ~req'["preload"].left
            /\ \A m : Asks(m) => Asks(m)' \/ Of(m)' # {}
  PROVE  PlanInv'
<1>1. NoModel \in Touched'
  BY DEF Touched
<1>2. PlanInTurn'
  BY <1>1 DEF PlanInv, PlanInTurn, In, Preloaded
<1>3. ProtectedKept'
  BY DEF PlanInv, ProtectedKept, Started, Asks, In
<1> QED BY <1>2, <1>3 DEF PlanInv

\* One request moves on, and may change what is resident.
LEMMA RequestPlan ==
  ASSUME PlanInv, UNCHANGED <<site, stage, toPreload, protected, prune>>,
         NEW r \in Requests, \A q \in Requests : q # r => req'[q] = req[q],
         req'[r].model \in {req[r].model, NoModel},
         \A v \in req'[r].victims :
           v \in req[r].victims \/ (v \in resident /\ Id(v) \notin protected),
         \A o \in resident' : Id(o) \in Touched,
         \A m \in protected : Of(m) # {} => Of(m)' # {},
         r = "preload" =>
           /\ ~In("preload", {"idle"}) /\ ~req'["preload"].left
           /\ \A m : Asks(m) => Asks(m)' \/ Of(m)' # {}
  PROVE  PlanInv'
<1>1. \A o \in Doomed' : o \in Doomed \/ (o \in resident /\ Id(o) \notin protected)
  BY DEF Doomed
<1>2. Touched' \subseteq Touched
  BY <1>1 DEF Touched
<1>3. "preload" \in Requests
  BY DEF Requests
<1> QED BY <1>1, <1>2, <1>3, PlanKept

\* A serve ends: a preload is refused, or answered with its model in memory.
LEMMA AnswerPlan ==
  ASSUME TypeOK, PlanInv, UNCHANGED <<site, stage, toPreload, protected, prune>>,
         NEW r, stack # << >>, r = Last(stack), NEW pc \in {"held", "refused"},
         NEW o \in Objects \cup {NoObject}, Answer(r, pc, o),
         resident' = resident \/ (pc = "held" /\ resident' = resident \cup {o}),
         pc = "held" => o \in resident' /\ Id(o) = req[r].model
  PROVE  PlanInv'
<1> USE TypeParts
<1>1. /\ r \in Serving /\ r \in Requests /\ \A q \in Requests : q # r => req'[q] = req[q]
      /\ req'[r] = IF req[r].left THEN Idle
                   ELSE [pc |-> pc, model |-> req[r].model, object |-> o,
                         victims |-> {}, left |-> FALSE]
  BY AnswerFacts DEF Serving
<1>2. req'[r].model \in {req[r].model, NoModel} /\ req'[r].victims = {}
  BY <1>1 DEF Idle
<1>3. resident \subseteq resident' /\ \A m : Of(m) # {} => Of(m)' # {}
  BY DEF Of
<1>4. \A x \in resident' : Id(x) \in Touched
  <2>1. CASE pc = "held"
    BY <1>1, <2>1 DEF Touched
  <2>2. CASE resident' = resident
    BY <2>2 DEF Touched
  <2> QED BY <2>1, <2>2
<1>5. r = "preload" =>
        /\ ~In("preload", {"idle"}) /\ ~req'["preload"].left
        /\ \A m : Asks(m) => Asks(m)' \/ Of(m)' # {}
  <2> SUFFICES ASSUME r = "preload"
               PROVE  /\ ~In("preload", {"idle"}) /\ ~req'["preload"].left
                      /\ \A m : Asks(m) => Asks(m)' \/ Of(m)' # {}
    OBVIOUS
  <2>1. ~In("preload", {"idle"}) /\ ~req["preload"].left
    BY <1>1 DEF Serving, In, AtServe, PlanInv, ProtectedKept
  <2>2. req'["preload"].pc = pc /\ req'["preload"].model = req["preload"].model
        /\ ~req'["preload"].left
    BY <1>1, <2>1
  <2> QED BY <2>1, <2>2 DEF Asks, In, Of
<1> QED BY <1>1, <1>2, <1>3, <1>4, <1>5, RequestPlan

\* A serve goes on within its request.
LEMMA MovePlan ==
  ASSUME TypeOK, PlanInv, UNCHANGED <<site, stage, toPreload, protected, prune>>,
         NEW r \in Requests, In(r, AtServe), NEW rec, req' = [req EXCEPT ![r] = rec],
         rec.pc \in AtServe, rec.model = req[r].model, rec.left = req[r].left,
         \A v \in rec.victims :
           v \in req[r].victims \/ (v \in resident /\ Id(v) \notin protected),
         resident' \subseteq resident, \A m \in protected : Of(m) # {} => Of(m)' # {}
  PROVE  PlanInv'
<1>1. req \in [Requests -> ReqRecords]
  BY TypeParts DEF ReqType, ReqRecords
<1>2. req'[r] = rec /\ \A q \in Requests : q # r => req'[q] = req[q]
  BY <1>1
<1>3. \A o \in resident' : Id(o) \in Touched
  BY DEF Touched
<1>4. r = "preload" =>
        /\ ~In("preload", {"idle"}) /\ ~req'["preload"].left
        /\ \A m : Asks(m) => Asks(m)' \/ Of(m)' # {}
  BY <1>2 DEF In, Asks, AtServe, PlanInv, ProtectedKept
<1> QED BY <1>2, <1>3, <1>4, RequestPlan

LEMMA ServePlan ==
  ASSUME TypeOK, ServeInv, PlanInv, NEW r \in Requests, Serve(r) PROVE PlanInv'
<1> USE TypeParts
<1>1. req \in [Requests -> ReqRecords] /\ req[r] \in ReqRecords
  BY DEF ReqType, ReqRecords
<1>2. CASE \/ Found(r) \/ FoundAgain(r) \/ LookupRaises(r) \/ Hopeless(r) \/ LoadFails(r)
  <2>1. UNCHANGED <<site, stage, toPreload, protected, prune, resident>>
        /\ stack # << >> /\ r = Last(stack)
    BY <1>2 DEF Found, FoundAgain, LookupRaises, Hopeless, LoadFails, Turn, Acts
  <2>2. CASE Found(r) \/ FoundAgain(r)
    <3>1. PICK o \in Of(req[r].model) : Answer(r, "held", o)
      BY <2>2 DEF Found, FoundAgain, Grant
    <3>2. o \in resident /\ o \in Objects /\ Id(o) = req[r].model
      BY DEF Of, BookType
    <3> QED BY <2>1, <3>1, <3>2, AnswerPlan
  <2>3. CASE ~(Found(r) \/ FoundAgain(r))
    <3>1. Answer(r, "refused", NoObject)
      BY <1>2, <2>3 DEF LookupRaises, Hopeless, LoadFails, Reject
    <3> QED BY <2>1, <3>1, AnswerPlan
  <2> QED BY <2>2, <2>3
<1>3. CASE LoadDone(r)
  <2>1. /\ UNCHANGED <<site, stage, toPreload, protected, prune>>
        /\ stack # << >> /\ r = Last(stack) /\ Started /\ load # NoLoad
    BY <1>3 DEF LoadDone, Turn, Acts, NoLoad
  <2>2. PICK o \in New(load.model) : resident' = Loaded(r, o) /\ Answer(r, "held", o)
    BY <1>3 DEF LoadDone, Grant
  <2>3. o \in Objects /\ Id(o) = req[r].model
    BY <2>1, <2>2 DEF New, ServeInv, LoadServed
  <2>4. resident' = resident \cup {o}
    BY <2>2 DEF Loaded
  <2>5. o \in resident'
    BY <2>4
  <2> QED BY <2>1, <2>2, <2>3, <2>4, <2>5, AnswerPlan
<1>4. CASE FoundDying(r) \/ Missing(r) \/ LoadNow(r) \/ ChooseVictims(r)
  <2>1. /\ UNCHANGED <<site, stage, toPreload, protected, prune, resident>>
        /\ In(r, AtServe)
    BY <1>4 DEF FoundDying, Missing, LoadNow, ChooseVictims, Turn, Acts, In, AtServe
  <2>2. \A m : Of(m)' = Of(m)
    BY <2>1 DEF Of
  <2>3. CASE FoundDying(r)
    <3>1. PICK o : req' = [req EXCEPT ![r] = [req[r] EXCEPT !.pc = "dying", !.object = o]]
      BY <2>3 DEF FoundDying
    <3> DEFINE rec == [req[r] EXCEPT !.pc = "dying", !.object = o]
    <3>2. rec.pc \in AtServe /\ rec.model = req[r].model /\ rec.left = req[r].left
          /\ rec.victims = req[r].victims
      BY <1>1 DEF AtServe, ReqRecords
    <3> QED BY <2>1, <2>2, <3>1, <3>2, MovePlan
  <2>4. CASE Missing(r)
    <3> DEFINE rec == [req[r] EXCEPT !.pc = "missing", !.object = NoObject]
    <3>1. req' = [req EXCEPT ![r] = rec]
      BY <2>4 DEF Missing
    <3>2. rec.pc \in AtServe /\ rec.model = req[r].model /\ rec.left = req[r].left
          /\ rec.victims = req[r].victims
      BY <1>1 DEF AtServe, ReqRecords
    <3> QED BY <2>1, <2>2, <3>1, <3>2, MovePlan
  <2>5. CASE LoadNow(r)
    <3> DEFINE rec == [req[r] EXCEPT !.pc = "load"]
    <3>1. req' = [req EXCEPT ![r] = rec]
      BY <2>5 DEF LoadNow, Goto
    <3>2. rec.pc \in AtServe /\ rec.model = req[r].model /\ rec.left = req[r].left
          /\ rec.victims = req[r].victims
      BY <1>1 DEF AtServe, ReqRecords
    <3> QED BY <2>1, <2>2, <3>1, <3>2, MovePlan
  <2>6. CASE ChooseVictims(r)
    <3>1. PICK V \in VictimChoices(req[r].model) :
            req' = [req EXCEPT ![r] = [req[r] EXCEPT !.pc = "quiesce", !.victims = V]]
      BY <2>6 DEF ChooseVictims
    <3> DEFINE rec == [req[r] EXCEPT !.pc = "quiesce", !.victims = V]
    <3>2. rec.pc \in AtServe /\ rec.model = req[r].model /\ rec.left = req[r].left
          /\ rec.victims = V
      BY <1>1 DEF AtServe, ReqRecords
    <3>3. \A v \in V : v \in resident /\ Id(v) \notin protected
      BY <3>1, ChosenAreResident
    <3> QED BY <2>1, <2>2, <3>1, <3>2, <3>3, MovePlan
  <2> QED BY <1>4, <2>3, <2>4, <2>5, <2>6
<1> QED BY <1>2, <1>3, <1>4 DEF Serve

\* An eviction takes only what is not protected.
LEMMA QuiescePlan ==
  ASSUME TypeOK, PlanInv, NEW r \in Requests, Quiesce(r) PROVE PlanInv'
<1> USE TypeParts
<1>1. req \in [Requests -> ReqRecords] /\ req[r] \in ReqRecords
  BY DEF ReqType, ReqRecords
<1>2. ASSUME NEW q \in Requests, LineCut(r, q) PROVE PlanInv'
  <2>1. /\ UNCHANGED <<site, stage, toPreload, protected, prune, resident>>
        /\ req[r].pc \in {"quiesce", "drain"} /\ req[q].pc = "queued"
    BY <1>2 DEF LineCut, Looks, Turn, Acts, CutBy, In
  <2>2. /\ \A p \in Requests \ {r, q} : req'[p] = req[p]
        /\ req'[r] = [req[r] EXCEPT !.pc = "quiesce"]
        /\ req'[q] = [req[q] EXCEPT !.pc = "lookup"]
    BY <1>2, CutFacts
  <2>3. req[q] \in ReqRecords
    BY <1>1
  <2>4. /\ \A p \in Requests : /\ req'[p].model = req[p].model
                               /\ req'[p].victims = req[p].victims
                               /\ req'[p].left = req[p].left
        /\ req'[r].pc = "quiesce" /\ req'[q].pc \in {"lookup", "quiesce"}
    BY <1>1, <2>2, <2>3 DEF ReqRecords
  <2>5. Doomed' = Doomed
    BY <2>1, <2>4 DEF Doomed
  <2>6. Touched' = Touched
    BY <2>1, <2>4, <2>5 DEF Touched
  <2>7. \A m : Of(m)' = Of(m)
    BY <2>1 DEF Of
  <2>8. \/ req'["preload"] = req["preload"]
        \/ /\ ~In("preload", {"idle"}) /\ ~req'["preload"].left
           /\ \A m : Asks(m) => Asks(m)' \/ Of(m)' # {}
    <3>1. CASE "preload" \notin {r, q}
      BY <2>2, <3>1 DEF Requests
    <3>2. CASE "preload" \in {r, q}
      <4>1. req'["preload"].pc \in AtServe /\ ~In("preload", {"idle"})
        BY <2>1, <2>4, <3>2 DEF AtServe, In
      <4> QED BY <2>4, <3>2, <4>1 DEF Asks, In, PlanInv, ProtectedKept
    <3> QED BY <3>1, <3>2
  <2> QED BY <2>1, <2>5, <2>6, <2>7, <2>8, PlanKept
<1>3. CASE DrainWait(r) \/ Quiesced(r) \/ Evicted(r)
  <2>1. /\ UNCHANGED <<site, stage, toPreload, protected, prune>>
        /\ In(r, AtServe) /\ Started
    BY <1>3 DEF DrainWait, Quiesced, Evicted, Looks, Turn, Acts, In, AtServe
  <2>2. PICK pc \in {"drain", "evict", "load"} : Goto(r, pc)
    BY <1>3 DEF DrainWait, Quiesced, Evicted
  <2>3. resident' = resident \/ resident' = resident \ req[r].victims
    BY <1>3 DEF DrainWait, Quiesced, Evicted
  <2>4. \A m \in protected : Of(m) # {} => Of(m)' # {}
    <3>1. \A v \in req[r].victims : Id(v) \notin protected
      <4>1. req[r].victims \subseteq Doomed
        BY <1>1 DEF ReqRecords, Doomed
      <4> QED BY <2>1, <4>1 DEF PlanInv, ProtectedKept
    <3> QED BY <2>3, <3>1 DEF Of
  <2> DEFINE rec == [req[r] EXCEPT !.pc = pc]
  <2>5. rec.pc \in AtServe /\ rec.model = req[r].model /\ rec.left = req[r].left
        /\ rec.victims = req[r].victims /\ req' = [req EXCEPT ![r] = rec]
    BY <1>1, <2>2 DEF AtServe, ReqRecords, Goto
  <2> QED BY <2>1, <2>3, <2>4, <2>5, MovePlan
<1> QED BY <1>2, <1>3 DEF Quiesce

\* A request comes, or leaves.  A preload leaves when it holds its model.
LEMMA AskPlan ==
  ASSUME TypeOK, PlanInv, NEW r \in Requests, Leave(r) \/ Take(r) \/ (r \in Clients /\ Ask(r))
  PROVE  PlanInv'
<1> USE TypeParts
<1>1. req \in [Requests -> ReqRecords] /\ req[r] \in ReqRecords
  BY DEF ReqType, ReqRecords
<1>2. /\ UNCHANGED <<site, stage, toPreload, protected, prune, resident>>
      /\ \A o \in resident' : Id(o) \in Touched
      /\ \A m : Of(m)' = Of(m)
  BY DEF Leave, Take, Ask, Of, Touched
<1>3. CASE Leave(r)
  <2>1. req' = [req EXCEPT ![r] = IF r \in Serving THEN [req[r] EXCEPT !.left = TRUE] ELSE Idle]
    BY <1>3 DEF Leave
  <2>2. /\ \A q \in Requests : q # r => req'[q] = req[q]
        /\ req'[r].model \in {req[r].model, NoModel}
        /\ req'[r].victims \subseteq req[r].victims
    <3>1. req'[r] = IF r \in Serving THEN [req[r] EXCEPT !.left = TRUE] ELSE Idle
      BY <1>1, <2>1
    <3> QED BY <1>1, <2>1, <3>1 DEF ReqRecords, Idle
  <2>3. r = "preload" => req[r].pc = "held" /\ req'[r] = Idle
    BY <1>1, <1>3, <2>1, ClientsAssumption DEF Leave, In, Serving, AtServe
  <2>4. r = "preload" =>
          /\ ~In("preload", {"idle"}) /\ ~req'["preload"].left
          /\ \A m : Asks(m) => Asks(m)' \/ Of(m)' # {}
    BY <2>3 DEF In, Idle, Asks, AtServe
  <2> QED BY <1>2, <2>2, <2>4, RequestPlan
<1>4. CASE Take(r)
  <2> DEFINE rec == [req[r] EXCEPT !.pc = "lookup"]
  <2>1. req' = [req EXCEPT ![r] = rec] /\ req[r].pc = "queued"
    BY <1>4 DEF Take, Goto, In
  <2>2. req'[r] = rec /\ \A q \in Requests : q # r => req'[q] = req[q]
    BY <1>1, <2>1
  <2>3. rec.pc = "lookup" /\ rec.model = req[r].model /\ rec.left = req[r].left
        /\ rec.victims = req[r].victims
    BY <1>1 DEF ReqRecords
  <2>4. r = "preload" =>
          /\ ~In("preload", {"idle"}) /\ ~req'["preload"].left
          /\ \A m : Asks(m) => Asks(m)' \/ Of(m)' # {}
    BY <2>1, <2>2, <2>3 DEF In, Asks, AtServe, PlanInv, ProtectedKept
  <2> QED BY <1>2, <2>2, <2>3, <2>4, RequestPlan
<1>5. CASE r \in Clients /\ Ask(r)
  <2>1. PICK m : req' = [req EXCEPT ![r] = [Idle EXCEPT !.pc = "queued", !.model = m]]
    BY <1>5 DEF Ask, Queue
  <2>2. req'[r].victims = {} /\ \A q \in Requests : q # r => req'[q] = req[q]
    BY <1>1, <2>1 DEF Idle
  <2>3. Doomed' \subseteq Doomed /\ stage = "up"
    BY <1>2, <1>5, <2>2 DEF Doomed, Ask
  <2>4. req'["preload"] = req["preload"]
    BY <1>5, <2>2, ClientsAssumption DEF Requests
  <2> QED BY <1>2, <2>3, <2>4, PlanKept
<1> QED BY <1>3, <1>4, <1>5

\* A prune takes what is resident and not protected.
LEMMA PrunePlan ==
  ASSUME TypeOK, PlanInv, NEW t \in Pruners,
         PruneScan(t) \/ PruneNext(t) \/ PruneSkip(t) \/ PruneEnd(t) \/ PruneRaises(t)
  PROVE  PlanInv'
<1> USE TypeParts
<1>1. /\ UNCHANGED <<site, stage, toPreload, protected, req>> /\ Started
  BY DEF PruneScan, PruneNext, PruneSkip, PruneEnd, PruneRaises
<1>2. prune \in [Pruners -> [todo : SUBSET Objects, now : Objects \cup {NoObject}]]
  BY DEF BookType
<1>3. /\ \A s \in Pruners : s # t => prune'[s] = prune[s]
      /\ \A o \in prune'[t].todo \cup {prune'[t].now} :
           \/ o = NoObject \/ o \in prune[t].todo \cup {prune[t].now}
           \/ o \in resident /\ Id(o) \notin protected
  <2>1. CASE PruneScan(t)
    <3>1. PICK C \in SUBSET {o \in resident : ~Busy(o) /\ Id(o) \notin protected} :
            \E o \in C : prune' = [prune EXCEPT ![t] = [todo |-> C \ {o}, now |-> o]]
      BY <2>1 DEF PruneScan
    <3> QED BY <1>2, <3>1
  <2>2. CASE PruneNext(t) \/ PruneSkip(t)
    <3>1. PICK o \in prune[t].todo :
            \/ prune' = [prune EXCEPT ![t] = [todo |-> prune[t].todo \ {o}, now |-> o]]
            \/ prune' = [prune EXCEPT ![t].todo = prune[t].todo \ {o}]
      BY <2>2 DEF PruneNext, PruneSkip
    <3> QED BY <1>2, <3>1
  <2>3. CASE PruneEnd(t) \/ PruneRaises(t)
    <3>1. prune' = [prune EXCEPT ![t].now = NoObject] \/ prune' = [prune EXCEPT ![t] = NoPrune]
      BY <2>3 DEF PruneEnd, PruneRaises
    <3> QED BY <1>2, <3>1 DEF NoPrune
  <2> QED BY <2>1, <2>2, <2>3
<1>4. Id(NoObject) = NoModel
  BY DEF Id, NoObject
<1>5. \A o \in Doomed' : o \in Doomed \/ o = NoObject \/ (o \in resident /\ Id(o) \notin protected)
  <2> SUFFICES ASSUME NEW o \in Doomed'
               PROVE  o \in Doomed \/ o = NoObject \/ (o \in resident /\ Id(o) \notin protected)
    OBVIOUS
  <2>1. CASE \E r \in Requests : o \in req'[r].victims
    BY <1>1, <2>1 DEF Doomed
  <2>2. CASE \E s \in Pruners : o \in prune'[s].todo \cup {prune'[s].now}
    <3>1. PICK s \in Pruners : o \in prune'[s].todo \cup {prune'[s].now}
      BY <2>2
    <3>2. CASE s = t
      BY <1>3, <3>1, <3>2 DEF Doomed
    <3>3. CASE s # t
      BY <1>3, <3>1, <3>3 DEF Doomed
    <3> QED BY <3>2, <3>3
  <2> QED BY <2>1, <2>2 DEF Doomed
<1>6. \A o \in Doomed' \ Doomed : Id(o) \notin protected
  BY <1>4, <1>5, NoModelAssumption DEF BookType
<1>7. resident' = resident \/ resident' = resident \ {prune[t].now}
  BY DEF PruneScan, PruneNext, PruneSkip, PruneEnd, PruneRaises
<1>8. Touched' \subseteq Touched
  BY <1>1, <1>4, <1>5, <1>7 DEF Touched
<1>9. \A m \in protected : Of(m) # {} => Of(m)' # {}
  <2>1. prune[t].now \in Doomed
    BY DEF Doomed, BookType
  <2>2. Id(prune[t].now) \notin protected
    BY <1>1, <2>1 DEF PlanInv, ProtectedKept
  <2> QED BY <1>7, <2>2 DEF Of
<1> QED BY <1>1, <1>6, <1>8, <1>9, PlanKept

LEMMA EndPlan ==
  ASSUME PlanInv, PreloadFails \/ Ended \/ Stop \/ Die PROVE PlanInv'
<1>1. "preload" \in Requests
  BY DEF Requests
<1>2. stage' \notin {"preload", "up", "stop"}
  BY DEF PreloadFails, Ended, Stop, Die
<1>3. ~req'["preload"].left
  <2>1. CASE PreloadFails \/ Ended
    BY <2>1 DEF PreloadFails, Ended, PlanInv, ProtectedKept
  <2>2. CASE Stop \/ Die
    <3>1. req' = [r \in Requests |-> Idle]
      BY <2>2 DEF Stop, Die
    <3> QED BY <1>1, <3>1 DEF Idle
  <2> QED BY <2>1, <2>2
<1>4. stage' = "down" => Touched' = {NoModel} /\ protected' = {}
  <2> SUFFICES ASSUME stage' = "down" PROVE Touched' = {NoModel} /\ protected' = {}
    OBVIOUS
  <2>1. Die
    BY DEF PreloadFails, Ended, Stop
  <2>2. /\ resident' = {} /\ protected' = {}
        /\ \A r \in Requests : req'[r].model = NoModel /\ req'[r].victims = {}
        /\ \A t \in Pruners : prune'[t].todo = {} /\ prune'[t].now = NoObject
    BY <2>1 DEF Die, Idle, NoPrune
  <2>3. \A o \in Doomed' : o = NoObject
    BY <2>2 DEF Doomed
  <2>4. Id(NoObject) = NoModel
    BY DEF Id, NoObject
  <2> QED BY <2>2, <2>3, <2>4 DEF Touched
<1> QED BY <1>2, <1>3, <1>4 DEF PlanInv, PlanInTurn, ProtectedKept, Started

LEMMA StartPlan == ASSUME TypeOK, PlanInv, Start PROVE PlanInv'
<1>1. /\ stage = "down" /\ stage' = "preload" /\ toPreload' = site.plan
      /\ UNCHANGED <<site, protected, resident, req, prune>>
  BY DEF Start
<1>2. site.plan \in Seq(PlanEntries)
  BY SitesAssumption DEF TypeOK, LifeType
<1>3. Doomed' = Doomed
  BY <1>1 DEF Doomed
<1>4. Touched' = {NoModel} /\ protected' = {}
  BY <1>1, <1>3 DEF Touched, PlanInv, PlanInTurn
<1>5. Preloaded' = 0 /\ Len(site.plan) \in Nat
  BY <1>1, <1>2 DEF Preloaded
<1>6. PlanInTurn'
  BY <1>1, <1>2, <1>4, <1>5 DEF PlanInTurn
<1>7. ProtectedKept'
  BY <1>1, <1>4 DEF PlanInv, ProtectedKept
<1> QED BY <1>6, <1>7 DEF PlanInv

\* The next entry's model is one that nobody has touched, if it is "always".
LEMMA PreloadPlan ==
  ASSUME AlwaysComesFirst, TypeOK, PlanInv, Preload PROVE PlanInv'
<1> DEFINE e == Head(toPreload)
           k == Preloaded
           plan == site.plan
           asks == [Idle EXCEPT !.pc = "queued", !.model = e.model]
<1>1. /\ stage = "preload" /\ toPreload # << >> /\ In("preload", {"idle"})
      /\ protected' = protected \cup Protects(e)
      /\ req' = [req EXCEPT !["preload"] = asks]
      /\ toPreload' = Tail(toPreload)
      /\ UNCHANGED <<site, stage, resident, prune>>
  BY DEF Preload, Queue
<1>2. /\ plan \in Seq(PlanEntries) /\ toPreload \in Seq(PlanEntries)
      /\ "preload" \in Requests /\ site \in Sites
  BY SitesAssumption DEF TypeOK, LifeType, Requests
<1>3. /\ Len(toPreload) <= Len(plan) /\ \A n \in 1 .. Len(toPreload) : toPreload[n] = plan[k + n]
      /\ Touched \subseteq {plan[n].model : n \in 1 .. k} \cup {NoModel}
      /\ \A n \in 1 .. k : plan[n].protect => plan[n].model \in protected
  BY <1>1 DEF PlanInv, PlanInTurn
<1>4. /\ Len(plan) \in Nat /\ Len(toPreload) \in Nat \ {0} /\ k \in Nat /\ k + 1 \in 1 .. Len(plan)
      /\ Len(toPreload') = Len(toPreload) - 1 /\ Preloaded' = k + 1
      /\ \A n \in 1 .. Len(toPreload) - 1 : toPreload'[n] = toPreload[n + 1]
  BY <1>1, <1>2, <1>3 DEF Preloaded
<1>5. e = plan[k + 1] /\ e \in PlanEntries
  <2>1. e \in PlanEntries
    BY <1>1, <1>2
  <2>2. e = toPreload[1]
    BY <1>1, <1>2
  <2>3. 1 \in 1 .. Len(toPreload)
    BY <1>4
  <2> HIDE DEF e, k, plan
  <2>4. toPreload[1] = plan[k + 1]
    BY <1>3, <2>3
  <2> QED BY <2>1, <2>2, <2>4
<1> HIDE DEF k, plan
<1>6. e.model \in Models /\ NoModel \notin Models
  BY <1>5, NoModelAssumption DEF PlanEntries
<1>7. /\ \A r \in Requests : r # "preload" => req'[r] = req[r]
      /\ req'["preload"] = asks
      /\ asks.pc = "queued" /\ asks.model = e.model /\ asks.victims = {} /\ ~asks.left
  <2>1. asks.pc = "queued" /\ asks.model = e.model /\ asks.victims = {} /\ ~asks.left
    BY DEF Idle
  <2> HIDE DEF asks
  <2> QED BY <1>1, <1>2, <2>1 DEF TypeOK, LifeType, ReqType
<1> HIDE DEF asks
<1>8. \A o \in Doomed' : o \in Doomed
  BY <1>1, <1>7 DEF Doomed
<1>9. Touched' \subseteq Touched \cup {e.model}
  BY <1>1, <1>7, <1>8 DEF Touched
<1>10. PlanInTurn'
  <2>1. \A n \in 1 .. Len(toPreload') : toPreload'[n] = plan[Preloaded' + n]
    <3> SUFFICES ASSUME NEW n \in 1 .. Len(toPreload')
                 PROVE  toPreload'[n] = plan[Preloaded' + n]
      OBVIOUS
    <3>1. n \in 1 .. Len(toPreload) - 1 /\ n + 1 \in 1 .. Len(toPreload)
          /\ k + (n + 1) = (k + 1) + n
      BY <1>4
    <3> QED BY <1>3, <1>4, <3>1
  <2>2. Touched' \subseteq {plan[n].model : n \in 1 .. k + 1} \cup {NoModel}
    <3>1. \A n \in 1 .. k : n \in 1 .. k + 1
      BY <1>4
    <3> QED BY <1>3, <1>4, <1>5, <1>9, <3>1
  <2>3. \A n \in 1 .. k + 1 : plan[n].protect => plan[n].model \in protected'
    <3> SUFFICES ASSUME NEW n \in 1 .. k + 1, plan[n].protect
                 PROVE  plan[n].model \in protected'
      OBVIOUS
    <3>1. CASE n = k + 1
      BY <1>1, <1>5, <3>1 DEF Protects
    <3>2. CASE n # k + 1
      <4>1. n \in 1 .. k
        BY <1>4, <3>2
      <4> QED BY <1>1, <1>3, <4>1
    <3> QED BY <3>1, <3>2
  <2>4. Len(toPreload') <= Len(plan)
    BY <1>3, <1>4
  <2> QED BY <1>1, <1>4, <2>1, <2>2, <2>3, <2>4 DEF PlanInTurn, plan
<1>11. e.protect => e.model \notin Touched
  <2> SUFFICES ASSUME e.protect, e.model \in Touched PROVE FALSE
    OBVIOUS
  <2>1. PICK n \in 1 .. k : plan[n].model = e.model
    BY <1>3, <1>6
  <2>2. n \in DOMAIN plan /\ k + 1 \in DOMAIN plan /\ n < k + 1
    BY <1>2, <1>4
  <2> QED BY <1>2, <1>5, <2>1, <2>2 DEF AlwaysComesFirst, plan
<1>12. ProtectedKept'
  <2>1. Started
    BY <1>1 DEF Started
  <2>2. \A m \in protected : Of(m) # {}
    BY <1>1, <2>1 DEF PlanInv, ProtectedKept, Asks, In, AtServe
  <2>3. \A o \in Doomed' : Id(o) \notin protected'
    <3> SUFFICES ASSUME NEW o \in Doomed' PROVE Id(o) \notin protected'
      OBVIOUS
    <3>1. o \in Doomed /\ Id(o) \in Touched
      BY <1>8 DEF Touched
    <3>2. Id(o) \notin protected
      BY <2>1, <3>1 DEF PlanInv, ProtectedKept
    <3> QED BY <1>1, <1>11, <3>1, <3>2 DEF Protects
  <2>4. \A m \in protected' : Of(m)' # {} \/ Asks(m)'
    <3>1. \A m : Of(m)' = Of(m)
      BY <1>1 DEF Of
    <3>2. In("preload", AtServe \cup {"queued", "refused"})'
      BY <1>7 DEF In
    <3> QED BY <1>1, <1>7, <2>2, <3>1, <3>2 DEF Protects, Asks
  <2> QED BY <1>7, <2>3, <2>4 DEF ProtectedKept
<1> QED BY <1>10, <1>12 DEF PlanInv

\* Up, when the plan is done, and the shutdown.
LEMMA StagePlan == ASSUME TypeOK, PlanInv, Up \/ Shutdown \/ Deadline PROVE PlanInv'
<1>1. /\ UNCHANGED <<site, toPreload, protected, resident, req>> /\ Started /\ Started'
  BY DEF Up, Shutdown, Deadline, Started
<1>2. \A t \in Pruners : prune'[t] = prune[t] \/ prune'[t] = NoPrune
  BY DEF Up, Shutdown, Deadline, Cancel, TypeOK, LifeType
<1>3. \A o \in Doomed' : o \in Doomed \/ o = NoObject
  BY <1>1, <1>2 DEF Doomed, NoPrune
<1>4. ProtectedKept'
  <2>1. Id(NoObject) \notin protected
    BY NoModelAssumption DEF Id, NoObject, TypeOK, LifeType
  <2>2. \A m : Of(m)' = Of(m) /\ Asks(m)' = Asks(m)
    BY <1>1 DEF Of, Asks, In
  <2>3. \A o \in Doomed' : Id(o) \notin protected'
    BY <1>1, <1>3, <2>1 DEF PlanInv, ProtectedKept
  <2> QED BY <1>1, <2>2, <2>3 DEF PlanInv, ProtectedKept
<1>5. PlanInTurn'
  <2>1. CASE Up
    <3>1. /\ stage = "preload" /\ stage' = "up" /\ toPreload = << >>
          /\ In("preload", {"idle"})
      BY <2>1 DEF Up
    <3>2. site.plan \in Seq(PlanEntries)
      BY SitesAssumption DEF TypeOK, LifeType
    <3>3. DOMAIN site.plan = 1 .. Preloaded
      BY <3>1, <3>2 DEF Preloaded
    <3> QED BY <1>1, <3>1, <3>3 DEF PlanInv, PlanInTurn, In
  <2>2. CASE Shutdown \/ Deadline
    <3>1. stage \in {"up", "stop"} /\ stage' \in {"up", "stop"}
      BY <2>2 DEF Shutdown, Deadline
    <3> QED BY <1>1, <3>1 DEF PlanInv, PlanInTurn, In
  <2> QED BY <2>1, <2>2
<1> QED BY <1>4, <1>5 DEF PlanInv

\* An exception of an eviction is for its request.
LEMMA UnloadedPlan == ASSUME TypeOK, PlanInv, Unloaded PROVE PlanInv'
<1>1. UNCHANGED <<site, stage, toPreload, protected, prune, resident>>
  BY DEF Unloaded
<1>2. CASE unloading["loop"].pc = "raised" /\ Running
  <2>1. stack # << >> /\ Answer(Last(stack), "refused", NoObject)
    BY <1>2 DEF Unloaded, Running, Reject
  <2> QED BY <1>1, <2>1, AnswerPlan
<1>3. CASE UNCHANGED req
  BY <1>1, <1>3, PlanKept DEF Touched, Doomed, Of
<1> QED BY <1>2, <1>3 DEF Unloaded

LEMMA StepPlan ==
  ASSUME AlwaysComesFirst PROVE TypeOK /\ ServeInv /\ PlanInv /\ [Next]_vars => PlanInv'
<1> SUFFICES ASSUME TypeOK, ServeInv, PlanInv, [Next]_vars PROVE PlanInv'
  OBVIOUS
<1>1. Clients \subseteq Requests
  BY DEF Requests
<1>2. CASE UNCHANGED <<site, stage, toPreload, protected, resident, req, prune>>
  <2>1. Doomed' = Doomed /\ \A m : Of(m)' = Of(m)
    BY <1>2 DEF Doomed, Of
  <2>2. Touched' = Touched
    BY <1>2, <2>1 DEF Touched
  <2> QED BY <1>2, <2>1, <2>2, PlanKept
<1>3. CASE Start \/ Preload \/ Up \/ Shutdown \/ Deadline
  BY <1>3, StartPlan, PreloadPlan, StagePlan
<1>4. CASE PreloadFails \/ Ended \/ Stop \/ Die
  BY <1>4, EndPlan
<1>5. ASSUME NEW r \in Requests,
             Leave(r) \/ Take(r) \/ Serve(r) \/ Quiesce(r) \/ (r \in Clients /\ Ask(r))
      PROVE  PlanInv'
  BY <1>5, AskPlan, ServePlan, QuiescePlan
<1>6. CASE Unloaded
  BY <1>6, UnloadedPlan
<1>7. CASE Visit \/ \E t \in Pruners : PruneScan(t) \/ PruneEnd(t) \/ PruneRaises(t)
  BY <1>7, PrunePlan DEF Visit
<1>8. CASE UnloadNext \/ Environment \/ Worker \/ UNCHANGED vars
        \/ (\E t \in Pruners : PruneDropped(t)) \/ (UnloadStep("loop") /\ UNCHANGED lifeVars)
  BY <1>2, <1>8 DEF UnloadNext, Environment, Worker, PruneDropped, vars, lifeVars
<1> QED
  BY <1>1, <1>3, <1>4, <1>5, <1>6, <1>7, <1>8 DEF Next, Loop, LoopUnload, Prune

\* Every "always" model is in memory from the moment the process is up until it
\* unloads everything (preload_on_start), where its entry of the plan is the
\* first of its model.
THEOREM AlwaysModelsAreResident ==
  ASSUME AlwaysComesFirst PROVE Spec => []StartedAsPlanned
<1>1. Init => PlanInv
  <2> SUFFICES ASSUME Init PROVE PlanInv
    OBVIOUS
  <2>1. /\ resident = {} /\ protected = {} /\ stage = "down"
        /\ \A r \in Requests : req[r] = Idle
        /\ \A t \in Pruners : prune[t] = NoPrune
    BY DEF Init
  <2>2. \A o \in Doomed : o = NoObject
    BY <2>1 DEF Doomed, Idle, NoPrune
  <2>3. Touched = {NoModel}
    BY <2>1, <2>2 DEF Touched, Idle, Id, NoObject
  <2> QED BY <2>1, <2>3 DEF PlanInv, PlanInTurn, ProtectedKept, Started, Idle, Requests
<1>2. TypeOK /\ ServeInv /\ PlanInv /\ [Next]_vars => PlanInv'
  BY StepPlan
<1>3. PlanInv => StartedAsPlanned
  BY DEF PlanInv, PlanInTurn, ProtectedKept, StartedAsPlanned, Started, Asks, In, AtServe
<1>4. TypeOK /\ ServeInv /\ [Next]_vars => ServeInv'
  BY ServeStep
<1> QED BY <1>1, <1>2, <1>3, <1>4, InitType, TypeStep, InitServe, PTL DEF Spec

----------------------------------------------------------------------------
(* Where no server is orphaned *)

\* All models fit at once, and only one prune may be unloading.
Roomy(s) ==
  Held(Size, Models) <= Budget(s) /\ \A t, u \in s.pruners : t = u

\* Nothing is pruned, and one model at most is served by a spawned server.
Plain(s) == s.pruners = {} /\ \A m, n \in Spawned : m = n

\* Elsewhere a serve inside another, or a prune beside an eviction, may leave a
\* server to itself (the run `orphan').
Careful == \A s \in Sites : Roomy(s) \/ Plain(s)

\* A model is settled when its handle holds no running server of this process.
Settled(m) == m \in Spawned => handle[m] \notin ours

Present == {Id(o) : o \in resident}

\* What the loop has to unload before it goes on: its victims, or everything.
Leaving ==
  IF stage \in {"failing", "unload", "exited"} THEN resident
  ELSE IF Started /\ stack # << >> /\ In(Last(stack), {"evict"})
  THEN req[Last(stack)].victims
  ELSE {}

\* Every server this process has is running, and every handle is of its model.
Handles ==
  /\ ours \subseteq Alive
  /\ \A m \in Spawned : handle[m] # NoServer => handle[m][1] = m

\* A server in a handle belongs to a model that is resident or loading.
Owned ==
  \A m \in Spawned :
    m \in Present \/ Settled(m)
      \/ (load.model = m /\ load.pc \in {"probe", "cleanup", "ok"})

\* A spawned model that loads is not resident yet; until its server is spawned,
\* and after it failed, it is settled.
LoadApart ==
  /\ load = NoLoad \/ (load.pc # "none" /\ load.model \in Models)
  /\ load # NoLoad /\ load.model \in Spawned => load.model \notin Present
  /\ load.pc \in {"begin", "failed"} => Settled(load.model)

\* The loading thread unloads only to clean up, and only its own model.
LoaderApart ==
  /\ load.pc # "cleanup" => unloading["loader"] = NoUnload
  /\ load.pc = "cleanup" =>
       /\ unloading["loader"].pc # "none"
       /\ unloading["loader"].model = load.model

\* An unload takes the process of the handle, and a model stays resident until
\* its unload is over; but an eviction may come too late for that.
Unloads ==
  \A t \in Threads :
    LET u == unloading[t]
    IN  /\ u = NoUnload \/ (u.pc # "none" /\ u.model \in Models)
        /\ u.pc = "run" /\ u.model \in Spawned =>
             u.victim = handle[u.model] \/ Settled(u.model)
        /\ u.pc \in {"done", "raised"} => Settled(u.model)
        /\ \/ u = NoUnload \/ t = "loader" \/ u.model \in Present
           \/ t = "loop" /\ load = NoLoad

Apart == Handles /\ Owned /\ LoadApart /\ LoaderApart /\ Unloads /\ NoOrphan

\* What the loop is done with is settled.
LoopUnloads ==
  /\ toUnload \subseteq Leaving
  /\ stage = "exited" => toUnload = {}
  /\ ~Started => ~Running
  /\ unloading["loop"] # NoUnload => \E o \in Leaving : unloading["loop"].model = Id(o)
  /\ \A o \in Leaving \ toUnload : unloading["loop"].model # Id(o) => Settled(Id(o))

\* A prune unloads what it has in hand, and only the prunes of the site do.
PruneApart(t) ==
  /\ task[t] # "off" \/ prune[t] # NoPrune \/ unloading[t] # NoUnload => t \in site.pruners
  /\ task[t] = "off" => prune[t] = NoPrune
  /\ prune[t].todo \subseteq resident \ {prune[t].now}
  /\ prune[t].now # NoObject =>
       unloading[t] # NoUnload /\ unloading[t].model = Id(prune[t].now)

PrunesApart ==
  /\ stage = "down" => \A t \in Pruners : task[t] = "off"
  /\ \A t \in Pruners : PruneApart(t)

\* From here on a serve takes its model not to be resident.
Late == {"missing", "quiesce", "drain", "evict", "load"}

\* Where everything fits nothing is evicted, and a model is resident once.
RoomyCalm ==
  Roomy(site) =>
    /\ \A r \in Serving : In(r, {"lookup", "dying", "missing", "load"})
    /\ \A o, p \in resident : Id(o) = Id(p) => o = p
    /\ \A r \in Serving : In(r, Late) => req[r].model \notin Present

\* Where one server is spawned, only the outermost serve may load it: one inside
\* it finds it resident.
PlainCalm ==
  Plain(site) =>
    \A r \in Serving : req[r].model \in Spawned =>
      IF r = stack[1] THEN In(r, Late) => req[r].model \notin Present
      ELSE In(r, {"lookup"}) /\ req[r].model \in Present

Calm == PrunesApart /\ RoomyCalm /\ PlainCalm

IInv == TypeOK /\ ServeInv /\ Calm /\ Apart /\ LoopUnloads

LEMMA PresentIs ==
  /\ \A m : m \in Present <=> Of(m) # {}
  /\ \A m : m \in Present' <=> Of(m)' # {}
BY DEF Present, Of

LEMMA CarefulSite == ASSUME Careful, TypeOK PROVE Roomy(site) \/ Plain(site)
BY DEF Careful, TypeOK, LifeType

\* With every model in memory at most once, one more always fits.
LEMMA RoomyFits ==
  ASSUME Roomy(site), TypeOK, \A o, p \in resident : Id(o) = Id(p) => o = p,
         NEW m \in Models, m \notin Present
  PROVE  Fits(m)
<1> DEFINE more == Present \cup {m}
<1>1. /\ resident \subseteq Objects /\ Present \subseteq Models /\ more \in SUBSET Models
  BY ObjectIds DEF TypeOK, LifeType, Present
<1>2. IsFiniteSet(Models) /\ IsFiniteSet(Present)
  BY <1>1, SizeAssumption, FS_Subset
<1>3. HasSizes(Size, Models) /\ HasSizes(Size, Present) /\ Size[m] \in Nat
  BY <1>1, SizeAssumption DEF HasSizes
<1>4. IsFiniteSet(resident)
  <2>1. IsFiniteSet(1 .. MaxObjects)
    BY FS_Interval, SizeAssumption
  <2>2. IsFiniteSet(Objects)
    BY <1>2, <2>1, FS_Product DEF Objects
  <2> QED BY <1>1, <2>2, FS_Subset
<1>5. HasSizes(ObjSize, resident) /\ \A o \in resident : ObjSize[o] = Size[Id(o)]
  BY <1>1, SizeAssumption, ObjectIds DEF HasSizes, ObjSize
<1>6. Held(ObjSize, resident) = Held(Size, Present)
  <2> DEFINE id == [o \in resident |-> Id(o)]
  <2>1. /\ \A o \in resident : ObjSize[o] = Size[id[o]]
        /\ \A o, p \in resident : id[o] = id[p] => o = p
        /\ Present = {id[o] : o \in resident}
    BY <1>5 DEF Present
  <2> HIDE DEF id
  <2> QED BY <1>4, <1>5, <2>1, HeldRenamed
<1>7. Held(Size, more) = Held(Size, Present) + Size[m]
  BY <1>2, <1>3, HeldAdd
<1>8. IsFiniteSet(more) /\ HasSizes(Size, more)
  BY <1>1, <1>2, <1>3, FS_Subset DEF HasSizes
<1> HIDE DEF more
<1>9. Held(Size, more) <= Held(Size, Models)
  BY <1>1, <1>2, <1>3, HeldMonotone
<1>10. /\ Held(Size, more) \in Nat /\ Held(Size, Models) \in Nat /\ Held(Size, Present) \in Nat
       /\ Budget(site) \in Nat
  BY <1>2, <1>3, <1>8, HeldType, SitesAssumption, SizeAssumption
  DEF Budget, TypeOK, LifeType
<1> QED BY <1>3, <1>6, <1>7, <1>9, <1>10 DEF Fits, Shortfall, Roomy

\* What the threads of the prunes are doing, as far as the prunes are concerned.
Hands == [t \in Pruners |-> [busy |-> unloading[t] # NoUnload, model |-> unloading[t].model]]

LEMMA PrunesKept ==
  ASSUME PrunesApart, UNCHANGED <<site, task, prune, Hands>>, stage' # "down" \/ stage = "down",
         resident \subseteq resident' \/ site.pruners = {}
  PROVE  PrunesApart'
<1>1. ASSUME NEW t \in Pruners PROVE PruneApart(t)'
  <2>1. Hands'[t] = Hands[t]
    OBVIOUS
  <2>2. /\ (unloading'[t] # NoUnload) = (unloading[t] # NoUnload)
        /\ unloading'[t].model = unloading[t].model
    BY <2>1 DEF Hands
  <2>3. prune[t].todo \subseteq resident'
    BY DEF PrunesApart, PruneApart, NoPrune
  <2> QED BY <2>2, <2>3 DEF PrunesApart, PruneApart
<1> QED BY <1>1 DEF PrunesApart

\* Whatever is not a prune's leaves them alone.
LEMMA HandsKept ==
  ASSUME ServerType,
         \/ UNCHANGED serverVars
         \/ LoadStep \/ Environment
         \/ \E m \in Models : StartLoad(m) \/ StartUnload("loop", m)
         \/ Forget("loop")
         \/ UNCHANGED unloading
         \/ \E t \in Threads : UnloadStep(t)
  PROVE  Hands' = Hands
<1>1. \A t \in Pruners : t \in Threads /\ t # "loop" /\ t # "loader"
  BY ThreadsAssumption DEF Pruners
<1>2. CASE UNCHANGED unloading
  BY <1>2 DEF Hands
<1>3. CASE LoadStep \/ Forget("loop") \/ \E m \in Models : StartUnload("loop", m)
  <2>1. \A t \in Pruners : unloading'[t] = unloading[t]
    BY <1>1, <1>3 DEF LoadStep, SpawnFails, Popen, Answered, NotReady, CleanedUp, LmsLoad,
       Forget, BeginUnload, StartUnload, ServerType
  <2> QED BY <2>1 DEF Hands
<1>4. CASE \E t \in Threads : UnloadStep(t)
  <2>1. PICK t \in Threads : UnloadStep(t)
    BY <1>4
  <2>2. \/ unloading' = unloading
        \/ \E pc \in {"done", "raised"} : unloading' = [unloading EXCEPT ![t].pc = pc]
    BY <2>1 DEF UnloadStep, Terminate, Unload, LmsUnload
  <2>3. unloading[t].pc = "run"
    BY <2>1 DEF UnloadStep, Terminate, Unload, LmsUnload
  <2>4. \A s \in Threads : /\ unloading'[s].model = unloading[s].model
                           /\ unloading'[s] # NoUnload <=> unloading[s] # NoUnload
    BY <2>2, <2>3 DEF ServerType, NoUnload
  <2> QED BY <1>1, <2>4 DEF Hands
<1>5. CASE UNCHANGED serverVars \/ Environment \/ \E m \in Models : StartLoad(m)
  BY <1>2, <1>5 DEF serverVars, Environment, Listen, Exit, StartLoad
<1> QED BY <1>2, <1>3, <1>4, <1>5

\* Only where nothing is pruned is anything evicted.
LEMMA EvictsNoPrune ==
  ASSUME Careful, TypeOK, Calm, NEW r \in Serving, In(r, {"quiesce", "drain", "evict"})
  PROVE  Plain(site) /\ ~Roomy(site)
BY CarefulSite DEF Calm, RoomyCalm, In

LEMMA PrunesStep ==
  ASSUME Careful, TypeOK, Calm, [Next]_vars PROVE PrunesApart'
<1> USE TypeParts
<1>1. /\ PrunesApart
      /\ prune \in [Pruners -> [todo : SUBSET Objects, now : Objects \cup {NoObject}]]
      /\ task \in [Pruners -> {"off", "on", "dead"}]
      /\ unloading \in [Threads -> [pc : {"none", "run", "done", "raised"},
                                    model : Models \cup {NoModel},
                                    victim : Servers \cup {NoServer}]]
      /\ \A t \in Pruners : t \in Threads /\ t # "loop" /\ t # "loader"
      /\ \A t \in Pruners : PruneApart(t)
  BY ThreadsAssumption DEF Calm, BookType, ServerType, Pruners, PrunesApart
<1>2. CASE UNCHANGED <<site, task, prune, resident, Hands>> /\ (stage' # "down" \/ stage = "down")
  BY <1>1, <1>2, PrunesKept
<1>3. CASE \/ Preload \/ PreloadFails \/ Deadline \/ Ended
           \/ \E r \in Requests : Ask(r) \/ Leave(r) \/ Take(r)
  <2>1. UNCHANGED serverVars /\ UNCHANGED <<site, task, prune, resident>>
        /\ (stage' # "down" \/ stage = "down")
    BY <1>3 DEF Preload, PreloadFails, Deadline, Ended, Ask, Leave, Take
  <2> QED BY <1>2, <2>1, HandsKept
<1>4. CASE \E r \in Requests :
             \/ Found(r) \/ FoundDying(r) \/ FoundAgain(r) \/ Missing(r)
             \/ LookupRaises(r) \/ Hopeless(r) \/ ChooseVictims(r)
             \/ DrainWait(r) \/ Quiesced(r) \/ LoadNow(r) \/ LoadFails(r)
             \/ \E q \in Requests : LineCut(r, q)
  <2>1. UNCHANGED unloading /\ UNCHANGED <<site, stage, task, prune, resident>>
    BY <1>4 DEF Found, FoundDying, FoundAgain, Missing, LookupRaises, Hopeless, ChooseVictims,
       DrainWait, Quiesced, LoadNow, LoadFails, LineCut, StartLoad, serverVars
  <2> QED BY <1>2, <2>1, HandsKept
<1>5. ASSUME NEW r \in Requests, LoadDone(r) PROVE PrunesApart'
  <2>1. UNCHANGED unloading /\ UNCHANGED <<site, stage, task, prune>> /\ resident \subseteq resident'
    BY <1>5 DEF LoadDone, Loaded
  <2> QED BY <1>1, <2>1, PrunesKept, HandsKept
<1>6. ASSUME NEW r \in Requests, Evicted(r) PROVE PrunesApart'
  <2>1. UNCHANGED unloading /\ UNCHANGED <<site, stage, task, prune>>
    BY <1>6 DEF Evicted, StartLoad
  <2>2. site.pruners = {}
    BY <1>6, EvictsNoPrune, StackFacts DEF Evicted, Acts, In, Plain
  <2> QED BY <1>1, <2>1, <2>2, PrunesKept, HandsKept
<1>7. CASE UnloadNext \/ Unloaded
  <2>1. UNCHANGED <<site, stage, task, prune, resident>>
    BY <1>7 DEF UnloadNext, Unloaded
  <2>2. Forget("loop") \/ \E m \in Models : StartUnload("loop", m)
    BY <1>7, ObjectIds DEF UnloadNext, Unloaded, BookType
  <2> QED BY <1>2, <2>1, <2>2, HandsKept
<1>8. CASE (LoadStep \/ (\E t \in Threads : UnloadStep(t))) /\ UNCHANGED lifeVars
  <2>1. UNCHANGED <<site, stage, task, prune, resident>>
    BY <1>8 DEF lifeVars
  <2> QED BY <1>2, <1>8, <2>1, HandsKept
<1>9. CASE Environment
  <2>1. UNCHANGED <<site, stage, task, prune, resident>>
    BY <1>9 DEF Environment, lifeVars
  <2> QED BY <1>2, <1>9, <2>1, HandsKept
<1>10. CASE Start \/ Up
  <2>1. /\ UNCHANGED <<site, prune, resident>> /\ UNCHANGED unloading /\ stage' # "down"
        /\ \A t \in Pruners : task'[t] \in {task[t], "on", "off"}
        /\ \A t \in Pruners : task'[t] # task[t] =>
              /\ task'[t] = "on" => t \in site.pruners
              /\ task'[t] = "off" => stage = "down" \/ t \notin site.pruners
    BY <1>1, <1>10 DEF Start, Up, Begun, serverVars
  <2>2. ASSUME NEW t \in Pruners PROVE PruneApart(t)'
    BY <1>1, <2>1, <2>2 DEF PrunesApart, PruneApart
  <2> QED BY <2>1, <2>2 DEF PrunesApart
<1>11. CASE Shutdown \/ Stop
  <2>1. UNCHANGED <<site, resident>> /\ UNCHANGED unloading /\ stage' # "down"
    BY <1>11 DEF Shutdown, Stop, serverVars
  <2>2. ASSUME NEW t \in Pruners PROVE PruneApart(t)'
    <3>1. \/ task'[t] = task[t] /\ prune'[t] = prune[t]
          \/ task'[t] \in {task[t], "off"} /\ prune'[t] = NoPrune
      BY <1>11 DEF Shutdown, Stop, Cancel
    <3>2. CASE task'[t] = task[t] /\ prune'[t] = prune[t]
      BY <1>1, <2>1, <3>2 DEF PruneApart
    <3>3. CASE task'[t] \in {task[t], "off"} /\ prune'[t] = NoPrune
      BY <1>1, <2>1, <3>3 DEF PruneApart, NoPrune
    <3> QED BY <3>1, <3>2, <3>3
  <2> QED BY <2>1, <2>2 DEF PrunesApart
<1>12. CASE Die
  <2>1. ASSUME NEW t \in Pruners
        PROVE  task'[t] = "off" /\ prune'[t] = NoPrune /\ unloading'[t] = NoUnload
    BY <1>1, <1>12 DEF Die, ServersLeft
  <2> QED BY <2>1 DEF PrunesApart, PruneApart, NoPrune
<1>13. ASSUME NEW t \in Pruners, PruneScan(t) PROVE PrunesApart'
  <2>1. PICK C \in SUBSET resident : \E o \in C :
          prune' = [prune EXCEPT ![t] = [todo |-> C \ {o}, now |-> o]] /\ StartUnload(t, Id(o))
    BY <1>13 DEF PruneScan
  <2>2. PICK o \in C :
          prune' = [prune EXCEPT ![t] = [todo |-> C \ {o}, now |-> o]] /\ StartUnload(t, Id(o))
    BY <2>1
  <2>3. /\ prune'[t] = [todo |-> C \ {o}, now |-> o]
        /\ unloading'[t].pc = "run" /\ unloading'[t].model = Id(o)
        /\ \A s \in Pruners : s # t => prune'[s] = prune[s] /\ unloading'[s] = unloading[s]
    BY <1>1, <2>2 DEF StartUnload, BeginUnload
  <2>4. /\ t \in site.pruners /\ task[t] = "on" /\ stage' # "down"
        /\ UNCHANGED <<site, task, resident>>
    BY <1>1, <1>13 DEF PruneScan, PruneApart, Started
  <2>5. ASSUME NEW s \in Pruners PROVE PruneApart(s)'
    <3>1. CASE s = t
      BY <2>3, <2>4, <3>1 DEF PruneApart, NoUnload
    <3>2. CASE s # t
      BY <1>1, <2>3, <2>4, <3>2 DEF PruneApart
    <3> QED BY <3>1, <3>2
  <2> QED BY <2>4, <2>5 DEF PrunesApart
<1>14. ASSUME NEW t \in Pruners, PruneNext(t) PROVE PrunesApart'
  <2>1. PICK o \in prune[t].todo :
          prune' = [prune EXCEPT ![t] = [todo |-> prune[t].todo \ {o}, now |-> o]]
          /\ StartUnload(t, Id(o))
    BY <1>14 DEF PruneNext
  <2>2. /\ prune'[t] = [todo |-> prune[t].todo \ {o}, now |-> o]
        /\ unloading'[t].pc = "run" /\ unloading'[t].model = Id(o)
        /\ \A s \in Pruners : s # t => prune'[s] = prune[s] /\ unloading'[s] = unloading[s]
    BY <1>1, <2>1 DEF StartUnload, BeginUnload
  <2>3. prune[t] # NoPrune /\ stage' # "down" /\ UNCHANGED <<site, task, resident>>
    BY <1>14 DEF PruneNext, Visiting, NoPrune, Started
  <2>4. ASSUME NEW s \in Pruners PROVE PruneApart(s)'
    <3>1. CASE s = t
      BY <1>1, <2>2, <2>3, <3>1 DEF PruneApart, NoUnload
    <3>2. CASE s # t
      BY <1>1, <2>2, <2>3, <3>2 DEF PruneApart
    <3> QED BY <3>1, <3>2
  <2> QED BY <2>3, <2>4 DEF PrunesApart
<1>15. ASSUME NEW t \in Pruners, PruneSkip(t) PROVE PrunesApart'
  <2>1. PICK o \in prune[t].todo : prune' = [prune EXCEPT ![t].todo = prune[t].todo \ {o}]
    BY <1>15 DEF PruneSkip
  <2>2. /\ prune'[t].todo = prune[t].todo \ {o} /\ prune'[t].now = prune[t].now
        /\ \A s \in Pruners : s # t => prune'[s] = prune[s]
    BY <1>1, <2>1
  <2>3. /\ prune[t] # NoPrune /\ stage' # "down"
        /\ UNCHANGED <<site, task, resident, unloading>>
    BY <1>15 DEF PruneSkip, Visiting, NoPrune, Started, serverVars
  <2>4. ASSUME NEW s \in Pruners PROVE PruneApart(s)'
    <3>1. CASE s = t
      BY <1>1, <2>2, <2>3, <3>1 DEF PruneApart
    <3>2. CASE s # t
      BY <1>1, <2>2, <2>3, <3>2 DEF PruneApart
    <3> QED BY <3>1, <3>2
  <2> QED BY <2>3, <2>4 DEF PrunesApart
<1>16. ASSUME NEW t \in Pruners, PruneEnd(t) PROVE PrunesApart'
  <2>1. /\ resident' = resident \ {prune[t].now} /\ UNCHANGED <<site, task>>
        /\ t \in site.pruners /\ task[t] = "on" /\ stage' # "down"
        /\ prune' = [prune EXCEPT ![t].now = NoObject]
        /\ unloading' = [unloading EXCEPT ![t] = NoUnload]
    BY <1>1, <1>16 DEF PruneEnd, Forget, PruneApart, Started
  <2>2. /\ prune'[t].todo = prune[t].todo /\ prune'[t].now = NoObject
        /\ unloading'[t] = NoUnload
        /\ \A s \in Pruners : s # t => prune'[s] = prune[s] /\ unloading'[s] = unloading[s]
    BY <1>1, <2>1
  <2>3. NoObject \notin resident
    <3>1. Id(NoObject) \notin Models
      BY NoModelAssumption DEF Id, NoObject
    <3> QED BY <3>1, ObjectIds DEF BookType
  <2>4. ASSUME NEW s \in Pruners PROVE PruneApart(s)'
    <3>1. CASE s = t
      BY <1>1, <2>1, <2>2, <2>3, <3>1 DEF PruneApart
    \* Another prune at work would be one too many.
    <3>2. CASE s # t
      <4>1. s \notin site.pruners
        BY <2>1, <3>2, CarefulSite DEF Roomy, Plain
      <4> QED BY <1>1, <2>1, <2>2, <3>2, <4>1 DEF PruneApart, NoPrune
    <3> QED BY <3>1, <3>2
  <2> QED BY <2>1, <2>4 DEF PrunesApart
<1>17. ASSUME NEW t \in Pruners, PruneRaises(t) \/ PruneDropped(t) PROVE PrunesApart'
  <2>1. /\ UNCHANGED <<site, resident>> /\ (stage' # "down" \/ stage = "down")
        /\ unloading' = [unloading EXCEPT ![t] = NoUnload]
        /\ \/ /\ prune' = [prune EXCEPT ![t] = NoPrune] /\ task[t] = "on"
              /\ task' = [task EXCEPT ![t] = "dead"] /\ stage' # "down"
           \/ UNCHANGED <<prune, task, stage>> /\ task[t] = "off"
    BY <1>17 DEF PruneRaises, PruneDropped, Forget, lifeVars, Started
  <2>2. /\ unloading'[t] = NoUnload /\ prune'[t] = NoPrune /\ (task[t] = "off" <=> task'[t] = "off")
        /\ \A s \in Pruners : s # t => prune'[s] = prune[s] /\ unloading'[s] = unloading[s]
                                       /\ task'[s] = task[s]
    BY <1>1, <2>1 DEF PruneApart
  <2>3. ASSUME NEW s \in Pruners PROVE PruneApart(s)'
    <3>1. CASE s = t
      BY <1>1, <2>1, <2>2, <3>1 DEF PruneApart, NoPrune
    <3>2. CASE s # t
      BY <1>1, <2>1, <2>2, <3>2 DEF PruneApart
    <3> QED BY <3>1, <3>2
  <2> QED BY <1>1, <2>1, <2>3 DEF PrunesApart
<1>18. CASE UNCHANGED vars
  BY <1>2, <1>18, HandsKept DEF vars, lifeVars
<1>19. "loop" \in Threads
  BY ThreadsAssumption
<1> QED BY <1>3, <1>4, <1>5, <1>6, <1>7, <1>8, <1>9, <1>10, <1>11, <1>12, <1>13, <1>14, <1>15,
           <1>16, <1>17, <1>18, <1>19
        DEF Next, Serve, Quiesce, Loop, LoopUnload, Visit, Prune, Worker, Requests


----------------------------------------------------------------------------
(* What is served meanwhile *)

Calmly == RoomyCalm /\ PlainCalm

\* Requests go, and models with them.
LEMMA CalmShrinks ==
  ASSUME Calmly, site' = site, Serving' \subseteq Serving, resident' \subseteq resident,
         \A q \in Serving' : req'[q].pc = req[q].pc /\ req'[q].model = req[q].model,
         Serving' # {} => stack'[1] = stack[1],
         resident' = resident \/ Serving' = {} \/ ~Plain(site)
  PROVE  Calmly'
<1>1. Present' \subseteq Present
  BY DEF Present
<1>2. RoomyCalm'
  BY <1>1 DEF Calmly, RoomyCalm, In
<1>3. PlainCalm'
  BY <1>1 DEF Calmly, PlainCalm, In, Present
<1> QED BY <1>2, <1>3 DEF Calmly

\* The innermost serve ends.
LEMMA CalmEnds ==
  ASSUME ReqType, Calmly, site' = site, resident' = resident, stack # << >>,
         NEW pc \in {"held", "refused"}, NEW o \in Objects \cup {NoObject},
         Answer(Last(stack), pc, o)
  PROVE  Calmly'
<1>1. /\ ReqType' /\ Serving' = Serving \ {Last(stack)}
      /\ \A q \in Serving' : req'[q] = req[q]
      /\ stack' # << >> => stack'[1] = stack[1]
  BY AnswerFacts DEF Serving
<1>2. Serving' # {} => stack' # << >>
  BY <1>1 DEF ReqType, Serving
<1> QED BY <1>1, <1>2, CalmShrinks

\* In the plain regime a spawned model that a serve goes on with is the
\* outermost one's.
LEMMA OutermostSpawns ==
  ASSUME Calmly, Plain(site), NEW r \in Serving, ~In(r, {"lookup"}),
         req[r].model \in Spawned
  PROVE  r = stack[1]
BY DEF Calmly, PlainCalm

\* What a serve is about to load is not resident, in the plain regime if a server
\* is spawned for it.
LEMMA LateIsAbsent ==
  ASSUME Careful, TypeOK, Calmly, NEW r \in Serving, In(r, Late),
         Roomy(site) \/ req[r].model \in Spawned
  PROVE  req[r].model \notin Present
BY CarefulSite DEF Calmly, RoomyCalm, PlainCalm, In, Late

\* The innermost serve goes on, or unloads what it evicts.
LEMMA CalmMoves ==
  ASSUME Calmly, Nested, NEW r \in Serving, r = Last(stack), NEW pc,
         Serving' = Serving, stack' = stack, site' = site, resident' \subseteq resident,
         req'[r].pc = pc /\ req'[r].model = req[r].model,
         \A q \in Serving : q # r => req'[q] = req[q],
         pc \in Late /\ (Roomy(site) \/ req[r].model \in Spawned) => req[r].model \notin Present,
         Roomy(site) => pc \in {"lookup", "dying", "missing", "load"},
         Plain(site) /\ req[r].model \in Spawned => r = stack[1]
  PROVE  Calmly'
<1>1. Present' \subseteq Present
  BY DEF Present
<1>2. RoomyCalm'
  BY <1>1 DEF Calmly, RoomyCalm, In
<1>3. PlainCalm'
  <2> SUFFICES ASSUME Plain(site), NEW q \in Serving, req'[q].model \in Spawned
               PROVE  IF q = stack[1] THEN In(q, Late)' => req'[q].model \notin Present'
                      ELSE In(q, {"lookup"})' /\ req'[q].model \in Present'
    BY DEF PlainCalm
  <2>1. CASE q = r
    BY <1>1, <2>1 DEF In
  <2>2. CASE q # r
    <3>1. In(q, {"quiesce"}) /\ req'[q] = req[q]
      BY <2>2 DEF Nested
    <3>2. q = stack[1]
      BY <3>1, OutermostSpawns DEF In
    <3> QED BY <1>1, <3>1, <3>2 DEF Calmly, PlainCalm, In
  <2> QED BY <2>1, <2>2
<1> QED BY <1>2, <1>3 DEF Calmly

\* A serve goes on, or starts to load.
LEMMA CalmServe ==
  ASSUME Careful, TypeOK, ServeInv, Calm, NEW r \in Requests,
         \/ FoundDying(r) \/ Missing(r) \/ ChooseVictims(r) \/ LoadNow(r)
         \/ DrainWait(r) \/ Quiesced(r) \/ Evicted(r)
  PROVE  Calmly'
<1> USE TypeParts DEF Calmly
<1> DEFINE Goes(pc) ==
      /\ req'[r].pc = pc /\ req'[r].model = req[r].model
      /\ \A q \in Requests : q # r => req'[q] = req[q]
<1>1. /\ stack # << >> /\ r = Last(stack) /\ stack' = stack /\ r \in Serving /\ site' = site
      /\ resident' \subseteq resident /\ Nested /\ Calmly
  BY StackFacts DEF FoundDying, Missing, ChooseVictims, LoadNow, DrainWait, Quiesced,
     Evicted, Looks, Turn, Acts, ServeInv, Calm
<1>2. req \in [Requests -> ReqRecords] /\ req[r] \in ReqRecords /\ req[r].model \in Models
  BY <1>1 DEF ReqType, ReqRecords, Serving, In, AtServe
<1>3. ASSUME NEW pc \in AtServe, Goes(pc),
             pc \in Late /\ (Roomy(site) \/ req[r].model \in Spawned) => req[r].model \notin Present,
             Roomy(site) => pc \in {"lookup", "dying", "missing", "load"},
             Plain(site) /\ req[r].model \in Spawned => r = stack[1]
      PROVE  Calmly'
  <2>1. Serving' = Serving
    BY <1>1, <1>3 DEF Serving, In
  <2> QED BY <1>1, <1>3, <2>1, CalmMoves DEF Serving
<1>4. In(r, Late) =>
        /\ Roomy(site) \/ req[r].model \in Spawned => req[r].model \notin Present
        /\ Plain(site) /\ req[r].model \in Spawned => r = stack[1]
  BY <1>1, LateIsAbsent, OutermostSpawns DEF In, Late
\* Nothing is pruned in the plain regime.
<1>5. CASE FoundDying(r)
  <2>1. Goes("dying")
    <3>1. PICK o : req' = [req EXCEPT ![r] = [req[r] EXCEPT !.pc = "dying", !.object = o]]
      BY <1>5 DEF FoundDying
    <3> QED BY <1>2, <3>1 DEF ReqRecords
  <2>2. ~Plain(site)
    <3>1. PICK t \in Pruners : prune[t].now # NoObject
      BY <1>5 DEF FoundDying, Dying
    <3>2. t \in site.pruners
      BY <3>1 DEF Calm, PrunesApart, PruneApart, NoPrune
    <3> QED BY <3>2 DEF Plain
  <2> QED BY <1>3, <2>1, <2>2 DEF AtServe, Late
\* A request whose model is resident is the outermost.
<1>6. CASE Missing(r)
  <2>1. Goes("missing")
    BY <1>2, <1>6 DEF Missing, ReqRecords
  <2>2. req[r].model \notin Present
    BY <1>6, PresentIs DEF Missing
  <2> QED BY <1>1, <1>3, <2>1, <2>2 DEF AtServe, Late, PlainCalm
<1>7. CASE LoadNow(r)
  <2>1. Goes("load") /\ In(r, Late)
    BY <1>2, <1>7 DEF LoadNow, Goto, ReqRecords, Turn, Acts, In, Late
  <2> QED BY <1>3, <1>4, <2>1 DEF AtServe, Late
\* Where all fits nothing has to go.
<1>8. CASE ChooseVictims(r)
  <2>1. PICK V \in VictimChoices(req[r].model) :
          req' = [req EXCEPT ![r] = [req[r] EXCEPT !.pc = "quiesce", !.victims = V]]
    BY <1>8 DEF ChooseVictims
  <2>2. Goes("quiesce")
    BY <1>2, <2>1 DEF ReqRecords
  <2>3. In(r, Late) /\ ~Fits(req[r].model)
    BY <1>8 DEF ChooseVictims, Turn, Acts, In, Late
  <2>4. ~Roomy(site)
    BY <1>1, <1>2, <1>4, <2>3, RoomyFits DEF RoomyCalm
  <2> QED BY <1>3, <1>4, <2>2, <2>3, <2>4 DEF AtServe, Late
<1>9. CASE DrainWait(r) \/ Quiesced(r) \/ Evicted(r)
  <2>1. PICK pc \in {"drain", "evict", "load"} : Goto(r, pc)
    BY <1>9 DEF DrainWait, Quiesced, Evicted
  <2>2. Goes(pc)
    BY <1>2, <2>1 DEF ReqRecords, Goto
  <2>3. In(r, Late) /\ ~Roomy(site)
    <3>1. In(r, {"quiesce", "drain", "evict"})
      BY <1>9 DEF DrainWait, Quiesced, Evicted, Looks, Turn, Acts, In
    <3> QED BY <1>1, <3>1, EvictsNoPrune DEF In, Late
  <2> QED BY <1>3, <1>4, <2>2, <2>3 DEF AtServe, Late
<1> QED BY <1>5, <1>6, <1>7, <1>8, <1>9

\* A request is served ahead of the queue because a victim would answer it: its
\* model is resident, or it is not that of a spawned server.
LEMMA CalmCut ==
  ASSUME Careful, TypeOK, ServeInv, Calm, NEW r \in Requests, NEW q \in Requests, LineCut(r, q)
  PROVE  Calmly'
<1> USE TypeParts DEF Calmly
<1>1. /\ q \notin Serving /\ Serving' = Serving \cup {q} /\ r \in Serving /\ stack # << >>
      /\ \A p \in Requests \ {r, q} : req'[p] = req[p]
      /\ req'[r] = [req[r] EXCEPT !.pc = "quiesce"] /\ req'[q] = [req[q] EXCEPT !.pc = "lookup"]
      /\ stack'[1] = stack[1]
  BY CutFacts
<1>2. req[r] \in ReqRecords /\ req[q] \in ReqRecords
  BY DEF ReqType, ReqRecords
<1>3. /\ req'[r].pc = "quiesce" /\ req'[r].model = req[r].model
      /\ req'[q].pc = "lookup" /\ req'[q].model = req[q].model
  BY <1>1, <1>2 DEF ReqRecords
<1>4. In(r, {"quiesce", "drain"}) /\ UNCHANGED <<site, resident>>
  BY DEF LineCut, Looks, Turn, Acts, In
<1>5. ~Roomy(site) /\ Plain(site)
  BY <1>1, <1>4, EvictsNoPrune DEF In
<1>6. q # stack[1]
  BY <1>1, StackFacts
<1>7. req[q].model \in Spawned => req[q].model \in Present
  <2>1. PICK v \in req[r].victims : v \in ResidentFor(v, req[q].model)
    BY DEF LineCut, CutBy, Targets
  <2>2. CASE Of(req[q].model) # {}
    BY <2>2, PresentIs
  <2>3. CASE Of(req[q].model) = {}
    <3>1. Id(v) \in Spawned /\ v \in Of(Id(v))
      BY <2>1, <2>3 DEF ResidentFor
    <3> QED BY <1>5, <3>1 DEF Plain, Of, Present
  <2> QED BY <2>2, <2>3
<1>8. RoomyCalm'
  BY <1>4, <1>5 DEF RoomyCalm
<1>9. PlainCalm'
  <2> SUFFICES ASSUME NEW p \in Serving', req'[p].model \in Spawned
               PROVE  IF p = stack[1] THEN In(p, Late)' => req'[p].model \notin Present
                      ELSE In(p, {"lookup"})' /\ req'[p].model \in Present
    BY <1>1, <1>4 DEF PlainCalm, Present
  <2>1. CASE p = q
    BY <1>3, <1>6, <1>7, <2>1 DEF In
  <2>2. CASE p = r
    <3>1. p = stack[1] /\ req[p].model \notin Present
      BY <1>1, <1>3, <1>4, <1>5, <2>2, OutermostSpawns, LateIsAbsent DEF Calm, In, Late
    <3> QED BY <1>3, <2>2, <3>1
  <2>3. CASE p \notin {q, r}
    <3>1. p \in Serving /\ req'[p] = req[p]
      BY <1>1, <2>3 DEF Serving
    <3> QED BY <1>5, <3>1 DEF Calm, PlainCalm, In
  <2> QED BY <2>1, <2>2, <2>3
<1> QED BY <1>8, <1>9

\* What has been loaded was not resident, and nobody else loads it.
LEMMA CalmLoads ==
  ASSUME Careful, TypeOK, ServeInv, Calm, NEW r \in Requests, LoadDone(r)
  PROVE  Calmly'
<1> USE TypeParts DEF Calmly
<1>1. /\ stack # << >> /\ r = Last(stack) /\ In(r, {"load"}) /\ site' = site /\ Started
      /\ load.pc = "ok"
  BY DEF LoadDone, Turn, Acts
<1>2. PICK o \in New(load.model) : resident' = resident \cup {o} /\ Grant(r, o)
  BY DEF LoadDone, Loaded
<1>3. Id(o) = load.model /\ o \in Objects /\ req[r].model = load.model /\ r \in Serving
  BY <1>1, StackFacts DEF New, ServeInv, LoadServed, NoLoad
<1>4. /\ ReqType' /\ Serving' = Serving \ {r} /\ \A q \in Serving' : req'[q] = req[q]
      /\ stack' # << >> => stack'[1] = stack[1]
  BY <1>1, <1>2, <1>3, AnswerFacts DEF Grant, Serving
<1>5. \A q \in Serving' : In(q, {"quiesce"}) /\ q # r
  BY <1>1, <1>4 DEF ServeInv, Nested
<1>6. RoomyCalm'
  <2> SUFFICES ASSUME Roomy(site)
               PROVE  Serving' = {} /\ \A p, q \in resident' : Id(p) = Id(q) => p = q
    BY <1>1 DEF RoomyCalm
  <2>1. Serving' = {}
    BY <1>4, <1>5 DEF Calm, RoomyCalm, In
  <2>2. load.model \notin Present
    BY <1>1, <1>3, LateIsAbsent DEF Calm, In, Late
  <2> QED BY <1>2, <1>3, <2>1, <2>2 DEF Calm, RoomyCalm, Present
<1>7. PlainCalm'
  <2> SUFFICES ASSUME Plain(site), NEW q \in Serving', req'[q].model \in Spawned
               PROVE  IF q = stack'[1] THEN In(q, Late)' => req'[q].model \notin Present'
                      ELSE In(q, {"lookup"})' /\ req'[q].model \in Present'
    BY <1>1 DEF PlainCalm
  <2>1. q \in Serving /\ req'[q] = req[q] /\ In(q, {"quiesce"}) /\ q # r
    BY <1>4, <1>5
  <2>2. q = stack[1] /\ req[q].model \notin Present
    BY <2>1, OutermostSpawns, LateIsAbsent DEF Calm, In, Late
  <2>3. stack' # << >>
    BY <1>4 DEF ReqType, Serving
  <2>4. load.model \notin Spawned
    BY <1>1, <1>3, <2>1, <2>2, OutermostSpawns DEF Calm, In
  <2>5. Present' = Present \cup {load.model}
    BY <1>2, <1>3 DEF Present
  <2> QED BY <1>4, <2>1, <2>2, <2>3, <2>4, <2>5
<1> QED BY <1>6, <1>7

LEMMA CalmStep ==
  ASSUME Careful, TypeOK, ServeInv, Calm, [Next]_vars PROVE Calmly'
<1> USE TypeParts
<1>1. Calmly
  BY DEF Calm, Calmly
<1>2. CASE UNCHANGED <<site, resident, req, stack>>
  BY <1>1, <1>2, CalmShrinks DEF Serving, In
<1>3. CASE Start \/ PreloadFails \/ Up \/ Shutdown \/ Deadline \/ Ended \/ UnloadNext
           \/ UNCHANGED vars
           \/ ((LoadStep \/ \E t \in Threads : UnloadStep(t)) /\ UNCHANGED lifeVars)
           \/ Environment
           \/ \E t \in Pruners : \/ PruneScan(t) \/ PruneNext(t) \/ PruneSkip(t)
                                 \/ PruneRaises(t) \/ PruneDropped(t)
  BY <1>2, <1>3 DEF Start, PreloadFails, Up, Shutdown, Deadline, Ended, UnloadNext, vars,
     lifeVars, Environment, PruneScan, PruneNext, PruneSkip, PruneRaises, PruneDropped
<1>4. CASE Stop \/ Die
  <2>1. Serving' = {} /\ site' = site /\ resident' \subseteq resident
    BY <1>4 DEF Stop, Die, Serving, In, Idle, AtServe
  <2> QED BY <1>1, <2>1, CalmShrinks
<1>5. CASE Preload \/ \E c \in Clients : Ask(c)
  <2>1. PICK r \in Requests : In(r, {"idle"}) /\ \E m : Queue(r, m)
    BY <1>5 DEF Preload, Ask, Requests
  <2>2. \A q \in Requests : q # r => req'[q] = req[q]
    BY <2>1 DEF Queue, ReqType
  <2>3. req[r].pc = "idle" /\ req'[r].pc = "queued"
    BY <2>1 DEF Queue, In, ReqType, Idle
  <2>4. Serving' = Serving /\ \A q \in Serving : req'[q] = req[q]
    BY <2>2, <2>3 DEF Serving, In, AtServe
  <2>5. UNCHANGED <<site, stack, resident>>
    BY <1>5 DEF Preload, Ask
  <2> QED BY <1>1, <2>4, <2>5, CalmShrinks
<1>6. ASSUME NEW r \in Requests, Leave(r) PROVE Calmly'
  <2>1. UNCHANGED <<site, stack, resident>>
    BY <1>6 DEF Leave
  <2>2. \A q \in Requests : q # r => req'[q] = req[q]
    BY <1>6 DEF Leave, ReqType
  <2>3. IF r \in Serving THEN req'[r].pc = req[r].pc /\ req'[r].model = req[r].model
        ELSE req'[r].pc = "idle"
    BY <1>6 DEF Leave, ReqType, Idle
  <2>4. Serving' = Serving
        /\ \A q \in Serving : req'[q].pc = req[q].pc /\ req'[q].model = req[q].model
    BY <2>2, <2>3 DEF Serving, In, AtServe
  <2> QED BY <1>1, <2>1, <2>4, CalmShrinks
<1>7. ASSUME NEW r \in Requests, Take(r) PROVE Calmly'
  <2>1. /\ stack = << >> /\ stack' = <<r>> /\ UNCHANGED <<site, resident>>
        /\ req' = [req EXCEPT ![r].pc = "lookup"]
    BY <1>7 DEF Take, Goto
  <2>2. \A q \in Requests : q \notin Serving
    BY <2>1 DEF ReqType
  <2>3. \A q \in Serving' : q = r
    BY <2>1, <2>2 DEF ReqType, Serving, In
  <2>4. req'[r].pc = "lookup" /\ stack'[1] = r
    BY <2>1 DEF ReqType
  <2> QED BY <1>1, <2>1, <2>3, <2>4 DEF Calmly, RoomyCalm, PlainCalm, In, Late
<1>8. ASSUME NEW r \in Requests,
             Found(r) \/ FoundAgain(r) \/ LookupRaises(r) \/ Hopeless(r) \/ LoadFails(r)
      PROVE  Calmly'
  <2>1. \E pc \in {"held", "refused"}, o \in Objects \cup {NoObject} : Answer(r, pc, o)
    BY <1>8 DEF Found, FoundAgain, LookupRaises, Hopeless, LoadFails, Grant, Reject, Of, BookType
  <2>2. stack # << >> /\ r = Last(stack) /\ UNCHANGED <<site, resident>>
    BY <1>8 DEF Found, FoundAgain, LookupRaises, Hopeless, LoadFails, Turn, Acts
  <2> QED BY <1>1, <2>1, <2>2, CalmEnds
<1>9. CASE Unloaded
  <2>1. CASE unloading["loop"].pc = "raised" /\ Running
    <3>1. stack # << >> /\ Answer(Last(stack), "refused", NoObject) /\ UNCHANGED <<site, resident>>
      BY <1>9, <2>1 DEF Unloaded, Running, Reject
    <3> QED BY <1>1, <3>1, CalmEnds
  <2> QED BY <1>2, <1>9, <2>1 DEF Unloaded
\* Only one regime prunes.
<1>10. ASSUME NEW t \in Pruners, PruneEnd(t) PROVE Calmly'
  <2>1. t \in site.pruners
    BY <1>10 DEF PruneEnd, Calm, PrunesApart, PruneApart
  <2>2. UNCHANGED <<site, req, stack>> /\ resident' \subseteq resident /\ ~Plain(site)
    BY <1>10, <2>1 DEF PruneEnd, Plain
  <2> QED BY <1>1, <2>2, CalmShrinks DEF Serving, In
<1>11. "loop" \in Threads
  BY ThreadsAssumption
<1> QED BY <1>3, <1>4, <1>5, <1>6, <1>7, <1>8, <1>9, <1>10, <1>11, CalmServe, CalmCut, CalmLoads
        DEF Next, Serve, Quiesce, Loop, LoopUnload, Visit, Prune, Worker

----------------------------------------------------------------------------
(* The servers and what the loop unloads *)

NoneEvicts == \A q \in Requests : ~In(q, {"evict"})

\* Between the serves nobody evicts, nor while the innermost serve is elsewhere.
LEMMA NobodyEvicts ==
  ASSUME ReqType, Nested,
         LoopFree \/ \E r \in Requests : Acts(r, AtServe \ {"evict"})
  PROVE  NoneEvicts
<1> SUFFICES ASSUME NEW q \in Requests, In(q, {"evict"}) PROVE FALSE
  BY DEF NoneEvicts
<1>0. q \in Serving
  BY DEF Serving, In, AtServe
<1>1. q = Last(stack)
  BY <1>0 DEF Nested, In
<1>2. stack # << >>
  BY <1>0 DEF ReqType, Serving
<1> QED BY <1>1, <1>2 DEF LoopFree, Running, Acts, In

LEMMA NothingLeaves ==
  ASSUME ReqType, NoneEvicts, Started
  PROVE  Leaving = {}
<1>1. stack # << >> => Last(stack) \in Requests
  BY StackFacts
<1> QED BY <1>1 DEF Leaving, NoneEvicts, Started

\* The loop has nothing to unload.
LEMMA LoopIdle ==
  ASSUME ReqType', NoneEvicts', Started', toUnload' = {}, unloading'["loop"] = NoUnload
  PROVE  LoopUnloads'
<1>1. stack' # << >> => Last(stack)' \in Requests
  BY DEF ReqType, Last
<1>2. Leaving' = {} /\ stage' # "exited"
  BY <1>1 DEF Leaving, NoneEvicts, Started
<1> QED BY <1>2 DEF LoopUnloads

\* ... and had nothing before.
LEMMA IdleStep ==
  ASSUME TypeOK, TypeOK', LoopUnloads, NoneEvicts, Started, NoneEvicts', Started',
         toUnload' = toUnload, unloading'["loop"] = unloading["loop"]
  PROVE  LoopUnloads'
<1> USE TypeParts
<1>1. toUnload = {} /\ unloading["loop"] = NoUnload
  BY NothingLeaves DEF LoopUnloads
<1> QED BY <1>1, LoopIdle

\* The loop has the same to unload.
LEMMA LoopStays ==
  ASSUME LoopUnloads, UNCHANGED <<ours, handle, resident, stage, stack, req, toUnload>>,
         unloading'["loop"] = unloading["loop"]
  PROVE  LoopUnloads'
BY DEF LoopUnloads, Settled, Leaving, Started, Running, In

LEMMA ApartStays ==
  ASSUME Apart, UNCHANGED <<serverVars, resident>> PROVE Apart'
BY DEF Apart, Handles, Owned, LoadApart, LoaderApart, Unloads, NoOrphan, Settled,
       Present, serverVars, Alive

LEMMA IInvParts ==
  ASSUME IInv
  PROVE  /\ TypeOK /\ ServerType /\ StageType /\ ReqType /\ BookType
         /\ ServeInv /\ Nested /\ LoadServed /\ Calm /\ Calmly /\ Apart /\ LoopUnloads
         /\ "loop" \in Threads /\ "loader" \in Threads
         /\ \A t \in Pruners : t \in Threads /\ t # "loop" /\ t # "loader"
         /\ \A t \in Threads : t \in Pruners \/ t = "loop" \/ t = "loader"
BY TypeParts, ThreadsAssumption DEF IInv, ServeInv, Calm, Calmly, Pruners

\* While a serve evicts, nothing loads.
LEMMA EvictsLoadless ==
  ASSUME IInv, Leaving # {} PROVE Leaving \subseteq resident \/ (Started /\ load = NoLoad)
BY IInvParts DEF Leaving, LoadServed, In

\* A request whose serve does not end stands where it stood or goes elsewhere.
LEMMA GoesElsewhere ==
  ASSUME ReqType, NoneEvicts, NEW r \in Requests, NEW rec, rec.pc # "evict",
         req' = [req EXCEPT ![r] = rec]
  PROVE  NoneEvicts'
BY DEF NoneEvicts, In, ReqType

\* Only a serve whose victims are idle evicts.
LEMMA BeginsToEvict ==
  ASSUME TypeOK, NoneEvicts, [Next]_vars, \A r \in Requests : ~Quiesced(r)
  PROVE  NoneEvicts'
<1> USE TypeParts
<1>0. req \in [Requests -> ReqRecords] /\ \A r \in Requests : req[r] \in ReqRecords
  BY DEF ReqType, ReqRecords
<1>1. CASE UNCHANGED req
  BY <1>1 DEF NoneEvicts, In
<1>2. ASSUME NEW r \in Requests, NEW pc \in {"held", "refused"}, NEW o, Answer(r, pc, o)
      PROVE  NoneEvicts'
  BY <1>2 DEF NoneEvicts, In, ReqType, Answer, Idle
<1>3. ASSUME NEW r \in Requests,
             \/ Found(r) \/ FoundAgain(r) \/ LookupRaises(r) \/ Hopeless(r)
             \/ LoadDone(r) \/ LoadFails(r)
      PROVE  NoneEvicts'
  <2>1. \E pc \in {"held", "refused"}, o \in Objects \cup {NoObject} : Answer(r, pc, o)
    BY <1>3 DEF Found, FoundAgain, LookupRaises, Hopeless, LoadDone, LoadFails,
       Grant, Reject, Of, BookType, New
  <2> QED BY <1>2, <2>1
<1>4. ASSUME NEW r \in Requests, NEW pc \in {"lookup", "drain", "load"}, Goto(r, pc)
      PROVE  NoneEvicts'
  BY <1>4 DEF NoneEvicts, In, ReqType, Goto
<1>5. ASSUME NEW r \in Requests, Take(r) \/ DrainWait(r) \/ LoadNow(r) \/ Evicted(r)
      PROVE  NoneEvicts'
  BY <1>4, <1>5 DEF Take, DrainWait, LoadNow, Evicted
<1>6. ASSUME NEW r \in Requests, FoundDying(r) \/ Missing(r) \/ ChooseVictims(r)
      PROVE  NoneEvicts'
  <2>1. CASE FoundDying(r)
    <3>1. PICK o : req' = [req EXCEPT ![r] = [req[r] EXCEPT !.pc = "dying", !.object = o]]
      BY <2>1 DEF FoundDying
    <3> QED BY <1>0, <3>1, GoesElsewhere DEF ReqRecords
  <2>2. CASE Missing(r)
    <3>1. [req[r] EXCEPT !.pc = "missing", !.object = NoObject].pc = "missing"
      BY <1>0 DEF ReqRecords
    <3> QED BY <2>2, <3>1, GoesElsewhere DEF Missing
  <2>3. CASE ChooseVictims(r)
    <3>1. PICK V : req' = [req EXCEPT ![r] = [req[r] EXCEPT !.pc = "quiesce", !.victims = V]]
      BY <2>3 DEF ChooseVictims
    <3> QED BY <1>0, <3>1, GoesElsewhere DEF ReqRecords
  <2> QED BY <1>6, <2>1, <2>2, <2>3
<1>7. ASSUME NEW r \in Requests, NEW q \in Requests, LineCut(r, q) PROVE NoneEvicts'
  BY <1>7 DEF LineCut, NoneEvicts, In, ReqType
<1>8. ASSUME NEW r \in Requests, Leave(r) PROVE NoneEvicts'
  BY <1>8 DEF Leave, NoneEvicts, In, ReqType, Idle
<1>9. ASSUME NEW r \in Requests, NEW m, Queue(r, m) PROVE NoneEvicts'
  BY <1>9 DEF Queue, NoneEvicts, In, ReqType, Idle
<1>10. CASE Preload \/ \E c \in Clients : Ask(c)
  BY <1>9, <1>10 DEF Preload, Ask, Requests
<1>11. CASE Stop \/ Die
  BY <1>11 DEF Stop, Die, NoneEvicts, In, Idle
<1>12. CASE Unloaded
  <2>1. CASE unloading["loop"].pc = "raised" /\ Running
    BY <1>2, <1>12, <2>1, StackFacts DEF Unloaded, Running, Reject
  <2> QED BY <1>1, <1>12, <2>1 DEF Unloaded
<1>13. CASE \/ Start \/ PreloadFails \/ Up \/ Shutdown \/ Deadline \/ Ended \/ UnloadNext
            \/ UNCHANGED vars
            \/ ((LoadStep \/ \E t \in Threads : UnloadStep(t)) /\ UNCHANGED lifeVars)
            \/ Environment \/ Visit \/ Prune
  BY <1>1, <1>13 DEF Start, PreloadFails, Up, Shutdown, Deadline, Ended, UnloadNext, vars,
     lifeVars, Environment, Visit, Prune, PruneScan, PruneNext, PruneSkip, PruneEnd,
     PruneRaises, PruneDropped
<1>14. "loop" \in Threads
  BY ThreadsAssumption
<1> QED BY <1>3, <1>5, <1>6, <1>7, <1>8, <1>10, <1>11, <1>12, <1>13, <1>14
        DEF Next, Serve, Quiesce, Loop, LoopUnload, Worker

\* What leaves no serve evicting and the loop alone.
LEMMA LoopAside ==
  ASSUME IInv, TypeOK', [Next]_vars, Started', toUnload' = toUnload,
         unloading'["loop"] = unloading["loop"],
         (Started /\ LoopFree) \/ \E r \in Requests : Acts(r, AtServe \ {"evict"}),
         \A r \in Requests : ~Quiesced(r)
  PROVE  LoopUnloads'
<1>1. NoneEvicts /\ Started
  BY IInvParts, NobodyEvicts DEF Acts
<1>2. NoneEvicts'
  BY <1>1, IInvParts, BeginsToEvict
<1> QED BY <1>1, <1>2, IInvParts, IdleStep

\* Between two awaits the requests, the prunes and the stage change, and no
\* server does.
LEMMA QuietStep ==
  ASSUME IInv, TypeOK', [Next]_vars, \A r \in Requests : ~Quiesced(r),
         \/ Preload \/ Up \/ Shutdown \/ (\E c \in Clients : Ask(c))
         \/ \E r \in Requests :
              \/ Leave(r) \/ Take(r) \/ Found(r) \/ FoundDying(r) \/ FoundAgain(r) \/ Missing(r)
              \/ LookupRaises(r) \/ Hopeless(r) \/ ChooseVictims(r) \/ DrainWait(r)
              \/ \E q \in Requests : LineCut(r, q)
  PROVE  Apart' /\ LoopUnloads'
<1>1. UNCHANGED <<serverVars, resident, toUnload>> /\ Started'
  BY DEF Preload, Up, Shutdown, Ask, Leave, Take, Found, FoundDying, FoundAgain, Missing,
     LookupRaises, Hopeless, ChooseVictims, DrainWait, LineCut, Looks, Turn, Acts, Started
<1>2. (Started /\ LoopFree) \/ \E r \in Requests : Acts(r, AtServe \ {"evict"})
  BY DEF Preload, Up, Shutdown, Ask, Leave, Take, Found, FoundDying, FoundAgain, Missing,
     LookupRaises, Hopeless, ChooseVictims, DrainWait, LineCut, Looks, Turn, Acts, Started,
     In, AtServe
<1>3. Apart'
  BY <1>1, IInvParts, ApartStays
<1> QED BY <1>1, <1>2, <1>3, LoopAside DEF serverVars

\* The loop gets what it has to unload while it has nothing else to do.
LEMMA LoopBegins ==
  ASSUME IInv, TypeOK', PreloadFails \/ Stop \/ \E r \in Requests : Quiesced(r)
  PROVE  Apart' /\ LoopUnloads'
<1> USE IInvParts, TypeParts
<1>1. UNCHANGED <<serverVars, resident>> /\ stage' # "exited"
  BY DEF PreloadFails, Stop, Quiesced, Looks, Turn, Acts, Started
<1>2. Apart'
  BY <1>1, ApartStays
<1>3. unloading["loop"] = NoUnload
  <2>1. Started /\ (LoopFree \/ \E r \in Requests : Acts(r, AtServe \ {"evict"}))
    BY DEF PreloadFails, Stop, Quiesced, Looks, Turn, Acts, Started, In, AtServe
  <2> QED BY <2>1, NobodyEvicts, NothingLeaves DEF LoopUnloads
<1>4. toUnload' = Leaving' /\ (~Started' => ~Running')
  <2>1. CASE PreloadFails
    BY <2>1 DEF PreloadFails, Leaving, LoopFree, Running, Started, In
  <2>2. CASE Stop
    <3>1. stack' = << >> /\ LoopFree /\ stage' \in {"died", "unload"} /\ resident' = resident
      BY <2>2 DEF Stop
    <3> QED BY <2>2, <3>1 DEF Stop, Leaving, LoopFree, Running, Started
  <2>3. ASSUME NEW r \in Requests, Quiesced(r) PROVE toUnload' = Leaving' /\ (~Started' => ~Running')
    <3>1. /\ stack' = stack /\ stack # << >> /\ r = Last(stack) /\ Started /\ stage' = stage
          /\ toUnload' = req[r].victims /\ req' = [req EXCEPT ![r].pc = "evict"]
      BY <2>3 DEF Quiesced, Looks, Turn, Acts, Goto
    <3>2. req'[r].pc = "evict" /\ req'[r].victims = req[r].victims
      BY <3>1 DEF ReqType
    <3> QED BY <3>1, <3>2 DEF Leaving, Started, In
  <2> QED BY <2>1, <2>2, <2>3
<1>5. LoopUnloads'
  BY <1>1, <1>3, <1>4 DEF LoopUnloads, serverVars
<1> QED BY <1>2, <1>5

LEMMA StartStep == ASSUME IInv, Start PROVE Apart' /\ LoopUnloads'
<1> USE IInvParts
<1>1. /\ UNCHANGED <<serverVars, resident, req, stack, toUnload>>
      /\ stage = "down" /\ stage' = "preload"
  BY DEF Start
<1>2. Leaving = {} /\ Leaving' = {}
  BY <1>1 DEF LoopUnloads, Leaving, Started, Running, In
<1> QED BY <1>1, <1>2, ApartStays DEF LoopUnloads, Started, serverVars

\* The process is gone: nothing is its own any more.
LEMMA DieStep == ASSUME IInv, Die PROVE Apart' /\ LoopUnloads'
<1>1. /\ ours' = {} /\ handle' = [m \in Spawned |-> NoServer]
      /\ load' = NoLoad /\ unloading' = [t \in Threads |-> NoUnload]
      /\ resident' = {} /\ stack' = << >> /\ toUnload' = {} /\ stage' = "down"
  BY DEF Die, ServersLeft
<1>2. Apart'
  BY <1>1, ThreadsAssumption DEF Apart, Handles, Owned, LoadApart, LoaderApart, Unloads,
     NoOrphan, Settled, NoLoad, NoUnload
<1>3. LoopUnloads'
  BY <1>1, ThreadsAssumption DEF LoopUnloads, Leaving, Started, Running
<1> QED BY <1>2, <1>3

\* The loop is done.
LEMMA EndedStep == ASSUME IInv, Ended PROVE Apart' /\ LoopUnloads'
<1> USE IInvParts
<1>1. /\ UNCHANGED <<serverVars, resident, req, stack, toUnload>>
      /\ toUnload = {} /\ unloading["loop"] = NoUnload /\ ~Running
      /\ stage \in {"failing", "unload"} /\ stage' \in {"failed", "exited"}
  BY DEF Ended, LoopFree
<1>2. Leaving = resident /\ Leaving' \in {resident, {}}
  BY <1>1 DEF Leaving, Started
<1>3. ~Running'
  BY <1>1 DEF Running, In
<1>4. LoopUnloads'
  BY <1>1, <1>2, <1>3 DEF LoopUnloads, Settled, serverVars
<1> QED BY <1>1, <1>4, ApartStays

\* A load takes a model whose handle is empty: it is not resident, nor is what
\* has just been evicted.
LEMMA StartLoadApart ==
  ASSUME IInv, NEW m \in Models, StartLoad(m), m \in Spawned => m \notin Present,
         unloading["loop"] = NoUnload, resident' \subseteq resident,
         \A o \in resident \ resident' : Settled(Id(o)),
         resident' = resident \/ \A t \in Pruners : unloading[t] = NoUnload
  PROVE  Apart'
<1> USE IInvParts DEF Apart
<1>1. /\ load = NoLoad /\ UNCHANGED <<proc, ours, handle, unloading>>
      /\ load'.pc = "begin" /\ load'.model = m /\ load' # NoLoad
  BY DEF StartLoad, NoLoad
<1>2. Present' \subseteq Present /\ \A n \in Present \ Present' : Settled(n)
  BY DEF Present
<1>3. \A n \in Spawned : n \in Present \/ Settled(n)
  BY <1>1 DEF Owned, NoLoad
<1>4. \A n : Settled(n)' <=> Settled(n)
  BY <1>1 DEF Settled
<1>5. Handles' /\ NoOrphan'
  BY <1>1 DEF Handles, NoOrphan, Alive
<1>6. Owned'
  BY <1>2, <1>3, <1>4 DEF Owned
<1>7. LoadApart'
  <2>1. Settled(m)
    BY <1>3 DEF Settled
  <2> QED BY <1>1, <1>2, <1>4, <2>1 DEF LoadApart
<1>8. LoaderApart'
  BY <1>1 DEF LoaderApart, NoLoad
<1>9. Unloads'
  <2>1. \A t \in Threads : \/ unloading[t] = NoUnload \/ t = "loader"
                           \/ unloading[t].model \in Present'
    BY <1>2 DEF Unloads, Present
  <2> QED BY <1>1, <1>4, <2>1 DEF Unloads
<1> QED BY <1>5, <1>6, <1>7, <1>8, <1>9

LEMMA LoadNowStep ==
  ASSUME IInv, TypeOK', [Next]_vars, Careful, NEW r \in Requests, LoadNow(r),
         \A q \in Requests : ~Quiesced(q)
  PROVE  Apart' /\ LoopUnloads'
<1> USE IInvParts
<1>1. /\ LoopFree /\ Started /\ r \in Serving /\ In(r, {"missing"})
      /\ StartLoad(req[r].model) /\ UNCHANGED <<resident, toUnload, stage>>
  BY StackFacts DEF LoadNow, Turn, Acts
<1>2. req[r].model \in Models
  BY <1>1 DEF ReqType, In
<1>3. req[r].model \in Spawned => req[r].model \notin Present
  BY <1>1, LateIsAbsent DEF In, Late
<1>4. unloading["loop"] = NoUnload /\ UNCHANGED unloading
  BY <1>1 DEF LoopFree, StartLoad
<1>5. Apart'
  BY <1>1, <1>2, <1>3, <1>4, StartLoadApart
<1> QED BY <1>1, <1>4, <1>5, LoopAside DEF Started

\* Every victim is settled by now, and the loop has no other.
LEMMA EvictedStep ==
  ASSUME IInv, TypeOK', Careful, NEW r \in Requests, Evicted(r) PROVE Apart' /\ LoopUnloads'
<1> USE IInvParts, TypeParts
<1>1. /\ Started /\ stack # << >> /\ r = Last(stack) /\ r \in Serving /\ In(r, {"evict"})
      /\ toUnload = {} /\ unloading["loop"] = NoUnload
      /\ resident' = resident \ req[r].victims /\ StartLoad(req[r].model)
      /\ Goto(r, "load") /\ UNCHANGED <<stage, stack, toUnload>>
  BY StackFacts DEF Evicted, Acts
<1>2. Plain(site) /\ req[r].model \in Models
  BY <1>1, EvictsNoPrune DEF ReqType, In
<1>3. \A t \in Pruners : unloading[t] = NoUnload
  BY <1>2 DEF Calm, PrunesApart, PruneApart, Plain
<1>4. req[r].model \in Spawned => req[r].model \notin Present
  BY <1>1, LateIsAbsent DEF In, Late
<1>5. \A o \in resident \cap req[r].victims : Settled(Id(o))
  <2>1. Leaving = req[r].victims
    BY <1>1 DEF Leaving, Started
  <2>2. \A o \in resident : NoUnload.model # Id(o)
    BY ObjectIds, NoModelAssumption DEF BookType, NoUnload
  <2> QED BY <1>1, <2>1, <2>2 DEF LoopUnloads
<1>6. Apart'
  BY <1>1, <1>2, <1>3, <1>4, <1>5, StartLoadApart
<1>7. NoneEvicts'
  <2>1. req'[r].pc = "load" /\ \A q \in Requests : q # r => req'[q] = req[q]
    BY <1>1 DEF Goto, ReqType
  <2>2. \A q \in Requests : q # r => ~In(q, {"evict"})
    BY <1>1 DEF Nested, Serving, In, AtServe
  <2> QED BY <2>1, <2>2 DEF NoneEvicts, In
<1>8. LoopUnloads'
  BY <1>1, <1>7, LoopIdle DEF StartLoad, Started
<1> QED BY <1>6, <1>8

\* A model that was loaded is resident from now on.
LEMMA LoadDoneStep ==
  ASSUME IInv, TypeOK', [Next]_vars, NEW r \in Requests, LoadDone(r),
         \A q \in Requests : ~Quiesced(q)
  PROVE  Apart' /\ LoopUnloads'
<1> USE IInvParts DEF Apart
<1>1. /\ load.pc = "ok" /\ load' = NoLoad /\ LoopFree /\ Started
      /\ UNCHANGED <<proc, ours, handle, unloading, stage, toUnload>>
  BY DEF LoadDone, Turn, Acts
<1>2. Present' = Present \cup {load.model}
  <2>1. PICK o \in New(load.model) : resident' = resident \cup {o}
    BY DEF LoadDone, Loaded
  <2>2. Id(o) = load.model
    BY DEF New
  <2> QED BY <2>1, <2>2 DEF Present
<1>3. Handles' /\ Owned' /\ LoadApart' /\ LoaderApart' /\ NoOrphan'
  BY <1>1, <1>2 DEF Handles, Owned, LoadApart, LoaderApart, NoOrphan, Settled, Alive, NoLoad
<1>4. Unloads'
  BY <1>1, <1>2 DEF Unloads, Settled
<1> QED BY <1>1, <1>3, <1>4, LoopAside DEF Started

\* A load that failed has left its model settled.
LEMMA LoadFailsStep ==
  ASSUME IInv, TypeOK', [Next]_vars, NEW r \in Requests, LoadFails(r),
         \A q \in Requests : ~Quiesced(q)
  PROVE  Apart' /\ LoopUnloads'
<1> USE IInvParts DEF Apart
<1>1. /\ load.pc = "failed" /\ load' = NoLoad /\ LoopFree /\ Started
      /\ UNCHANGED <<proc, ours, handle, unloading, stage, toUnload, resident>>
  BY DEF LoadFails, Turn, Acts
<1>2. Handles' /\ Owned' /\ LoadApart' /\ LoaderApart' /\ NoOrphan'
  BY <1>1 DEF Handles, Owned, LoadApart, LoaderApart, NoOrphan, Settled, Alive, NoLoad, Present
<1>3. Unloads'
  BY <1>1 DEF Unloads, Settled, Present
<1> QED BY <1>1, <1>2, <1>3, LoopAside DEF Started

\* An unload begins with the process in the handle.
LEMMA StartUnloadStep ==
  ASSUME IInv, NEW t \in Threads, t # "loader", NEW m \in Models, StartUnload(t, m),
         UNCHANGED resident, m \in Present \/ (t = "loop" /\ load = NoLoad)
  PROVE  Apart'
<1> USE IInvParts DEF Apart
<1>1. /\ unloading[t] = NoUnload
      /\ unloading' = [unloading EXCEPT ![t] =
           [pc |-> "run", model |-> m,
            victim |-> IF m \in Spawned THEN handle[m] ELSE NoServer]]
      /\ UNCHANGED <<proc, ours, handle, load>>
  BY DEF StartUnload, BeginUnload
<1>2. \A s \in Threads : s # t => unloading'[s] = unloading[s]
  BY <1>1 DEF ServerType
<1>3. /\ unloading'[t].pc = "run" /\ unloading'[t].model = m /\ unloading'[t] # NoUnload
      /\ m \in Spawned => unloading'[t].victim = handle[m]
  BY <1>1 DEF NoUnload, ServerType
<1>4. Handles' /\ Owned' /\ LoadApart' /\ NoOrphan'
  BY <1>1 DEF Handles, Owned, LoadApart, NoOrphan, Settled, Alive, Present
<1>5. LoaderApart'
  BY <1>1, <1>2 DEF LoaderApart
<1>6. Unloads'
  BY <1>1, <1>2, <1>3 DEF Unloads, Settled, Present
<1> QED BY <1>4, <1>5, <1>6

LEMMA PruneBegins ==
  ASSUME IInv, NEW t \in Pruners, PruneScan(t) \/ PruneNext(t) PROVE Apart' /\ LoopUnloads'
<1> USE IInvParts
<1>1. PICK o \in resident : StartUnload(t, Id(o))
  <2>1. prune[t].todo \subseteq resident
    BY DEF Calm, PrunesApart, PruneApart
  <2> QED BY <2>1 DEF PruneScan, PruneNext
<1>2. UNCHANGED <<resident, toUnload, stage, stack, req>>
  BY DEF PruneScan, PruneNext
<1>3. Id(o) \in Models /\ Id(o) \in Present
  BY ObjectIds DEF BookType, Present
<1>4. Apart'
  BY <1>1, <1>2, <1>3, StartUnloadStep
<1>5. unloading'["loop"] = unloading["loop"] /\ UNCHANGED <<ours, handle>>
  BY <1>1 DEF StartUnload, BeginUnload, ServerType
<1> QED BY <1>2, <1>4, <1>5, LoopStays

LEMMA PruneSkips ==
  ASSUME IInv, NEW t \in Pruners, PruneSkip(t) PROVE Apart' /\ LoopUnloads'
BY IInvParts, ApartStays, LoopStays DEF PruneSkip, serverVars

\* A prune whose thread is done lets its model go; otherwise it forgets it.
LEMMA PruneEnds ==
  ASSUME IInv, Careful, TypeOK', [Next]_vars, \A q \in Requests : ~Quiesced(q),
         NEW t \in Pruners, PruneEnd(t) \/ PruneRaises(t) \/ PruneDropped(t)
  PROVE  Apart' /\ LoopUnloads'
<1> USE IInvParts DEF Apart
<1>1. /\ unloading' = [unloading EXCEPT ![t] = NoUnload]
      /\ UNCHANGED <<proc, ours, handle, load, stage, req, stack, toUnload>>
  BY DEF PruneEnd, PruneRaises, PruneDropped, Forget, lifeVars
<1>2. /\ unloading'[t] = NoUnload
      /\ \A s \in Threads : s # t => unloading'[s] = unloading[s]
  BY <1>1 DEF ServerType
<1>3. CASE UNCHANGED resident
  <2>1. Handles' /\ Owned' /\ LoadApart' /\ LoaderApart' /\ NoOrphan'
    BY <1>1, <1>2, <1>3 DEF Handles, Owned, LoadApart, LoaderApart, NoOrphan, Settled, Alive,
       Present
  <2>2. Unloads'
    BY <1>1, <1>2, <1>3 DEF Unloads, Settled, Present, NoUnload
  <2>3. LoopUnloads'
    BY <1>1, <1>2, <1>3, LoopStays
  <2> QED BY <2>1, <2>2, <2>3
<1>4. CASE PruneEnd(t) /\ resident' # resident
  <2>1. /\ LoopFree /\ Started /\ unloading[t].pc = "done"
        /\ resident' = resident \ {prune[t].now} /\ prune[t].now \in resident
    BY <1>4 DEF PruneEnd
  <2>2. prune[t].now # NoObject
    BY <2>1, NoModelAssumption, ObjectIds DEF BookType, Id, NoObject
  <2>3. unloading[t].model = Id(prune[t].now) /\ t \in site.pruners
    BY <2>2 DEF Calm, PrunesApart, PruneApart, NoPrune
  <2>4. Settled(Id(prune[t].now))
    BY <2>1, <2>3 DEF Unloads
  \* Another prune at work would be one too many.
  <2>5. \A s \in Pruners : s # t => unloading[s] = NoUnload
    <3>1. \A s \in Pruners : s # t => s \notin site.pruners
      BY <2>3, CarefulSite DEF Roomy, Plain
    <3> QED BY <3>1 DEF Calm, PrunesApart, PruneApart
  <2>6. unloading["loop"] = NoUnload
    BY <2>1 DEF LoopFree
  <2>7. Present' \subseteq Present /\ \A n \in Present \ Present' : Settled(n)
    BY <2>1, <2>4 DEF Present
  <2>8. Handles' /\ Owned' /\ LoadApart' /\ LoaderApart' /\ NoOrphan'
    BY <1>1, <1>2, <2>7 DEF Handles, Owned, LoadApart, LoaderApart, NoOrphan, Settled, Alive
  <2>9. Unloads'
    BY <1>1, <1>2, <2>5, <2>6 DEF Unloads, Settled
  <2>10. LoopUnloads'
    BY <1>1, <1>2, <2>1, LoopAside DEF Started
  <2> QED BY <2>8, <2>9, <2>10
<1> QED BY <1>3, <1>4 DEF PruneRaises, PruneDropped, lifeVars

LEMMA UnloadNextStep ==
  ASSUME IInv, UnloadNext PROVE Apart' /\ LoopUnloads'
<1> USE IInvParts
<1>1. PICK o \in toUnload : StartUnload("loop", Id(o)) /\ toUnload' = toUnload \ {o}
  BY DEF UnloadNext
<1>2. UNCHANGED <<resident, stage, stack, req>>
  BY DEF UnloadNext
<1>3. o \in Leaving /\ Id(o) \in Models
  BY ObjectIds DEF LoopUnloads, BookType
<1>4. Id(o) \in Present \/ load = NoLoad
  BY <1>3, EvictsLoadless DEF Present
<1>5. Apart'
  BY <1>1, <1>2, <1>3, <1>4, StartUnloadStep
<1>6. unloading'["loop"].model = Id(o) /\ unloading["loop"] = NoUnload
      /\ UNCHANGED <<ours, handle>>
  BY <1>1 DEF StartUnload, BeginUnload, ServerType
<1>7. Leaving' = Leaving /\ Started' = Started /\ Running' = Running
  BY <1>2 DEF Leaving, Started, Running, In
<1>8. \A p \in Leaving \ toUnload : Settled(Id(p))'
  <2>1. Leaving \subseteq Objects
    BY StackFacts DEF Leaving, BookType, ReqType
  <2>2. \A p \in Leaving : NoUnload.model # Id(p)
    BY <2>1, ObjectIds, NoModelAssumption DEF NoUnload
  <2> QED BY <1>6, <2>2 DEF LoopUnloads, Settled
<1>9. LoopUnloads'
  BY <1>1, <1>2, <1>3, <1>6, <1>7, <1>8 DEF LoopUnloads
<1> QED BY <1>5, <1>9

\* The loop is done with one model, which is settled, or with the eviction.
LEMMA UnloadedStep ==
  ASSUME IInv, TypeOK', [Next]_vars, \A q \in Requests : ~Quiesced(q), Unloaded
  PROVE  Apart' /\ LoopUnloads'
<1> USE IInvParts, TypeParts DEF Apart
<1> DEFINE u == unloading["loop"]
<1>1. /\ u.pc \in {"done", "raised"} /\ unloading' = [unloading EXCEPT !["loop"] = NoUnload]
      /\ UNCHANGED <<stage, resident, proc, ours, handle, load>>
  BY DEF Unloaded, Forget
<1>2. /\ unloading'["loop"] = NoUnload
      /\ \A t \in Threads : t # "loop" => unloading'[t] = unloading[t]
  BY <1>1 DEF ServerType
<1>3. Handles' /\ Owned' /\ LoadApart' /\ LoaderApart' /\ NoOrphan'
  BY <1>1, <1>2 DEF Handles, Owned, LoadApart, LoaderApart, NoOrphan, Settled, Alive, Present
<1>4. Unloads'
  BY <1>1, <1>2 DEF Unloads, Settled, Present, NoUnload
<1>5. CASE u.pc = "raised" /\ Running
  <2>1. /\ stack # << >> /\ Answer(Last(stack), "refused", NoObject) /\ toUnload' = {}
        /\ Started
    BY <1>5 DEF Unloaded, Running, Reject, LoopUnloads
  <2>2. Serving' = Serving \ {Last(stack)} /\ \A q \in Serving' : req'[q] = req[q]
    BY <2>1, AnswerFacts DEF Serving
  <2>3. NoneEvicts'
    BY <2>2 DEF NoneEvicts, Nested, Serving, In, AtServe
  <2> QED BY <1>1, <1>2, <1>3, <1>4, <2>1, <2>3, LoopIdle DEF Started
<1>6. CASE UNCHANGED <<req, stack, toUnload>>
  <2>1. Leaving' = Leaving /\ Started' = Started /\ Running' = Running
    BY <1>1, <1>6 DEF Leaving, Started, Running, In
  <2>2. Settled(u.model)
    BY <1>1 DEF Unloads
  <2>3. \A o \in Leaving \ toUnload : Settled(Id(o))
    BY <2>2 DEF LoopUnloads
  <2> QED BY <1>1, <1>2, <1>3, <1>4, <1>6, <2>1, <2>3 DEF LoopUnloads, Settled
<1> QED BY <1>5, <1>6 DEF Unloaded

\* A signalled server is gone, and the unload that waited for it settles its
\* model.
LEMMA UnloadStepApart ==
  ASSUME IInv, NEW t \in Threads, UnloadStep(t), UNCHANGED lifeVars PROVE Apart'
<1> USE IInvParts DEF Apart
<1> DEFINE u == unloading[t]
<1>1. u.pc = "run" /\ u \in [pc : {"none", "run", "done", "raised"},
                            model : Models \cup {NoModel}, victim : Servers \cup {NoServer}]
  BY DEF UnloadStep, Terminate, Unload, LmsUnload, ServerType
<1>2. UNCHANGED <<load, resident, Present>>
  BY DEF UnloadStep, Terminate, Unload, LmsUnload, lifeVars, Present
<1>3. u # NoUnload /\ u.model \in Models
  BY <1>1 DEF NoUnload, Unloads
<1>4. CASE Terminate(t)
  <2>1. /\ UNCHANGED <<handle, unloading>> /\ ours' = ours \ {u.victim}
        /\ proc' = [proc EXCEPT ![u.victim] = "gone"]
    BY <1>4 DEF Terminate, Gone
  <2>2. ours' \subseteq Alive'
    BY <2>1 DEF ServerType, Handles, Alive
  <2> QED BY <1>2, <2>1, <2>2 DEF Handles, Owned, LoadApart, LoaderApart,
        Unloads, NoOrphan, Settled
<1>5. CASE Unload(t)
  <2>1. /\ UNCHANGED <<proc, ours>> /\ u.model \in Spawned /\ u.victim \notin Alive
        /\ handle' = IF u.victim = NoServer THEN handle
                     ELSE [handle EXCEPT ![u.model] = NoServer]
        /\ unloading' = [unloading EXCEPT ![t].pc = "done"]
    BY <1>5 DEF Unload, Waited
  <2>2. \A m \in Spawned : handle'[m] = handle[m] \/ (m = u.model /\ handle'[m] = NoServer)
    BY <2>1 DEF ServerType
  <2>3. u.victim \notin ours /\ NoServer \notin ours
    BY <2>1, NoServerAssumption DEF ServerType, Handles
  <2>4. Settled(u.model)
    BY <1>1, <2>1, <2>3 DEF Unloads, Settled
  <2>5. \A m \in Spawned : Settled(m) => Settled(m)'
    BY <1>2, <2>1, <2>2, <2>3 DEF Settled
  <2>6. /\ \A s \in Threads : /\ unloading'[s].model = unloading[s].model
                              /\ unloading'[s].victim = unloading[s].victim
                              /\ s # t => unloading'[s] = unloading[s]
        /\ unloading'[t].pc = "done" /\ unloading'[t] # NoUnload
    BY <2>1, <1>1 DEF ServerType, NoUnload
  <2>7. Handles' /\ NoOrphan'
    BY <1>2, <2>1, <2>2, <2>4 DEF Handles, NoOrphan, Settled, Alive
  <2>8. Owned' /\ LoadApart'
    BY <1>2, <2>5 DEF Owned, LoadApart, Settled
  <2>9. Unloads'
    BY <1>2, <1>3, <2>1, <2>2, <2>3, <2>4, <2>5, <2>6 DEF Unloads, Settled
  <2>10. LoaderApart'
    BY <1>2, <1>3, <2>6 DEF LoaderApart
  <2> QED BY <2>7, <2>8, <2>9, <2>10
<1>6. CASE LmsUnload(t)
  <2>1. PICK pc \in {"done", "raised"} : unloading' = [unloading EXCEPT ![t].pc = pc]
    BY <1>6 DEF LmsUnload
  <2>2. u.model \notin Spawned /\ UNCHANGED <<proc, ours, handle>>
    BY <1>6 DEF LmsUnload
  <2>3. /\ \A s \in Threads : /\ unloading'[s].model = unloading[s].model
                              /\ s # t => unloading'[s] = unloading[s]
        /\ unloading'[t].pc = pc /\ unloading'[t] # NoUnload
    BY <2>1, <1>1 DEF ServerType, NoUnload
  <2>4. Handles' /\ NoOrphan' /\ Owned' /\ LoadApart'
    BY <1>2, <2>2 DEF Handles, NoOrphan, Owned, LoadApart, Settled, Alive
  <2>5. Unloads'
    BY <1>2, <1>3, <2>2, <2>3 DEF Unloads, Settled
  <2>6. LoaderApart'
    BY <1>2, <1>3, <2>3 DEF LoaderApart
  <2> QED BY <2>4, <2>5, <2>6
<1> QED BY <1>4, <1>5, <1>6 DEF UnloadStep

\* ... and of what the loop has unloaded, nothing comes back.
LEMMA UnloadStepLoop ==
  ASSUME IInv, NEW t \in Threads, UnloadStep(t), UNCHANGED lifeVars
  PROVE  LoopUnloads'
<1> USE IInvParts
<1>1. /\ ours' \subseteq ours /\ UNCHANGED load
      /\ \A m \in Spawned : handle'[m] = handle[m] \/ handle'[m] = NoServer
  BY DEF UnloadStep, Terminate, Gone, Unload, LmsUnload, ServerType
<1>2. /\ unloading["loop"] = NoUnload => unloading'["loop"] = NoUnload
      /\ unloading'["loop"].model = unloading["loop"].model
  BY DEF UnloadStep, Terminate, Unload, LmsUnload, ServerType, NoUnload
<1>3. /\ UNCHANGED <<stage, resident, toUnload>>
      /\ Leaving' = Leaving /\ Started' = Started /\ Running' = Running
  BY DEF lifeVars, Leaving, Started, Running, In
<1>4. NoServer \notin ours
  BY NoServerAssumption DEF ServerType
<1>5. \A m : Settled(m) => Settled(m)'
  BY <1>1, <1>4 DEF Settled
<1> QED BY <1>1, <1>2, <1>3, <1>5 DEF LoopUnloads

\* While the loop unloads for an eviction nothing loads.  At shutdown a load
\* that stop() cut off may go on, but not of a model that is resident.
LEMMA LoadStepLoop ==
  ASSUME IInv, LoadStep, UNCHANGED lifeVars PROVE LoopUnloads'
<1> USE IInvParts DEF Apart
<1>1. load # NoLoad /\ load.model \in Models
  <2>1. load.pc # "none"
    BY DEF LoadStep, SpawnFails, Popen, Answered, NotReady, CleanedUp, LmsLoad
  <2> QED BY <2>1 DEF NoLoad, LoadApart
<1>2. /\ UNCHANGED <<stage, resident, toUnload>>
      /\ Leaving' = Leaving /\ Started' = Started /\ Running' = Running
  BY DEF lifeVars, Leaving, Started, Running, In
<1>3. Leaving \subseteq resident
  BY <1>1, EvictsLoadless
<1>4. unloading'["loop"] = unloading["loop"]
  BY ThreadsAssumption DEF LoadStep, SpawnFails, Popen, Answered, NotReady, CleanedUp, LmsLoad,
     Forget, BeginUnload, ServerType
<1>5. \A o \in resident : Settled(Id(o)) => Settled(Id(o))'
  <2>1. CASE ~Popen
    <3>1. UNCHANGED <<ours, handle>>
      BY <2>1 DEF LoadStep, SpawnFails, Answered, NotReady, CleanedUp, LmsLoad
    <3> QED BY <3>1 DEF Settled
  <2>2. ASSUME Popen, NEW o \in resident, Settled(Id(o)) PROVE Settled(Id(o))'
    <3>1. PICK s \in Servers \ Alive :
             /\ s[1] = load.model /\ ours' = ours \cup {s}
             /\ handle' = [handle EXCEPT ![load.model] = s]
      BY <2>2 DEF Popen
    <3>2. load.model # Id(o)
      BY <1>1, <2>2 DEF LoadApart, Popen, Present
    <3>3. Id(o) \in Spawned => handle'[Id(o)] = handle[Id(o)] /\ handle[Id(o)] # s
      BY <3>1, <3>2, NoServerAssumption DEF ServerType, Handles
    <3> QED BY <2>2, <3>1, <3>3 DEF Settled
  <2> QED BY <2>1, <2>2
<1> QED
  BY <1>2, <1>3, <1>4, <1>5 DEF LoopUnloads

\* A load puts a server of its own into the handle of a settled model, and
\* settles the model again before it fails.
LEMMA LoadStepApart ==
  ASSUME IInv, LoadStep, UNCHANGED lifeVars PROVE Apart'
<1> USE IInvParts DEF Apart
<1> DEFINE n == load.model
<1>1. UNCHANGED <<resident, Present>>
  BY DEF lifeVars, Present
<1>2. n \in Models /\ load # NoLoad /\ (n \in Spawned => n \notin Present)
  <2>1. load.pc # "none"
    BY DEF LoadStep, SpawnFails, Popen, Answered, NotReady, CleanedUp, LmsLoad
  <2> QED BY <2>1 DEF NoLoad, LoadApart
<1>3. \A t \in Threads : \/ unloading[t] = NoUnload \/ t = "loader"
                         \/ unloading[t].model \in Present
  BY <1>2 DEF Unloads
<1>4. CASE SpawnFails \/ LmsLoad \/ Answered
  <2>1. /\ UNCHANGED <<proc, ours, handle, unloading>>
        /\ load'.model = n /\ load'.pc \in {"ok", "failed"} /\ load.pc # "cleanup"
        /\ load'.pc = "failed" => Settled(n)
        /\ load'.pc = "ok" => load.pc = "probe" \/ n \notin Spawned
    BY <1>4 DEF SpawnFails, LmsLoad, Answered, ServerType, LoadApart, Settled
  <2>2. load' # NoLoad
    BY <2>1 DEF NoLoad
  <2>3. Handles' /\ Owned' /\ LoadApart' /\ LoaderApart' /\ NoOrphan'
    BY <1>1, <1>2, <2>1, <2>2 DEF Handles, Owned, LoadApart, LoaderApart, NoOrphan, Settled, Alive
  <2>4. Unloads'
    BY <1>1, <1>3, <2>1 DEF Unloads, Settled
  <2> QED BY <2>3, <2>4
<1>5. CASE Popen
  <2>1. /\ load.pc = "begin" /\ n \in Spawned /\ load'.pc = "probe" /\ load'.model = n
        /\ load' # NoLoad /\ UNCHANGED unloading
    BY <1>5 DEF Popen, ServerType, NoLoad
  <2>2. PICK s \in Servers \ Alive :
          /\ s[1] = n /\ ours' = ours \cup {s}
          /\ proc' = [proc EXCEPT ![s] = "booting"]
          /\ handle' = [handle EXCEPT ![n] = s]
    BY <1>5 DEF Popen
  <2>3. handle'[n] = s /\ \A m \in Spawned : m # n => handle'[m] = handle[m]
    BY <2>1, <2>2 DEF ServerType
  <2>4. \A m \in Spawned : m # n => handle[m] # s
    BY <2>2, NoServerAssumption DEF Handles
  <2>5. \A m : m # n /\ Settled(m) => Settled(m)'
    BY <2>1, <2>2, <2>3, <2>4 DEF Settled
  <2>6. \A o \in ours : o[1] # n
    BY <2>1 DEF LoadApart, Settled, NoOrphan
  <2>7. Handles'
    <3>1. s \in Alive' /\ \A o \in Alive : o \in Alive'
      BY <2>2 DEF Alive, ServerType
    <3> QED BY <2>2, <2>3, <3>1 DEF Handles
  <2>8. NoOrphan'
    BY <2>1, <2>2, <2>3, <2>6 DEF NoOrphan
  <2>9. Owned' /\ LoadApart' /\ LoaderApart'
    BY <1>1, <1>2, <2>1, <2>5 DEF Owned, LoadApart, LoaderApart
  <2>10. Unloads'
    <3>1. unloading["loader"] = NoUnload
      BY <2>1 DEF LoaderApart
    <3>2. \A t \in Threads : unloading[t] # NoUnload => unloading[t].model # n
      BY <1>2, <1>3, <2>1, <3>1
    <3> QED BY <1>1, <1>3, <2>1, <2>3, <2>5, <3>2 DEF Unloads, NoUnload
  <2> QED BY <2>7, <2>8, <2>9, <2>10
<1>6. CASE NotReady
  <2>1. /\ load.pc = "probe" /\ load'.pc = "cleanup" /\ load'.model = n /\ load' # NoLoad
        /\ UNCHANGED <<proc, ours, handle>>
        /\ unloading' = BeginUnload("loader", n)
    BY <1>6 DEF NotReady, ServerType, NoLoad
  <2>2. /\ \A t \in Threads \ {"loader"} : unloading'[t] = unloading[t]
        /\ unloading'["loader"].pc = "run" /\ unloading'["loader"].model = n
        /\ n \in Spawned => unloading'["loader"].victim = handle[n]
    BY <2>1 DEF BeginUnload, ServerType
  <2>3. Handles' /\ Owned' /\ LoadApart' /\ LoaderApart' /\ NoOrphan'
    BY <1>1, <1>2, <2>1, <2>2 DEF Handles, Owned, LoadApart, LoaderApart,
       NoOrphan, Settled, Alive
  <2>4. Unloads'
    BY <1>1, <1>2, <1>3, <2>1, <2>2 DEF Unloads, Settled, NoUnload
  <2> QED BY <2>3, <2>4
<1>7. CASE CleanedUp
  <2>1. /\ load.pc = "cleanup" /\ load'.pc = "failed" /\ load'.model = n /\ load' # NoLoad
        /\ UNCHANGED <<proc, ours, handle>>
        /\ unloading["loader"].pc = "done"
        /\ unloading' = [unloading EXCEPT !["loader"] = NoUnload]
    BY <1>7 DEF CleanedUp, Forget, ServerType, NoLoad
  <2>2. Settled(n)
    BY <2>1 DEF LoaderApart, Unloads
  <2>3. /\ unloading'["loader"] = NoUnload
        /\ \A t \in Threads \ {"loader"} : unloading'[t] = unloading[t]
    BY <2>1 DEF ServerType
  <2>4. Handles' /\ Owned' /\ LoadApart' /\ LoaderApart' /\ NoOrphan'
    BY <1>1, <1>2, <2>1, <2>2, <2>3 DEF Handles, Owned, LoadApart, LoaderApart,
       NoOrphan, Settled, Alive
  <2>5. Unloads'
    BY <1>1, <1>3, <2>1, <2>3 DEF Unloads, Settled, NoUnload
  <2> QED BY <2>4, <2>5
<1> QED BY <1>4, <1>5, <1>6, <1>7 DEF LoadStep

\* A server that listens or exits is in the handle it was in.
LEMMA EnvironmentStep ==
  ASSUME IInv, Environment PROVE Apart' /\ LoopUnloads'
<1> USE IInvParts DEF Apart
<1>1. PICK s \in Servers : Listen(s) \/ Exit(s)
  BY DEF Environment
<1>2. UNCHANGED <<handle, load, unloading>> /\ ours' \subseteq ours
  BY <1>1 DEF Listen, Exit, Gone
<1>3. ours' \subseteq Alive'
  BY <1>1 DEF Listen, Exit, Gone, Alive, ServerType, Handles
<1>4. /\ UNCHANGED <<stage, resident, toUnload, Present>>
      /\ Leaving' = Leaving /\ Started' = Started /\ Running' = Running
  BY DEF Environment, lifeVars, Leaving, Started, Running, In, Present
<1>5. Handles' /\ Owned' /\ LoadApart' /\ LoaderApart' /\ Unloads' /\ NoOrphan'
  BY <1>2, <1>3, <1>4 DEF Handles, Owned, LoadApart, LoaderApart, Unloads, NoOrphan, Settled
<1>6. LoopUnloads'
  BY <1>2, <1>4 DEF LoopUnloads, Settled
<1> QED BY <1>5, <1>6

LEMMA InitIInv == Init => IInv
<1> SUFFICES ASSUME Init PROVE IInv
  OBVIOUS
<1>1. /\ stage = "down" /\ resident = {} /\ stack = << >> /\ toUnload = {} /\ ours = {}
      /\ handle = [m \in Spawned |-> NoServer] /\ load = NoLoad
      /\ unloading = [t \in Threads |-> NoUnload]
      /\ req = [r \in Requests |-> Idle]
      /\ task = [t \in Pruners |-> "off"] /\ prune = [t \in Pruners |-> NoPrune]
  BY DEF Init, ServersFresh
<1>2. Apart
  BY <1>1, ThreadsAssumption DEF Apart, Handles, Owned, LoadApart, LoaderApart, Unloads,
     NoOrphan, Settled, NoLoad, NoUnload
<1>3. LoopUnloads
  BY <1>1, ThreadsAssumption DEF LoopUnloads, Leaving, Started, Running
<1>4. Serving = {}
  BY <1>1 DEF Serving, In, Idle, AtServe
<1>5. Calm
  <2>1. RoomyCalm /\ PlainCalm
    BY <1>1, <1>4 DEF RoomyCalm, PlainCalm
  <2>2. ASSUME NEW t \in Pruners PROVE PruneApart(t) /\ task[t] = "off"
    BY <1>1, ThreadsAssumption DEF PruneApart, NoPrune, Pruners
  <2> QED BY <2>1, <2>2 DEF Calm, PrunesApart
<1> QED BY <1>2, <1>3, <1>5, InitType, InitServe DEF IInv

\* Every step keeps the invariant.
LEMMA StepIInv == ASSUME Careful, IInv, [Next]_vars PROVE IInv'
<1>1. TypeOK' /\ ServeInv'
  BY IInvParts, TypeStep, ServeStep
<1>2. Calm'
  BY IInvParts, PrunesStep, CalmStep DEF Calm, Calmly
<1> SUFFICES Apart' /\ LoopUnloads'
  BY <1>1, <1>2 DEF IInv
<1>3. CASE PreloadFails \/ Stop \/ \E r \in Requests : Quiesced(r)
  BY <1>1, <1>3, LoopBegins
<1>4. CASE ~\E r \in Requests : Quiesced(r)
  <2>1. CASE \/ Preload \/ Up \/ Shutdown \/ (\E c \in Clients : Ask(c))
             \/ \E r \in Requests :
                  \/ Leave(r) \/ Take(r) \/ Found(r) \/ FoundDying(r) \/ FoundAgain(r) \/ Missing(r)
                  \/ LookupRaises(r) \/ Hopeless(r) \/ ChooseVictims(r) \/ DrainWait(r)
                  \/ \E q \in Requests : LineCut(r, q)
    BY <1>1, <1>4, <2>1, QuietStep
  <2>2. CASE \E r \in Requests : LoadNow(r) \/ Evicted(r) \/ LoadDone(r) \/ LoadFails(r)
    BY <1>1, <1>4, <2>2, LoadNowStep, EvictedStep, LoadDoneStep, LoadFailsStep
  <2>3. CASE Start \/ Die \/ Ended \/ UnloadNext \/ Unloaded
    BY <1>1, <1>4, <2>3, StartStep, DieStep, EndedStep, UnloadNextStep, UnloadedStep
  <2>4. CASE Prune \/ Visit
    BY <1>1, <1>4, <2>4, PruneBegins, PruneSkips, PruneEnds DEF Prune, Visit
  <2>5. ASSUME NEW t \in Threads, UnloadStep(t), UNCHANGED lifeVars PROVE Apart' /\ LoopUnloads'
    BY <2>5, UnloadStepApart, UnloadStepLoop
  <2>6. CASE LoadStep /\ UNCHANGED lifeVars
    BY <2>6, LoadStepApart, LoadStepLoop
  <2>7. CASE Environment
    BY <2>7, EnvironmentStep
  <2>8. CASE Deadline \/ UNCHANGED vars
    <3>1. UNCHANGED <<serverVars, resident, stage, stack, req, toUnload>>
      BY <2>8 DEF Deadline, vars, lifeVars
    <3> QED BY <3>1, IInvParts, ApartStays, LoopStays DEF serverVars
  <2>9. "loop" \in Threads
    BY ThreadsAssumption
  <2> QED BY <1>3, <1>4, <2>1, <2>2, <2>3, <2>4, <2>5, <2>6, <2>7, <2>8, <2>9
          DEF Next, Serve, Quiesce, Loop, LoopUnload, Worker
<1> QED BY <1>3, <1>4

\* IInv holds throughout.
THEOREM LifespanInvariant == ASSUME Careful PROVE Spec => []IInv
BY InitIInv, StepIInv, PTL DEF Spec

\* Where all models fit and one prune runs, or nothing is pruned and one model
\* has a server of its own, a server of this process is always the one its
\* provider remembers, whatever loads, prunes, evictions, hang-ups and shutdown
\* do; a serve inside another then finds the spawned model resident.
THEOREM NoServerIsOrphaned == ASSUME Careful PROVE Spec => []NoOrphan
<1>1. IInv => NoOrphan
  BY DEF IInv, Apart
<1> QED BY <1>1, LifespanInvariant, PTL

\* There, after an orderly exit, the only servers left are those of a load that
\* stop() cut off.
THEOREM ExitLeavesOnlyCutLoads == ASSUME Careful PROVE Spec => []OnlyCutLoadsOutlive
<1>1. IInv => OnlyCutLoadsOutlive
  <2> SUFFICES ASSUME IInv, stage = "exited", \A t \in Threads : unloading[t] = NoUnload,
                      NEW s \in ours
               PROVE  s[1] = load.model
    BY DEF OnlyCutLoadsOutlive
  <2>1. handle[s[1]] = s
    BY DEF IInv, Apart, NoOrphan
  <2>2. s[1] \in Spawned /\ s[1] \in Models
    BY IInvParts, SpawnedAssumption DEF ServerType, Servers
  <2>3. ~Settled(s[1])
    BY <2>1, <2>2 DEF Settled
  <2>4. s[1] \notin Present
    <3>1. /\ unloading["loop"].model # s[1] /\ toUnload = {} /\ Leaving = resident
          /\ LoopUnloads
      BY <2>2, IInvParts, NoModelAssumption DEF NoUnload, LoopUnloads, Leaving
    <3> QED BY <2>3, <3>1 DEF LoopUnloads, Present
  <2> QED BY <2>2, <2>3, <2>4 DEF IInv, Apart, Owned
<1> QED BY <1>1, LifespanInvariant, PTL

\* The server that answered is of the model that was loading, when no two
\* models share a port.
LEMMA AnswererStep ==
  ASSUME \A m, n \in Spawned : Port[m] = Port[n] => m = n,
         TypeOK, ReadyMeansLoaded, [Next]_vars
  PROVE  ReadyMeansLoaded'
<1> USE TypeParts
<1> SUFFICES ASSUME load' # load PROVE ReadyMeansLoaded'
  BY DEF ReadyMeansLoaded
<1>1. CASE Answered
  <2>1. PICK s \in Servers : /\ Port[s[1]] = Port[load.model]
                             /\ load' = [load EXCEPT !.pc = "ok", !.by = s]
    BY <1>1 DEF Answered
  <2>2. s[1] \in Spawned
    BY DEF Servers
  <2> QED BY <2>1, <2>2 DEF ReadyMeansLoaded, ServerType
<1>2. CASE LmsLoad
  BY <1>2 DEF LmsLoad, ReadyMeansLoaded, ServerType
<1>3. CASE ~Answered /\ ~LmsLoad
  <2>1. load'.pc # "ok"
    <3>1. CASE LoadStep
      BY <1>3, <3>1 DEF LoadStep, SpawnFails, Popen, NotReady, CleanedUp, ServerType
    <3>2. ASSUME NEW r \in Requests, LoadNow(r) \/ Evicted(r) \/ LoadDone(r) \/ LoadFails(r)
          PROVE  load'.pc # "ok"
      <4>1. load' = NoLoad \/ StartLoad(req[r].model)
        BY <3>2 DEF LoadNow, Evicted, LoadDone, LoadFails
      <4>2. \A m : StartLoad(m) => load'.pc = "begin"
        BY DEF StartLoad, NoLoad
      <4>3. NoLoad.pc = "none"
        BY DEF NoLoad
      <4> QED BY <4>1, <4>2, <4>3
    <3>3. CASE Die
      BY <3>3 DEF Die, ServersLeft, NoLoad
    <3> QED BY <3>1, <3>2, <3>3
      DEF Next, Start, Preload, PreloadFails, Up, Ask, Leave, Take, Serve, Found, FoundDying,
          FoundAgain, Missing, LookupRaises, Hopeless, ChooseVictims, Quiesce, LineCut,
          DrainWait, Quiesced, Loop, LoopUnload, UnloadNext, StartUnload, Unloaded, Forget,
          Ended, Visit, UnloadStep, Terminate, Unload, LmsUnload, Prune, PruneScan, PruneNext,
          PruneSkip, PruneEnd, PruneRaises, PruneDropped, Worker, Environment, Listen, Exit,
          Shutdown, Deadline, Stop, vars, lifeVars, serverVars
  <2> QED BY <2>1 DEF ReadyMeansLoaded
<1> QED BY <1>1, <1>2, <1>3

\* When no two spawned models share a port, a load that is ready was answered by
\* a server of its own model, whatever other servers there are.
THEOREM ReadyIsOfTheModel ==
  ASSUME \A m, n \in Spawned : Port[m] = Port[n] => m = n
  PROVE  Spec => []ReadyMeansLoaded
<1>1. Init => TypeOK /\ ReadyMeansLoaded
  BY InitType DEF Init, ServersFresh, NoLoad, ReadyMeansLoaded
<1>2. TypeOK /\ ReadyMeansLoaded /\ [Next]_vars => TypeOK' /\ ReadyMeansLoaded'
  BY TypeStep, AnswererStep
<1> QED BY <1>1, <1>2, PTL DEF Spec

\* There, and where no server is orphaned, no server this process has unloaded
\* still answers a readiness probe; one that an earlier process left may.
THEOREM OnlyTheOwnServerAnswers ==
  ASSUME Careful, \A m, n \in Spawned : Port[m] = Port[n] => m = n
  PROVE  Spec => []OwnAnswers
<1>1. NoOrphan /\ ReadyMeansLoaded => OwnAnswers
  BY DEF NoOrphan, ReadyMeansLoaded, OwnAnswers
<1> QED BY <1>1, NoServerIsOrphaned, ReadyIsOfTheModel, PTL
===============================================================================
