----------------------------- MODULE SpawnedServer ----------------------------
(***************************************************************************)
(* Loading and unloading one model.  ds4, llama.cpp and dflash each spawn a *)
(* server per model and probe its port until somebody answers (ready.py);   *)
(* they unload by signalling it, waiting until it is gone and forgetting    *)
(* it.  LM Studio is asked over HTTP.                                       *)
(*                                                                         *)
(* All of this runs on threads, without a lock: the worker that loads, the  *)
(* workers that prune, and the event loop, which unloads what it evicts and *)
(* what is left at shutdown.  Servers outlive a YAALLB that is killed.      *)
(***************************************************************************)
EXTENDS Integers, FiniteSets

CONSTANTS
  Models,
  Spawned,     \* those served by a server YAALLB spawns; LM Studio's are not
  Port,        \* the port each spawned server listens on
  MaxAtOnce,   \* bound: servers of each model that exist at a time
  Threads,     \* what may be inside unloadModel, "loader" among them
  NoModel, NoServer

ASSUME SpawnedAssumption == Spawned \subseteq Models /\ "loader" \in Threads
ASSUME NoModelAssumption == NoModel \notin Models

VARIABLES
  proc,      \* each server: "gone", "booting" or "up", listening on its port
  ours,      \* the servers spawned by this YAALLB process
  handle,    \* _process of each model's provider
  load,      \* what the loading thread does: [pc, model, by], `by' the server
             \* that answered its probe
  unloading  \* thread |-> [pc, model, victim], `victim' the process it took
             \* from the handle

serverVars == <<proc, ours, handle, load, unloading>>

Servers == UNION {{m} \X (1 .. MaxAtOnce[m]) : m \in Spawned}
ASSUME NoServerAssumption == NoServer \notin Servers

Alive == {s \in Servers : proc[s] # "gone"}

NoLoad == [pc |-> "none", model |-> NoModel, by |-> NoServer]
NoUnload == [pc |-> "none", model |-> NoModel, victim |-> NoServer]

ServerType ==
  /\ proc \in [Servers -> {"gone", "booting", "up"}]
  /\ ours \subseteq Servers
  /\ handle \in [Spawned -> Servers \cup {NoServer}]
  /\ load \in [pc : {"none", "begin", "probe", "cleanup", "ok", "failed"},
               model : Models \cup {NoModel}, by : Servers \cup {NoServer}]
  /\ unloading \in [Threads -> [pc : {"none", "run", "done", "raised"},
                                model : Models \cup {NoModel},
                                victim : Servers \cup {NoServer}]]
  /\ load.pc # "none" => load.model \in Models
  /\ \A t \in Threads : unloading[t].pc # "none" => unloading[t].model \in Models

\* A YAALLB process begins with no server of its own.
ServersFresh ==
  /\ ours = {}
  /\ handle = [m \in Spawned |-> NoServer]
  /\ load = NoLoad
  /\ unloading = [t \in Threads |-> NoUnload]

\* ... and when it is gone its servers are still there.
ServersLeft ==
  /\ ours' = {}
  /\ handle' = [m \in Spawned |-> NoServer]
  /\ load' = NoLoad
  /\ unloading' = [t \in Threads |-> NoUnload]
  /\ UNCHANGED proc

----------------------------------------------------------------------------
(* The servers *)

\* A server binds its port, unless it is taken.
Listen(s) ==
  /\ proc[s] = "booting"
  /\ \A o \in Servers : Port[o[1]] = Port[s[1]] => proc[o] # "up"
  /\ proc' = [proc EXCEPT ![s] = "up"]
  /\ UNCHANGED <<ours, handle, load, unloading>>

Gone(s) ==
  /\ proc' = [proc EXCEPT ![s] = "gone"]
  /\ ours' = ours \ {s}

\* It crashes, or could not bind.
Exit(s) ==
  /\ s \in Alive /\ Gone(s)
  /\ UNCHANGED <<handle, load, unloading>>

----------------------------------------------------------------------------
(* unloadModel *)

\* The thread takes whatever process the handle has now.
BeginUnload(t, m) ==
  [unloading EXCEPT ![t] =
     [pc |-> "run", model |-> m,
      victim |-> IF m \in Spawned THEN handle[m] ELSE NoServer]]

StartUnload(t, m) ==
  /\ unloading[t] = NoUnload
  /\ unloading' = BeginUnload(t, m)
  /\ UNCHANGED <<proc, ours, handle, load>>

\* Each signal may be the one that ends it; SIGKILL does.
Terminate(t) ==
  /\ unloading[t].pc = "run" /\ unloading[t].victim \in Alive
  /\ Gone(unloading[t].victim)
  /\ UNCHANGED <<handle, load, unloading>>

\* Mutant: the process is signalled and not waited for.
Signalled(t) == TRUE
Waited(t) == unloading[t].victim \notin Alive

\* Only an unload that found a process clears the handle.
Unload(t) ==
  /\ unloading[t].pc = "run" /\ unloading[t].model \in Spawned
  /\ Waited(t)
  /\ handle' = IF unloading[t].victim = NoServer THEN handle
               ELSE [handle EXCEPT ![unloading[t].model] = NoServer]
  /\ unloading' = [unloading EXCEPT ![t].pc = "done"]
  /\ UNCHANGED <<proc, ours, load>>

LmsUnload(t) ==
  /\ unloading[t].pc = "run" /\ unloading[t].model \notin Spawned
  /\ \E pc \in {"done", "raised"} :
       unloading' = [unloading EXCEPT ![t].pc = pc]
  /\ UNCHANGED <<proc, ours, handle, load>>

Forget(t) == unloading' = [unloading EXCEPT ![t] = NoUnload]

----------------------------------------------------------------------------
(* loadModel *)

StartLoad(m) ==
  /\ load = NoLoad
  /\ load' = [NoLoad EXCEPT !.pc = "begin", !.model = m]
  /\ UNCHANGED <<proc, ours, handle, unloading>>

\* Not configured, or the program cannot be run.
SpawnFails ==
  /\ load.pc = "begin" /\ load.model \in Spawned
  /\ load' = [load EXCEPT !.pc = "failed"]
  /\ UNCHANGED <<proc, ours, handle, unloading>>

Popen ==
  /\ load.pc = "begin" /\ load.model \in Spawned
  /\ \E s \in Servers \ Alive :
       /\ s[1] = load.model /\ \A t \in Threads : unloading[t].victim # s
       /\ proc' = [proc EXCEPT ![s] = "booting"]
       /\ ours' = ours \cup {s}
       /\ handle' = [handle EXCEPT ![load.model] = s]
  /\ load' = [load EXCEPT !.pc = "probe"]
  /\ UNCHANGED unloading

\* wait_server_ready: a 200 counts, whoever sent it.
Answered ==
  /\ load.pc = "probe"
  /\ \E s \in Servers :
       /\ proc[s] = "up" /\ Port[s[1]] = Port[load.model]
       /\ load' = [load EXCEPT !.pc = "ok", !.by = s]
  /\ UNCHANGED <<proc, ours, handle, unloading>>

\* Mutant: a server that is not ready in time is left to itself.
NotReadyKept ==
  /\ load.pc = "probe"
  /\ load' = [load EXCEPT !.pc = "failed"]
  /\ UNCHANGED <<proc, ours, handle, unloading>>

\* The server has exited, or the deadline has passed: it is unloaded before
\* the load fails.
NotReady ==
  /\ load.pc = "probe"
  /\ load' = [load EXCEPT !.pc = "cleanup"]
  /\ unloading' = BeginUnload("loader", load.model)
  /\ UNCHANGED <<proc, ours, handle>>

CleanedUp ==
  /\ load.pc = "cleanup" /\ unloading["loader"].pc = "done"
  /\ load' = [load EXCEPT !.pc = "failed"]
  /\ Forget("loader")
  /\ UNCHANGED <<proc, ours, handle>>

\* 200; 401 or 5xx; or a timeout or another 4xx, after which the catalog is
\* polled, which lists the model whether it is loaded or not.
LmsLoad ==
  /\ load.pc = "begin" /\ load.model \notin Spawned
  /\ \E pc \in {"ok", "failed"} : load' = [load EXCEPT !.pc = pc]
  /\ UNCHANGED <<proc, ours, handle, unloading>>

LoadStep ==
  SpawnFails \/ Popen \/ Answered \/ NotReady \/ CleanedUp \/ LmsLoad
UnloadStep(t) == Terminate(t) \/ Unload(t) \/ LmsUnload(t)
===============================================================================
