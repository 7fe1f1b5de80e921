-------------------------------- MODULE Startup -------------------------------
(***************************************************************************)
(* From `yaallb' to the first request: main() loads config.json, resolves   *)
(* the dflash refs and recalls or computes their footprints, builds the     *)
(* estimator into each ds4 tree, warms the ds4 footprints, and serves.  The *)
(* process may be killed at any point and started again, with the same      *)
(* config or an edited one.  What it leaves behind is the cache files;      *)
(* everything else starts afresh.                                           *)
(*                                                                         *)
(* While it serves, threads go on asking for ds4 footprints.                *)
(***************************************************************************)
EXTENDS Ds4Estimate, DflashCache

CONSTANTS
  Sites,       \* the sets of configs one installation goes through
  Ds4,         \* config |-> its ds4 instances, in order
  Tree,        \* what each ds4_dir is: "missing", "no_makefile",
               \* "uncompiled", "gpu" or "cpu"
  DefaultCtx,  \* ctx_length of the "yaallb" section
  Replaceable  \* site |-> refs its user downloads again or deletes

ASSUME LoopAssumption == "loop" \in Callers
ASSUME SitesAssumption ==
  /\ \A s \in Sites : s \subseteq Configs /\ Replaceable[s] \subseteq Refs
  /\ None \notin Configs
ASSUME Ds4Assumption ==
  \A c \in Configs : Ds4[c] \in Seq(Instances)
ASSUME DefaultCtxAssumption == DefaultCtx \in Ctxs \cup {0}

VARIABLES
  site,
  stage,   \* how far main() has come; "off" when no process runs
  config,  \* the config the process has read, None when off
  todo,    \* ds4 trees still to build, then footprints still to warm
  cutShort \* keys whose file a killed process was writing

vars == <<site, stage, config, todo, cutShort, ds4Vars, dflashVars>>

\* Each tree once, in the order of the instances.
Roots(c) ==
  FoldLeft(LAMBDA roots, i : IF i.dir \in ToSet(roots) THEN roots
                             ELSE Append(roots, i.dir),
           << >>, Ds4[c])

\* The contexts one instance is warmed for, smallest first; none without a
\* GGUF.
WarmCtxs(i) == IF i.gguf = None THEN {} ELSE {i.ctx, DefaultCtx} \ {0}

\* The contexts one after the other.
Warmings(i) ==
  [n \in 1 .. Cardinality(WarmCtxs(i)) |->
     <<i, CHOOSE ctx \in WarmCtxs(i) :
            Cardinality({x \in WarmCtxs(i) : x <= ctx}) = n>>]

WarmList(c) == FoldLeft(LAMBDA list, i : list \o Warmings(i), << >>, Ds4[c])

----------------------------------------------------------------------------

Init ==
  /\ site \in Sites
  /\ stage = "off" /\ config = None /\ todo = << >> /\ cutShort = {}
  /\ onDisk = [r \in Refs |-> {1}] /\ version = [r \in Refs |-> 1]
  /\ snapshot = NoSnapshots
  /\ files = [c \in Configs |-> Absent]
  /\ cache = NoCache
  /\ Ds4Fresh

Main(from, to) ==
  /\ stage = from /\ stage' = to
  /\ UNCHANGED <<site, config>>

\* The process is gone, whatever it had in memory with it.
Off ==
  /\ stage' = "off" /\ config' = None /\ todo' = << >>
  /\ cache' = NoCache /\ snapshot' = NoSnapshots
  /\ Ds4Lost
  /\ UNCHANGED <<site, onDisk, version>>

Start ==
  /\ stage = "off" /\ stage' = "resolve"
  /\ config' \in site
  /\ UNCHANGED <<site, todo, cutShort, ds4Vars, dflashVars>>

ResolveRefs ==
  /\ Main("resolve", "recall") /\ Resolve(config)
  /\ UNCHANGED <<todo, cutShort, ds4Vars>>

RecallCache ==
  /\ Main("recall", "build") /\ Recall(config)
  /\ todo' = Roots(config)
  /\ UNCHANGED <<cutShort, ds4Vars>>

SkipCache ==
  /\ Main("recall", "build")
  /\ Stored(config) = Absent /\ Dflash[config] = << >>
  /\ todo' = Roots(config)
  /\ UNCHANGED <<cutShort, ds4Vars, dflashVars>>

ComputeCache ==
  /\ Main("recall", "write") /\ Compute(config)
  /\ UNCHANGED <<todo, cutShort, ds4Vars>>

OpenCache ==
  /\ Main("write", "dump") /\ OpenFile(config)
  /\ UNCHANGED <<todo, cutShort, ds4Vars>>

DumpCache ==
  /\ Main("dump", "build") /\ DumpFile(config)
  /\ todo' = Roots(config)
  /\ UNCHANGED <<cutShort, ds4Vars>>

\* Mutant: the file is opened before the footprints are computed.
CacheFailsOpen ==
  /\ stage = "recall" /\ Stored(config) = Absent /\ Dflash[config] # << >>
  /\ files' = [files EXCEPT ![CacheKey(config)] = Torn]
  /\ Off
  /\ UNCHANGED cutShort

\* A missing download or drafter, an unreadable cache file, or a model that
\* cannot be measured ends the process before anything is written.
CacheFails ==
  /\ \/ stage = "resolve" /\ \E p \in ToSet(Dflash[config]) : Unresolved(p)
     \/ stage = "recall" /\ Stored(config) = Torn
     \/ stage = "recall" /\ Stored(config) = Absent /\ Dflash[config] # << >>
  /\ Off
  /\ UNCHANGED <<cutShort, files>>

\* make links the estimator against a built tree; one built for the CPU only
\* fails the first attempt and links in the second.
Links(tree, cpuOnly) == tree = "gpu" \/ (cpuOnly /\ tree = "cpu")

BuildTree ==
  /\ Main("build", "build") /\ todo # << >>
  /\ \E cpuOnly \in BOOLEAN : Links(Tree[Head(todo)], cpuOnly)
  /\ todo' = Tail(todo)
  /\ UNCHANGED <<cutShort, ds4Vars, dflashVars>>

\* Not a ds4 tree, or both attempts fail or time out.
BuildFails ==
  /\ stage = "build" /\ todo # << >>
  /\ Off
  /\ UNCHANGED <<cutShort, files>>

Built ==
  /\ Main("build", "warm") /\ todo = << >>
  /\ todo' = WarmList(config)
  /\ UNCHANGED <<cutShort, ds4Vars, dflashVars>>

\* warm_dwarfstar_estimates asks on the main thread, one after the other.
WarmAsk ==
  /\ Main("warm", "warm") /\ todo # << >>
  /\ Ask("loop", Head(todo)[1], Head(todo)[2])
  /\ UNCHANGED <<todo, cutShort, dflashVars>>

Warmed ==
  /\ Main("warm", "warm") /\ At("loop", "answered")
  /\ Return("loop")
  /\ todo' = Tail(todo)
  /\ UNCHANGED <<cutShort, dflashVars>>

\* Mutant: the instance is passed over.
WarmRaisesOn ==
  /\ Main("warm", "warm") /\ At("loop", "raised")
  /\ Return("loop")
  /\ todo' = Tail(todo)
  /\ UNCHANGED <<cutShort, dflashVars>>

WarmRaises ==
  /\ stage = "warm" /\ At("loop", "raised")
  /\ Off
  /\ UNCHANGED <<cutShort, files>>

Serve ==
  /\ Main("warm", "up") /\ todo = << >>
  /\ UNCHANGED <<todo, cutShort, ds4Vars, dflashVars>>

\* memory() of some model, on the loop or on a worker thread.
Price(c) ==
  /\ Main("up", "up")
  /\ \/ \E i \in ToSet(Ds4[config]), ctx \in Ctxs :
          Ask(c, i, EffectiveCtx(i, ctx))
     \/ Return(c)
  /\ UNCHANGED <<todo, cutShort, dflashVars>>

Estimate(c) ==
  /\ stage \in {"warm", "up"} /\ Inside(c)
  /\ UNCHANGED <<site, stage, config, todo, cutShort, dflashVars>>

\* Killed, shut down, or unable to write the cache file.
Kill ==
  /\ stage # "off"
  /\ cutShort' = IF stage = "dump" THEN cutShort \cup {CacheKey(config)}
                 ELSE cutShort
  /\ Off
  /\ UNCHANGED files

User ==
  /\ \E r \in Replaceable[site] : Download(r) \/ Delete(r)
  /\ UNCHANGED <<site, stage, config, todo, cutShort, ds4Vars>>

Next ==
  \/ Start \/ ResolveRefs \/ RecallCache \/ SkipCache \/ ComputeCache
  \/ OpenCache \/ DumpCache \/ CacheFails
  \/ BuildTree \/ BuildFails \/ Built
  \/ WarmAsk \/ Warmed \/ WarmRaises \/ Serve
  \/ \E c \in Callers : Price(c) \/ Estimate(c)
  \/ Kill \/ User

Spec == Init /\ [][Next]_vars

----------------------------------------------------------------------------
(* Properties *)

TypeOK ==
  /\ site \in Sites
  /\ stage \in {"off", "resolve", "recall", "write", "dump", "build", "warm",
                "up"}
  /\ config \in Configs \cup {None}
  /\ cutShort \subseteq Configs
  /\ onDisk \in [Refs -> SUBSET (1 .. Versions)]
  /\ version \in [Refs -> 1 .. Versions] /\ snapshot \in [Refs -> 0 .. Versions]
  /\ DOMAIN files = Configs
  /\ Ds4Type

\* The memo may pass its limit, but only by the threads that found room at
\* the same time (_cache_put, dwarfstar_estimate.py:575: "Bounded so a router
\* that keeps seeing fresh ctx sizes cannot grow with request history").
MemoBounded == Len(memo) <= Limit + Cardinality(Callers) - 1

\* Whatever was memoised, dropped and memoised again by whom, a caller is told
\* the footprint of its own instance at its own context: ds4's, or the one from
\* file sizes where that is allowed.
PricesItsOwn ==
  \A c \in Callers : call[c].pc \in {"adopt", "ids", "answered"} =>
    LET i == call[c].inst
        Mib(e) == EstimateMib(e, i.sessions)
    IN  \/ Mib(call[c].result) = Mib(FromDs4(i, call[c].ctx))
        \/ /\ MayFallBack(i)
           /\ Mib(call[c].result) = Mib(Fallback(i, call[c].ctx))

\* The ids an instance should answer once ds4 has said what its GGUF is.
Named(i, e) ==
  ServedIds(i) = IF i.profile \in {None, e.family} /\ e.family \in DOMAIN Profiles
                 THEN Served(Profiles[e.family], e.aliases)
                 ELSE Served(Profiles[ServedFamily(i)], << >>)

Naming(i) == \E c \in Callers : At(c, "ids") /\ call[c].inst = i

\* The first footprint that comes from ds4 names the instance, even when its
\* estimator failed before and file sizes were used (_adopt_identity: a
\* fallback "does not consume this one chance to learn it").
NamedAfterGguf ==
  \A c \in Callers :
    At(c, "answered") /\ call[c].result.source = "ds4" =>
      Named(call[c].inst, call[c].result) \/ Naming(call[c].inst)

\* lookup_model among the ds4 instances.
Lookup(id) ==
  CHOOSE n \in DOMAIN Ds4[config] :
    /\ id \in Published(Ds4[config][n])
    /\ \A o \in 1 .. n - 1 : id \notin Published(Ds4[config][o])

\* When ds4 has named every instance, each published id is routed to the
\* instance that publishes it, and reaches ds4 as the alias it stands for
\* (upstream_model_id), thinking aliases that look prefixed included.  Before,
\* an unnamed instance answers the default family's ids in front of others.
EachIdReachesItsInstance ==
  stage = "up" /\ (\A i \in ToSet(Ds4[config]) : i \in adopted /\ ~Naming(i)) =>
    \A n \in DOMAIN Ds4[config] :
      LET i == Ds4[config][n]
      IN  \A id \in ToSet(ServedIds(i)) :
            /\ Lookup(Publish(i.prefix, id)) = n
            /\ Upstream(i.prefix, Publish(i.prefix, id)) = id

\* YAALLB serves only once every context each ds4 instance is warmed for has
\* its footprint, unless they are more than the memo holds, and every tree has
\* its estimator (main.py:849: "Both must succeed: without them a ds4 model would
\* be scheduled blind").
ServesOnlyPriced ==
  [][stage # "up" /\ stage' = "up" =>
       LET keys == {Signature(w[1], w[2]) : w \in ToSet(WarmList(config))}
       IN  /\ \A i \in ToSet(Ds4[config]) : Tree[i.dir] \in {"gpu", "cpu"}
           /\ Cardinality(keys) <= Limit =>
                \A key \in keys : Memoised(key) # {}]_vars

\* The footprint drawn from the cache, recalled or computed, is the whole
\* projection (projected_mib) for this config's target and drafter, at the
\* weights of some version of each that has been on disk.
RecallAgrees ==
  stage = "up" =>
    \A p \in ToSet(Dflash[config]), ctx \in Ctxs :
      Present(p.model) /\ Present(DraftRef(p)) =>
        \E vt \in 1 .. version[p.model], vd \in 1 .. version[DraftRef(p)] :
          LET target == Checkpoint(p.model, vt)
              draft  == Checkpoint(DraftRef(p), vd)
          IN  Memory(p, ctx) =
                Projected(Dir(p.model).config, draft.config, ctx,
                          StructureBytes(target.shards), DraftWeightBytes(draft))

\* A cache file no start can read comes only from a process that was stopped
\* while it wrote it: a start that fails leaves the file as it was.
TornOnlyWhenCutShort ==
  \A c \in Configs : files[c] = Torn =>
    c \in cutShort \/ (stage = "dump" /\ c = config)
===============================================================================
