----------------------------- MODULE Ds4Estimate ------------------------------
(***************************************************************************)
(* What a ds4 instance costs and what it is called.  dwarfstar_estimate.py  *)
(* asks the ds4 tree itself, falls back to file sizes, and memoises both;   *)
(* dwarfstar.py learns the instance's model ids from the first answer that  *)
(* says what the GGUF is; ds4_models.py is the table of families.           *)
(*                                                                         *)
(* estimate() runs on two threads at once: on the event loop (current_free, *)
(* eviction, prune) and on the worker thread of _serve's vram_mib.  There   *)
(* is no lock, so each step between two dictionary operations is an action. *)
(*                                                                         *)
(* A model id is a sequence of name parts, so that prefixing one is \o.     *)
(***************************************************************************)
EXTENDS Integers, Sequences, FiniteSets, SequencesExt, Functions

CONSTANTS
  Instances,       \* every ds4 instance some config.json lists: records
                   \* [dir, gguf, options, profile, prefix, ctx, sessions],
                   \* options.drafters among "mtp_model", "dspark", "mtp"
  Callers,         \* the threads that may be inside estimate()
  Ctxs,            \* context lengths asked for
  Profiles,        \* family |-> [aliases, thinking, ctx]
  DefaultFamily,   \* DS4_DEFAULT_PROFILE
  FlatFamilies,    \* families fallback_estimate knows a slope for
  NoDrafterGraph,  \* DS4_NO_SPEC_GRAPH_FAMILIES
  Measured(_, _),  \* what ds4-estimate prints for an instance and a context
  FileBytes(_),    \* the bytes of an instance's GGUFs on disk
  Limit,           \* _CACHE_LIMIT
  None

ASSUME LimitAssumption   == Limit \in Nat \ {0}
ASSUME CallersAssumption == IsFiniteSet(Callers) /\ Callers # {}
ASSUME CtxsAssumption    == /\ Ctxs \in SUBSET (Nat \ {0}) /\ Ctxs # {}
                            /\ \A i \in Instances : i.ctx \in Ctxs \cup {0}

\* run_estimator refuses an output without a family or a list of aliases.
ASSUME MeasuredAssumption ==
  \A i \in Instances, ctx \in Ctxs : i.gguf # None =>
    LET e == Measured(i, ctx)
    IN  /\ {"source", "family", "aliases"} \subseteq DOMAIN e
        /\ e.source = "ds4" /\ e.family # None
        /\ e.aliases \in Seq(ToSet(e.aliases)) \ {<< >>}

VARIABLES
  memo,      \* _ESTIMATE_CACHE: entries [key, result], oldest first
  call,      \* where each caller is inside estimate() and _adopt_identity
  adopted,   \* instances whose _identity_adopted is set
  detected,  \* _detected_profile of each instance, None before
  servedIds  \* _served_ids of each instance, << >> before

ds4Vars == <<memo, call, adopted, detected, servedIds>>

Stages == {"idle", "run", "check", "oldest", "drop", "put", "adopt", "ids",
           "answered", "raised"}

\* Mutant: one footprint for every context.
SignatureOfFiles(i, ctx) == [dir |-> i.dir, gguf |-> i.gguf, ctx |-> 0,
                             options |-> i.options, family |-> i.profile]
Signature(i, ctx) == [dir |-> i.dir, gguf |-> i.gguf, ctx |-> ctx,
                      options |-> i.options, family |-> i.profile]

Keys == {Signature(i, ctx) : i \in Instances, ctx \in Ctxs}

Idle == [pc |-> "idle", inst |-> None, ctx |-> 0, result |-> None,
         victim |-> None]

\* A process starts with nothing memoised and nothing learned.
Ds4Fresh ==
  /\ memo = << >>
  /\ call = [c \in Callers |-> Idle]
  /\ adopted = {}
  /\ detected = [i \in Instances |-> None]
  /\ servedIds = [i \in Instances |-> << >>]

\* ... and ends with all of it lost.
Ds4Lost ==
  /\ memo' = << >>
  /\ call' = [c \in Callers |-> Idle]
  /\ adopted' = {}
  /\ detected' = [i \in Instances |-> None]
  /\ servedIds' = [i \in Instances |-> << >>]

----------------------------------------------------------------------------
(* Names *)

\* The listed ids, then the thinking aliases not already among them.
Served(profile, reported) ==
  LET listed == IF reported = << >> THEN profile.aliases ELSE reported
  IN  listed \o SelectSeq(profile.thinking,
                          LAMBDA alias : alias \notin ToSet(listed))

ServedFamily(i) ==
  IF i.profile # None THEN i.profile
  ELSE IF detected[i] # None THEN detected[i] ELSE DefaultFamily

ServedIds(i) == IF servedIds[i] # << >> THEN servedIds[i]
                ELSE Served(Profiles[ServedFamily(i)], << >>)

Publish(prefix, id) == prefix \o id

\* Mutant: what still looks prefixed is stripped again.
UpstreamBare(prefix, id) ==
  LET Strip(x) == IF IsPrefix(prefix, x) THEN SubSeq(x, Len(prefix) + 1, Len(x))
                  ELSE x
  IN  Strip(Strip(id))

\* The prefix comes off once, and only an id that has it is rewritten.
Upstream(prefix, id) ==
  IF IsPrefix(prefix, id) THEN SubSeq(id, Len(prefix) + 1, Len(id)) ELSE id

Published(i) == {Publish(i.prefix, id) : id \in ToSet(ServedIds(i))}

----------------------------------------------------------------------------
(* Sizes *)

\* A tree whose ds4 has no drafter accessor says "unknown"; a drafter is then
\* charged a constant, unless the family has no such graph.
DrafterStandIn == 306
UnknownSpecGraph(i, e) ==
  IF /\ e.specGraphSupported = "unknown" /\ i.options.drafters # {}
     /\ e.family \notin NoDrafterGraph
  THEN [e EXCEPT !.specGraph = DrafterStandIn]
  ELSE e

FromDs4(i, ctx) == UnknownSpecGraph(i, Measured(i, ctx))

\* No family configured, or one with a slope: anything else is refused.
MayFallBack(i) == i.profile = None \/ i.profile \in FlatFamilies

Slope == 16

\* A drafter inside the main GGUF (mtp) is not charged here.
Fallback(i, ctx) ==
  [source |-> "fallback", family |-> None, aliases |-> << >>,
   backend |-> None, specGraphSupported |-> "unknown",
   files |-> FileBytes(i), context |-> Slope * ctx, caches |-> 0, scratch |-> 0,
   specGraph |-> IF i.options.drafters \cap {"mtp_model", "dspark"} # {}
                 THEN DrafterStandIn ELSE 0]

\* Every estimate there may be.
Results == {FromDs4(i, ctx) : i \in {j \in Instances : j.gguf # None}, ctx \in Ctxs}
             \cup {Fallback(i, ctx) : i \in Instances, ctx \in Ctxs}

Ds4Type ==
  /\ memo \in Seq([key : Keys, result : Results])
  /\ \A m, n \in DOMAIN memo : memo[m].key = memo[n].key => m = n
  /\ call \in [Callers -> [pc : Stages, inst : Instances \cup {None},
                           ctx : Ctxs \cup {0}, result : Results \cup {None},
                           victim : Keys \cup {None}]]
  /\ adopted \subseteq Instances
  /\ detected \in [Instances -> DOMAIN Profiles \cup {None}]
  /\ DOMAIN servedIds = Instances

\* Metal shares the prefill scratch between the batched sessions of a tree.
ProcessOverhead == 362
EstimateMib(e, sessions) ==
  e.files + ProcessOverhead + e.specGraph * sessions
    + IF sessions > 1 /\ e.backend = "metal"
      THEN e.caches * sessions + e.scratch
      ELSE e.context * sessions

\* A configured ctx_length wins over the request's.
EffectiveCtx(i, ctx) == IF i.ctx # 0 THEN i.ctx ELSE ctx

----------------------------------------------------------------------------
(* estimate() *)

Memoised(key) == {n \in DOMAIN memo : memo[n].key = key}

At(c, stage) == call[c].pc = stage

Goto(c, stage) == call' = [call EXCEPT ![c].pc = stage]

\* A hit answers at once; a miss runs the estimator.
Ask(c, i, ctx) ==
  /\ At(c, "idle")
  /\ LET hit == Memoised(Signature(i, ctx))
         asked == [Idle EXCEPT !.inst = i, !.ctx = ctx]
     IN  call' = [call EXCEPT ![c] =
                    IF hit = {} THEN [asked EXCEPT !.pc = "run"]
                    ELSE [asked EXCEPT !.pc = "adopt",
                            !.result = memo[CHOOSE n \in hit : TRUE].result]]
  /\ UNCHANGED <<memo, adopted, detected, servedIds>>

Computed(c, result) ==
  call' = [call EXCEPT ![c].pc = "check", ![c].result = result]

\* The estimator ran, and printed a complete answer of this schema.
Measure(c) ==
  /\ At(c, "run") /\ call[c].inst.gguf # None
  /\ Computed(c, FromDs4(call[c].inst, call[c].ctx))
  /\ UNCHANGED <<memo, adopted, detected, servedIds>>

\* It is missing, failed, timed out or printed something unreadable.
FallBack(c) ==
  /\ At(c, "run") /\ MayFallBack(call[c].inst)
  /\ Computed(c, Fallback(call[c].inst, call[c].ctx))
  /\ UNCHANGED <<memo, adopted, detected, servedIds>>

Refuse(c) ==
  /\ At(c, "run") /\ ~MayFallBack(call[c].inst)
  /\ Goto(c, "raised")
  /\ UNCHANGED <<memo, adopted, detected, servedIds>>

\* Mutant: off by one.
FullLate == Len(memo) > Limit
Full == Len(memo) >= Limit

\* _cache_put, one dictionary operation at a time.
CheckFull(c) ==
  /\ At(c, "check")
  /\ Goto(c, IF Full THEN "oldest" ELSE "put")
  /\ UNCHANGED <<memo, adopted, detected, servedIds>>

Oldest(c) ==
  /\ At(c, "oldest") /\ memo # << >>
  /\ call' = [call EXCEPT ![c].pc = "drop", ![c].victim = Head(memo).key]
  /\ UNCHANGED <<memo, adopted, detected, servedIds>>

Drop(c) ==
  /\ At(c, "drop")
  /\ \E n \in Memoised(call[c].victim) : memo' = RemoveAt(memo, n)
  /\ call' = [call EXCEPT ![c].pc = "put", ![c].victim = None]
  /\ UNCHANGED <<adopted, detected, servedIds>>

\* The other thread dropped it first: next() has nothing to return, or pop()
\* raises KeyError, and it goes out of estimate().
DropGone(c) ==
  /\ \/ At(c, "oldest") /\ memo = << >>
     \/ At(c, "drop") /\ Memoised(call[c].victim) = {}
  /\ Goto(c, "raised")
  /\ UNCHANGED <<memo, adopted, detected, servedIds>>

\* Mutant: two threads that missed the same key both add it.
WithTwice(entry) == Append(memo, entry)
\* A key already there keeps its place.
With(entry) ==
  LET there == Memoised(entry.key)
  IN  IF there = {} THEN Append(memo, entry)
      ELSE [memo EXCEPT ![CHOOSE n \in there : TRUE] = entry]

Put(c) ==
  /\ At(c, "put")
  /\ memo' = With([key |-> Signature(call[c].inst, call[c].ctx),
                   result |-> call[c].result])
  /\ Goto(c, "adopt")
  /\ UNCHANGED <<adopted, detected, servedIds>>

----------------------------------------------------------------------------
(* _adopt_identity *)

\* Mutant: any first answer uses up the one chance.
AdoptsFirst(i, e) == i \notin adopted
\* A fallback carries no shape, so it does not use up the one chance.
Adopts(i, e) == i \notin adopted /\ e.family # None

Adopt(c) ==
  /\ At(c, "adopt")
  /\ LET i == call[c].inst
     IN  IF Adopts(i, call[c].result)
         THEN adopted' = adopted \cup {i} /\ Goto(c, "ids")
         ELSE adopted' = adopted /\ Goto(c, "answered")
  /\ UNCHANGED <<memo, detected, servedIds>>

\* An explicit profile stays; ds4's ids are taken when it agrees.  A family
\* the table does not know changes nothing.
SetIds(c) ==
  /\ At(c, "ids")
  /\ LET i == call[c].inst
         e == call[c].result
     IN  IF i.profile \in {None, e.family} /\ e.family \in DOMAIN Profiles
         THEN /\ servedIds' = [servedIds EXCEPT ![i] =
                                 Served(Profiles[e.family], e.aliases)]
              /\ detected' = IF i.profile = None
                             THEN [detected EXCEPT ![i] = e.family]
                             ELSE detected
         ELSE UNCHANGED <<servedIds, detected>>
  /\ Goto(c, "answered")
  /\ UNCHANGED <<memo, adopted>>

\* The caller has its footprint, or its exception.
Return(c) ==
  /\ call[c].pc \in {"answered", "raised"}
  /\ call' = [call EXCEPT ![c] = Idle]
  /\ UNCHANGED <<memo, adopted, detected, servedIds>>

Inside(c) ==
  \/ Measure(c) \/ FallBack(c) \/ Refuse(c)
  \/ CheckFull(c) \/ Oldest(c) \/ Drop(c) \/ DropGone(c) \/ Put(c)
  \/ Adopt(c) \/ SetIds(c)
===============================================================================
