------------------------------ MODULE DflashCache -----------------------------
(***************************************************************************)
(* The startup cache of dflash footprints (dflash_cache.py), how refs       *)
(* become directories (dflash_shortcuts.py), and the projection the model   *)
(* draws from the cache (dflash.py).                                        *)
(*                                                                         *)
(* A cache file is named after the hash of the whole config, so `files' is  *)
(* indexed by the key of a config.  A ref is [org, name]; a name is the     *)
(* sequence of its parts, in lower case.  A later download is a new version *)
(* of the checkpoint: it replaces what a local directory holds, and becomes *)
(* one more snapshot of a repository in the Hugging Face cache.             *)
(***************************************************************************)
EXTENDS DflashVram

CONSTANTS
  Configs,          \* the config.json files in use over time
  Dflash,           \* config |-> its dflash-mlx instances: sequences of
                    \* [alias, model, draft], draft = NoRef when not given
  Refs, NoRef,
  LocalDirs,        \* the refs that are directories
  NoAlias,          \* an instance configured without an alias
  Absent, Torn,     \* no cache file; one that is not JSON
  Registry,         \* MODEL_SUPPORT_SPECS: base name |-> draft ref
  Checkpoint(_, _), \* the directory a version of a ref is
  Versions          \* how often a ref may be downloaded

ASSUME VersionsAssumption == Versions \in Nat \ {0}

VARIABLES
  onDisk,   \* the versions of each ref that are on disk
  version,  \* how many there have been
  snapshot, \* the one this process resolved each ref to, 0 before
  files,    \* key |-> Absent, Torn or the entries stored
  cache     \* the dict ensure_dflash_cache builds or recalls and attaches

dflashVars == <<onDisk, version, snapshot, files, cache>>

NoCache == << >>
NoSnapshots == [r \in Refs |-> 0]

\* Mutant: the drafters are left out of the key.
CacheKeyOfTargets(c) ==
  LET Targets(d) == {p.model : p \in ToSet(Dflash[d])}
  IN  CHOOSE d \in Configs : Targets(d) = Targets(c)
\* cache_key: equal configs and no others.
CacheKey(c) == c

----------------------------------------------------------------------------
(* Refs and directories *)

\* The registered bases the name starts with; the longest is the match.
Bases(ref) == {b \in DOMAIN Registry : IsPrefix(b, ref.name)}

DraftRequired(p) == p.draft = NoRef /\ Bases(p.model) = {}

\* The configured drafter, else the default of the shortcut.
DraftRef(p) ==
  IF p.draft # NoRef THEN p.draft
  ELSE Registry[CHOOSE b \in Bases(p.model) :
                  \A o \in Bases(p.model) : Len(o) <= Len(b)]

ASSUME DflashAssumption ==
  \A c \in Configs :
    /\ Dflash[c] \in Seq(ToSet(Dflash[c]))
    /\ \A p \in ToSet(Dflash[c]) :
         p.model \in Refs /\ (DraftRequired(p) \/ DraftRef(p) \in Refs)

\* _resolve_provider_paths prints a message and exits for these.
Unresolved(p) ==
  \/ onDisk[p.model] = {}
  \/ DraftRequired(p)
  \/ onDisk[DraftRef(p)] = {}

\* The path stays, whatever becomes of what is there.
Dir(ref) ==
  Checkpoint(ref, IF ref \in LocalDirs THEN version[ref] ELSE snapshot[ref])

Present(ref) ==
  IF ref \in LocalDirs THEN onDisk[ref] # {} ELSE snapshot[ref] \in onDisk[ref]

----------------------------------------------------------------------------
(* The cached components and what is made of them *)

\* compute_impact: the terms that do not depend on the context.
Impact(target, draft) ==
  [target_weight_bytes |-> StructureBytes(target.shards),
   draft_weight_bytes  |-> DraftWeightBytes(draft),
   draft_kv_bytes      |-> DraftKvBytes(draft.config),
   draft_context_bytes |-> DraftContextBytes(draft.config)]

\* _projected_from_cache: the target's config is read again at every call.
FromCache(entry, target, ctx) ==
  (entry.target_weight_bytes + entry.draft_weight_bytes
     + TargetKvBytes(target.config, ctx)
     + entry.draft_kv_bytes + entry.draft_context_bytes) * Overhead

\* Model.memory(): from the cache, or computed when the alias is missing.
Memory(p, ctx) ==
  LET entry == IF p.alias \in DOMAIN cache THEN cache[p.alias]
               ELSE Impact(Dir(p.model), Dir(DraftRef(p)))
  IN  FromCache(entry, Dir(p.model), ctx)

----------------------------------------------------------------------------
(* ensure_dflash_cache *)

Stored(c) == files[CacheKey(c)]

RefsOf(c) == UNION {{p.model, DraftRef(p)} : p \in ToSet(Dflash[c])}

\* Of several snapshots scan_cache_dir names any first.
Resolve(c) ==
  /\ \A p \in ToSet(Dflash[c]) : ~Unresolved(p)
  /\ snapshot' \in [Refs -> 0 .. Versions]
  /\ \A r \in Refs : IF r \in RefsOf(c) THEN snapshot'[r] \in onDisk[r]
                                         ELSE snapshot'[r] = 0
  /\ UNCHANGED <<onDisk, version, files, cache>>

\* The file is there and whole: its entries are attached.
Recall(c) ==
  /\ Stored(c) \notin {Absent, Torn}
  /\ cache' = Stored(c)
  /\ UNCHANGED <<onDisk, version, snapshot, files>>

\* The entries of all instances that have an alias, in order: of two with one
\* alias the later stays.  Nothing is written yet.
Compute(c) ==
  /\ Stored(c) = Absent /\ Dflash[c] # << >>
  /\ \A p \in ToSet(Dflash[c]) :
       p.alias # NoAlias => /\ Present(p.model) /\ Present(DraftRef(p))
                            /\ HasWeights(Dir(DraftRef(p)))
  /\ LET Latest(a) == CHOOSE n \in DOMAIN Dflash[c] :
                      /\ Dflash[c][n].alias = a
                      /\ \A o \in DOMAIN Dflash[c] :
                           Dflash[c][o].alias = a => o <= n
         aliases == {p.alias : p \in ToSet(Dflash[c])} \ {NoAlias}
     IN  cache' = [a \in aliases |->
                     LET p == Dflash[c][Latest(a)]
                     IN  Impact(Dir(p.model), Dir(DraftRef(p)))]
  /\ UNCHANGED <<onDisk, version, snapshot, files>>

\* open(path, "w") empties the file; json.dump fills it.
OpenFile(c) ==
  /\ files' = [files EXCEPT ![CacheKey(c)] = Torn]
  /\ UNCHANGED <<onDisk, version, snapshot, cache>>

DumpFile(c) ==
  /\ files' = [files EXCEPT ![CacheKey(c)] = cache]
  /\ UNCHANGED <<onDisk, version, snapshot, cache>>

----------------------------------------------------------------------------
(* The user's downloads *)

Download(ref) ==
  /\ version[ref] < Versions
  /\ version' = [version EXCEPT ![ref] = @ + 1]
  /\ onDisk' = [onDisk EXCEPT ![ref] =
                  (IF ref \in LocalDirs THEN {} ELSE @) \cup {version'[ref]}]
  /\ UNCHANGED <<snapshot, files, cache>>

Delete(ref) ==
  /\ onDisk[ref] # {}
  /\ onDisk' = [onDisk EXCEPT ![ref] = {}]
  /\ UNCHANGED <<version, snapshot, files, cache>>
===============================================================================
