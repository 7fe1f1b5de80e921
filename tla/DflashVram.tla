------------------------------ MODULE DflashVram ------------------------------
(***************************************************************************)
(* The VRAM projection of a dflash target and drafter (dflash_vram.py):     *)
(* bytes of weights, of the caches and of the draft context.                *)
(*                                                                         *)
(* A config.json is a record that has only the keys the file has.  A        *)
(* checkpoint directory is a record with its config, its tensors by shard   *)
(* and its index (tensor |-> shard), or NoIndex.  A tensor is its shape and *)
(* its dtype.                                                               *)
(***************************************************************************)
EXTENDS Integers, Sequences, FiniteSets, SequencesExt, FiniteSetsExt

NoIndex == << >>

\* dict.get(key, default)
Get(config, key, default) ==
  IF key \in DOMAIN config THEN config[key] ELSE default

----------------------------------------------------------------------------
(* Weights *)

ItemSize == [F32 |-> 4, F16 |-> 2, BF16 |-> 2, F64 |-> 8, U8 |-> 1, I8 |-> 1,
             U16 |-> 2, I16 |-> 2, U32 |-> 4, I32 |-> 4, U64 |-> 8, I64 |-> 8]

TensorBytes(t) == FoldSeq(LAMBDA n, m : n * m, 1, t.shape) * ItemSize[t.dtype]

\* Option A: the tensors the index names, in the shard it names for each.
MetadataBytes(index, shards) ==
  MapThenSumSet(LAMBDA t : TensorBytes(shards[index[t]][t]), DOMAIN index)

\* Option B's core: every array there is.
StructureBytes(shards) ==
  MapThenSumSet(LAMBDA s : MapThenSumSet(LAMBDA t : TensorBytes(shards[s][t]),
                                         DOMAIN shards[s]),
                DOMAIN shards)

\* build_draft_weight_bytes raises on a directory without shards.
HasWeights(dir) == dir.index # NoIndex \/ DOMAIN dir.shards # {}

DraftWeightBytes(dir) ==
  IF dir.index # NoIndex THEN MetadataBytes(dir.index, dir.shards)
                         ELSE StructureBytes(dir.shards)

----------------------------------------------------------------------------
(* Caches and draft context *)

\* Hybrid models nest their text config.
TextConfig(config) == Get(config, "text_config", config)

KvHeads(tc) == Get(tc, "num_key_value_heads", tc.num_attention_heads)

HeadDim(tc) == IF Get(tc, "head_dim", 0) # 0 THEN tc.head_dim
               ELSE tc.hidden_size \div Get(tc, "num_attention_heads", 1)

ElementBytes(tc) == Get(tc, "kv_bytes_per_element", 2)

\* The layers whose cache grows with the context; all of them when the
\* config does not tell layers apart.
FullLayers(tc) ==
  IF Get(tc, "layer_types", << >>) = << >>
  THEN tc.num_hidden_layers
  ELSE Len(SelectSeq(tc.layer_types, LAMBDA t : t = "full_attention"))

\* The fixed state of one linear layer.  The default of the value heads is
\* the whole key product, not the number of key heads.
LinearBytes(tc) ==
  LET dim  == HeadDim(tc)
      keys == Get(tc, "linear_num_key_heads", KvHeads(tc))
                * Get(tc, "linear_key_head_dim", dim)
      values == Get(tc, "linear_num_value_heads", keys)
                  * Get(tc, "linear_value_head_dim", dim)
  IN  (keys + values) * ElementBytes(tc)

TargetKvBytes(config, ctx) ==
  LET tc == TextConfig(config)
      full == FullLayers(tc)
      Extra(key) == Get(tc, key, Get(config, key, 0))
  IN  full * KvHeads(tc) * HeadDim(tc) * 2 * ctx * ElementBytes(tc)
        + (tc.num_hidden_layers - full) * LinearBytes(tc)
        + Extra("gdn_recurrent_bytes") + Extra("captured_hidden_bytes")
        + Extra("rollback_tape_bytes")

\* A drafter keeps sink + window tokens and one more per layer.
DraftKvBytes(config) ==
  LET tc == TextConfig(config)
      perToken == KvHeads(tc) * HeadDim(tc) * 2 * ElementBytes(tc)
  IN  (Get(tc, "sink_size", 64) + Get(tc, "window_size", 1024)
         + tc.num_hidden_layers) * perToken

DraftContextBytes(config) ==
  LET tc == TextConfig(config)
      width == Get(Get(config, "dflash_config", << >>), "block_size",
                   Get(tc, "parallel_tokens", 16))
  IN  width * tc.hidden_size * Get(tc, "draft_bytes_per_element", 2)

\* WORKING_SET_OVERHEAD, 1.15, in hundredths; the division into MiB is left
\* out.
Overhead == 115

\* projected_mib: the projection straight from the two models.
Projected(target, draft, ctx, targetWeights, draftWeights) ==
  (targetWeights + draftWeights + TargetKvBytes(target, ctx)
     + DraftKvBytes(draft) + DraftContextBytes(draft)) * Overhead
===============================================================================
