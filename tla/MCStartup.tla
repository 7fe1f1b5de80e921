------------------------------ MODULE MCStartup -------------------------------
(* Three installations: one edits the drafter of a dflash model, one has two   *)
(* ds4 trees, one has a bit of everything.                                     *)
EXTENDS Startup

CONSTANTS none

\* dflash: a hybrid target and two drafters, the second the shortcut's own.
Ref(org, name) == [org |-> org, name |-> name]
Target  == Ref("mlx", <<"qwen3.8", "27b", "4bit">>)
Drafter == Ref("me", <<"mine">>)
Default == Ref("z-lab", <<"qwen3.8", "27b", "dflash2">>)
MCRefs  == {Target, Drafter, Default}
MCLocalDirs == {Target}
MCRegistry == <<"qwen3.8", "27b">> :> Default @@ <<"qwen3.8">> :> Drafter

HybridConfig ==
  [text_config |-> [num_hidden_layers |-> 3, num_attention_heads |-> 2,
                    num_key_value_heads |-> 1, hidden_size |-> 4,
                    layer_types |-> <<"linear", "full_attention", "linear">>],
   gdn_recurrent_bytes |-> 5]
DraftConfig == [num_hidden_layers |-> 1, num_attention_heads |-> 1,
                num_key_value_heads |-> 1, head_dim |-> 2, hidden_size |-> 2,
                sink_size |-> 1, window_size |-> 2]
WideConfig == [dflash_config |-> [block_size |-> 4]] @@ DraftConfig

Tensor(n) == [shape |-> <<n, 2>>, dtype |-> "BF16"]
MCCheckpoint(ref, v) ==
  CASE ref = Target  -> [config |-> HybridConfig, index |-> NoIndex,
                         shards |-> [s1 |-> [w |-> Tensor(7 * v)]]]
    [] ref = Drafter -> [config |-> DraftConfig, index |-> [w |-> "s1", x |-> "s2"],
                         shards |-> [s1 |-> [w |-> Tensor(v)],
                                     s2 |-> [x |-> Tensor(1)]]]
    [] ref = Default -> [config |-> WideConfig, index |-> NoIndex,
                         shards |-> [s1 |-> [w |-> Tensor(2)]]]

Instance(alias, draft) == [alias |-> alias, model |-> Target, draft |-> draft]

\* ds4: the families by the parts of their ids.
MCProfiles ==
  [deepseek |-> [aliases |-> <<<<"ds">>>>, thinking |-> <<<<"ds", "chat">>>>],
   qwen     |-> [aliases |-> <<<<"q">>>>,
                 thinking |-> <<<<"q", "nothink">>, <<"qwen", "q">>>>]]

InstanceOf(dir, family, profile, prefix, ctx, sessions) ==
  [dir |-> dir, gguf |-> family, profile |-> profile, prefix |-> prefix,
   ctx |-> ctx, sessions |-> sessions,
   options |-> [drafters |-> IF sessions > 1 THEN {"dspark"}
                             ELSE IF profile = none THEN {} ELSE {"mtp"}]]
AnyCtx   == InstanceOf("t1", "qwen", none, <<>>, 0, 1)
Qwen     == InstanceOf("t1", "qwen", none, <<>>, 1, 1)
DeepSeek == InstanceOf("t1", "deepseek", "deepseek", <<>>, 1, 2)
Prefixed == InstanceOf("t2", "qwen", "qwen", <<"qwen">>, 2, 1)
NoGguf   == InstanceOf("t2", none, none, <<"x">>, 1, 1)
Unbuilt  == InstanceOf("t3", "deepseek", none, <<>>, 0, 1)
Misnamed == InstanceOf("t1", "deepseek", "qwen", <<>>, 1, 1)
MCInstances == {Misnamed, AnyCtx, Qwen, DeepSeek, Prefixed, NoGguf, Unbuilt}
MCTree == [t1 |-> "gpu", t2 |-> "cpu", t3 |-> "uncompiled"]

MCMeasured(i, ctx) ==
  [source |-> "ds4", family |-> i.gguf, backend |-> "metal",
   aliases |-> IF i.gguf = "qwen" THEN <<<<"q">>, <<"q", "nothink">>>> ELSE <<<<"ds">>>>,
   specGraphSupported |-> IF i.gguf = "qwen" THEN "yes" ELSE "unknown",
   files |-> 100, context |-> 7 * ctx, caches |-> 3 * ctx, scratch |-> 4 * ctx,
   specGraph |-> 0]
MCFileBytes(i) == IF i.gguf = none THEN 0 ELSE 100

\* The configs and the installations.
MCDflash == [edit1 |-> <<Instance("m", Drafter), Instance(NoAlias, NoRef)>>,
             edit2 |-> <<Instance("m", NoRef)>>,
             one |-> <<>>, two |-> <<>>, odd |-> <<>>, unbuilt |-> <<>>, mixed |-> <<Instance("m", NoRef)>>]
MCDs4 == [edit1 |-> <<>>, edit2 |-> <<Qwen>>, one |-> <<AnyCtx, NoGguf>>,
          two |-> <<Qwen, DeepSeek>>, odd |-> <<Misnamed>>, unbuilt |-> <<NoGguf, Unbuilt>>,
          mixed |-> <<Prefixed, DeepSeek>>]
MCConfigs == DOMAIN MCDflash
Edit == {"edit1", "edit2"}
MCSites == {Edit, {"one", "unbuilt"}, {"two"}, {"odd"}, {"mixed"}}
MCReplaceable == [s \in MCSites |-> IF s = Edit THEN {Drafter, Target} ELSE {}]
===============================================================================
