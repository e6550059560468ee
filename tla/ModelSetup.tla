------------------------------ MODULE ModelSetup ------------------------------
(***************************************************************************)
(* From the model file to the head of the generation loop: Model::load()   *)
(* (src/arch/llama/llama.cpp) over the GGUF loader, then what main() does  *)
(* of the context size and of the loop's own dimensions.  Real numbers are *)
(* integers here: epsilon counts millionths.                               *)
(***************************************************************************)
EXTENDS GgufFile

CONSTANTS Starts   \* pairs of a model file and a command line: the context size it asks
                   \* for (0 without -c) and whether it has a prompt

VARIABLES
  args,         \* params
  step,         \* what Model::load() and main() do next, or how they ended
  hparams,      \* hparams_
  tensor_map,   \* tensor_map_: from names to indices of tensors_
  tensor_roles, \* tensor_roles_
  tviews,       \* Model's tensors_
  cache,        \* the geometry of kv_cache_
  dims          \* the sizes the loop works with

setupVars == <<args, step, hparams, tensor_map, tensor_roles, tviews, cache, dims>>
modelVars == <<ggufVars, setupVars>>

NoCache == [n_layers |-> 0, n_ctx |-> 0, n_head_kv |-> 0, head_dim |-> 0]
NoDims == [ctx_size |-> 0, num_layers |-> 0, num_heads |-> 0, num_kv_heads |-> 0,
           head_dim |-> 0, q_dim |-> 0, rms_eps |-> 0, kv_expand |-> 0]

-----------------------------------------------------------------------------
(* parse_hparams()                                                          *)

IntOr0(suffix) == get_int(arch_key(suffix), 0)
NonZero(n, default) == IF n = 0 THEN default ELSE n

VocabSize ==
  LET llama == <<"llama", "vocab_size">>
      legacy == <<"tokenizer", "ggml.tokens.length">>
  IN CASE Has(llama) -> kv[llama].int
       [] ~Has(llama) /\ Has(legacy) -> kv[legacy].int
       [] OTHER -> 32000

HParams ==
  [vocab_size |-> VocabSize,
   context_length |-> IntOr0("context_length"),
   embedding_length |-> IntOr0("embedding_length"),
   block_count |-> IntOr0("block_count"),
   feed_forward_length |-> IntOr0("feed_forward_length"),
   attention_head_count |-> IntOr0("attention.head_count"),
   attention_head_count_kv |-> IntOr0("attention.head_count_kv"),
   rope_dimension_count |-> IntOr0("rope.dimension_count"),
   rope_freq_scale |-> get_float(arch_key("rope.freq_scale"), 1),
   rope_freq_base |-> NonZero(get_float(arch_key("rope.freq_base"), 10000), 10000),
   tensor_data_offset |-> tensor_data_offset,
   rms_epsilon |->
     NonZero(get_float(arch_key("attention.layer_norm_rms_epsilon"), 10), 50)]

ParseHParams ==
  /\ stage = "loaded" /\ step = "file"
  /\ hparams' = HParams
  /\ step' = "map"
  /\ UNCHANGED <<ggufVars, args, tensor_map, tensor_roles, tviews, cache, dims>>

LoadFails ==
  /\ stage = "failed" /\ step = "file"
  /\ step' = "failed"
  /\ UNCHANGED <<ggufVars, args, hparams, tensor_map, tensor_roles, tviews, cache, dims>>

-----------------------------------------------------------------------------
(* build_tensor_map(), prepare_tensors()                                    *)

HasPart(name, part) ==
  \E i \in 1 .. Len(name) - Len(part) + 1 : SubSeq(name, i, i + Len(part) - 1) = part

\* In the order in which they are looked for.
RoleParts ==
  <<"token_embd", "attn_q", "attn_k", "attn_v", "attn_output", "attn_norm",
    "ffn_gate", "ffn_up", "ffn_down", "ffn_norm", "output_norm", "output">>

Role(name) ==
  LET found == {i \in DOMAIN RoleParts : HasPart(name, RoleParts[i])}
  IN IF found = {} THEN "UNKNOWN"
     ELSE RoleParts[CHOOSE i \in found : \A j \in found : i <= j]

Names == {tensors[i].name : i \in DOMAIN tensors}

\* The last of the tensors of a name.
IndexOf(name) ==
  CHOOSE i \in DOMAIN tensors :
    tensors[i].name = name /\ \A j \in DOMAIN tensors : tensors[j].name = name => j <= i

BuildTensorMap ==
  /\ step = "map"
  /\ tensor_map' = [n \in Names |-> IndexOf(n)]
  /\ tensor_roles' = [n \in Names |-> Role(n)]
  /\ step' = IF tensors = <<>> THEN "failed" ELSE "tensors"
  /\ UNCHANGED <<ggufVars, args, hparams, tviews, cache, dims>>

\* Mutant: the offset in the data section is taken for the one in the file.
DataAtOffset(t) == IF t.offset < view.size THEN t.offset ELSE -1

\* Where the data of tensor t is in the file, or -1 for a null pointer.
DataAt(t) == IF t.offset < view.size THEN view.start + t.offset ELSE -1

PrepareTensors ==
  /\ step = "tensors"
  /\ tviews' = [i \in DOMAIN tensors |-> [info |-> tensors[i], data |-> DataAt(tensors[i])]]
  /\ step' = "cache"
  /\ UNCHANGED <<ggufVars, args, hparams, tensor_map, tensor_roles, cache, dims>>

-----------------------------------------------------------------------------
(* init_kv_cache()                                                          *)

kDefaultCtxCap == 2048
KeyLength == get_int(<<arch, "attention.key_length">>, 0)

HeadDim(h) ==
  NonZero(NonZero(h.rope_dimension_count, KeyLength),
          h.embedding_length \div h.attention_head_count)

HeadDimKnown(h) ==
  \/ h.rope_dimension_count # 0 \/ KeyLength # 0
  \/ h.attention_head_count # 0 /\ h.embedding_length # 0

\* The caches a call can make: none when the dimensions are not known.
Caches(h, ctx_override) ==
  IF ~HeadDimKnown(h) THEN {}
  ELSE {[n_layers |-> h.block_count,
         n_ctx |-> NonZero(IF ctx_override > 0 THEN ctx_override ELSE h.context_length,
                           kDefaultCtxCap),
         n_head_kv |-> h.attention_head_count_kv,
         head_dim |-> HeadDim(h)]}

\* load() ends with a cache of the model's context, or of kDefaultCtxCap positions.
LoadCtx ==
  LET ctx == hparams.context_length
  IN IF ctx = 0 \/ ctx > kDefaultCtxCap THEN kDefaultCtxCap ELSE ctx

InitCache ==
  /\ step = "cache"
  /\ IF Caches(hparams, LoadCtx) = {}
     THEN step' = "failed" /\ UNCHANGED cache
     ELSE step' = "context" /\ cache' \in Caches(hparams, LoadCtx)
  /\ UNCHANGED <<ggufVars, args, hparams, tensor_map, tensor_roles, tviews, dims>>

-----------------------------------------------------------------------------
(* main(): -c or the cap, then the dimensions of the loop                   *)

\* set_context_length(): the cache stays as it was when there is no other.
SetContextLength(ctx) ==
  /\ hparams' = [hparams EXCEPT !.context_length = ctx]
  /\ IF Caches(hparams', 0) = {} THEN UNCHANGED cache ELSE cache' \in Caches(hparams', 0)

\* Mutant: the cache is not made anew.
OverrideHParamsOnly ==
  /\ step = "context" /\ args.ctx_size > 0
  /\ hparams' = [hparams EXCEPT !.context_length = args.ctx_size]
  /\ step' = "prompt"
  /\ UNCHANGED <<ggufVars, args, tensor_map, tensor_roles, tviews, cache, dims>>

\* reinit_kv_cache(ctx_size), after set_context_length(), makes the same cache again.
OverrideContext ==
  /\ step = "context" /\ args.ctx_size > 0
  /\ SetContextLength(args.ctx_size)
  /\ step' = "prompt"
  /\ UNCHANGED <<ggufVars, args, tensor_map, tensor_roles, tviews, dims>>

CapContext ==
  /\ step = "context" /\ args.ctx_size <= 0
  /\ IF hparams.context_length > kDefaultCtxCap
     THEN SetContextLength(kDefaultCtxCap)
     ELSE UNCHANGED <<hparams, cache>>
  /\ step' = "prompt"
  /\ UNCHANGED <<ggufVars, args, tensor_map, tensor_roles, tviews, dims>>

\* Without a prompt the model is unloaded and the program ends.
NothingToDo ==
  /\ step = "prompt" /\ ~args.prompt
  /\ Unload
  /\ tensor_map' = <<>> /\ tensor_roles' = <<>> /\ tviews' = <<>>
  /\ cache' = NoCache
  /\ step' = "ended"
  /\ UNCHANGED <<args, hparams, dims>>

LoopHeadDim ==
  LET explicit == NonZero(hparams.rope_dimension_count, KeyLength)
  IN IF explicit = 0 /\ hparams.attention_head_count > 0
     THEN hparams.embedding_length \div hparams.attention_head_count
     ELSE explicit

SizeLoop ==
  /\ step = "prompt" /\ args.prompt
  /\ dims' = [ctx_size |-> hparams.context_length,
              num_layers |-> hparams.block_count,
              num_heads |-> hparams.attention_head_count,
              num_kv_heads |-> hparams.attention_head_count_kv,
              head_dim |-> LoopHeadDim,
              q_dim |-> hparams.attention_head_count * LoopHeadDim,
              rms_eps |-> IF hparams.rms_epsilon > 0 THEN hparams.rms_epsilon ELSE 10,
              kv_expand |-> hparams.attention_head_count * hparams.context_length * LoopHeadDim]
  /\ step' = "sized"
  /\ UNCHANGED <<ggufVars, args, hparams, tensor_map, tensor_roles, tviews, cache>>

\* Without an embedding there is no loop; the cache is reset before it.
EnterLoop ==
  /\ step = "sized"
  /\ step' = IF "token_embd.weight" \in DOMAIN tensor_map THEN "loop" ELSE "failed"
  /\ UNCHANGED <<ggufVars, args, hparams, tensor_map, tensor_roles, tviews, cache, dims>>

SetupInit ==
  /\ \E start \in Starts : disk = start[1] /\ args = start[2]
  /\ GgufInit
  /\ step = "file"
  /\ hparams = <<>>
  /\ tensor_map = <<>> /\ tensor_roles = <<>> /\ tviews = <<>>
  /\ cache = NoCache /\ dims = NoDims

SetupNext ==
  \/ Load /\ UNCHANGED setupVars
  \/ LoadFails \/ ParseHParams \/ BuildTensorMap \/ PrepareTensors \/ InitCache
  \/ OverrideContext \/ CapContext \/ NothingToDo \/ SizeLoop \/ EnterLoop

-----------------------------------------------------------------------------
(* Properties.  disk.written is what the writer of the file put into it.    *)

\* What the accessors make of an entry.
Accessed(key, e) ==
  CASE e.type = "STRING" -> get_string(key, "none")
    [] e.type = "ARRAY" /\ e.elem \in Floats -> get_float_array(key)
    [] e.type = "ARRAY" /\ e.elem = "STRING" -> kv[key].data
    [] e.type = "ARRAY" -> get_int_array(key)
    [] e.type \in Floats -> get_float(key, 0)
    [] OTHER -> get_int(key, 0)

\* Through every refill of the buffer and every way a file can be cut short: a
\* file loads exactly when its metadata are whole, and what was written, the last
\* of two values of a key, is what the accessors return.
FileIsWhatWasWritten ==
  /\ stage = "failed" => ~disk.exists \/ ~disk.valid \/ disk.size < disk.metaEnd
  /\ stage = "loaded" =>
       /\ disk.exists /\ disk.valid /\ headerEnd = disk.metaEnd
       /\ tensors = disk.written.tensors
       /\ DOMAIN kv = DOMAIN disk.written.kv
       /\ \A key \in DOMAIN kv :
            Accessed(key, disk.written.kv[key]) = disk.written.kv[key].value

\* "Point a view directly into the mmap": the data of a tensor found by its name
\* are where they were written, and a tensor that is past the end of a file that
\* was cut short has none.
TensorDataIsWhereWritten ==
  tviews # <<>> /\ disk.size >= disk.dataStart =>
    \A name \in DOMAIN tensor_map :
      LET t == tviews[tensor_map[name]]
          at == disk.dataStart + disk.written.last[name]
      IN t.data = IF at < disk.size THEN at ELSE -1

\* "the KV cache must match or its per-position stride is wrong": what load() and
\* main() each work out of the metadata agree, and no more than 2048 positions are
\* made unless -c asks for them.
CacheFitsLoop ==
  /\ step = "loop" /\ dims.ctx_size > 0 =>
       cache = [n_layers |-> dims.num_layers, n_ctx |-> dims.ctx_size,
                n_head_kv |-> dims.num_kv_heads, head_dim |-> dims.head_dim]
  /\ step = "loop" /\ args.ctx_size > 0 => cache.n_ctx = args.ctx_size
  /\ cache.n_ctx <= kDefaultCtxCap \/ cache.n_ctx = args.ctx_size

\* "padded to general.alignment": a file that gives its alignment loads.
AlignmentIsRead == stage # "crashed"
=============================================================================
