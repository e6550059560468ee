------------------------------ MODULE MCWeights ------------------------------
(* Small model files as a writer of the format lays them out, those files    *)
(* cut short anywhere, and files with tensors of every type of block.        *)
EXTENDS Weights, GgufWriter

E(key, type, value) == [key |-> key, type |-> type, elem |-> type, value |-> value]
A(key, elem, value) == [key |-> key, type |-> "ARRAY", elem |-> elem, value |-> value]

Llama(name, type, value) == E(<<"llama", name>>, type, value)

FullKvs ==
  << E(<<"general", "architecture">>, "STRING", "llama"),
     Llama("context_length", "UINT32", 4096),
     Llama("embedding_length", "UINT32", 24),
     Llama("block_count", "UINT16", 2),
     Llama("attention.head_count", "UINT8", 3),
     Llama("attention.head_count_kv", "UINT64", 1),
     Llama("attention.key_length", "INT32", 16),
     Llama("rope.freq_base", "FLOAT32", 500000),
     Llama("rope.dimension_count", "UINT32", 12),
     Llama("vocab_size", "INT64", 300) >>

T(name, extent, type, offset) ==
  [name |-> name, dims |-> extent, type |-> type, offset |-> offset]

TwoTensors == << T("token_embd.weight", <<8, 2>>, 0, 0), T("blk.0.attn_q_norm.weight", <<4>>, 1, 64) >>

Without(kvs, names) == SelectSeq(kvs, LAMBDA e : e.key[2] \notin names)

\* Models whose metadata leave out some of the keys, one for each subset of them.
Optional == <<"architecture", "context_length", "rope.dimension_count",
              "attention.key_length", "attention.head_count">>
Partials ==
  [m \in 1 .. 2 ^ Len(Optional) |->
     LET names == {Optional[k] : k \in {k \in DOMAIN Optional : (m \div 2 ^ (k - 1)) % 2 = 1}}
     IN Written("GGUF", 3, Without(FullKvs, names), TwoTensors, 32, 72)]

\* Every type of value, a key and a tensor given twice, values longer than the buffer.
Assorted ==
  Written("GGUF", 3,
    << E(<<"general", "name">>, "STRING", "llama"),
       Llama("context_length", "UINT32", 100),
       Llama("context_length", "UINT32", 70),
       E(<<"x", "b">>, "BOOL", 1), E(<<"x", "d">>, "FLOAT64", 7),
       A(<<"x", "names">>, "STRING", <<"one", "and a longer one">>),
       A(<<"x", "ints">>, "INT16", <<-1, 5, 600, 7, -8, 9, 10, 11, 12>>),
       A(<<"x", "floats">>, "FLOAT32", <<1, 2>>) >>,
    << T("output.weight", <<32>>, 2, 0), T("output_norm.weight", <<4>>, 0, 32),
       T("output.weight", <<32>>, 2, 64) >>, 32, 90)

Aligned ==
  Written("GGUF", 3, << E(<<"general", "alignment">>, "UINT32", 64) >>, TwoTensors, 64, 72)

Bare(magic, version) == Written(magic, version, <<>>, <<>>, 32, 0)

Special ==
  <<Assorted, Aligned, Bare("GGML", 3), Bare("GGUF", 2), Bare("GGUF", 3),
    [Bare("GGUF", 3) EXCEPT !.exists = FALSE]>>

\* Two rows of each type, of two blocks where they are short; a matrix of three
\* experts; four interleaved rows; and rows that are no whole number of blocks.
MCGrid(book, i, j) ==
  IF book = "iq1s" THEN ((i + (i \div 3) * j + j) % 3) - 1 ELSE 1 + ((i * (j + 3) + i \div 7) % 43)

\* Name, type, extent and seed of each.
Samples ==
  << <<"token_embd.weight", 14, <<256, 2>>, 0>>, <<"ffn_gate_exps", 12, <<256, 2, 3>>, 1>>,
     <<"two blocks", 13, <<512, 2>>, 2>>, <<"repacked", 31, <<32, 4>>, 3>>,
     <<"half a block", 2, <<48, 2>>, 4>>, <<"half a k-block", 14, <<384, 2>>, 5>>,
     <<"vector", 0, <<4>>, 0>>, <<"f16", 1, <<6, 2>>, 0>>, <<"bf16", 30, <<6, 2>>, 0>>,
     <<"q4_0", 2, <<64, 2>>, 0>>, <<"q4_1", 3, <<64, 2>>, 0>>, <<"q8_0", 8, <<64, 2>>, 0>>,
     <<"q2_k", 10, <<256, 2>>, 0>>, <<"q3_k", 11, <<256, 2>>, 0>>,
     <<"iq2_xxs", 16, <<256, 2>>, 0>>, <<"iq2_xs", 17, <<256, 2>>, 0>>,
     <<"iq3_xxs", 18, <<256, 2>>, 0>>, <<"iq1_s", 19, <<256, 2>>, 0>>,
     <<"iq4_nl", 20, <<64, 2>>, 0>>, <<"iq3_s", 21, <<256, 2>>, 0>>,
     <<"iq2_s", 22, <<256, 2>>, 0>>, <<"iq4_xs", 23, <<256, 2>>, 0>>, <<"iq1_m", 29, <<256, 2>>, 0>> >>

FileOf(ts, data) ==
  LET at[i \in 1 .. Len(ts)] ==
        IF i = 1 THEN 0 ELSE at[i - 1] + AlignUp(Len(ts[i - 1].bytes), 32)
      infos == [i \in DOMAIN ts |-> T(Samples[i][1], ts[i].dims, ts[i].type, at[i])]
  IN [Written("GGUF", 3, FullKvs, infos, 32, Len(data)) EXCEPT
        !.bytes = data,
        !.weights = OfPairs([i \in DOMAIN ts |-> <<Samples[i][1], ts[i].rows>>]),
        !.experts = OfPairs([i \in DOMAIN ts |->
                      <<Samples[i][1], IF Len(ts[i].dims) = 3 THEN ts[i].dims[3] ELSE 1>>])]

PackedFile(ts) == FileOf(ts, Packed(ts))

WeightFile(seed) ==
  PackedFile(WorkedOut([i \in DOMAIN Samples |->
    WrittenTensor(Samples[i][2], Samples[i][3], Samples[i][4] + seed)]))

Line(n, prompted) == [ctx_size |-> n, prompt |-> prompted]
CommandLines == {Line(0, TRUE), Line(64, TRUE), Line(3000, TRUE), Line(64, FALSE)}
SpecialFiles == {Special[i] : i \in DOMAIN Special}
PartialFiles == {Partials[m] : m \in DOMAIN Partials}
CutFiles == {[Assorted EXCEPT !.size = n] : n \in 0 .. Assorted.size}

\* Every file; the partial ones with every command line; Assorted cut anywhere.
MCStarts ==
  (SpecialFiles \cup CutFiles \cup {WeightFile(seed) : seed \in {0, 2}}) \X {Line(0, TRUE)}
    \cup PartialFiles \X CommandLines
MCAlignedStarts == {<<Aligned, Line(0, TRUE)>>}
=============================================================================
