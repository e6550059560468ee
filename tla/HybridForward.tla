--------------------------- MODULE HybridForward ---------------------------
(* The forward passes of the architectures that are not plain transformers,
   src/cli/main.cpp: gemma4 (windows, layers that borrow another layer's keys and
   values), lfm2 (short convolutions between attention layers), qwen35 and
   qwen35moe (gated delta rule between attention layers). Each keeps memories of
   its own beside the KV cache, which grow or roll with every token and cannot
   be rewound.

   Values are symbols: a vector is the expression computed, named by the layer,
   the head and the position that went into it. A feed-forward network is a
   function of its row; only the choice of experts is spelled out.

   A model is a record
     arch     "gemma4", "lfm2", "qwen35" or "qwen35moe"
     tensors  for each layer the set of those of its tensors that are looked for
     swa      gemma4.attention.sliding_window_pattern, possibly shorter
     window   gemma4.attention.sliding_window
     heads, kvHeads     attention heads
     keyHeads, valueHeads, taps     of the recurrent layers
     nextn    qwen35.nextn_predict_layers
     router   the router's logits, here by the token of the row; <<>> without experts
     used     expert_used_count                                              *)
EXTENDS Integers, Sequences, FiniteSets

CONSTANTS
  Models,        \* the models a behaviour may run
  Tokens, Eos,   \* the vocabulary and its end-of-text token
  Prompts,       \* the encoded prompts
  NCtx,          \* ctx_size
  MaxTokens,     \* params.max_tokens
  PrefillChunk,  \* kPrefillChunk
  MaxLayers,     \* GGNPU_MAX_LAYERS
  BatchPrefill   \* GGNPU_NO_PREFILL_BATCH is not set

ASSUME HybridAssumption ==
  /\ Eos \in Tokens /\ Prompts \subseteq Seq(Tokens) \ {<<>>}
  /\ {NCtx, MaxTokens, PrefillChunk} \subseteq Nat \ {0} /\ MaxLayers \in Nat
  /\ BatchPrefill \in BOOLEAN

VARIABLES
  model,        \* the loaded model
  stage,        \* "head" of the loop, in its "layers", "done" or "failed"
  prompt, prompt_idx, last_sampled, generated,
  seq,          \* prompt and generated tokens
  pos,          \* positions whose forward pass has ended
  batch_toks, do_sample,   \* the block of this iteration
  layer,        \* the layer that runs next
  inp_embd,     \* one row per token of the block
  conv_state,   \* lconv_state, q35_conv_state: oldest input first
  rec_state,    \* q35_rec_state: per value head, the updates made to the zero matrix
  kv_store,     \* gk_store/gv_store, lk_store/lv_store, q35_k_store/q35_v_store
  inp_norm,     \* the row the logits are computed from
  lost          \* history: some product's failure was ignored

vars == <<model, stage, prompt, prompt_idx, last_sampled, generated, seq, pos,
          batch_toks, do_sample, layer, inp_embd, conv_state, rec_state, kv_store,
          inp_norm, lost>>

-----------------------------------------------------------------------------
(* What main() finds out before the loop. *)

IsGemma(m) == m.arch = "gemma4"

IsLfm2(m) == m.arch = "lfm2"

IsQwen35(m) == m.arch \in {"qwen35", "qwen35moe"}

NLayers(m) == Len(m.tensors)

(* Trailing multi-token-prediction layers are not run. *)
LayersRun(m) ==
  LET own == IF IsQwen35(m) THEN NLayers(m) - m.nextn ELSE NLayers(m)
  IN  IF MaxLayers < own THEN MaxLayers ELSE own

IsConv(m, L) == IsLfm2(m) /\ "shortconv.in_proj" \in m.tensors[L]

IsDelta(m, L) == IsQwen35(m) /\ "ssm_conv1d" \in m.tensors[L]

IsSwa(m, L) == L <= Len(m.swa) => m.swa[L] # 0

(* What a file of these architectures is expected to have. A gemma4 layer without
   keys finds an earlier layer to take them from (a kv_src of -1 is not looked
   for, main.cpp 2111), and no two experts tie. *)
ASSUME ModelsAssumption ==
  \A m \in Models :
    /\ m.arch \in {"gemma4", "lfm2", "qwen35", "qwen35moe"}
    /\ NLayers(m) \in Nat /\ Len(m.swa) \in Nat /\ m.nextn \in 0 .. NLayers(m)
    /\ m.window \in Nat /\ m.taps \in Nat /\ m.taps >= 2
    /\ {m.heads, m.kvHeads, m.keyHeads, m.valueHeads} \subseteq Nat \ {0}
    /\ m.heads % m.kvHeads = 0
    /\ IsGemma(m) => \A L \in 1 .. LayersRun(m) : \E K \in 1 .. L :
                        "attn_k" \in m.tensors[K] /\ IsSwa(m, K) = IsSwa(m, L)
    /\ m.arch = "qwen35moe" => \A t \in Tokens :
         /\ m.router[t] \in Seq(Int) /\ m.used \in 0 .. Len(m.router[t])
         /\ \A e, f \in DOMAIN m.router[t] : e # f => m.router[t][e] # m.router[t][f]

RopeBase(swa) == IF swa THEN "freq_base_swa" ELSE "freq_base"

(* Mutant: a layer without keys takes those of the last layer that has some. *)
GemmaPlanLastOwner(m) ==
  [L \in 1 .. NLayers(m) |->
     [kv_src |-> CHOOSE K \in 1 .. L :
        /\ "attn_k" \in m.tensors[K]
        /\ \A J \in K + 1 .. L : "attn_k" \notin m.tensors[J]]]

(* gplan: after each layer, the last owner of keys and values of either kind. *)
GemmaPlan(m) ==
  LET plan[L \in 0 .. NLayers(m)] ==
        IF L = 0 THEN [kv_src |-> 0, local |-> 0, global |-> 0]
        ELSE LET before == plan[L - 1]
             IN  IF "attn_k" \in m.tensors[L]
                 THEN IF IsSwa(m, L) THEN [before EXCEPT !.kv_src = L, !.local = L]
                                     ELSE [before EXCEPT !.kv_src = L, !.global = L]
                 ELSE [before EXCEPT !.kv_src = IF IsSwa(m, L) THEN before.local
                                                               ELSE before.global]
  IN  plan

(* Mutant: every architecture is prefilled in blocks. *)
BatchesPrefillAll(m) == BatchPrefill

(* Recurrences go token by token. *)
BatchesPrefill(m) == BatchPrefill /\ ~IsLfm2(m) /\ ~IsQwen35(m)

Zero == <<"zero">>

Junk == <<"junk">>

Zeros(n) == [i \in 1 .. n |-> Zero]

Init ==
  /\ model \in Models /\ prompt \in Prompts
  /\ stage = "head" /\ prompt_idx = 0 /\ last_sampled = -1 /\ generated = 0
  /\ seq = prompt /\ pos = 0
  /\ batch_toks = <<>> /\ do_sample = FALSE /\ layer = 0 /\ inp_embd = <<>>
  /\ conv_state = [L \in 1 .. NLayers(model) |->
       IF IsConv(model, L) \/ IsDelta(model, L) THEN Zeros(model.taps - 1) ELSE <<>>]
  /\ rec_state = [L \in 1 .. NLayers(model) |->
       IF IsDelta(model, L) THEN [h \in 0 .. model.valueHeads - 1 |-> <<>>] ELSE <<>>]
  /\ kv_store = [L \in 1 .. NLayers(model) |-> <<>>]
  /\ inp_norm = Zero /\ lost = FALSE

-----------------------------------------------------------------------------
(* The head of the loop. *)

(* The embedding of a token; gemma4 scales it. *)
Embedded(t) == <<"embd", t>>

StartBlock(toks) ==
  /\ stage' = "layers" /\ layer' = 1
  /\ batch_toks' = toks
  /\ inp_embd' = [i \in DOMAIN toks |-> Embedded(toks[i])]
  /\ UNCHANGED <<model, prompt, last_sampled, generated, seq, pos, conv_state,
                 rec_state, kv_store, inp_norm, lost>>

BeginPrefill ==
  /\ stage = "head" /\ generated < MaxTokens
  /\ prompt_idx < Len(prompt)
  /\ LET remaining == Len(prompt) - prompt_idx
         chunk     == IF ~BatchesPrefill(model) THEN 1
                      ELSE IF remaining < PrefillChunk THEN remaining ELSE PrefillChunk
     IN  /\ prompt_idx' = prompt_idx + chunk
         /\ do_sample' = (prompt_idx + chunk >= Len(prompt))
         /\ StartBlock(SubSeq(prompt, prompt_idx + 1, prompt_idx + chunk))

(* None of these architectures speculates: the block is the last token. *)
BeginDecode ==
  /\ stage = "head" /\ generated < MaxTokens
  /\ prompt_idx >= Len(prompt)
  /\ do_sample' = TRUE
  /\ StartBlock(<<last_sampled>>)
  /\ UNCHANGED prompt_idx

ExitLoop ==
  /\ stage = "head" /\ generated >= MaxTokens
  /\ stage' = "done"
  /\ UNCHANGED <<model, prompt, prompt_idx, last_sampled, generated, seq, pos,
                 batch_toks, do_sample, layer, inp_embd, conv_state, rec_state,
                 kv_store, inp_norm, lost>>

-----------------------------------------------------------------------------
(* The layers. The result of a product is not looked at: one that fails leaves
   zeros or part of a sum. Products whose outputs are remembered ("kept") are told
   from the others ("passed"). Bound: one failure in a behaviour.            *)

Losses == IF lost THEN {"none"} ELSE {"none", "kept", "passed"}

Kept(loss, x) == IF loss = "kept" THEN Junk ELSE x

Through(loss, x) == IF loss = "none" THEN x ELSE Junk

Row(L, x, mixed, ffn) == <<"row", L, x, mixed, ffn>>

(* ffn_gate_inp, partial_sort and the softmax over the experts taken. What the
   shared expert adds is a function of the row. *)
Experts(m, tok) ==
  LET rlogits == m.router[tok]
      taken   == CHOOSE S \in SUBSET DOMAIN rlogits :
                   /\ Cardinality(S) = m.used
                   /\ \A e \in S, f \in DOMAIN rlogits \ S : rlogits[e] >= rlogits[f]
  IN  {<<e, taken>> : e \in taken}

FeedForward(m, tok) ==
  IF m.arch = "qwen35moe" THEN <<"moe", Experts(m, tok)>> ELSE <<"dense">>

AtLayer == stage = "layers" /\ layer <= LayersRun(model)

LayerDone(loss) ==
  /\ layer' = layer + 1
  /\ lost' = (lost \/ loss # "none")
  /\ UNCHANGED <<model, stage, prompt, prompt_idx, last_sampled, generated, seq, pos,
                 batch_toks, do_sample, inp_norm>>

(* The newest tap is the current input; the state then rolls. *)
Rolled(taps, x) == [k \in 1 .. Len(taps) |-> IF k < Len(taps) THEN taps[k + 1] ELSE x]

(* lfm2, gated short convolution. Like the next two, it runs on the first row. *)
ShortConvLayer ==
  /\ AtLayer /\ IsConv(model, layer)
  /\ \E loss \in Losses :
       LET x  == inp_embd[1]
           bx == Kept(loss, <<"bx", layer, x>>)
           st == conv_state[layer]
           y  == <<"conv", Append(st, bx)>>
       IN  /\ inp_embd' = [inp_embd EXCEPT ![1] =
                Through(loss, Row(layer, x, y, FeedForward(model, batch_toks[1])))]
           /\ conv_state' = [conv_state EXCEPT ![layer] = Rolled(st, bx)]
           /\ LayerDone(loss)
  /\ UNCHANGED <<rec_state, kv_store>>

(* Channels of the convolved input, one block per head: queries, keys, values. *)
QBlock(m, h) == h

KBlock(m, h) == m.keyHeads + h

VBlock(m, h) == 2 * m.keyHeads + h

(* ggml_repeat tiles the key heads. *)
KeyHead(m, h) == h % m.keyHeads

(* qwen35, one value head: the matrix decays, is read with the key for the
   prediction, takes the correction, and is read with the query. *)
DeltaUpdate(m, h, S, conv, x) ==
  LET q       == <<"l2norm", QBlock(m, KeyHead(m, h)), conv>>
      k       == <<"l2norm", KBlock(m, KeyHead(m, h)), conv>>
      v       == <<"value", VBlock(m, h), conv>>
      decayed == Append(S, <<"decay", h, x>>)
      pred    == <<"pred", Len(decayed), k>>
      delta   == <<"delta", <<"beta", h, x>>, v, pred>>
      written == Append(decayed, <<"add", k, delta>>)
  IN  [S |-> written, o |-> <<"gated", <<"read", written, q>>, <<"z", h, x>>>>]

DeltaNetLayer ==
  /\ AtLayer /\ IsDelta(model, layer)
  /\ \E loss \in Losses :
       LET x     == inp_embd[1]
           in    == Kept(loss, x)
           mixed == Kept(loss, <<"qkv", layer, x>>)
           cst   == conv_state[layer]
           conv  == <<"silu", Append(cst, mixed)>>
           upd   == [h \in 0 .. model.valueHeads - 1 |->
                       DeltaUpdate(model, h, rec_state[layer][h], conv, in)]
       IN  /\ inp_embd' = [inp_embd EXCEPT ![1] =
                Through(loss, Row(layer, x, [h \in DOMAIN upd |-> upd[h].o],
                                  FeedForward(model, batch_toks[1])))]
           /\ rec_state' = [rec_state EXCEPT ![layer] = [h \in DOMAIN upd |-> upd[h].S]]
           /\ conv_state' = [conv_state EXCEPT ![layer] = Rolled(cst, mixed)]
           /\ LayerDone(loss)
  /\ UNCHANGED kv_store

(* attn_q of qwen35 gives each head its query and its output gate, in turn. *)
Query(m, L, h, p, x) ==
  IF IsQwen35(m) THEN <<"query", 2 * h, p, x, <<"gate", 2 * h + 1, x>>>>
                 ELSE <<"query", h, p, x>>

KeyValue(L, h, base, p, x) == <<"kv", L, h, base, p, x>>

(* Query head h reads the keys and values of head h / group. *)
Expanded(m, store, h, ctx_len) ==
  LET group == m.heads \div m.kvHeads
  IN  [j \in 1 .. ctx_len |-> store[(j - 1) * m.kvHeads + (h \div group) + 1]]

(* lfm2 and qwen35, attention over the keys and values of all tokens so far. *)
AttentionLayer ==
  /\ AtLayer /\ ~IsGemma(model) /\ ~IsConv(model, layer) /\ ~IsDelta(model, layer)
  /\ \E loss \in Losses :
       LET x     == inp_embd[1]
           own   == [i \in 1 .. model.kvHeads |->
                       Kept(loss, KeyValue(layer, i - 1, "freq_base", pos, x))]
           store == kv_store[layer] \o own
           out   == [h \in 0 .. model.heads - 1 |->
                       <<Query(model, layer, h, pos, x),
                         Expanded(model, store, h, pos + 1)>>]
       IN  /\ inp_embd' = [inp_embd EXCEPT ![1] =
                Through(loss, Row(layer, x, out, FeedForward(model, batch_toks[1])))]
           /\ kv_store' = [kv_store EXCEPT ![layer] = store]
           /\ LayerDone(loss)
  /\ UNCHANGED <<conv_state, rec_state>>

(* The first key a query at position p of a gemma4 layer attends to. *)
WindowStart(m, L, p) ==
  IF IsSwa(m, L) /\ m.window > 0 /\ p + 1 > m.window THEN p + 1 - m.window ELSE 0

(* The per-layer embedding of a token, injected after the feed-forward network. *)
PerLayerEmbedding(m, L, tok) ==
  IF "inp_gate" \in m.tensors[L] THEN <<"pli", L, tok, Embedded(tok)>> ELSE <<"none">>

(* gemma4: all rows of the block; keys and values are appended before any row
   attends, by the layer that owns them only. *)
GemmaLayer ==
  /\ AtLayer /\ IsGemma(model)
  /\ \E loss \in Losses :
       LET src   == GemmaPlan(model)[layer].kv_src
           base  == RopeBase(IsSwa(model, layer))
           own   == [bt \in DOMAIN inp_embd |->
                       Kept(loss, KeyValue(layer, 0, base, pos + bt - 1, inp_embd[bt]))]
           store == IF src = layer
                    THEN [kv_store EXCEPT ![layer] = @ \o own] ELSE kv_store
           slice(p) == SubSeq(store[src], WindowStart(model, layer, p) + 1, p + 1)
           out(bt)  == [h \in 0 .. model.heads - 1 |->
                          <<<<"query", h, base, pos + bt - 1, inp_embd[bt]>>,
                            slice(pos + bt - 1)>>]
       IN  /\ inp_embd' = [bt \in DOMAIN inp_embd |->
                Through(loss, Row(layer, inp_embd[bt], out(bt),
                                  PerLayerEmbedding(model, layer, batch_toks[bt])))]
           /\ kv_store' = store
           /\ LayerDone(loss)
  /\ UNCHANGED <<conv_state, rec_state>>

(* A norm, rope, activation or attention that fails ends the program. *)
LayerFails ==
  /\ stage = "layers"
  /\ stage' = "failed"
  /\ UNCHANGED <<model, prompt, prompt_idx, last_sampled, generated, seq, pos,
                 batch_toks, do_sample, layer, inp_embd, conv_state, rec_state,
                 kv_store, inp_norm, lost>>

-----------------------------------------------------------------------------
(* The end of an iteration. *)

(* The logits' row: gemma4 and qwen35 normalize every row, lfm2 the first. *)
LastRow ==
  LET n == Len(batch_toks)
  IN  IF IsLfm2(model) /\ n > 1 THEN Zero ELSE <<"norm", inp_embd[n]>>

ForwardDone ==
  /\ stage = "layers" /\ layer > LayersRun(model)
  /\ inp_norm' = LastRow
  /\ pos' = pos + Len(batch_toks)
  /\ UNCHANGED <<model, prompt, prompt_idx, batch_toks, do_sample, layer, inp_embd,
                 conv_state, rec_state, kv_store, lost>>

FinishPrefillChunk ==
  /\ ForwardDone /\ ~do_sample
  /\ stage' = "head"
  /\ UNCHANGED <<last_sampled, generated, seq>>

SampleNext ==
  /\ ForwardDone /\ do_sample
  /\ \E next \in Tokens :
       /\ last_sampled' = next
       /\ seq' = Append(seq, next)
       /\ generated' = generated + 1
       /\ stage' = IF next = Eos \/ pos' >= NCtx THEN "done" ELSE "head"

Next ==
  \/ BeginPrefill \/ BeginDecode \/ ExitLoop
  \/ ShortConvLayer \/ DeltaNetLayer \/ AttentionLayer \/ GemmaLayer \/ LayerFails
  \/ FinishPrefillChunk \/ SampleNext

Spec == Init /\ [][Next]_vars

-----------------------------------------------------------------------------
(* The same models as functions of a whole text, without any memory: row p of
   layer L from the rows of the layer below.                                 *)

(* Inputs p-n+1 to p, zero before the text. *)
LastInputs(n, input, p) ==
  [i \in 1 .. n |-> IF p - n + i >= 1 THEN input[p - n + i] ELSE Zero]

(* Each key head in turn, over and over. *)
TiledHead(m, h) == CHOOSE k \in 0 .. m.keyHeads - 1 : \E n \in 0 .. h : h = n * m.keyHeads + k

(* Each key-value head for as many consecutive query heads. *)
SharedHead(m, h) ==
  CHOOSE k \in 0 .. m.kvHeads - 1 :
    LET group == m.heads \div m.kvHeads IN k * group <= h /\ h < (k + 1) * group

(* The nearest layer at or below L that has keys of its own and the same range. *)
Lender(m, L) ==
  CHOOSE K \in 1 .. L :
    /\ "attn_k" \in m.tensors[K] /\ IsSwa(m, K) = IsSwa(m, L)
    /\ \A J \in K + 1 .. L : IsSwa(m, J) = IsSwa(m, L) => "attn_k" \notin m.tensors[J]

(* Keys at most window - 1 positions back, if the layer is local. *)
Visible(m, L, p) ==
  {j \in 1 .. p : IsSwa(m, L) /\ m.window > 0 => p - j < m.window}

InOrder(S, value(_)) ==
  LET first == CHOOSE j \in S : \A i \in S : j <= i
  IN  [i \in 1 .. Cardinality(S) |-> value(first + i - 1)]

ConvInputs(m, L, below) ==
  [p \in DOMAIN below |-> IF IsLfm2(m) THEN <<"bx", L, below[p]>> ELSE <<"qkv", L, below[p]>>]

(* The delta rule's matrix after p tokens. *)
MatrixAfter(m, L, h, below, p) ==
  LET conv(i) == <<"silu", LastInputs(m.taps, ConvInputs(m, L, below), i)>>
      key(i)  == <<"l2norm", KBlock(m, TiledHead(m, h)), conv(i)>>
      gain(i) == <<"delta", <<"beta", h, below[i]>>, <<"value", VBlock(m, h), conv(i)>>,
                   <<"pred", 2 * i - 1, key(i)>>>>
  IN  [n \in 1 .. 2 * p |-> LET i == (n + 1) \div 2
                            IN  IF n % 2 = 1 THEN <<"decay", h, below[i]>>
                                ELSE <<"add", key(i), gain(i)>>]

ShortConvMixed(m, L, below, p) == <<"conv", LastInputs(m.taps, ConvInputs(m, L, below), p)>>

DeltaNetMixed(m, L, below, p) ==
  LET conv == <<"silu", LastInputs(m.taps, ConvInputs(m, L, below), p)>>
  IN  [h \in 0 .. m.valueHeads - 1 |->
        <<"gated",
          <<"read", MatrixAfter(m, L, h, below, p), <<"l2norm", QBlock(m, TiledHead(m, h)), conv>>>>,
          <<"z", h, below[p]>>>>]

\* below is the layer's own input, lent that of the layer that lends its keys.
GemmaMixed(m, L, below, lent, p) ==
  LET base  == RopeBase(IsSwa(m, L))
      kv(j) == KeyValue(Lender(m, L), 0, base, j - 1, lent[j])
  IN  [h \in 0 .. m.heads - 1 |->
        <<<<"query", h, base, p - 1, below[p]>>, InOrder(Visible(m, L, p), kv)>>]

AttentionMixed(m, L, below, p) ==
  [h \in 0 .. m.heads - 1 |->
    <<Query(m, L, h, p - 1, below[p]),
      [j \in 1 .. p |-> KeyValue(L, SharedHead(m, h), "freq_base", j - 1, below[j])]>>]

Mixed(m, L, rows, p) ==
  CASE IsConv(m, L)  -> ShortConvMixed(m, L, rows[L - 1], p)
    [] IsDelta(m, L) -> DeltaNetMixed(m, L, rows[L - 1], p)
    [] IsGemma(m)    -> GemmaMixed(m, L, rows[L - 1], rows[Lender(m, L) - 1], p)
    [] ~IsConv(m, L) /\ ~IsDelta(m, L) /\ ~IsGemma(m) -> AttentionMixed(m, L, rows[L - 1], p)

(* The experts with fewer than used others above them. *)
BestExperts(m, tok) ==
  LET logit == m.router[tok]
      best  == {e \in DOMAIN logit :
                  Cardinality({f \in DOMAIN logit : logit[f] > logit[e]}) < m.used}
  IN  {<<e, best>> : e \in best}

Fed(m, L, tok) ==
  CASE IsGemma(m) -> PerLayerEmbedding(m, L, tok)
    [] m.arch = "qwen35moe" -> <<"moe", BestExperts(m, tok)>>
    [] ~IsGemma(m) /\ m.arch # "qwen35moe" -> <<"dense">>

WholeRows(m, toks) ==
  LET rows[L \in 0 .. LayersRun(m)] ==
        IF L = 0 THEN [p \in DOMAIN toks |-> Embedded(toks[p])]
        ELSE [p \in DOMAIN toks |->
                Row(L, rows[L - 1][p], Mixed(m, L, rows, p), Fed(m, L, toks[p]))]
  IN  rows

-----------------------------------------------------------------------------
(* Properties. *)

(* Tokens whose forward pass has ended. *)
FedTokens == SubSeq(seq, 1, pos)

(* The row the next token is predicted from, computed token by token or in blocks
   from what each layer remembers, is the row that the whole text so far gives
   without memories: convolutions, recurrences, windows, borrowed and shared heads
   included, however the prompt was cut and past the end of the context too
   (main.cpp 2378-3232). *)
OutputIsWhole ==
  pos > 0 /\ stage # "layers" /\ stage # "failed" /\ ~lost =>
    inp_norm = <<"norm", WholeRows(model, FedTokens)[LayersRun(model)][pos]>>

(* The memories of layer L after p tokens, below being the rows it was given. *)
ConvMemory(m, L, below, p) ==
  IF IsConv(m, L) \/ IsDelta(m, L) THEN LastInputs(m.taps - 1, ConvInputs(m, L, below), p) ELSE <<>>

MatrixMemory(m, L, below, p) ==
  IF IsDelta(m, L)
  THEN [h \in 0 .. m.valueHeads - 1 |-> MatrixAfter(m, L, h, below, p)] ELSE <<>>

KeyOwner(m, L) ==
  IF IsGemma(m) THEN "attn_k" \in m.tensors[L] ELSE ~IsConv(m, L) /\ ~IsDelta(m, L)

KeyMemory(m, L, below, p) ==
  LET kvh  == IF IsGemma(m) THEN 1 ELSE m.kvHeads
      base == RopeBase(IsGemma(m) /\ IsSwa(m, L))
  IN  IF KeyOwner(m, L)
      THEN [i \in 1 .. p * kvh |->
              KeyValue(L, (i - 1) % kvh, base, (i - 1) \div kvh, below[(i - 1) \div kvh + 1])]
      ELSE <<>>

(* At the head of the loop the memories of every layer are those of exactly the
   first pos tokens: nothing missing, nothing twice, nothing of a layer that does
   not own it. After an ignored failure their lengths still are (main.cpp
   2703-2720, 2806-2808, 2933-2946, 3070-3072, 2524-2526). *)
MemoriesMatchPosition ==
  stage = "head" =>
    \A L \in 1 .. LayersRun(model) :
      LET below == WholeRows(model, FedTokens)[L - 1]
          conv  == ConvMemory(model, L, below, pos)
          keys  == KeyMemory(model, L, below, pos)
      IN  /\ Len(conv_state[L]) = Len(conv) /\ Len(kv_store[L]) = Len(keys)
          /\ IsDelta(model, L) =>
               \A h \in DOMAIN rec_state[L] : Len(rec_state[L][h]) = 2 * pos
          /\ ~lost => /\ conv_state[L] = conv /\ kv_store[L] = keys
                      /\ rec_state[L] = MatrixMemory(model, L, below, pos)

=============================================================================
