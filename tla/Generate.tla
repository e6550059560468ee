------------------------------- MODULE Generate -------------------------------
(***************************************************************************)
(* The generation loop of `ggnpu run` (main() in src/cli/main.cpp) for the *)
(* generic transformer path at temperature 0: batched prefill, one-token   *)
(* decode, and speculative decode (GGNPU_SPEC_DECODE), over the KV cache.  *)
(*                                                                         *)
(* Data abstraction.  A K/V row holds the token it was computed from, or   *)
(* NoRow when it holds no token's K/V (zeros, or the result of a failed or *)
(* out-of-range computation).  The hidden state of a batch row is the      *)
(* sequence of tokens it has attended; it is not ok when it is not the     *)
(* hidden state of any token sequence.  The model itself is the function   *)
(* Greedy: the arg max of the logits for a token sequence.                 *)
(***************************************************************************)
EXTENDS KVCache     \* with Row the tokens and NoRow

CONSTANTS Token, Eos, Weights, Greedy(_, _), Prompts,
          MaxTokens,       \* --max-tokens
          PrefillChunk,    \* kPrefillChunk; 1 under GGNPU_NO_PREFILL_BATCH
          SpecDecode,      \* GGNPU_SPEC_DECODE is set
          SpecK,           \* spec_k, the longest draft
          NgramMin, NgramMax,
          MatmulMayFail    \* may backend->mul_mat_q() return an error?

ASSUME GenerateAssumption ==
  /\ NoRow \notin Token
  /\ Row = Token \cup {NoRow}
  /\ Prompts \subseteq Seq(Token)
  /\ <<>> \notin Prompts
  /\ MaxTokens \in Nat
  /\ PrefillChunk \in Nat \ {0}
  /\ SpecDecode \in BOOLEAN
  /\ SpecK \in Nat \ {0}
  /\ NgramMin \in Nat \ {0}
  /\ NgramMax \in Nat
  /\ MatmulMayFail \in BOOLEAN

\* The arg max of the logits is always a token of the vocabulary.  (A
\* hypothesis of the theorems; TLC cannot enumerate Seq(Token).)
GreedyIsToken == \A w \in Weights, s \in Seq(Token) : Greedy(w, s) \in Token

VARIABLES
  weights,        \* the model file
  prompt,         \* input_tokens
  seq,            \* prompt and generated tokens
  pos,            \* number of positions whose tokens have been fed
  prompt_idx, generated, last_sampled,
  batch_toks, n_draft, do_sample,   \* the block of this step
  layer,          \* the next layer to run
  hidden,         \* inp_embd: one hidden state per batch row
  committed,      \* accepted tokens still to be emitted
  phase,          \* where the loop is
  matmulFailed    \* history: some projection failed

loopVars == <<seq, pos, prompt_idx, generated, last_sampled>>
blockVars == <<batch_toks, n_draft, do_sample>>
vars == <<kvVars, weights, prompt, loopVars, blockVars, layer, hidden,
          committed, phase, matmulFailed>>

Hidden == [ok : BOOLEAN, ctx : Seq(Token)]
NoHidden == [ok |-> FALSE, ctx |-> <<>>]
Embedded == [ok |-> TRUE, ctx |-> <<>>]

Running == {"begin", "forward", "emit"}
Stopped == {"done", "failed", "crashed"}

\* The types of the loop's variables: a block holds tokens of the vocabulary, so
\* last_sampled (-1 at first) is never fed before a token has been sampled.
TypeOK ==
  /\ KVTypeOK
  /\ weights \in Weights /\ prompt \in Prompts
  /\ seq \in Seq(Token) /\ pos \in Nat
  /\ prompt_idx \in Nat /\ generated \in Nat
  /\ last_sampled \in Token \cup {NoRow}
  /\ batch_toks \in Seq(Token) /\ n_draft \in Nat /\ do_sample \in BOOLEAN
  /\ layer \in 0 .. NLayers
  /\ hidden \in Seq(Hidden)
  /\ committed \in Seq(Token)
  /\ phase \in Running \cup Stopped
  /\ matmulFailed \in BOOLEAN

Init ==
  /\ KVInit
  /\ weights \in Weights /\ prompt \in Prompts
  /\ seq = prompt
  /\ pos = 0 /\ prompt_idx = 0 /\ generated = 0 /\ last_sampled = NoRow
  /\ batch_toks = <<>> /\ n_draft = 0 /\ do_sample = FALSE
  /\ layer = 0 /\ hidden = <<>> /\ committed = <<>>
  /\ phase = "begin"
  /\ matmulFailed = FALSE

-----------------------------------------------------------------------------
(* lookup_draft(): the tokens that followed the latest earlier occurrence   *)
(* of the last ng tokens, for the largest ng that occurs earlier.           *)

Matches(s) ==
  {m \in (NgramMin .. NgramMax) \X (0 .. Len(s)) :
     /\ m[1] + m[2] < Len(s)
     /\ \A j \in 1 .. m[1] : s[m[2] + j] = s[Len(s) - m[1] + j]}

BestMatch(s, m) ==
  /\ m \in Matches(s)
  /\ \A o \in Matches(s) : o[1] < m[1] \/ (o[1] = m[1] /\ o[2] <= m[2])

Follow(s, m) == SubSeq(s, m[1] + m[2] + 1, AtMost(m[1] + m[2] + SpecK, Len(s)))

Drafts(s) ==
  IF SpecDecode /\ Matches(s) # {}
  THEN {Follow(s, m) : m \in {b \in Matches(s) : BestMatch(s, b)}}
  ELSE {<<>>}

-----------------------------------------------------------------------------
(* The head of the loop: choose the block of tokens to feed.                *)

StartBlock(block, drafted, sample) ==
  /\ batch_toks' = block
  /\ n_draft' = drafted
  /\ do_sample' = sample
  /\ hidden' = [r \in 1 .. Len(block) |-> Embedded]
  /\ layer' = 0
  /\ phase' = "forward"

AtLoopHead == phase = "begin" /\ generated < MaxTokens

\* Mutant: only whole chunks are fed.
BeginPrefillWhole ==
  /\ AtLoopHead
  /\ prompt_idx < Len(prompt)
  /\ prompt_idx' = prompt_idx + PrefillChunk * ((Len(prompt) - prompt_idx) \div PrefillChunk)
  /\ StartBlock(SubSeq(prompt, prompt_idx + 1, prompt_idx'), 0,
                prompt_idx' >= Len(prompt))
  /\ UNCHANGED <<kvVars, weights, prompt, seq, pos, generated, last_sampled,
                 committed, matmulFailed>>

BeginPrefill ==
  /\ AtLoopHead
  /\ prompt_idx < Len(prompt)
  /\ prompt_idx' = prompt_idx + AtMost(Len(prompt) - prompt_idx, PrefillChunk)
  /\ StartBlock(SubSeq(prompt, prompt_idx + 1, prompt_idx'), 0,
                prompt_idx' >= Len(prompt))
  /\ UNCHANGED <<kvVars, weights, prompt, seq, pos, generated, last_sampled,
                 committed, matmulFailed>>

BeginDecode ==
  /\ AtLoopHead
  /\ prompt_idx >= Len(prompt)
  /\ \E d \in Drafts(seq) : StartBlock(<<last_sampled>> \o d, Len(d), TRUE)
  /\ UNCHANGED <<kvVars, weights, prompt, loopVars, committed, matmulFailed>>

ExitLoop ==
  /\ phase = "begin" /\ generated >= MaxTokens
  /\ phase' = "done"
  /\ UNCHANGED <<kvVars, weights, prompt, loopVars, blockVars, layer, hidden,
                 committed, matmulFailed>>

-----------------------------------------------------------------------------
(* One layer of the forward pass over the whole block.                      *)

BlockLen == Len(batch_toks)
BlockEnd == pos + BlockLen     \* ctx_len

\* The K/V rows the block's tokens produce at this layer.
Slab == [r \in 1 .. BlockLen |-> IF hidden[r].ok THEN batch_toks[r] ELSE NoRow]
BadSlab == [r \in 1 .. BlockLen |-> NoRow]

\* The row key_buffer(layer, p) finds after the slab has been written; past
\* n_ctx_ it returns null and the expanded buffer keeps whatever it held.
RowAfterWrite(p) == IF Mapped(p) THEN rows'[layer][p] ELSE NoRow

\* Row r of the block is the query at position pos + r - 1: its causal mask
\* leaves the positions 0 .. pos + r - 1.  The RoPE tables end at NCtx too.
View(r) == [j \in 1 .. pos + r |-> RowAfterWrite(j - 1)]

Attend(r) ==
  LET view == View(r)
  IN IF /\ hidden[r].ok
        /\ \A j \in 1 .. pos + r : view[j] # NoRow
        /\ hidden[r].ctx \in {<<>>, view}
     THEN [ok |-> TRUE, ctx |-> view]
     ELSE NoHidden

\* Every launch of the layer succeeds.
LayerForward ==
  /\ phase = "forward" /\ layer < NLayers
  /\ UpdateSlab(layer, pos, BlockEnd, Slab)
  /\ hidden' = [r \in 1 .. BlockLen |-> Attend(r)]
  /\ layer' = layer + 1
  /\ UNCHANGED <<weights, prompt, loopVars, blockVars, committed, phase, matmulFailed>>

\* A projection fails.  Nothing looks at what mul_mat_weight() returns: the
\* layer goes on with zeros where the product should be, in K or V (the rows
\* written are wrong) or elsewhere (only the hidden states are).
LayerForwardFailedMatmul ==
  /\ MatmulMayFail
  /\ phase = "forward" /\ layer < NLayers
  /\ \E slab \in {Slab, BadSlab} : UpdateSlab(layer, pos, BlockEnd, slab)
  /\ hidden' = [r \in 1 .. BlockLen |-> NoHidden]
  /\ layer' = layer + 1
  /\ matmulFailed' = TRUE
  /\ UNCHANGED <<weights, prompt, loopVars, blockVars, committed, phase>>

\* rms_norm(), silu() or flash_attn() reports an error: main() returns 1.
LayerFails ==
  /\ phase = "forward"
  /\ phase' = "failed"
  /\ UNCHANGED <<kvVars, weights, prompt, loopVars, blockVars, layer, hidden,
                 committed, matmulFailed>>

\* A block that ends past NCtx reads the RoPE tables out of bounds and, for
\* every KV head but the first, copies from null + offset.
LayerOverrun ==
  /\ phase = "forward" /\ layer < NLayers
  /\ BlockEnd > NCtx
  /\ phase' = "crashed"
  /\ UNCHANGED <<kvVars, weights, prompt, loopVars, blockVars, layer, hidden,
                 committed, matmulFailed>>

-----------------------------------------------------------------------------
(* After the last layer: logits, sampling, verification.                    *)

Predictions(r) ==
  IF hidden[r].ok THEN {Greedy(weights, hidden[r].ctx)} ELSE Token

FinishPrefillChunk ==
  /\ phase = "forward" /\ layer = NLayers
  /\ ~do_sample
  /\ pos' = BlockEnd
  /\ phase' = "begin"
  /\ UNCHANGED <<kvVars, weights, prompt, seq, prompt_idx, generated, last_sampled,
                 blockVars, layer, hidden, committed, matmulFailed>>

Emitted(c) ==
  /\ seq' = Append(seq, c)
  /\ last_sampled' = c
  /\ generated' = generated + 1

\* Mutant: one position too late.
ContextFullLate(p) == p > NCtx

ContextFull(p) == p >= NCtx

SampleNext ==
  /\ phase = "forward" /\ layer = NLayers
  /\ do_sample /\ n_draft = 0
  /\ pos' = BlockEnd
  /\ \E c \in Predictions(BlockLen) :
       /\ Emitted(c)
       /\ phase' = IF c = Eos \/ ContextFull(pos') THEN "done" ELSE "begin"
  /\ UNCHANGED <<kvVars, weights, prompt, prompt_idx, blockVars, layer, hidden,
                 committed, matmulFailed>>

\* Mutants: the rejected drafts stay in the cache; one of them does.
NoRollback(m) == BlockEnd
ShortRollback(m) == BlockEnd - (n_draft - m) + 1

\* pos once the rejected drafts have been rolled back.
AcceptedEnd(m) == BlockEnd - (n_draft - m)

\* Mutant: the draft is accepted whole, whatever was predicted.
AcceptedUnverified(cand, m) == m = n_draft

\* cand[r] is the arg max of row r; the draft is accepted up to its first
\* token that differs, and cand supplies the correction or the bonus token.
Accepted(cand, m) ==
  /\ \A i \in 1 .. m : cand[i] = batch_toks[i + 1]
  /\ m < n_draft => cand[m + 1] # batch_toks[m + 2]

VerifyDraft ==
  /\ phase = "forward" /\ layer = NLayers
  /\ do_sample /\ n_draft > 0
  /\ \E cand \in [1 .. BlockLen -> Token], matched \in 0 .. n_draft :
       /\ \A r \in 1 .. BlockLen : cand[r] \in Predictions(r)
       /\ Accepted(cand, matched)
       /\ committed' = SubSeq(cand, 1, matched + 1)
       /\ pos' = AcceptedEnd(matched)
  /\ phase' = "emit"
  /\ UNCHANGED <<kvVars, weights, prompt, seq, prompt_idx, generated, last_sampled,
                 blockVars, layer, hidden, matmulFailed>>

\* One turn of the loop over the accepted tokens.
EmitCommitted ==
  /\ phase = "emit"
  /\ Emitted(Head(committed))
  /\ IF \/ Head(committed) = Eos
        \/ ContextFull(pos)
        \/ generated' >= MaxTokens
     THEN phase' = "done" /\ committed' = <<>>
     ELSE /\ committed' = Tail(committed)
          /\ phase' = IF Len(committed) = 1 THEN "begin" ELSE "emit"
  /\ UNCHANGED <<kvVars, weights, prompt, pos, prompt_idx, blockVars, layer, hidden,
                 matmulFailed>>

Next ==
  \/ BeginPrefill \/ BeginDecode \/ ExitLoop
  \/ LayerForward \/ LayerForwardFailedMatmul \/ LayerFails \/ LayerOverrun
  \/ FinishPrefillChunk \/ SampleNext \/ VerifyDraft \/ EmitCommitted

\* One thread runs the loop, and nothing in it blocks forever.
Spec == Init /\ [][Next]_vars /\ WF_vars(Next)

-----------------------------------------------------------------------------
(* Properties.                                                              *)

\* Every token the program prints is the greedy token for the tokens before
\* it, whatever was drafted, rejected and left in the cache on the way.
OutputIsGreedy ==
  ~matmulFailed =>
    \A i \in Len(prompt) + 1 .. Len(seq) :
       seq[i] = Greedy(weights, SubSeq(seq, 1, i - 1))

\* When the loop comes back to its head, every layer's rows below pos are
\* those of the tokens of seq: no rejected draft is left among them.
CacheHoldsSequence ==
  phase = "begin" /\ ~matmulFailed =>
    \A l \in Layers : \A p \in Positions :
       p < pos => rows[l][p] = seq[p + 1]

\* pos, prompt_idx, generated and last_sampled agree with the sequence after
\* every prefill chunk, acceptance and rollback, and the budget is respected.
Accounting ==
  /\ Len(seq) = Len(prompt) + generated
  /\ generated <= MaxTokens
  /\ phase = "begin" =>
       IF generated = 0
       THEN pos = prompt_idx /\ prompt_idx <= Len(prompt)
       ELSE pos = Len(seq) - 1 /\ last_sampled = seq[Len(seq)]

\* A row below pos is never written again: update_slab() and the rollback of
\* pos only ever let the positions of rejected drafts be overwritten.
CommittedRowsStay ==
  [][\A l \in Layers : \A p \in Positions : p < pos => rows'[l][p] = rows[l][p]]_vars

\* Speculative decoding prints what one-token-at-a-time decoding prints, and stops
\* where it stops or less than a draft before the end of the context.
Sequential == INSTANCE GreedyDecode WITH
  Slack <- IF SpecDecode THEN SpecK ELSE 0,
  status <- IF phase \in Running THEN IF matmulFailed THEN "spoiled" ELSE "running"
            ELSE IF phase = "done" /\ ~matmulFailed THEN "done" ELSE "failed"
ImplementsSequential == Sequential!Spec

-----------------------------------------------------------------------------
(* The inductive invariant behind the safety properties.                    *)

\* The printed tokens followed by the accepted ones still to be printed.
Full == seq \o committed

\* The token fed at 0-based position p, while a block is in the forward pass.
FedToken(p) == IF p < pos THEN seq[p + 1] ELSE batch_toks[p - pos + 1]

\* The counters and the sequence.
Counters ==
  /\ Len(seq) = Len(prompt) + generated
  /\ generated <= MaxTokens
  /\ prompt_idx <= Len(prompt)
  /\ generated > 0 => prompt_idx = Len(prompt)
  /\ \A i \in 1 .. Len(prompt) : seq[i] = prompt[i]
  /\ Len(seq) <= NCtx + 1

\* The loop head: prefill in progress, or one sampled token not yet fed.
AtHead ==
  phase = "begin" =>
    /\ generated = 0 => pos = prompt_idx /\ prompt_idx < Len(prompt)
    /\ generated > 0 => /\ pos = Len(seq) - 1 /\ pos < NCtx
                        /\ last_sampled = seq[Len(seq)]

\* A block in the forward pass: the next prompt tokens, or the last sampled
\* token followed by the draft.
InForward ==
  phase = "forward" =>
    /\ generated < MaxTokens
    /\ Len(hidden) = Len(batch_toks)
    /\ pos < NCtx
    /\ generated = 0 =>
         /\ n_draft = 0 /\ Len(batch_toks) > 0
         /\ prompt_idx = pos + Len(batch_toks)
         /\ \A i \in 1 .. Len(batch_toks) : batch_toks[i] = prompt[pos + i]
         /\ do_sample <=> prompt_idx = Len(prompt)
    /\ generated > 0 =>
         /\ do_sample
         /\ pos = Len(seq) - 1
         /\ Len(batch_toks) = n_draft + 1
         /\ batch_toks[1] = seq[Len(seq)]

\* Accepted tokens are waiting to be printed.
InEmit ==
  /\ phase # "emit" => committed = <<>>
  /\ phase = "emit" =>
       /\ committed # <<>>
       /\ pos = Len(seq) + Len(committed) - 1
       /\ generated > 0 /\ generated < MaxTokens
       /\ Len(seq) <= NCtx

\* The rows below pos hold the printed and accepted tokens.
CommittedRows ==
  \A l \in Layers : \A p \in Positions : p < pos /\ phase \in Running => rows[l][p] = Full[p + 1]

\* The rows of the block, in the layers it has been through, hold its tokens.
BlockRows ==
  phase = "forward" =>
    \A l \in Layers : \A p \in Positions :
       l < layer /\ pos <= p /\ p < pos + Len(batch_toks)
         => rows[l][p] = batch_toks[p - pos + 1]

\* A row of the block has attended the tokens up to its own.
BlockHidden ==
  phase = "forward" =>
    \A r \in 1 .. Len(batch_toks) :
       pos + r <= NCtx =>
         /\ hidden[r].ok
         /\ hidden[r].ctx = IF layer = 0 THEN <<>>
                            ELSE [j \in 1 .. pos + r |-> FedToken(j - 1)]

\* Accepted tokens are greedy before they are printed.
FullIsGreedy ==
  \A i \in Len(prompt) + 1 .. Len(Full) :
     i <= NCtx + 1 => Full[i] = Greedy(weights, SubSeq(Full, 1, i - 1))

\* What holds of the counters and of the block, failed projections or not.
Shape == Counters /\ AtHead /\ InForward /\ InEmit
\* What holds of the tokens and of the cache while no projection has failed.
Contents == CommittedRows /\ BlockRows /\ BlockHidden /\ FullIsGreedy

\* The inductive invariant: the loop's positions, the rows every layer has and
\* the tokens waiting to be printed agree at every step of the loop.
IInv == TypeOK /\ Shape /\ (~matmulFailed => Contents)

-----------------------------------------------------------------------------
\* The loop ends.
Terminates == <>(phase \in Stopped)

\* "Preallocate GQA K/V expand buffers (max size: num_heads * ctx_size *
\* head_dim)": no block reaches past the context.
BlockFitsContext == phase = "forward" => BlockEnd <= NCtx
=============================================================================
