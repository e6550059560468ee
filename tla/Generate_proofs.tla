---------------------------- MODULE Generate_proofs ----------------------------
(***************************************************************************)
(* Proofs about the generation loop, for every vocabulary, model, context  *)
(* length, chunk size, draft length and n-gram range.  The argument: Shape *)
(* says which block of tokens a step feeds and how pos, the sequence and   *)
(* the accepted tokens relate; Contents says that the cache rows below pos *)
(* and those of the layers already run hold the tokens fed there, that a   *)
(* hidden state within the context is the one of its prefix, and that the  *)
(* accepted tokens are greedy.  Together with the types they are inductive.*)
(* The last part maps every step of the loop to a step of GreedyDecode.    *)
(***************************************************************************)
EXTENDS Generate, SequenceTheorems, TLAPS

\* main() does not bound the prompt by the context: the theorems suppose it.
PromptsFit == \A p \in Prompts : Len(p) <= NCtx

LEMMA InitIInv == PromptsFit /\ Init => IInv
<1> SUFFICES ASSUME PromptsFit, Init PROVE IInv
  OBVIOUS
<1> USE KVCacheAssumption, GenerateAssumption
<1>1. prompt \in Seq(Token) /\ prompt # <<>> /\ Len(prompt) \in Nat \ {0} /\ Len(prompt) <= NCtx
  BY EmptySeq DEF Init, PromptsFit
<1>2. <<>> \in Seq(Token) /\ <<>> \in Seq(Hidden) /\ Len(<<>>) = 0
  BY EmptySeq
<1>3. Full = prompt
  BY <1>1, ConcatEmptySeq DEF Full, Init
<1>4. TypeOK
  <2>1. KVTypeOK
    BY DEF Init, KVInit, KVTypeOK, Layers, Positions
  <2>2. weights \in Weights /\ prompt \in Prompts /\ seq \in Seq(Token) /\ last_sampled \in Token \cup {NoRow}
    BY <1>1 DEF Init
  <2>3. pos \in Nat /\ prompt_idx \in Nat /\ generated \in Nat /\ n_draft \in Nat /\ layer \in 0 .. NLayers
    BY DEF Init
  <2>4. batch_toks \in Seq(Token) /\ hidden \in Seq(Hidden) /\ committed \in Seq(Token)
    BY <1>2 DEF Init
  <2>5. do_sample \in BOOLEAN /\ matmulFailed \in BOOLEAN /\ phase \in Running \cup Stopped
    BY DEF Init, Running, Stopped
  <2> QED
    BY <2>1, <2>2, <2>3, <2>4, <2>5 DEF TypeOK
<1>5. Shape
  BY <1>1, <1>2 DEF Shape, Counters, AtHead, InForward, InEmit, Init
<1>6. Contents
  <2>1. CommittedRows
    BY DEF CommittedRows, Init, Positions
  <2>2. BlockRows /\ BlockHidden
    BY DEF BlockRows, BlockHidden, Init
  <2>3. FullIsGreedy
    BY <1>1, <1>3 DEF FullIsGreedy, Init
  <2> QED
    BY <2>1, <2>2, <2>3 DEF Contents
<1> QED
  BY <1>4, <1>5, <1>6 DEF IInv

-----------------------------------------------------------------------------
(* The slice of a sequence that a block is cut from.                        *)

LEMMA Slice ==
  ASSUME NEW S, NEW s, NEW m \in Nat, NEW n \in Nat, m < n,
         \A i \in m + 1 .. n : s[i] \in S
  PROVE  /\ SubSeq(s, m + 1, n) \in Seq(S)
         /\ m + Len(SubSeq(s, m + 1, n)) = n
         /\ \A i \in 1 .. Len(SubSeq(s, m + 1, n)) : SubSeq(s, m + 1, n)[i] = s[m + i]
<1>1. m + 1 \in Int /\ n \in Int /\ m + 1 <= n
  OBVIOUS
<1>2. /\ SubSeq(s, m + 1, n) \in Seq(S)
      /\ Len(SubSeq(s, m + 1, n)) = n - (m + 1) + 1
      /\ \A i \in 1 .. n - (m + 1) + 1 : SubSeq(s, m + 1, n)[i] = s[(m + 1) + i - 1]
  BY <1>1, SubSeqProperties
<1>3. n - (m + 1) + 1 = n - m /\ \A i \in Int : (m + 1) + i - 1 = m + i
  OBVIOUS
<1> QED
  BY <1>2, <1>3

-----------------------------------------------------------------------------
(* Types.                                                                   *)

LEMMA AtMostType == \A m, n \in Nat : AtMost(m, n) \in Nat /\ AtMost(m, n) <= m /\ AtMost(m, n) <= n
BY DEF AtMost

\* update_slab() keeps the cache well typed whatever slab of rows it copies.
LEMMA UpdateSlabType ==
  ASSUME KVTypeOK, NEW l \in Layers, NEW s \in Nat, NEW t \in Nat,
         NEW slab \in Seq(Row), Len(slab) = t - s, UpdateSlab(l, s, t, slab)
  PROVE  KVTypeOK'
<1> USE KVCacheAssumption
<1>1. CASE SlabRejected(l, s, t)
  BY <1>1 DEF KVTypeOK, UpdateSlab, kvVars
<1>2. CASE ~SlabRejected(l, s, t)
  <2> DEFINE new == [p \in Positions |-> IF s <= p /\ p < t THEN slab[p - s + 1] ELSE rows[l][p]]
  <2>1. ASSUME NEW p \in Positions
        PROVE (IF s <= p /\ p < t THEN slab[p - s + 1] ELSE rows[l][p]) \in Row
    <3>1. CASE s <= p /\ p < t
      <4>1. p - s + 1 \in 1 .. Len(slab)
        BY <3>1 DEF Positions
      <4> QED
        BY <3>1, <4>1, ElementOfSeq
    <3>2. CASE ~(s <= p /\ p < t)
      BY <3>2 DEF KVTypeOK
    <3> QED
      BY <3>1, <3>2
  <2>2. new \in [Positions -> Row]
    BY <2>1
  <2>3. rows' = [rows EXCEPT ![l] = new] /\ current_pos' = AtMost(t, NCtx)
    BY <1>2 DEF UpdateSlab, SetPosition
  <2>4. rows' \in [Layers -> [Positions -> Row]]
    BY <2>2, <2>3 DEF KVTypeOK
  <2> QED
    BY <2>3, <2>4, AtMostType DEF KVTypeOK, AtMost
<1> QED
  BY <1>1, <1>2

\* A function on 1..n is a sequence of length n.
LEMMA FunctionIsSeq ==
  ASSUME NEW S, NEW n \in Nat, NEW f \in [1 .. n -> S]
  PROVE  f \in Seq(S) /\ Len(f) = n
<1>1. f \in Seq(S)
  BY SeqDef
<1> QED
  BY <1>1, LenProperties

LEMMA StartBlockType ==
  ASSUME NEW block \in Seq(Token), NEW d \in Nat, NEW smp \in BOOLEAN,
         StartBlock(block, d, smp)
  PROVE  /\ batch_toks' \in Seq(Token) /\ n_draft' \in Nat /\ do_sample' \in BOOLEAN
         /\ hidden' \in Seq(Hidden) /\ Len(hidden') = Len(block)
         /\ layer' \in 0 .. NLayers
         /\ phase' = "forward"
<1> USE KVCacheAssumption
<1>1. Embedded \in Hidden
  BY EmptySeq DEF Embedded, Hidden
<1>2. Len(block) \in Nat
  BY LenProperties
<1>3. hidden' \in [1 .. Len(block) -> Hidden]
  BY <1>1 DEF StartBlock
<1>4. hidden' \in Seq(Hidden) /\ Len(hidden') = Len(block)
  BY <1>2, <1>3, FunctionIsSeq
<1>5. layer' \in 0 .. NLayers
  BY DEF StartBlock
<1> QED
  BY <1>4, <1>5 DEF StartBlock

\* A draft is a sequence of tokens of the text.
LEMMA DraftType ==
  ASSUME NEW s \in Seq(Token), NEW d \in Drafts(s)
  PROVE  d \in Seq(Token)
<1> USE GenerateAssumption
<1>1. CASE d = <<>>
  BY <1>1, EmptySeq
<1>2. CASE d # <<>>
  <2>1. PICK m \in Matches(s) : d = Follow(s, m)
    BY <1>2 DEF Drafts
  <2>2. m[1] \in Nat /\ m[2] \in Nat /\ m[1] + m[2] < Len(s) /\ Len(s) \in Nat
    BY <2>1, LenProperties DEF Matches
  <2>3. AtMost(m[1] + m[2] + SpecK, Len(s)) \in Nat /\ AtMost(m[1] + m[2] + SpecK, Len(s)) <= Len(s)
    BY <2>2 DEF AtMost
  <2>4. \A i \in m[1] + m[2] + 1 .. AtMost(m[1] + m[2] + SpecK, Len(s)) : s[i] \in Token
    BY <2>2, <2>3, ElementOfSeq
  <2> QED
    BY <2>1, <2>2, <2>3, <2>4, SubSeqProperties DEF Follow
<1> QED
  BY <1>1, <1>2

\* What the model predicts is a token.
LEMMA PredictionType ==
  ASSUME GreedyIsToken, TypeOK, NEW r \in 1 .. Len(hidden), NEW c \in Predictions(r)
  PROVE  c \in Token
<1>1. hidden[r] \in Hidden
  BY ElementOfSeq DEF TypeOK
<1> QED
  BY <1>1 DEF Predictions, Hidden, GreedyIsToken, TypeOK

\* What a row of the block can attend is a sequence of tokens, or it is not ok.
LEMMA AttendType ==
  ASSUME TypeOK, KVTypeOK', layer < NLayers, NEW r \in 1 .. Len(batch_toks)
  PROVE  Attend(r) \in Hidden
<1> USE KVCacheAssumption, GenerateAssumption
<1>1. NoHidden \in Hidden
  BY EmptySeq DEF NoHidden, Hidden
<1>2. pos + r \in Nat
  BY LenProperties DEF TypeOK
<1>3. ASSUME NEW j \in 1 .. pos + r PROVE RowAfterWrite(j - 1) \in Row
  <2>1. CASE Mapped(j - 1)
    <3>1. j - 1 \in Positions /\ layer \in Layers
      BY <1>2, <2>1 DEF Mapped, Positions, Layers, TypeOK
    <3> QED
      BY <2>1, <3>1 DEF RowAfterWrite, KVTypeOK
  <2>2. CASE ~Mapped(j - 1)
    BY <2>2 DEF RowAfterWrite
  <2> QED
    BY <2>1, <2>2
<1>4. CASE \A j \in 1 .. pos + r : View(r)[j] # NoRow
  <2>1. View(r) \in [1 .. pos + r -> Token]
    <3>1. ASSUME NEW j \in 1 .. pos + r PROVE RowAfterWrite(j - 1) \in Token
      BY <1>3, <1>4 DEF View
    <3> QED
      BY <3>1 DEF View
  <2>2. View(r) \in Seq(Token)
    BY <1>2, <2>1, FunctionIsSeq
  <2> QED
    BY <1>1, <2>2 DEF Attend, Hidden
<1>5. CASE ~(\A j \in 1 .. pos + r : View(r)[j] # NoRow)
  BY <1>1, <1>5 DEF Attend
<1> QED
  BY <1>4, <1>5

-----------------------------------------------------------------------------
(* Every action preserves the types.                                        *)

LEMMA TypeStep ==
  ASSUME GreedyIsToken, TypeOK, Shape, Next
  PROVE  TypeOK'
<1> USE KVCacheAssumption, GenerateAssumption
<1>a. /\ Len(seq) \in Nat /\ Len(prompt) \in Nat /\ Len(batch_toks) \in Nat
      /\ Len(hidden) \in Nat /\ Len(committed) \in Nat
      /\ prompt \in Seq(Token)
  BY LenProperties DEF TypeOK
<1>0. UNCHANGED kvVars => KVTypeOK'
  BY DEF TypeOK, KVTypeOK, kvVars
<1>1. CASE BeginPrefill
  <2>1. prompt_idx' \in Nat /\ prompt_idx' <= Len(prompt)
    BY <1>1, <1>a DEF BeginPrefill, TypeOK, AtMost
  <2>2. \A i \in prompt_idx + 1 .. prompt_idx' : prompt[i] \in Token
    BY <1>a, <2>1, ElementOfSeq DEF TypeOK
  <2>3. SubSeq(prompt, prompt_idx + 1, prompt_idx') \in Seq(Token)
    BY <2>1, <2>2, SubSeqProperties DEF TypeOK
  <2>4. StartBlock(SubSeq(prompt, prompt_idx + 1, prompt_idx'), 0, prompt_idx' >= Len(prompt))
    BY <1>1 DEF BeginPrefill
  <2>5. (prompt_idx' >= Len(prompt)) \in BOOLEAN
    OBVIOUS
  <2> HIDE DEF TypeOK
  <2>6. /\ batch_toks' \in Seq(Token) /\ n_draft' \in Nat /\ do_sample' \in BOOLEAN
        /\ hidden' \in Seq(Hidden) /\ layer' \in 0 .. NLayers /\ phase' = "forward"
    BY <2>3, <2>4, <2>5, StartBlockType
  <2> QED
    BY <1>0, <1>1, <2>1, <2>6 DEF BeginPrefill, TypeOK, Running
<1>2. CASE BeginDecode
  <2>1. PICK d \in Drafts(seq) : StartBlock(<<last_sampled>> \o d, Len(d), TRUE)
    BY <1>2 DEF BeginDecode
  <2>2. d \in Seq(Token) /\ Len(d) \in Nat
    BY <2>1, DraftType, LenProperties DEF TypeOK
  <2>3. generated > 0 /\ last_sampled = seq[Len(seq)] /\ Len(seq) \in 1 .. Len(seq)
    BY <1>2, <1>a DEF BeginDecode, AtLoopHead, Shape, AtHead, Counters, TypeOK
  <2>4. last_sampled \in Token
    BY <2>3, ElementOfSeq DEF TypeOK
  <2>5. <<last_sampled>> \in Seq(Token)
    BY <2>4
  <2>6. <<last_sampled>> \o d \in Seq(Token)
    BY <2>2, <2>5, ConcatProperties
  <2>7. /\ batch_toks' \in Seq(Token) /\ n_draft' \in Nat /\ do_sample' \in BOOLEAN
        /\ hidden' \in Seq(Hidden) /\ layer' \in 0 .. NLayers /\ phase' = "forward"
    BY <2>1, <2>2, <2>6, StartBlockType
  <2> QED
    BY <1>0, <1>2, <2>7 DEF BeginDecode, TypeOK, Running, loopVars
<1>3. CASE ExitLoop \/ LayerFails \/ LayerOverrun
  BY <1>0, <1>3 DEF ExitLoop, LayerFails, LayerOverrun, TypeOK, Running, Stopped, loopVars, blockVars
<1>4. ASSUME phase = "forward", layer < NLayers,
             NEW slab \in {Slab, BadSlab}, UpdateSlab(layer, pos, BlockEnd, slab)
      PROVE  KVTypeOK'
  <2>1. layer \in Layers /\ pos \in Nat /\ BlockEnd \in Nat /\ BlockEnd - pos = Len(batch_toks)
    BY <1>4, <1>a DEF TypeOK, Layers, BlockEnd, BlockLen
  <2>2. \A r \in 1 .. Len(batch_toks) : batch_toks[r] \in Row
    BY ElementOfSeq DEF TypeOK
  <2>3. Slab \in [1 .. Len(batch_toks) -> Row] /\ BadSlab \in [1 .. Len(batch_toks) -> Row]
    BY <2>2 DEF Slab, BadSlab, BlockLen
  <2>4. slab \in [1 .. Len(batch_toks) -> Row]
    BY <2>3
  <2>5. slab \in Seq(Row) /\ Len(slab) = Len(batch_toks)
    BY <1>a, <2>4, FunctionIsSeq
  <2> QED
    BY <1>4, <2>1, <2>5, UpdateSlabType DEF TypeOK
<1>5. CASE LayerForward
  <2>1. KVTypeOK'
    BY <1>4, <1>5 DEF LayerForward
  <2>2. \A r \in 1 .. Len(batch_toks) : Attend(r) \in Hidden
    BY <1>5, <2>1, AttendType DEF LayerForward
  <2>3. hidden' \in [1 .. Len(batch_toks) -> Hidden]
    BY <1>5, <2>2 DEF LayerForward, BlockLen
  <2>4. hidden' \in Seq(Hidden)
    BY <1>a, <2>3, FunctionIsSeq
  <2>5. layer' \in 0 .. NLayers
    BY <1>5 DEF LayerForward, TypeOK
  <2> QED
    BY <1>5, <2>1, <2>4, <2>5 DEF LayerForward, TypeOK, loopVars, blockVars
<1>6. CASE LayerForwardFailedMatmul
  <2>1. KVTypeOK'
    BY <1>4, <1>6 DEF LayerForwardFailedMatmul
  <2>2. NoHidden \in Hidden
    BY EmptySeq DEF NoHidden, Hidden
  <2>3. hidden' \in [1 .. Len(batch_toks) -> Hidden]
    BY <1>6, <2>2 DEF LayerForwardFailedMatmul, BlockLen
  <2>4. hidden' \in Seq(Hidden)
    BY <1>a, <2>3, FunctionIsSeq
  <2>5. layer' \in 0 .. NLayers
    BY <1>6 DEF LayerForwardFailedMatmul, TypeOK
  <2> QED
    BY <1>6, <2>1, <2>4, <2>5 DEF LayerForwardFailedMatmul, TypeOK, loopVars, blockVars
<1>7. CASE FinishPrefillChunk
  BY <1>0, <1>7, <1>a DEF FinishPrefillChunk, TypeOK, Running, BlockEnd, BlockLen, blockVars
<1>8. CASE SampleNext
  <2>1. BlockLen \in 1 .. Len(hidden)
    BY <1>8, <1>a DEF SampleNext, Shape, InForward, BlockLen, TypeOK
  <2>2. PICK c \in Predictions(BlockLen) : Emitted(c)
    BY <1>8 DEF SampleNext
  <2>3. c \in Token
    BY <2>1, <2>2, PredictionType
  <2>4. seq' \in Seq(Token) /\ last_sampled' \in Token /\ generated' \in Nat
    BY <2>2, <2>3, AppendProperties DEF Emitted, TypeOK
  <2>5. pos' \in Nat /\ phase' \in Running \cup Stopped
    BY <1>8, <1>a DEF SampleNext, BlockEnd, BlockLen, TypeOK, Running, Stopped
  <2> QED
    BY <1>0, <1>8, <2>4, <2>5 DEF SampleNext, TypeOK, blockVars
<1>9. CASE VerifyDraft
  <2>1. PICK cand \in [1 .. BlockLen -> Token], matched \in 0 .. n_draft :
           /\ committed' = SubSeq(cand, 1, matched + 1)
           /\ pos' = AcceptedEnd(matched)
    BY <1>9 DEF VerifyDraft
  <2>2. BlockLen = n_draft + 1 /\ n_draft \in Nat
    BY <1>9, <1>a DEF VerifyDraft, Shape, InForward, BlockLen, TypeOK
  <2>3. \A i \in 1 .. matched + 1 : cand[i] \in Token
    BY <2>2
  <2>4. committed' \in Seq(Token)
    BY <2>1, <2>3, SubSeqProperties
  <2>5. pos' \in Nat
    BY <1>a, <2>1, <2>2 DEF AcceptedEnd, BlockEnd, BlockLen, TypeOK
  <2> QED
    BY <1>0, <1>9, <2>4, <2>5 DEF VerifyDraft, TypeOK, Running, blockVars
<1>10. CASE EmitCommitted
  <2>1. committed # <<>>
    BY <1>10 DEF EmitCommitted, Shape, InEmit
  <2>2. Head(committed) \in Token /\ Tail(committed) \in Seq(Token)
    BY <2>1, HeadTailProperties DEF TypeOK
  <2>3. seq' \in Seq(Token) /\ last_sampled' \in Token /\ generated' \in Nat
    BY <1>10, <2>2, AppendProperties DEF EmitCommitted, Emitted, TypeOK
  <2>4. committed' \in Seq(Token) /\ phase' \in Running \cup Stopped
    BY <1>10, <2>2, EmptySeq DEF EmitCommitted, Running, Stopped
  <2> QED
    BY <1>0, <1>10, <2>3, <2>4 DEF EmitCommitted, TypeOK, blockVars
<1> QED
  BY <1>1, <1>2, <1>3, <1>5, <1>6, <1>7, <1>8, <1>9, <1>10 DEF Next

-----------------------------------------------------------------------------
(* Every action preserves the shape of the block and the counters.          *)

LEMMA ShapeStep ==
  ASSUME PromptsFit, GreedyIsToken, TypeOK, Shape, Next
  PROVE  Shape'
<1> USE KVCacheAssumption, GenerateAssumption
<1>a. /\ Len(seq) \in Nat /\ Len(prompt) \in Nat \ {0} /\ Len(batch_toks) \in Nat
      /\ Len(hidden) \in Nat /\ Len(committed) \in Nat
      /\ prompt \in Seq(Token) /\ Len(prompt) <= NCtx
  BY LenProperties, EmptySeq DEF TypeOK, PromptsFit
<1>b. /\ pos \in Nat /\ prompt_idx \in Nat /\ generated \in Nat /\ n_draft \in Nat
      /\ seq \in Seq(Token) /\ committed \in Seq(Token) /\ do_sample \in BOOLEAN
  BY DEF TypeOK
<1>1. CASE BeginPrefill
  <2> DEFINE block == SubSeq(prompt, prompt_idx + 1, prompt_idx')
  <2>1. /\ phase = "begin" /\ generated < MaxTokens /\ prompt_idx < Len(prompt)
        /\ prompt_idx' \in Nat /\ prompt_idx' <= Len(prompt) /\ prompt_idx < prompt_idx'
        /\ StartBlock(block, 0, prompt_idx' >= Len(prompt))
        /\ UNCHANGED <<prompt, seq, pos, generated, last_sampled, committed>>
    BY <1>1, <1>a, <1>b DEF BeginPrefill, AtLoopHead, AtMost
  <2>2. \A i \in prompt_idx + 1 .. prompt_idx' : prompt[i] \in Token
    BY <1>a, <1>b, <2>1, ElementOfSeq
  <2>3. /\ block \in Seq(Token) /\ prompt_idx + Len(block) = prompt_idx'
        /\ \A i \in 1 .. Len(block) : block[i] = prompt[prompt_idx + i]
    <3>1. PICK n \in Nat : n = prompt_idx'
      BY <2>1
    <3>2. prompt_idx < n /\ \A i \in prompt_idx + 1 .. n : prompt[i] \in Token
      BY <2>1, <2>2, <3>1
    <3>3. /\ SubSeq(prompt, prompt_idx + 1, n) \in Seq(Token)
          /\ prompt_idx + Len(SubSeq(prompt, prompt_idx + 1, n)) = n
          /\ \A i \in 1 .. Len(SubSeq(prompt, prompt_idx + 1, n)) :
                SubSeq(prompt, prompt_idx + 1, n)[i] = prompt[prompt_idx + i]
      BY <1>b, <3>2, Slice
    <3> QED
      BY <3>1, <3>3
  <2> HIDE DEF block
  <2>4. generated = 0 /\ pos = prompt_idx
    BY <1>a, <1>b, <2>1 DEF Shape, Counters, AtHead
  <2>5. batch_toks' = block /\ n_draft' = 0 /\ (do_sample' <=> prompt_idx' >= Len(prompt))
        /\ Len(hidden') = Len(block) /\ phase' = "forward"
    <3>1. (prompt_idx' >= Len(prompt)) \in BOOLEAN /\ 0 \in Nat
      OBVIOUS
    <3>2. Len(hidden') = Len(block)
      BY <2>1, <2>3, <3>1, StartBlockType
    <3> QED
      BY <2>1, <3>2 DEF StartBlock
  <2>6. Counters'
    BY <2>1, <2>4 DEF Shape, Counters
  <2>7. AtHead' /\ InEmit'
    BY <2>1, <2>5 DEF Shape, AtHead, InEmit
  <2>8. InForward'
    <3>a. prompt_idx + Len(batch_toks') = prompt_idx' /\ Len(hidden') = Len(batch_toks')
      BY <2>3, <2>5
    <3>b. generated' < MaxTokens /\ pos' < NCtx
      BY <1>a, <1>b, <2>1, <2>4
    <3>1. /\ generated' < MaxTokens /\ Len(hidden') = Len(batch_toks') /\ pos' < NCtx
          /\ n_draft' = 0 /\ Len(batch_toks') > 0 /\ prompt_idx' = pos' + Len(batch_toks')
      <4>1. pos' = prompt_idx /\ prompt_idx \in Nat /\ prompt_idx' \in Nat /\ prompt_idx < prompt_idx'
        BY <1>b, <2>1, <2>4
      <4>2. \A m, n, k \in Nat : m < n /\ m + k = n => k > 0
        OBVIOUS
      <4>3. Len(batch_toks') \in Nat
        BY <2>3, <2>5, LenProperties
      <4>4. Len(batch_toks') > 0 /\ prompt_idx' = pos' + Len(batch_toks')
        BY <3>a, <4>1, <4>2, <4>3
      <4> QED
        BY <2>5, <3>a, <3>b, <4>4
    <3>2. \A i \in 1 .. Len(batch_toks') : batch_toks'[i] = prompt'[pos' + i]
      BY <2>1, <2>3, <2>4, <2>5
    <3>3. do_sample' <=> prompt_idx' = Len(prompt')
      BY <1>a, <2>1, <2>5
    <3>4. generated' = 0
      BY <2>1, <2>4
    <3> QED
      BY <3>1, <3>2, <3>3, <3>4 DEF InForward
  <2> QED
    BY <2>6, <2>7, <2>8 DEF Shape
<1>2. CASE BeginDecode
  <2>1. PICK d \in Drafts(seq) : StartBlock(<<last_sampled>> \o d, Len(d), TRUE)
    BY <1>2 DEF BeginDecode
  <2>2. d \in Seq(Token) /\ Len(d) \in Nat
    BY <1>b, <2>1, DraftType, LenProperties
  <2>3. /\ phase = "begin" /\ generated < MaxTokens /\ prompt_idx >= Len(prompt)
        /\ UNCHANGED <<prompt, loopVars, committed>>
    BY <1>2 DEF BeginDecode, AtLoopHead
  <2>4. generated > 0 /\ last_sampled = seq[Len(seq)] /\ pos = Len(seq) - 1 /\ pos < NCtx
        /\ Len(seq) \in 1 .. Len(seq)
    BY <1>a, <1>b, <2>3 DEF Shape, AtHead, Counters
  <2>5. <<last_sampled>> \in Seq(Token) /\ Len(<<last_sampled>>) = 1
    BY <1>b, <2>4, ElementOfSeq
  <2> DEFINE block == <<last_sampled>> \o d
  <2>6. block \in Seq(Token) /\ Len(block) = Len(d) + 1 /\ block[1] = last_sampled
    BY <2>2, <2>5, ConcatProperties
  <2>7. StartBlock(block, Len(d), TRUE)
    BY <2>1
  <2> HIDE DEF block
  <2>8. batch_toks' = block /\ n_draft' = Len(d) /\ do_sample' = TRUE
        /\ Len(hidden') = Len(block) /\ phase' = "forward"
    <3>1. Len(hidden') = Len(block)
      BY <2>2, <2>6, <2>7, StartBlockType
    <3> QED
      BY <2>7, <3>1 DEF StartBlock
  <2>9. Counters'
    BY <2>3 DEF Shape, Counters, loopVars
  <2>10. AtHead' /\ InEmit'
    BY <2>3, <2>8 DEF Shape, AtHead, InEmit
  <2>11. InForward'
    BY <2>2, <2>3, <2>4, <2>6, <2>8 DEF InForward, loopVars
  <2> QED
    BY <2>9, <2>10, <2>11 DEF Shape
<1>3. CASE ExitLoop \/ LayerFails \/ LayerOverrun
  <2>1. /\ phase \in {"begin", "forward"} /\ phase' \in {"done", "failed", "crashed"}
        /\ UNCHANGED <<prompt, seq, generated, prompt_idx, committed>>
    BY <1>3 DEF ExitLoop, LayerFails, LayerOverrun, loopVars
  <2>2. Counters'
    BY <2>1 DEF Shape, Counters
  <2> QED
    BY <2>1, <2>2 DEF Shape, AtHead, InForward, InEmit
<1>4. CASE LayerForward \/ LayerForwardFailedMatmul
  <2>1. /\ phase = "forward" /\ phase' = "forward"
        /\ UNCHANGED <<prompt, loopVars, batch_toks, n_draft, do_sample, committed>>
    BY <1>4 DEF LayerForward, LayerForwardFailedMatmul, blockVars
  <2>2. Len(hidden') = Len(batch_toks)
    BY <1>4, <1>a DEF LayerForward, LayerForwardFailedMatmul, BlockLen
  <2>3. Counters'
    BY <2>1 DEF Shape, Counters, loopVars
  <2>4. InForward'
    BY <2>1, <2>2 DEF Shape, InForward, loopVars
  <2> QED
    BY <2>1, <2>3, <2>4 DEF Shape, AtHead, InEmit
<1>5. CASE FinishPrefillChunk
  <2>1. /\ phase = "forward" /\ phase' = "begin" /\ ~do_sample /\ pos' = pos + Len(batch_toks)
        /\ UNCHANGED <<prompt, seq, prompt_idx, generated, last_sampled, committed>>
    BY <1>5 DEF FinishPrefillChunk, BlockEnd, BlockLen
  <2>2. generated = 0 /\ prompt_idx = pos + Len(batch_toks) /\ prompt_idx < Len(prompt)
    BY <1>a, <1>b, <2>1 DEF Shape, InForward, Counters
  <2>3. Counters'
    BY <2>1 DEF Shape, Counters
  <2>4. AtHead'
    BY <2>1, <2>2 DEF AtHead
  <2> QED
    BY <2>1, <2>3, <2>4 DEF Shape, InForward, InEmit
<1>6. CASE SampleNext
  <2>1. PICK c \in Predictions(BlockLen) :
          Emitted(c) /\ phase' = IF c = Eos \/ ContextFull(pos') THEN "done" ELSE "begin"
    BY <1>6 DEF SampleNext
  <2>2. /\ phase = "forward" /\ do_sample /\ n_draft = 0 /\ pos' = pos + Len(batch_toks)
        /\ UNCHANGED <<prompt, prompt_idx, committed>>
    BY <1>6 DEF SampleNext, BlockEnd, BlockLen
  <2>3. BlockLen \in 1 .. Len(hidden) /\ generated < MaxTokens /\ prompt_idx = Len(prompt)
    BY <1>a, <1>b, <2>2 DEF Shape, InForward, Counters, BlockLen
  <2>4. c \in Token
    BY <2>1, <2>3, PredictionType
  <2>5. /\ Len(seq') = Len(seq) + 1 /\ seq'[Len(seq) + 1] = c
        /\ \A i \in 1 .. Len(seq) : seq'[i] = seq[i]
        /\ generated' = generated + 1 /\ last_sampled' = c
    BY <1>b, <2>1, <2>4, AppendProperties DEF Emitted
  <2>6. pos' = Len(seq) /\ Len(seq) <= NCtx
    BY <1>a, <1>b, <2>2, <2>3 DEF Shape, InForward, Counters
  <2>7. Counters'
    BY <1>a, <1>b, <2>2, <2>3, <2>5, <2>6 DEF Shape, Counters
  <2>8. AtHead'
    BY <1>a, <1>b, <2>1, <2>5, <2>6 DEF AtHead, ContextFull
  <2> QED
    BY <2>1, <2>2, <2>7, <2>8 DEF Shape, InForward, InEmit
<1>7. CASE VerifyDraft
  <2>1. PICK cand \in [1 .. BlockLen -> Token], matched \in 0 .. n_draft :
           /\ committed' = SubSeq(cand, 1, matched + 1)
           /\ pos' = AcceptedEnd(matched)
    BY <1>7 DEF VerifyDraft
  <2>2. /\ phase = "forward" /\ phase' = "emit" /\ n_draft > 0
        /\ UNCHANGED <<prompt, seq, prompt_idx, generated, last_sampled>>
    BY <1>7 DEF VerifyDraft
  <2>3. /\ BlockLen = n_draft + 1 /\ generated > 0 /\ generated < MaxTokens
        /\ pos = Len(seq) - 1 /\ pos < NCtx
    BY <1>a, <1>b, <2>2 DEF Shape, InForward, BlockLen
  <2>4. \A i \in 1 .. matched + 1 : cand[i] \in Token
    BY <1>b, <2>3
  <2>5. committed' \in Seq(Token) /\ Len(committed') = matched + 1
    BY <1>b, <2>1, <2>4, SubSeqProperties
  <2>6. committed' # <<>>
    BY <2>5, EmptySeq
  <2>7. pos' = Len(seq) + Len(committed') - 1
    BY <1>a, <1>b, <2>1, <2>3, <2>5 DEF AcceptedEnd, BlockEnd
  <2>8. Counters'
    BY <2>2 DEF Shape, Counters
  <2>9. InEmit'
    BY <1>a, <1>b, <2>2, <2>3, <2>6, <2>7 DEF InEmit
  <2> QED
    BY <2>2, <2>8, <2>9 DEF Shape, InForward, AtHead
<1>8. CASE EmitCommitted
  <2>1. /\ phase = "emit" /\ Emitted(Head(committed))
        /\ UNCHANGED <<prompt, pos, prompt_idx>>
    BY <1>8 DEF EmitCommitted
  <2>2. /\ committed # <<>> /\ pos = Len(seq) + Len(committed) - 1
        /\ generated > 0 /\ generated < MaxTokens /\ Len(seq) <= NCtx
    BY <2>1 DEF Shape, InEmit
  <2>3. /\ Head(committed) \in Token /\ Tail(committed) \in Seq(Token)
        /\ Len(Tail(committed)) = Len(committed) - 1
    BY <1>b, <2>2, HeadTailProperties
  <2>4. /\ Len(seq') = Len(seq) + 1 /\ seq'[Len(seq) + 1] = Head(committed)
        /\ \A i \in 1 .. Len(seq) : seq'[i] = seq[i]
        /\ generated' = generated + 1 /\ last_sampled' = Head(committed)
    BY <1>b, <2>1, <2>3, AppendProperties DEF Emitted
  <2>5. Counters'
    BY <1>a, <1>b, <2>1, <2>2, <2>4 DEF Shape, Counters
  <2>6. CASE Head(committed) = Eos \/ ContextFull(pos) \/ generated' >= MaxTokens
    <3>1. phase' = "done" /\ committed' = <<>>
      BY <1>8, <2>6 DEF EmitCommitted
    <3> QED
      BY <2>5, <3>1 DEF Shape, AtHead, InForward, InEmit
  <2>7. CASE ~(Head(committed) = Eos \/ ContextFull(pos) \/ generated' >= MaxTokens)
    <3>1. /\ committed' = Tail(committed)
          /\ phase' = IF Len(committed) = 1 THEN "begin" ELSE "emit"
          /\ pos < NCtx /\ generated' < MaxTokens
      BY <1>8, <1>b, <2>4, <2>7 DEF EmitCommitted, ContextFull
    <3>2. CASE Len(committed) = 1
      <4>1. Tail(committed) = <<>>
        <5>1. Tail(committed) \in Seq(Token) /\ Len(Tail(committed)) = 0
          BY <1>a, <2>3, <3>2
        <5> QED
          BY <5>1, EmptySeq
      <4>2. AtHead' /\ InForward' /\ InEmit'
        BY <1>a, <1>b, <2>1, <2>2, <2>4, <3>1, <3>2, <4>1 DEF AtHead, InForward, InEmit
      <4> QED
        BY <2>5, <4>2 DEF Shape
    <3>3. CASE Len(committed) # 1
      <4>1. Len(committed) \in Nat \ {0, 1}
        BY <1>b, <2>2, <3>3, EmptySeq
      <4>2. Tail(committed) # <<>>
        <5>1. Len(Tail(committed)) # 0
          BY <2>3, <4>1
        <5> QED
          BY <5>1, EmptySeq
      <4>3. AtHead' /\ InForward' /\ InEmit'
        BY <1>a, <1>b, <2>1, <2>2, <2>3, <2>4, <3>1, <3>3, <4>1, <4>2 DEF AtHead, InForward, InEmit
      <4> QED
        BY <2>5, <4>3 DEF Shape
    <3> QED
      BY <3>2, <3>3
  <2> QED
    BY <2>6, <2>7
<1> QED
  BY <1>1, <1>2, <1>3, <1>4, <1>5, <1>6, <1>7, <1>8 DEF Next

-----------------------------------------------------------------------------
(* Every action preserves what the cache and the hidden states hold.        *)

\* Sequences that agree up to n have the same prefix of length n.
LEMMA SamePrefix ==
  ASSUME NEW s \in Seq(Token), NEW t \in Seq(Token), NEW n \in Nat,
         n <= Len(s), n <= Len(t), \A i \in 1 .. n : s[i] = t[i]
  PROVE  SubSeq(s, 1, n) = SubSeq(t, 1, n)
<1>1. Len(s) \in Nat /\ Len(t) \in Nat
  BY LenProperties
<1>2. (\A i \in 1 .. n : s[i] \in Token) /\ (\A i \in 1 .. n : t[i] \in Token)
  BY <1>1, ElementOfSeq
<1>3. /\ SubSeq(s, 1, n) \in Seq(Token) /\ Len(SubSeq(s, 1, n)) = n
      /\ \A i \in 1 .. n : SubSeq(s, 1, n)[i] = s[i]
  BY <1>2, SubSeqProperties
<1>4. /\ SubSeq(t, 1, n) \in Seq(Token) /\ Len(SubSeq(t, 1, n)) = n
      /\ \A i \in 1 .. n : SubSeq(t, 1, n)[i] = t[i]
  BY <1>2, SubSeqProperties
<1> QED
  BY <1>3, <1>4, SeqEqual

\* A sequence whose elements are those of a prefix of s is that prefix.
LEMMA PrefixAsFunction ==
  ASSUME NEW s \in Seq(Token), NEW n \in Nat, n <= Len(s),
         NEW f, f = [j \in 1 .. n |-> s[j]]
  PROVE  f = SubSeq(s, 1, n)
<1>1. Len(s) \in Nat
  BY LenProperties
<1>2. \A i \in 1 .. n : s[i] \in Token
  BY <1>1, ElementOfSeq
<1>3. f \in Seq(Token) /\ Len(f) = n
  <2>1. f \in [1 .. n -> Token]
    BY <1>2
  <2> QED
    BY <2>1, FunctionIsSeq
<1>4. /\ SubSeq(s, 1, n) \in Seq(Token) /\ Len(SubSeq(s, 1, n)) = n
      /\ \A i \in 1 .. n : SubSeq(s, 1, n)[i] = s[i]
  BY <1>2, SubSeqProperties
<1> QED
  BY <1>3, <1>4, SeqEqual

\* The elements of the printed tokens followed by the accepted ones.
LEMMA ConcatParts ==
  ASSUME NEW s \in Seq(Token), NEW c \in Seq(Token)
  PROVE  /\ s \o c \in Seq(Token) /\ Len(s \o c) = Len(s) + Len(c)
         /\ \A i \in 1 .. Len(s) : (s \o c)[i] = s[i]
         /\ \A i \in 1 .. Len(c) : (s \o c)[Len(s) + i] = c[i]
<1>1. Len(s) \in Nat /\ Len(c) \in Nat
  BY LenProperties
<1>2. /\ s \o c \in Seq(Token) /\ Len(s \o c) = Len(s) + Len(c)
      /\ \A i \in 1 .. Len(s) + Len(c) :
           (s \o c)[i] = IF i <= Len(s) THEN s[i] ELSE c[i - Len(s)]
  BY <1>1, ConcatProperties
<1>3. ASSUME NEW i \in 1 .. Len(s) PROVE (s \o c)[i] = s[i]
  BY <1>1, <1>2
<1>4. ASSUME NEW i \in 1 .. Len(c) PROVE (s \o c)[Len(s) + i] = c[i]
  <2>1. /\ Len(s) + i \in 1 .. Len(s) + Len(c)
        /\ ~(Len(s) + i <= Len(s)) /\ (Len(s) + i) - Len(s) = i
    BY <1>1
  <2> QED
    BY <1>2, <2>1
<1> QED
  BY <1>2, <1>3, <1>4

\* Outside "emit" nothing is waiting to be printed.
LEMMA FullIsSeq ==
  ASSUME TypeOK, InEmit, phase # "emit"
  PROVE  Full = seq
<1>1. committed = <<>> /\ seq \in Seq(Token)
  BY DEF InEmit, TypeOK
<1> QED
  BY <1>1, ConcatEmptySeq DEF Full

\* The positions of a block in the forward pass continue those already fed.
LEMMA BlockPlace ==
  ASSUME TypeOK, Shape, phase = "forward"
  PROVE  /\ pos \in Nat /\ Len(batch_toks) \in Nat \ {0}
         /\ Len(hidden) = Len(batch_toks) /\ Full = seq /\ pos <= Len(seq)
         /\ pos < NCtx
         /\ generated = 0 => /\ pos + Len(batch_toks) <= Len(seq)
                             /\ \A i \in 1 .. Len(batch_toks) : batch_toks[i] = seq[pos + i]
<1> USE KVCacheAssumption, GenerateAssumption
<1>1. /\ pos \in Nat /\ n_draft \in Nat /\ generated \in Nat /\ prompt_idx \in Nat
      /\ Len(seq) \in Nat /\ Len(batch_toks) \in Nat /\ Len(prompt) \in Nat
  <2>1. prompt \in Seq(Token)
    BY DEF TypeOK
  <2> QED
    BY <2>1, LenProperties DEF TypeOK
<1>2. Full = seq
  BY FullIsSeq DEF Shape
<1>3. CASE generated = 0
  <2>1. /\ prompt_idx = pos + Len(batch_toks) /\ prompt_idx <= Len(prompt)
        /\ Len(batch_toks) > 0 /\ Len(seq) = Len(prompt)
        /\ pos < NCtx /\ Len(hidden) = Len(batch_toks)
    BY <1>1, <1>3 DEF Shape, InForward, Counters
  <2>2. ASSUME NEW i \in 1 .. Len(batch_toks) PROVE batch_toks[i] = seq[pos + i]
    <3>1. pos + i \in 1 .. Len(prompt)
      BY <1>1, <2>1
    <3>2. batch_toks[i] = prompt[pos + i]
      BY <1>3 DEF Shape, InForward
    <3>3. seq[pos + i] = prompt[pos + i]
      BY <3>1 DEF Shape, Counters
    <3> QED
      BY <3>2, <3>3
  <2> QED
    BY <1>1, <1>2, <2>1, <2>2
<1>4. CASE generated > 0
  BY <1>1, <1>2, <1>4 DEF Shape, InForward
<1> QED
  BY <1>1, <1>3, <1>4

\* One layer over a block writes the block's tokens and attends the prefix.
LEMMA LayerContents ==
  ASSUME TypeOK, Shape, Contents, LayerForward, TypeOK'
  PROVE  CommittedRows' /\ BlockRows' /\ BlockHidden'
<1> USE KVCacheAssumption, GenerateAssumption
<1>1. /\ phase = "forward" /\ phase' = "forward" /\ layer < NLayers /\ layer' = layer + 1
      /\ UpdateSlab(layer, pos, BlockEnd, Slab)
      /\ hidden' = [r \in 1 .. BlockLen |-> Attend(r)]
      /\ UNCHANGED <<seq, pos, batch_toks, committed>>
  BY DEF LayerForward, loopVars, blockVars
<1>2. /\ pos \in Nat /\ Len(batch_toks) \in Nat \ {0} /\ Len(hidden) = Len(batch_toks)
      /\ Full = seq /\ pos <= Len(seq) /\ pos < NCtx
  BY <1>1, BlockPlace
<1>3. /\ layer \in Nat /\ layer \in Layers /\ seq \in Seq(Token) /\ Len(seq) \in Nat
      /\ batch_toks \in Seq(Token) /\ BlockLen = Len(batch_toks)
      /\ BlockEnd = pos + Len(batch_toks)
      /\ rows \in [Layers -> [Positions -> Row]]
  BY <1>1, LenProperties DEF TypeOK, KVTypeOK, Layers, BlockLen, BlockEnd
<1>4. rows' = [rows EXCEPT ![layer] =
                 [p \in Positions |->
                    IF pos <= p /\ p < BlockEnd THEN Slab[p - pos + 1] ELSE rows[layer][p]]]
  <2>1. ~SlabRejected(layer, pos, BlockEnd)
    BY <1>1, <1>2, <1>3 DEF SlabRejected
  <2> QED
    BY <1>1, <2>1 DEF UpdateSlab
<1>5. ASSUME NEW r \in 1 .. Len(batch_toks), pos + r <= NCtx
      PROVE  /\ hidden[r].ok
             /\ hidden[r].ctx = IF layer = 0 THEN <<>>
                                ELSE [j \in 1 .. pos + r |-> FedToken(j - 1)]
  BY <1>1, <1>5 DEF Contents, BlockHidden
<1>6. ASSUME NEW p \in Positions
      PROVE  rows'[layer][p] = IF pos <= p /\ p < BlockEnd THEN batch_toks[p - pos + 1]
                                                           ELSE rows[layer][p]
  <2>1. rows'[layer][p] = IF pos <= p /\ p < BlockEnd THEN Slab[p - pos + 1] ELSE rows[layer][p]
    BY <1>3, <1>4
  <2>2. ASSUME pos <= p, p < BlockEnd PROVE Slab[p - pos + 1] = batch_toks[p - pos + 1]
    <3>1. p - pos + 1 \in 1 .. Len(batch_toks) /\ pos + (p - pos + 1) <= NCtx
      BY <1>2, <1>3, <2>2 DEF Positions
    <3>2. hidden[p - pos + 1].ok
      BY <1>5, <3>1
    <3> QED
      BY <1>3, <3>1, <3>2 DEF Slab
  <2> QED
    BY <2>1, <2>2
<1>7. ASSUME NEW l \in Layers, l # layer PROVE rows'[l] = rows[l]
  BY <1>3, <1>4, <1>7
<1>8. ASSUME NEW l \in Layers, NEW p \in Positions, p < pos PROVE rows'[l][p] = seq[p + 1]
  <2>1. rows[l][p] = seq[p + 1]
    BY <1>1, <1>2, <1>8 DEF Contents, CommittedRows, Running
  <2>2. rows'[l][p] = rows[l][p]
    <3>1. CASE l = layer
      BY <1>2, <1>6, <1>8, <3>1 DEF Positions
    <3>2. CASE l # layer
      BY <1>7, <3>2
    <3> QED
      BY <3>1, <3>2
  <2> QED
    BY <2>1, <2>2
<1>9. CommittedRows'
  <2>1. Full' = seq
    BY <1>1, <1>2 DEF Full
  <2> QED
    BY <1>1, <1>8, <2>1 DEF CommittedRows
<1>10. BlockRows'
  <2> SUFFICES ASSUME NEW l \in Layers, NEW p \in Positions,
                      l < layer + 1, pos <= p, p < pos + Len(batch_toks)
               PROVE  rows'[l][p] = batch_toks[p - pos + 1]
    BY <1>1 DEF BlockRows
  <2>1. CASE l = layer
    BY <1>3, <1>6, <2>1
  <2>2. CASE l # layer
    <3>1. l < layer
      BY <1>3, <2>2 DEF Layers
    <3> QED
      BY <1>1, <1>7, <2>2, <3>1 DEF Contents, BlockRows
  <2> QED
    BY <2>1, <2>2
<1>11. BlockHidden'
  <2> SUFFICES ASSUME NEW r \in 1 .. Len(batch_toks), pos + r <= NCtx
               PROVE  /\ hidden'[r].ok
                      /\ hidden'[r].ctx = [j \in 1 .. pos + r |-> FedToken(j - 1)]
    <3>1. layer' # 0 /\ \A p : FedToken(p)' = FedToken(p)
      BY <1>1, <1>3 DEF FedToken
    <3> QED
      BY <1>1, <3>1 DEF BlockHidden
  <2>1. ASSUME NEW j \in 1 .. pos + r
        PROVE  RowAfterWrite(j - 1) = FedToken(j - 1) /\ FedToken(j - 1) \in Token
    <3>1. j - 1 \in Positions /\ Mapped(j - 1) /\ j - 1 < BlockEnd
      BY <1>2, <1>3 DEF Positions, Mapped
    <3>2. RowAfterWrite(j - 1) = rows'[layer][j - 1]
      BY <3>1 DEF RowAfterWrite
    <3>3. CASE j - 1 < pos
      <4>1. rows'[layer][j - 1] = seq[j]
        BY <1>3, <1>8, <3>1, <3>3
      <4>2. j \in 1 .. Len(seq)
        BY <1>2, <1>3, <3>3
      <4>3. seq[j] \in Token
        BY <1>3, <4>2, ElementOfSeq
      <4> QED
        BY <3>2, <3>3, <4>1, <4>3 DEF FedToken
    <3>4. CASE ~(j - 1 < pos)
      <4>1. pos <= j - 1 /\ j - 1 - pos + 1 \in 1 .. Len(batch_toks)
        BY <1>2, <3>1, <3>4
      <4>2. batch_toks[j - 1 - pos + 1] \in Token
        BY <1>3, <4>1, ElementOfSeq
      <4> QED
        BY <1>6, <3>1, <3>2, <3>4, <4>1, <4>2 DEF FedToken
    <3> QED
      BY <3>3, <3>4
  <2>2. View(r) = [j \in 1 .. pos + r |-> FedToken(j - 1)]
    BY <2>1 DEF View
  <2>3. \A j \in 1 .. pos + r : View(r)[j] # NoRow
    BY <2>1, <2>2
  <2>4. hidden[r].ok /\ hidden[r].ctx \in {<<>>, View(r)}
    BY <1>5, <2>2
  <2>5. Attend(r) = [ok |-> TRUE, ctx |-> View(r)]
    BY <2>3, <2>4 DEF Attend
  <2>6. hidden'[r] = Attend(r)
    BY <1>1, <1>3
  <2> QED
    BY <2>2, <2>5, <2>6
<1> QED
  BY <1>9, <1>10, <1>11

\* After the last layer: the row of the last token of the sequence predicts
\* the next one, and it is the greedy token.
LEMMA SampleContents ==
  ASSUME GreedyIsToken, TypeOK, Shape, Contents, SampleNext, TypeOK', Shape'
  PROVE  Contents'
<1> USE KVCacheAssumption, GenerateAssumption
<1>1. PICK c \in Predictions(BlockLen) :
        Emitted(c) /\ phase' = IF c = Eos \/ ContextFull(pos') THEN "done" ELSE "begin"
  BY DEF SampleNext
<1>2. /\ phase = "forward" /\ layer = NLayers /\ do_sample /\ n_draft = 0
      /\ pos' = BlockEnd /\ BlockEnd = pos + Len(batch_toks) /\ BlockLen = Len(batch_toks)
      /\ phase' # "forward" /\ phase' # "emit" /\ phase # "emit"
      /\ UNCHANGED <<rows, weights, prompt, committed>>
  BY <1>1 DEF SampleNext, BlockEnd, BlockLen, kvVars
<1>3. /\ pos \in Nat /\ Len(batch_toks) \in Nat \ {0} /\ Len(hidden) = Len(batch_toks)
      /\ Full = seq /\ pos <= Len(seq) /\ pos < NCtx
      /\ generated = 0 => /\ pos + Len(batch_toks) <= Len(seq)
                          /\ \A i \in 1 .. Len(batch_toks) : batch_toks[i] = seq[pos + i]
  BY <1>2, BlockPlace
<1>4. seq \in Seq(Token) /\ Len(seq) \in Nat /\ Len(prompt) \in Nat /\ generated \in Nat
  <2>1. prompt \in Seq(Token)
    BY DEF TypeOK
  <2> QED
    BY <2>1, LenProperties DEF TypeOK
<1>5. BlockEnd = Len(seq) /\ BlockEnd <= NCtx
  <2>1. CASE generated = 0
    <3>1. prompt_idx = Len(prompt) /\ prompt_idx = pos + Len(batch_toks) /\ Len(seq) = Len(prompt)
      BY <1>2, <1>4, <2>1 DEF Shape, InForward, Counters
    <3>2. Len(seq') = Len(seq) + 1 /\ Len(seq') <= NCtx + 1
      <4>1. c \in Token
        BY <1>2, <1>3, <1>1, PredictionType
      <4>2. Len(seq') = Len(seq) + 1
        BY <1>1, <1>4, <4>1, AppendProperties DEF Emitted
      <4>3. Len(seq') <= NCtx + 1
        BY DEF Shape, Counters
      <4> QED
        BY <4>2, <4>3
    <3>3. BlockEnd = Len(seq)
      BY <1>2, <3>1
    <3>4. Len(seq) <= NCtx
      BY <1>4, <3>2
    <3> QED
      BY <3>3, <3>4
  <2>2. CASE generated > 0
    <3>1. pos = Len(seq) - 1 /\ Len(batch_toks) = n_draft + 1
      BY <1>2, <2>2 DEF Shape, InForward
    <3> QED
      BY <1>2, <1>3, <1>4, <3>1
  <2> QED
    BY <1>4, <2>1, <2>2
<1>6. ASSUME NEW p \in Nat, p < BlockEnd PROVE FedToken(p) = seq[p + 1]
  <2>1. CASE p < pos
    BY <2>1 DEF FedToken
  <2>2. CASE ~(p < pos) /\ generated = 0
    <3>1. p - pos + 1 \in 1 .. Len(batch_toks) /\ pos + (p - pos + 1) = p + 1
      BY <1>2, <1>3, <1>6, <2>2
    <3> QED
      BY <1>3, <2>2, <3>1 DEF FedToken
  <2>3. CASE ~(p < pos) /\ generated > 0
    <3>1. pos = Len(seq) - 1 /\ batch_toks[1] = seq[Len(seq)]
      BY <1>2, <2>3 DEF Shape, InForward
    <3>2. p = pos /\ p - pos + 1 = 1 /\ p + 1 = Len(seq)
      BY <1>3, <1>4, <1>5, <1>6, <2>3, <3>1
    <3> QED
      BY <2>3, <3>1, <3>2 DEF FedToken
  <2> QED
    BY <1>4, <2>1, <2>2, <2>3
<1>7. hidden[BlockLen].ok /\ hidden[BlockLen].ctx = seq
  <2>1. BlockLen \in 1 .. Len(batch_toks) /\ pos + BlockLen <= NCtx /\ layer # 0
        /\ pos + BlockLen = Len(seq)
    BY <1>2, <1>3, <1>5
  <2>2. /\ hidden[BlockLen].ok
        /\ hidden[BlockLen].ctx = [j \in 1 .. Len(seq) |-> FedToken(j - 1)]
    BY <1>2, <2>1 DEF Contents, BlockHidden
  <2>3. \A j \in 1 .. Len(seq) : FedToken(j - 1) = seq[j]
    BY <1>4, <1>5, <1>6
  <2>4. [j \in 1 .. Len(seq) |-> FedToken(j - 1)] = [j \in 1 .. Len(seq) |-> seq[j]]
    BY <2>3
  <2> QED
    BY <1>4, <2>2, <2>4, LenProperties
<1>8. c = Greedy(weights, seq) /\ c \in Token
  BY <1>1, <1>2, <1>3, <1>7, PredictionType DEF Predictions
<1>9. /\ seq' = Append(seq, c) /\ seq' \in Seq(Token) /\ Len(seq') = Len(seq) + 1
      /\ seq'[Len(seq) + 1] = c /\ \A i \in 1 .. Len(seq) : seq'[i] = seq[i]
  BY <1>1, <1>4, <1>8, AppendProperties DEF Emitted
<1>10. Full' = seq'
  <2>1. committed' = <<>>
    BY <1>2 DEF Shape, InEmit
  <2> QED
    BY <1>9, <2>1, ConcatEmptySeq DEF Full
<1>11. CommittedRows'
  <2> SUFFICES ASSUME NEW l \in Layers, NEW p \in Positions, p < BlockEnd
               PROVE  rows[l][p] = seq'[p + 1]
    BY <1>2, <1>10 DEF CommittedRows
  <2>1. p \in Nat /\ l < layer /\ p + 1 \in 1 .. Len(seq)
    BY <1>2, <1>4, <1>5 DEF Positions, Layers
  <2>2. CASE p < pos
    BY <1>2, <1>3, <1>9, <2>1, <2>2 DEF Contents, CommittedRows, Running
  <2>3. CASE ~(p < pos)
    <3>1. rows[l][p] = FedToken(p)
      BY <1>2, <1>3, <2>1, <2>3 DEF Contents, BlockRows, FedToken
    <3> QED
      BY <1>6, <1>9, <2>1, <3>1
  <2> QED
    BY <2>2, <2>3
<1>12. FullIsGreedy'
  <2> SUFFICES ASSUME NEW i \in Len(prompt) + 1 .. Len(seq) + 1
               PROVE  seq'[i] = Greedy(weights, SubSeq(seq', 1, i - 1))
    BY <1>2, <1>9, <1>10 DEF FullIsGreedy
  <2>1. i \in Nat /\ i - 1 \in Nat /\ i - 1 <= Len(seq) /\ i - 1 <= Len(seq')
    BY <1>4, <1>9
  <2>2. SubSeq(seq', 1, i - 1) = SubSeq(seq, 1, i - 1)
    BY <1>4, <1>9, <2>1, SamePrefix
  <2>3. CASE i = Len(seq) + 1
    <3>1. SubSeq(seq, 1, i - 1) = seq
      BY <1>4, <2>3, SubSeqFull
    <3> QED
      BY <1>8, <1>9, <2>2, <2>3, <3>1
  <2>4. CASE i # Len(seq) + 1
    <3>1. i \in Len(prompt) + 1 .. Len(seq) /\ i \in 1 .. Len(seq) /\ i <= NCtx + 1
      BY <1>4, <1>5, <2>4
    <3>2. seq[i] = Greedy(weights, SubSeq(seq, 1, i - 1))
      BY <1>3, <3>1 DEF Contents, FullIsGreedy
    <3> QED
      BY <1>9, <2>2, <3>1, <3>2
  <2> QED
    BY <2>3, <2>4
<1> QED
  BY <1>2, <1>11, <1>12 DEF Contents, BlockRows, BlockHidden

\* Verification: the accepted tokens are the drafted ones, so the rows they
\* left in the cache are their own, and every candidate up to the correction
\* was predicted from a prefix of the sequence.
LEMMA VerifyContents ==
  ASSUME GreedyIsToken, TypeOK, Shape, Contents, VerifyDraft, TypeOK'
  PROVE  Contents'
<1> USE KVCacheAssumption, GenerateAssumption
<1>1. PICK cand \in [1 .. BlockLen -> Token], m \in 0 .. n_draft :
        /\ \A r \in 1 .. BlockLen : cand[r] \in Predictions(r)
        /\ Accepted(cand, m)
        /\ committed' = SubSeq(cand, 1, m + 1)
        /\ pos' = AcceptedEnd(m)
  BY DEF VerifyDraft
<1>2. /\ phase = "forward" /\ phase' = "emit" /\ layer = NLayers /\ n_draft > 0
      /\ UNCHANGED <<rows, weights, prompt, seq>>
      /\ BlockEnd = pos + Len(batch_toks) /\ BlockLen = Len(batch_toks)
  BY DEF VerifyDraft, BlockEnd, BlockLen, kvVars
<1>3. /\ pos \in Nat /\ Len(hidden) = Len(batch_toks) /\ Full = seq /\ pos < NCtx
  BY <1>2, BlockPlace
<1>4. /\ seq \in Seq(Token) /\ Len(seq) \in Nat /\ Len(prompt) \in Nat
      /\ generated \in Nat /\ n_draft \in Nat /\ m \in Nat /\ m <= n_draft
  <2>1. prompt \in Seq(Token)
    BY DEF TypeOK
  <2> QED
    BY <2>1, LenProperties DEF TypeOK
<1>5. /\ generated > 0 /\ pos = Len(seq) - 1 /\ Len(seq) = pos + 1
      /\ Len(batch_toks) = n_draft + 1 /\ batch_toks[1] = seq[Len(seq)]
  <2>1. generated > 0
    BY <1>2, <1>4 DEF Shape, InForward
  <2> QED
    BY <1>2, <1>3, <1>4, <2>1 DEF Shape, InForward
<1>6. pos' = pos + m + 1
  BY <1>1, <1>2, <1>3, <1>4, <1>5 DEF AcceptedEnd
<1>7. /\ committed' \in Seq(Token) /\ Len(committed') = m + 1
      /\ \A i \in 1 .. m + 1 : committed'[i] = cand[i]
  <2>1. \A i \in 1 .. m + 1 : cand[i] \in Token
    <3>1. cand \in [1 .. n_draft + 1 -> Token]
      BY <1>2, <1>5
    <3>2. \A i \in 1 .. m + 1 : i \in 1 .. n_draft + 1
      BY <1>4
    <3> QED
      BY <3>1, <3>2
  <2> QED
    BY <1>1, <1>4, <2>1, SubSeqProperties
<1>8. /\ Full' \in Seq(Token) /\ Len(Full') = Len(seq) + m + 1
      /\ \A i \in 1 .. Len(seq) : Full'[i] = seq[i]
      /\ \A i \in 1 .. m + 1 : Full'[Len(seq) + i] = cand[i]
  <2>1. /\ Full' \in Seq(Token) /\ Len(Full') = Len(seq) + Len(committed')
        /\ \A i \in 1 .. Len(seq) : Full'[i] = seq[i]
        /\ \A i \in 1 .. Len(committed') : Full'[Len(seq) + i] = committed'[i]
    <3>1. Full' = seq \o committed'
      BY <1>2 DEF Full
    <3>2. seq \in Seq(Token) /\ committed' \in Seq(Token)
      BY <1>4, <1>7
    <3> QED
      BY <3>1, <3>2, ConcatParts
  <2>2. Full' \in Seq(Token) /\ Len(Full') = Len(seq) + m + 1
    BY <1>2, <1>4, <1>7, <2>1
  <2>3. \A i \in 1 .. Len(seq) : Full'[i] = seq[i]
    BY <1>2, <2>1
  <2>4. \A i \in 1 .. m + 1 : Full'[Len(seq) + i] = cand[i]
    BY <1>2, <1>7, <2>1
  <2> QED
    BY <2>2, <2>3, <2>4
<1>9. ASSUME NEW p \in Nat, p <= pos + m PROVE FedToken(p) = Full'[p + 1]
  <2>1. CASE p < pos
    <3>1. p + 1 \in 1 .. Len(seq)
      BY <1>3, <1>5, <2>1
    <3> QED
      BY <1>8, <2>1, <3>1 DEF FedToken
  <2>2. CASE p = pos
    <3>1. FedToken(p) = batch_toks[1]
      BY <1>3, <2>2 DEF FedToken
    <3>2. p + 1 = Len(seq) /\ Len(seq) \in 1 .. Len(seq)
      BY <1>3, <1>4, <1>5, <2>2
    <3> QED
      BY <1>5, <1>8, <3>1, <3>2
  <2>3. CASE p > pos
    <3>1. /\ p - pos \in 1 .. m /\ p - pos \in 1 .. m + 1
          /\ p + 1 = Len(seq) + (p - pos) /\ ~(p < pos)
      BY <1>3, <1>4, <1>5, <1>9, <2>3
    <3>2. FedToken(p) = batch_toks[p - pos + 1]
      BY <3>1 DEF FedToken
    <3>3. cand[p - pos] = batch_toks[p - pos + 1]
      BY <1>1, <3>1 DEF Accepted
    <3>4. Full'[Len(seq) + (p - pos)] = cand[p - pos]
      BY <1>8, <3>1
    <3> QED
      BY <3>1, <3>2, <3>3, <3>4
  <2> QED
    BY <1>3, <2>1, <2>2, <2>3
<1>10. CommittedRows'
  <2> SUFFICES ASSUME NEW l \in Layers, NEW p \in Positions, p < pos + m + 1
               PROVE  rows[l][p] = Full'[p + 1]
    BY <1>2, <1>6 DEF CommittedRows
  <2>1. p \in Nat /\ l < layer
    BY <1>2 DEF Positions, Layers
  <2>2. rows[l][p] = FedToken(p)
    <3>1. CASE p < pos
      BY <1>2, <1>3, <3>1 DEF Contents, CommittedRows, Running, FedToken
    <3>2. CASE ~(p < pos)
      <4>1. pos <= p /\ p < pos + Len(batch_toks)
        BY <1>3, <1>4, <1>5, <2>1, <3>2
      <4> QED
        BY <1>2, <2>1, <3>2, <4>1 DEF Contents, BlockRows, FedToken
    <3> QED
      BY <3>1, <3>2
  <2>3. p <= pos + m
    BY <1>3, <1>4, <2>1
  <2> QED
    BY <1>9, <2>1, <2>2, <2>3
<1>11. FullIsGreedy'
  <2> SUFFICES ASSUME NEW i \in Len(prompt) + 1 .. Len(Full'), i <= NCtx + 1
               PROVE  Full'[i] = Greedy(weights, SubSeq(Full', 1, i - 1))
    BY <1>2 DEF FullIsGreedy
  <2>1. i \in Nat /\ i - 1 \in Nat /\ i - 1 <= Len(Full')
    BY <1>4, <1>8
  <2>2. CASE i <= Len(seq)
    <3>1. i \in Len(prompt) + 1 .. Len(Full) /\ i - 1 <= Len(seq)
      BY <1>3, <1>4, <2>1, <2>2
    <3>2. seq[i] = Greedy(weights, SubSeq(seq, 1, i - 1))
      BY <1>3, <3>1 DEF Contents, FullIsGreedy
    <3>3. \A j \in 1 .. i - 1 : Full'[j] = seq[j]
      BY <1>4, <1>8, <2>1, <2>2
    <3>4. SubSeq(Full', 1, i - 1) = SubSeq(seq, 1, i - 1)
      BY <1>4, <1>8, <2>1, <3>1, <3>3, SamePrefix
    <3>5. Full'[i] = seq[i]
      BY <1>4, <1>8, <2>2, <2>1
    <3> QED
      BY <3>2, <3>4, <3>5
  <2>3. CASE i > Len(seq)
    <3> DEFINE k == i - Len(seq)
    <3>1. /\ k \in 1 .. m + 1 /\ k \in 1 .. Len(batch_toks) /\ i = Len(seq) + k
          /\ pos + k <= NCtx /\ pos + k = i - 1
      BY <1>3, <1>4, <1>5, <1>8, <2>1, <2>3
    <3>2. /\ hidden[k].ok
          /\ hidden[k].ctx = [j \in 1 .. i - 1 |-> FedToken(j - 1)]
      <4>1. layer # 0
        BY <1>2
      <4> QED
        BY <1>2, <3>1, <4>1 DEF Contents, BlockHidden
    <3>3. \A j \in 1 .. i - 1 : FedToken(j - 1) = Full'[j]
      <4> TAKE j \in 1 .. i - 1
      <4>1. j - 1 \in Nat /\ j - 1 <= pos + m /\ (j - 1) + 1 = j
        BY <1>3, <1>4, <2>1, <3>1
      <4> QED
        BY <1>9, <4>1
    <3>4. hidden[k].ctx = [j \in 1 .. i - 1 |-> Full'[j]]
      BY <3>2, <3>3
    <3>5. hidden[k].ctx = SubSeq(Full', 1, i - 1)
      BY <1>8, <2>1, <3>4, PrefixAsFunction
    <3>6. cand[k] = Greedy(weights, SubSeq(Full', 1, i - 1))
      BY <1>1, <1>2, <3>1, <3>2, <3>5 DEF Predictions
    <3>7. Full'[i] = cand[k]
      BY <1>8, <3>1
    <3> QED
      BY <3>6, <3>7
  <2> QED
    BY <1>4, <2>1, <2>2, <2>3
<1> QED
  BY <1>2, <1>10, <1>11 DEF Contents, BlockRows, BlockHidden

\* Printing an accepted token moves it from one part of Full to the other;
\* stopping early drops the end of Full.
LEMMA EmitContents ==
  ASSUME TypeOK, Shape, Contents, EmitCommitted, TypeOK'
  PROVE  Contents'
<1> USE KVCacheAssumption, GenerateAssumption
<1>1. /\ phase = "emit" /\ seq' = Append(seq, Head(committed))
      /\ UNCHANGED <<rows, weights, prompt, pos>>
      /\ \/ phase' = "done" /\ committed' = <<>>
         \/ phase' \in {"begin", "emit"} /\ committed' = Tail(committed)
  BY DEF EmitCommitted, Emitted, kvVars
<1>2. /\ seq \in Seq(Token) /\ committed \in Seq(Token) /\ committed # <<>>
      /\ Len(seq) \in Nat /\ Len(committed) \in Nat /\ Len(committed) > 0 /\ Len(prompt) \in Nat
  <2>1. prompt \in Seq(Token) /\ committed # <<>>
    BY <1>1 DEF TypeOK, Shape, InEmit
  <2> QED
    BY <2>1, LenProperties, EmptySeq DEF TypeOK
<1>3. /\ Full \in Seq(Token) /\ Len(Full) = Len(seq) + Len(committed)
      /\ \A i \in 1 .. Len(seq) : Full[i] = seq[i]
      /\ \A i \in 1 .. Len(committed) : Full[Len(seq) + i] = committed[i]
  BY <1>2, ConcatParts DEF Full
<1>4. Head(committed) = committed[1] /\ Head(committed) \in Token
  BY <1>2, HeadTailProperties
<1>5. /\ seq' \in Seq(Token) /\ Len(seq') = Len(seq) + 1
      /\ seq'[Len(seq) + 1] = Head(committed) /\ \A i \in 1 .. Len(seq) : seq'[i] = seq[i]
  BY <1>1, <1>2, <1>4, AppendProperties
<1>6. \A i \in 1 .. Len(seq) + 1 : seq'[i] = Full[i]
  <2> TAKE i \in 1 .. Len(seq) + 1
  <2>1. CASE i <= Len(seq)
    BY <1>2, <1>3, <1>5, <2>1
  <2>2. CASE i = Len(seq) + 1
    <3>1. 1 \in 1 .. Len(committed)
      BY <1>2
    <3> QED
      BY <1>3, <1>4, <1>5, <2>2, <3>1
  <2> QED
    BY <1>2, <2>1, <2>2
<1>7. CASE phase' = "done" /\ committed' = <<>>
  <2>1. Full' = seq'
    BY <1>5, <1>7, ConcatEmptySeq DEF Full
  <2>2. FullIsGreedy'
    <3> SUFFICES ASSUME NEW i \in Len(prompt) + 1 .. Len(seq) + 1, i <= NCtx + 1
                 PROVE  seq'[i] = Greedy(weights, SubSeq(seq', 1, i - 1))
      BY <1>1, <1>5, <2>1 DEF FullIsGreedy
    <3>1. /\ i \in Len(prompt) + 1 .. Len(Full) /\ i \in 1 .. Len(seq) + 1
          /\ i - 1 \in Nat /\ i - 1 <= Len(Full) /\ i - 1 <= Len(seq')
      BY <1>2, <1>3, <1>5
    <3>2. Full[i] = Greedy(weights, SubSeq(Full, 1, i - 1))
      BY <3>1 DEF Contents, FullIsGreedy
    <3>3. \A j \in 1 .. i - 1 : seq'[j] = Full[j]
      <4> TAKE j \in 1 .. i - 1
      <4>1. j \in 1 .. Len(seq) + 1
        BY <1>2, <3>1
      <4> QED
        BY <1>6, <4>1
    <3>4. SubSeq(seq', 1, i - 1) = SubSeq(Full, 1, i - 1)
      BY <1>3, <1>5, <3>1, <3>3, SamePrefix
    <3> QED
      BY <1>6, <3>1, <3>2, <3>4
  <2> QED
    BY <1>7, <2>2 DEF Contents, CommittedRows, BlockRows, BlockHidden, Running
<1>8. CASE phase' \in {"begin", "emit"} /\ committed' = Tail(committed)
  <2>1. Full' = Full
    <3>1. /\ Tail(committed) \in Seq(Token) /\ Len(Tail(committed)) = Len(committed) - 1
          /\ \A i \in 1 .. Len(Tail(committed)) : Tail(committed)[i] = committed[i + 1]
      BY <1>2, HeadTailProperties
    <3>2. Full' = seq' \o Tail(committed)
      BY <1>8 DEF Full
    <3>3. /\ Full' \in Seq(Token) /\ Len(Full') = Len(seq') + Len(Tail(committed))
          /\ \A i \in 1 .. Len(seq') : Full'[i] = seq'[i]
          /\ \A i \in 1 .. Len(Tail(committed)) : Full'[Len(seq') + i] = Tail(committed)[i]
      BY <1>5, <3>1, <3>2, ConcatParts
    <3>4. Len(Full') = Len(Full)
      BY <1>2, <1>3, <1>5, <3>1, <3>3
    <3>5. ASSUME NEW i \in 1 .. Len(Full) PROVE Full'[i] = Full[i]
      <4>1. CASE i <= Len(seq) + 1
        BY <1>2, <1>5, <1>6, <3>3, <4>1
      <4>2. CASE i > Len(seq) + 1
        <5> DEFINE k == i - (Len(seq) + 1)
        <5>1. /\ k \in 1 .. Len(Tail(committed)) /\ k + 1 \in 1 .. Len(committed)
              /\ i = Len(seq') + k /\ i = Len(seq) + (k + 1)
          BY <1>2, <1>3, <1>5, <3>1, <4>2
        <5> HIDE DEF k
        <5>2. Full'[i] = committed[k + 1]
          BY <3>1, <3>3, <5>1
        <5>3. Full[i] = committed[k + 1]
          BY <1>3, <5>1
        <5> QED
          BY <5>2, <5>3
      <4> QED
        BY <1>2, <1>3, <4>1, <4>2
    <3> QED
      BY <1>3, <3>3, <3>4, <3>5, SeqEqual
  <2>2. CommittedRows'
    BY <1>1, <2>1 DEF Contents, CommittedRows, Running
  <2>3. FullIsGreedy'
    BY <1>1, <2>1 DEF Contents, FullIsGreedy
  <2> QED
    BY <1>8, <2>2, <2>3 DEF Contents, BlockRows, BlockHidden
<1> QED
  BY <1>1, <1>7, <1>8

\* Contents survives every step on which no projection fails.
LEMMA ContentsStep ==
  ASSUME GreedyIsToken, TypeOK, Shape, Contents, Next, TypeOK', Shape', ~matmulFailed'
  PROVE  Contents'
<1> USE KVCacheAssumption, GenerateAssumption
<1>1. ASSUME NEW block, NEW d, NEW smp, StartBlock(block, d, smp), phase = "begin",
             UNCHANGED <<rows, weights, prompt, seq, pos, committed>>
      PROVE  Contents'
  <2>1. Full' = Full /\ phase' = "forward" /\ layer' = 0 /\ batch_toks' = block
    BY <1>1 DEF Full, StartBlock
  <2>2. CommittedRows' /\ FullIsGreedy'
    BY <1>1, <2>1 DEF Contents, CommittedRows, FullIsGreedy, Running
  <2>3. BlockRows'
    BY <2>1 DEF BlockRows, Layers
  <2>4. BlockHidden'
    BY <1>1, <2>1 DEF BlockHidden, StartBlock, Embedded
  <2> QED
    BY <2>2, <2>3, <2>4 DEF Contents
<1>2. CASE BeginPrefill
  <2>1. StartBlock(SubSeq(prompt, prompt_idx + 1, prompt_idx'), 0, prompt_idx' >= Len(prompt))
    BY <1>2 DEF BeginPrefill
  <2> QED
    BY <1>1, <1>2, <2>1 DEF BeginPrefill, AtLoopHead, kvVars
<1>3. CASE BeginDecode
  <2>1. PICK d \in Drafts(seq) : StartBlock(<<last_sampled>> \o d, Len(d), TRUE)
    BY <1>3 DEF BeginDecode
  <2> QED
    BY <1>1, <1>3, <2>1 DEF BeginDecode, AtLoopHead, kvVars, loopVars
<1>4. CASE ExitLoop \/ LayerFails \/ LayerOverrun
  <2>1. /\ phase' \in {"done", "failed", "crashed"}
        /\ UNCHANGED <<rows, weights, prompt, seq, pos, committed>>
    BY <1>4 DEF ExitLoop, LayerFails, LayerOverrun, kvVars, loopVars
  <2>2. Full' = Full
    BY <2>1 DEF Full
  <2> QED
    BY <2>1, <2>2 DEF Contents, CommittedRows, FullIsGreedy, BlockRows, BlockHidden, Running
<1>5. CASE LayerForward
  <2>1. CommittedRows' /\ BlockRows' /\ BlockHidden'
    BY <1>5, LayerContents
  <2>2. FullIsGreedy'
    BY <1>5 DEF LayerForward, Contents, FullIsGreedy, Full, loopVars
  <2> QED
    BY <2>1, <2>2 DEF Contents
<1>6. CASE LayerForwardFailedMatmul
  BY <1>6 DEF LayerForwardFailedMatmul
<1>7. CASE FinishPrefillChunk
  <2>1. /\ phase = "forward" /\ phase' = "begin" /\ ~do_sample /\ layer = NLayers
        /\ pos' = pos + Len(batch_toks)
        /\ UNCHANGED <<rows, weights, prompt, seq, committed>>
    BY <1>7 DEF FinishPrefillChunk, BlockEnd, BlockLen, kvVars
  <2>2. generated = 0
    <3>1. generated \in Nat
      BY DEF TypeOK
    <3> QED
      BY <2>1, <3>1 DEF Shape, InForward
  <2>3. /\ pos \in Nat /\ Len(batch_toks) \in Nat /\ Full = seq
        /\ \A i \in 1 .. Len(batch_toks) : batch_toks[i] = seq[pos + i]
    BY <2>1, <2>2, BlockPlace
  <2>4. Full' = seq
    BY <2>1, <2>3 DEF Full
  <2>5. CommittedRows'
    <3> SUFFICES ASSUME NEW l \in Layers, NEW p \in Positions, p < pos + Len(batch_toks)
                 PROVE  rows[l][p] = seq[p + 1]
      BY <2>1, <2>4 DEF CommittedRows
    <3>1. CASE p < pos
      BY <2>1, <2>3, <3>1 DEF Contents, CommittedRows, Running
    <3>2. CASE ~(p < pos)
      <4>1. /\ pos <= p /\ l < layer /\ p - pos + 1 \in 1 .. Len(batch_toks)
            /\ pos + (p - pos + 1) = p + 1
        BY <2>1, <2>3, <3>2 DEF Positions, Layers
      <4>2. rows[l][p] = batch_toks[p - pos + 1]
        BY <2>1, <4>1 DEF Contents, BlockRows
      <4> QED
        BY <2>3, <4>1, <4>2
    <3> QED
      BY <3>1, <3>2
  <2>6. FullIsGreedy'
    BY <2>1, <2>3, <2>4 DEF Contents, FullIsGreedy
  <2> QED
    BY <2>1, <2>5, <2>6 DEF Contents, BlockRows, BlockHidden
<1> QED
  BY <1>2, <1>3, <1>4, <1>5, <1>6, <1>7, SampleContents, VerifyContents, EmitContents DEF Next

-----------------------------------------------------------------------------
(* The theorems.                                                            *)

\* The invariant survives every step, whatever the model predicts.
LEMMA StepIInv ==
  ASSUME PromptsFit, GreedyIsToken, IInv, [Next]_vars
  PROVE  IInv'
<1>1. CASE Next
  <2>1. TypeOK'
    BY <1>1, TypeStep DEF IInv
  <2>2. Shape'
    BY <1>1, ShapeStep DEF IInv
  <2>3. ASSUME ~matmulFailed' PROVE Contents'
    <3>1. ~matmulFailed
      BY <1>1, <2>3 DEF Next, BeginPrefill, BeginDecode, ExitLoop, LayerForward,
           LayerForwardFailedMatmul, LayerFails, LayerOverrun, FinishPrefillChunk,
           SampleNext, VerifyDraft, EmitCommitted
    <3> QED
      BY <1>1, <2>1, <2>2, <2>3, <3>1, ContentsStep DEF IInv
  <2> QED
    BY <2>1, <2>2, <2>3 DEF IInv
<1>2. CASE UNCHANGED vars
  <2>1. UNCHANGED <<rows, current_pos, weights, prompt, seq, pos, prompt_idx, generated,
                    last_sampled, batch_toks, n_draft, do_sample, layer, hidden, committed,
                    phase, matmulFailed>>
    BY <1>2 DEF vars, kvVars, loopVars, blockVars
  <2>2. TypeOK'
    BY <2>1 DEF IInv, TypeOK, KVTypeOK
  <2>3. Shape'
    BY <2>1 DEF IInv, Shape, Counters, AtHead, InForward, InEmit
  <2>4. Full' = Full /\ \A p : FedToken(p)' = FedToken(p)
    BY <2>1 DEF Full, FedToken
  <2>5. CommittedRows => CommittedRows'
    BY <2>1, <2>4 DEF CommittedRows
  <2>6. BlockRows => BlockRows'
    BY <2>1 DEF BlockRows
  <2>7. BlockHidden => BlockHidden'
    BY <2>1, <2>4 DEF BlockHidden
  <2>8. FullIsGreedy => FullIsGreedy'
    BY <2>1, <2>4 DEF FullIsGreedy
  <2> QED
    BY <2>1, <2>2, <2>3, <2>5, <2>6, <2>7, <2>8 DEF IInv, Contents
<1> QED
  BY <1>1, <1>2

\* The invariant holds throughout every run of the loop.
THEOREM InvariantHolds ==
  ASSUME PromptsFit, GreedyIsToken
  PROVE  Spec => []IInv
<1>1. Init => IInv
  BY InitIInv
<1>2. IInv /\ [Next]_vars => IInv'
  BY StepIInv
<1> QED
  BY <1>1, <1>2, PTL DEF Spec

\* Types are preserved by every action of the loop.
THEOREM TypeCorrect ==
  ASSUME PromptsFit, GreedyIsToken
  PROVE  Spec => []TypeOK
<1>1. IInv => TypeOK
  BY DEF IInv
<1> QED
  BY <1>1, InvariantHolds, PTL

\* Every printed token is greedy, in a state of the invariant.
LEMMA GreedyPrinted == IInv => OutputIsGreedy
<1> SUFFICES ASSUME IInv, ~matmulFailed, NEW i \in Len(prompt) + 1 .. Len(seq)
             PROVE  seq[i] = Greedy(weights, SubSeq(seq, 1, i - 1))
  BY DEF OutputIsGreedy
<1> USE KVCacheAssumption, GenerateAssumption
<1>1. /\ seq \in Seq(Token) /\ committed \in Seq(Token) /\ Len(seq) \in Nat
      /\ Len(committed) \in Nat /\ Len(prompt) \in Nat /\ Len(seq) <= NCtx + 1
  <2>1. prompt \in Seq(Token)
    BY DEF IInv, TypeOK
  <2> QED
    BY <2>1, LenProperties DEF IInv, TypeOK, Shape, Counters
<1>2. /\ Full \in Seq(Token) /\ Len(Full) = Len(seq) + Len(committed)
      /\ \A j \in 1 .. Len(seq) : Full[j] = seq[j]
  BY <1>1, ConcatParts DEF Full
<1>3. /\ i \in Len(prompt) + 1 .. Len(Full) /\ i <= NCtx + 1 /\ i \in 1 .. Len(seq)
      /\ i - 1 \in Nat /\ i - 1 <= Len(seq) /\ i - 1 <= Len(Full)
  BY <1>1, <1>2
<1>4. Full[i] = Greedy(weights, SubSeq(Full, 1, i - 1))
  BY <1>3 DEF IInv, Contents, FullIsGreedy
<1>5. SubSeq(Full, 1, i - 1) = SubSeq(seq, 1, i - 1)
  BY <1>1, <1>2, <1>3, SamePrefix
<1> QED
  BY <1>2, <1>3, <1>4, <1>5

\* Whatever is drafted, accepted, rejected and left behind in the cache, every
\* token printed is the greedy one for the tokens before it, for every model,
\* prompt, context, chunk and draft length, as long as no projection fails.
THEOREM GreedyOutput ==
  ASSUME PromptsFit, GreedyIsToken
  PROVE  Spec => []OutputIsGreedy
<1> QED
  BY GreedyPrinted, InvariantHolds, PTL

\* Back at the head of the loop no rejected draft is left below pos.
THEOREM CacheCorrect ==
  ASSUME PromptsFit, GreedyIsToken
  PROVE  Spec => []CacheHoldsSequence
<1>1. IInv => CacheHoldsSequence
  <2>1. ASSUME IInv, phase = "begin" PROVE Full = seq
    BY <2>1, FullIsSeq DEF IInv, Shape
  <2> QED
    BY <2>1 DEF CacheHoldsSequence, IInv, Contents, CommittedRows, Running
<1> QED
  BY <1>1, InvariantHolds, PTL

\* The counters of the loop agree with the sequence.
THEOREM AccountingCorrect ==
  ASSUME PromptsFit, GreedyIsToken
  PROVE  Spec => []Accounting
<1>1. IInv => Accounting
  <2>1. generated \in Nat => (generated # 0 => generated > 0)
    OBVIOUS
  <2> QED
    BY <2>1 DEF Accounting, IInv, TypeOK, Shape, Counters, AtHead
<1> QED
  BY <1>1, InvariantHolds, PTL

\* No step rewrites a row below pos, a failed projection included.
THEOREM CommittedRowsAreFinal ==
  ASSUME PromptsFit, GreedyIsToken
  PROVE  Spec => CommittedRowsStay
<1> DEFINE Stay == \A l \in Layers : \A p \in Positions : p < pos => rows'[l][p] = rows[l][p]
<1>1. ASSUME TypeOK, [Next]_vars PROVE Stay
  <2>1. ASSUME NEW slab, UpdateSlab(layer, pos, BlockEnd, slab) PROVE Stay
    <3>1. CASE SlabRejected(layer, pos, BlockEnd)
      BY <2>1, <3>1 DEF UpdateSlab, kvVars
    <3>2. CASE ~SlabRejected(layer, pos, BlockEnd)
      <4>1. rows' = [rows EXCEPT ![layer] =
                       [p \in Positions |-> IF pos <= p /\ p < BlockEnd
                                            THEN slab[p - pos + 1] ELSE rows[layer][p]]]
        BY <2>1, <3>2 DEF UpdateSlab
      <4>2. rows \in [Layers -> [Positions -> Row]] /\ pos \in Nat
        BY <1>1 DEF TypeOK, KVTypeOK
      <4>3. ASSUME NEW l \in Layers, NEW p \in Positions, p < pos PROVE rows'[l][p] = rows[l][p]
        <5>1. ~(pos <= p)
          BY <4>2, <4>3, KVCacheAssumption DEF Positions
        <5> QED
          BY <4>1, <4>2, <5>1
      <4> QED
        BY <4>3
    <3> QED
      BY <3>1, <3>2
  <2>2. CASE LayerForward
    BY <2>1, <2>2 DEF LayerForward
  <2>3. CASE LayerForwardFailedMatmul
    BY <2>1, <2>3 DEF LayerForwardFailedMatmul
  <2>4. CASE ~LayerForward /\ ~LayerForwardFailedMatmul
    <3>1. rows' = rows
      BY <1>1, <2>4 DEF Next, BeginPrefill, BeginDecode, ExitLoop, LayerFails, LayerOverrun,
           FinishPrefillChunk, SampleNext, VerifyDraft, EmitCommitted, kvVars, vars
    <3> QED
      BY <3>1
  <2> QED
    BY <2>2, <2>3, <2>4
<1>2. TypeOK /\ [Next]_vars => [Stay]_vars
  BY <1>1
<1>3. [][Stay]_vars <=> CommittedRowsStay
  BY DEF CommittedRowsStay
<1> QED
  BY <1>2, <1>3, TypeCorrect, PTL DEF Spec

-----------------------------------------------------------------------------
(* The loop implements one-token-at-a-time decoding.                        *)

\* The longest draft.
DraftLimit == IF SpecDecode THEN SpecK ELSE 0

\* What the stopping conditions leave behind: a loop that goes on has not
\* printed the end of the text, and less than a draft is waiting to be printed.
GoesOn ==
  /\ phase \in Running /\ generated > 0 => seq[Len(seq)] # Eos
  /\ n_draft <= DraftLimit
  /\ Len(committed) <= DraftLimit + 1

\* The drafts of lookup_draft() are at most spec_k long, and empty without
\* GGNPU_SPEC_DECODE.
LEMMA DraftLength ==
  ASSUME NEW s \in Seq(Token), NEW d \in Drafts(s)
  PROVE  Len(d) <= DraftLimit
<1> USE GenerateAssumption
<1>1. CASE ~(SpecDecode /\ Matches(s) # {})
  BY <1>1, EmptySeq DEF Drafts, DraftLimit
<1>2. CASE SpecDecode /\ Matches(s) # {}
  <2>1. PICK m \in Matches(s) : d = Follow(s, m)
    BY <1>2 DEF Drafts
  <2>2. m[1] \in Nat /\ m[2] \in Nat /\ m[1] + m[2] < Len(s) /\ Len(s) \in Nat
    BY <2>1, LenProperties DEF Matches
  <2> DEFINE first == m[1] + m[2]
             last == AtMost(first + SpecK, Len(s))
  <2>3. first \in Nat /\ last \in Nat /\ first < last /\ last <= Len(s) /\ last <= first + SpecK
    BY <2>2 DEF AtMost
  <2>4. \A i \in first + 1 .. last : s[i] \in Token
    BY <2>2, <2>3, ElementOfSeq
  <2> HIDE DEF first, last
  <2>5. first + Len(SubSeq(s, first + 1, last)) = last
    BY <2>3, <2>4, Slice
  <2>6. d = SubSeq(s, first + 1, last)
    BY <2>1 DEF Follow, first, last
  <2>7. d \in Seq(Token)
    BY DraftType
  <2> QED
    BY <1>2, <2>3, <2>5, <2>6, <2>7, LenProperties DEF DraftLimit
<1> QED
  BY <1>1, <1>2

LEMMA InitGoesOn == Init => GoesOn
BY GenerateAssumption, EmptySeq DEF Init, GoesOn, DraftLimit

LEMMA StepGoesOn ==
  ASSUME PromptsFit, GreedyIsToken, IInv, GoesOn, [Next]_vars
  PROVE  GoesOn'
<1> USE GenerateAssumption
<1>1. /\ seq \in Seq(Token) /\ committed \in Seq(Token) /\ n_draft \in Nat /\ generated \in Nat
      /\ Len(committed) \in Nat /\ DraftLimit \in Nat
  BY LenProperties DEF IInv, TypeOK, DraftLimit
<1>2. seq' \in Seq(Token) /\ committed' \in Seq(Token)
  BY StepIInv DEF IInv, TypeOK
<1>3. phase # "emit" => committed = <<>>
  BY DEF IInv, Shape, InEmit
<1>4. Len(<<>>) = 0
  BY EmptySeq
<1>5. ASSUME NEW c \in Token, Emitted(c) PROVE seq'[Len(seq')] = c
  BY <1>1, <1>5, AppendProperties DEF Emitted
<1>6. CASE BeginPrefill
  BY <1>1, <1>6 DEF BeginPrefill, AtLoopHead, StartBlock, GoesOn, Running
<1>7. CASE BeginDecode
  <2>1. PICK d \in Drafts(seq) : StartBlock(<<last_sampled>> \o d, Len(d), TRUE)
    BY <1>7 DEF BeginDecode
  <2>2. n_draft' <= DraftLimit
    BY <1>1, <2>1, DraftLength DEF StartBlock
  <2> QED
    BY <1>7, <2>2 DEF BeginDecode, AtLoopHead, GoesOn, Running, loopVars
<1>8. CASE SampleNext
  <2>1. PICK c \in Predictions(BlockLen) :
          Emitted(c) /\ phase' = IF c = Eos \/ ContextFull(pos') THEN "done" ELSE "begin"
    BY <1>8 DEF SampleNext
  <2>2. seq'[Len(seq')] = c
    <3>1. phase = "forward" /\ BlockLen = Len(batch_toks)
      BY <1>8 DEF SampleNext, BlockLen
    <3>2. BlockLen \in 1 .. Len(hidden)
      BY <3>1, BlockPlace DEF IInv
    <3>3. c \in Token
      BY <2>1, <3>2, PredictionType DEF IInv
    <3> QED
      BY <1>5, <2>1, <3>3
  <2> QED
    BY <1>8, <2>1, <2>2 DEF SampleNext, GoesOn, blockVars, Running
<1>9. CASE VerifyDraft
  <2>1. PICK cand \in [1 .. BlockLen -> Token], m \in 0 .. n_draft :
          committed' = SubSeq(cand, 1, m + 1)
    BY <1>9 DEF VerifyDraft
  <2>2. m \in Nat /\ m + 1 <= BlockLen /\ m <= n_draft /\ BlockLen \in Nat
    <3>1. phase = "forward" /\ BlockLen = Len(batch_toks) /\ generated > 0
      BY <1>1, <1>9 DEF VerifyDraft, BlockLen, IInv, Shape, InForward
    <3>2. BlockLen = n_draft + 1
      BY <3>1 DEF IInv, Shape, InForward
    <3> QED
      BY <1>1, <3>2
  <2>3. \A i \in 1 .. m + 1 : cand[i] \in Token
    BY <2>2
  <2>4. 0 + Len(committed') = m + 1
    BY <2>1, <2>2, <2>3, Slice
  <2>5. Len(committed') <= DraftLimit + 1
    BY <1>1, <1>2, <2>2, <2>4, LenProperties DEF GoesOn
  <2> QED
    BY <1>9, <2>5 DEF VerifyDraft, GoesOn, blockVars, Running
<1>10. CASE EmitCommitted
  <2>1. committed # <<>> /\ Emitted(Head(committed)) /\ phase = "emit"
        /\ UNCHANGED n_draft
    BY <1>10 DEF EmitCommitted, IInv, Shape, InEmit, blockVars
  <2>2. Head(committed) \in Token /\ Len(Tail(committed)) = Len(committed) - 1
    BY <1>1, <2>1, HeadTailProperties
  <2>3. seq'[Len(seq')] = Head(committed)
    BY <1>5, <2>1, <2>2
  <2>4. phase' \in Running => Head(committed) # Eos
    BY <1>10 DEF EmitCommitted, Running
  <2>5. committed' \in {<<>>, Tail(committed)}
    BY <1>10 DEF EmitCommitted
  <2>6. Len(committed') <= DraftLimit + 1
    BY <1>1, <1>4, <2>2, <2>5 DEF GoesOn
  <2> QED
    BY <2>1, <2>3, <2>4, <2>6 DEF GoesOn
<1>11. CASE ExitLoop \/ LayerForward \/ LayerForwardFailedMatmul \/ LayerFails \/ LayerOverrun
            \/ FinishPrefillChunk
  BY <1>11 DEF ExitLoop, LayerForward, LayerForwardFailedMatmul, LayerFails, LayerOverrun,
     FinishPrefillChunk, GoesOn, Running, loopVars, blockVars
<1>12. CASE UNCHANGED vars
  BY <1>12 DEF vars, loopVars, blockVars, GoesOn
<1> QED
  BY <1>6, <1>7, <1>8, <1>9, <1>10, <1>11, <1>12 DEF Next

\* Printing one token is one step of the sequential decoder.
LEMMA PrintedIsGreedy ==
  ASSUME PromptsFit, GreedyIsToken, IInv, [Next]_vars, ~matmulFailed',
         NEW c \in Token, seq' = Append(seq, c), UNCHANGED <<weights, prompt>>
  PROVE  seq' = Append(seq, Greedy(weights, seq))
<1>1. OutputIsGreedy'
  <2>1. IInv'
    BY StepIInv
  <2>2. IInv' => OutputIsGreedy'
    BY GreedyPrinted, PTL
  <2> QED
    BY <2>1, <2>2
<1>2. /\ seq \in Seq(Token) /\ Len(seq) \in Nat /\ Len(prompt) \in Nat
      /\ Len(prompt) <= Len(seq)
  <2>1. prompt \in Seq(Token) /\ seq \in Seq(Token) /\ generated \in Nat
    BY GenerateAssumption DEF IInv, TypeOK
  <2> QED
    BY <2>1, LenProperties DEF IInv, Shape, Counters
<1>3. /\ seq' \in Seq(Token) /\ Len(seq') = Len(seq) + 1 /\ seq'[Len(seq) + 1] = c
      /\ \A i \in 1 .. Len(seq) : seq'[i] = seq[i]
  BY <1>2, AppendProperties
<1>4. c = Greedy(weights, SubSeq(seq', 1, (Len(seq) + 1) - 1))
  <2>1. Len(seq) + 1 \in Len(prompt) + 1 .. Len(seq')
    BY <1>2, <1>3
  <2> QED
    BY <1>1, <1>3, <2>1 DEF OutputIsGreedy
<1>5. SubSeq(seq', 1, (Len(seq) + 1) - 1) = seq
  <2>1. (Len(seq) + 1) - 1 = Len(seq)
    BY <1>2
  <2>2. SubSeq(seq', 1, Len(seq)) = SubSeq(seq, 1, Len(seq))
    BY <1>2, <1>3, SamePrefix
  <2>3. SubSeq(seq, 1, Len(seq)) = seq
    BY <1>2, SubSeqFull
  <2> QED
    BY <2>1, <2>2, <2>3
<1> QED
  BY <1>4, <1>5

\* A loop with budget left has not finished.
LEMMA NotFinished ==
  ASSUME IInv, GoesOn, phase \in Running, generated < MaxTokens
  PROVE  ~Sequential!Finished
<1> USE GenerateAssumption, KVCacheAssumption
<1>1. /\ generated \in Nat /\ pos \in Nat /\ Len(seq) \in Nat /\ Len(prompt) \in Nat
      /\ Len(seq) = Len(prompt) + generated
  <2>1. prompt \in Seq(Token) /\ seq \in Seq(Token)
    BY DEF IInv, TypeOK
  <2> QED
    BY <2>1, LenProperties DEF IInv, TypeOK, Shape, Counters
<1>2. generated > 0 => Len(seq) <= NCtx /\ seq[Len(seq)] # Eos
  BY <1>1 DEF IInv, Shape, AtHead, InForward, InEmit, Running, GoesOn
<1> QED
  BY <1>1, <1>2 DEF Sequential!Finished, Sequential!Produced

\* A printed token, and what follows it: the loop goes on, or it stops where
\* the sequential decoder may stop.
LEMMA PrintingStep ==
  ASSUME PromptsFit, GreedyIsToken, IInv, GoesOn, [Next]_vars,
         phase \in Running, generated < MaxTokens,
         NEW c \in Token, Emitted(c), UNCHANGED <<weights, prompt, matmulFailed>>,
         phase' \in Running \cup {"done"},
         phase' = "done" => \/ c = Eos
                            \/ generated + 1 >= MaxTokens
                            \/ Len(seq) + 1 > NCtx - DraftLimit
  PROVE  Sequential!Next
<1> USE GenerateAssumption, KVCacheAssumption
<1>1. ~Sequential!Finished
  BY NotFinished
<1>2. seq' = Append(seq, c)
  BY DEF Emitted
<1>3. CASE matmulFailed
  BY <1>1, <1>2, <1>3 DEF Sequential!Next, Sequential!Garble, Running
<1>4. CASE ~matmulFailed
  <2>1. seq' = Append(seq, Greedy(weights, seq))
    BY <1>2, <1>4, PrintedIsGreedy
  <2>2. CASE phase' # "done"
    <3>1. Sequential!Emit
      BY <1>1, <1>4, <2>1, <2>2 DEF Sequential!Emit
    <3> QED
      BY <3>1 DEF Sequential!Next
  <2>3. CASE phase' = "done"
    <3>1. /\ seq \in Seq(Token) /\ Len(seq) \in Nat /\ Len(prompt) \in Nat /\ generated \in Nat
          /\ Len(seq) = Len(prompt) + generated
      <4>1. prompt \in Seq(Token) /\ seq \in Seq(Token)
        BY DEF IInv, TypeOK
      <4> QED
        BY <4>1, LenProperties DEF IInv, TypeOK, Shape, Counters
    <3>2. Len(seq') = Len(seq) + 1 /\ seq'[Len(seq')] = c
      BY <1>2, <3>1, AppendProperties
    <3>3. Sequential!MayFinish'
      BY <2>3, <3>1, <3>2 DEF Sequential!MayFinish, Sequential!Finished, Sequential!Produced, DraftLimit
    <3>4. Sequential!EmitAndStop
      BY <1>1, <1>4, <2>1, <2>3, <3>3 DEF Sequential!EmitAndStop, Running
    <3> QED
      BY <3>4 DEF Sequential!Next
  <2> QED
    BY <2>2, <2>3
<1> QED
  BY <1>3, <1>4

\* Every step of the loop is a step of the sequential decoder, or none.
LEMMA StepImplements ==
  ASSUME PromptsFit, GreedyIsToken, IInv, GoesOn, [Next]_vars
  PROVE  [Sequential!Next]_(Sequential!gdVars)
<1> USE GenerateAssumption, KVCacheAssumption
<1>1. /\ seq \in Seq(Token) /\ Len(seq) \in Nat /\ Len(prompt) \in Nat /\ generated \in Nat
      /\ pos \in Nat /\ Len(seq) = Len(prompt) + generated /\ matmulFailed \in BOOLEAN
  <2>1. prompt \in Seq(Token) /\ seq \in Seq(Token)
    BY DEF IInv, TypeOK
  <2> QED
    BY <2>1, LenProperties DEF IInv, TypeOK, Shape, Counters
<1>2. CASE BeginPrefill \/ BeginDecode \/ LayerForward \/ FinishPrefillChunk \/ VerifyDraft
  <2>1. /\ UNCHANGED <<weights, prompt, seq, matmulFailed>>
        /\ phase \in Running /\ phase' \in Running
    BY <1>2 DEF BeginPrefill, BeginDecode, LayerForward, FinishPrefillChunk, VerifyDraft, AtLoopHead,
       StartBlock, Running, loopVars
  <2> QED
    BY <2>1 DEF Sequential!gdVars
<1>3. CASE ExitLoop
  <2>1. /\ UNCHANGED <<weights, prompt, seq, matmulFailed>> /\ generated >= MaxTokens
        /\ phase = "begin" /\ phase' = "done"
    BY <1>3 DEF ExitLoop, loopVars
  <2>2. Sequential!MayFinish
    BY <1>1, <2>1 DEF Sequential!MayFinish, Sequential!Finished, Sequential!Produced
  <2>3. CASE matmulFailed
    BY <2>1, <2>3 DEF Sequential!Next, Sequential!Fail, Running
  <2>4. CASE ~matmulFailed
    BY <2>1, <2>2, <2>4 DEF Sequential!Next, Sequential!Stop, Running
  <2> QED
    BY <2>3, <2>4
<1>4. CASE LayerForwardFailedMatmul
  <2>1. /\ UNCHANGED <<weights, prompt, seq, phase>> /\ matmulFailed'
        /\ phase = "forward"
    BY <1>4 DEF LayerForwardFailedMatmul, loopVars
  <2>2. CASE matmulFailed
    BY <2>1, <2>2 DEF Sequential!gdVars
  <2>3. CASE ~matmulFailed
    BY <2>1, <2>3 DEF Sequential!Next, Sequential!Spoil, Running
  <2> QED
    BY <2>2, <2>3
<1>5. CASE LayerFails \/ LayerOverrun
  <2>1. /\ UNCHANGED <<weights, prompt, seq, matmulFailed>>
        /\ phase = "forward" /\ phase' \in {"failed", "crashed"}
    BY <1>5 DEF LayerFails, LayerOverrun, loopVars
  <2> QED
    BY <2>1 DEF Sequential!Next, Sequential!Fail, Running
<1>6. CASE SampleNext
  <2>1. PICK c \in Predictions(BlockLen) :
          Emitted(c) /\ phase' = IF c = Eos \/ ContextFull(pos') THEN "done" ELSE "begin"
    BY <1>6 DEF SampleNext
  <2>2. /\ phase = "forward" /\ BlockLen = Len(batch_toks) /\ pos' = BlockEnd
        /\ BlockEnd = pos + Len(batch_toks) /\ do_sample /\ n_draft = 0
        /\ UNCHANGED <<weights, prompt, matmulFailed>>
    BY <1>6 DEF SampleNext, BlockLen, BlockEnd
  <2>3. c \in Token
    <3>1. BlockLen \in 1 .. Len(hidden)
      BY <2>2, BlockPlace DEF IInv
    <3> QED
      BY <2>1, <3>1, PredictionType DEF IInv
  <2>4. BlockEnd = Len(seq) /\ generated < MaxTokens
    BY <1>1, <2>2 DEF IInv, Shape, InForward, Counters
  <2>5. phase' = "done" => c = Eos \/ Len(seq) + 1 > NCtx - DraftLimit
    BY <1>1, <2>1, <2>2, <2>4 DEF ContextFull, DraftLimit
  <2>6. Sequential!Next
    BY <2>1, <2>2, <2>3, <2>4, <2>5, PrintingStep DEF Running
  <2> QED
    BY <2>6
<1>7. CASE EmitCommitted
  <2>1. /\ phase = "emit" /\ committed # <<>> /\ Emitted(Head(committed))
        /\ pos = Len(seq) + Len(committed) - 1 /\ generated < MaxTokens
        /\ UNCHANGED <<weights, prompt, matmulFailed>>
    BY <1>7 DEF EmitCommitted, IInv, Shape, InEmit
  <2>2. Head(committed) \in Token /\ Len(committed) \in Nat
    BY <2>1, LenProperties, HeadTailProperties DEF IInv, TypeOK
  <2>3. \/ phase' \in Running
        \/ /\ phase' = "done"
           /\ \/ Head(committed) = Eos
              \/ ContextFull(pos)
              \/ generated + 1 >= MaxTokens
    BY <1>7, <2>1 DEF EmitCommitted, Running, Emitted
  <2>4. ContextFull(pos) => Len(seq) + 1 > NCtx - DraftLimit
    BY <1>1, <2>1, <2>2 DEF ContextFull, GoesOn, DraftLimit
  <2>5. Sequential!Next
    BY <2>1, <2>2, <2>3, <2>4, PrintingStep DEF Running
  <2> QED
    BY <2>5
<1>8. CASE UNCHANGED vars
  BY <1>8 DEF vars, loopVars, Sequential!gdVars
<1> QED
  BY <1>2, <1>3, <1>4, <1>5, <1>6, <1>7, <1>8 DEF Next

\* The loop, with its chunks, drafts, rollbacks and lost products, implements
\* one-token-at-a-time decoding: it starts where GreedyDecode starts, and every
\* step appends the greedy token, stops where GreedyDecode may stop, fails, or
\* changes nothing that GreedyDecode sees.  (ImplementsSequential adds to this
\* only the weak fairness of GreedyDecode.)
THEOREM LoopImplementsSequential ==
  ASSUME PromptsFit, GreedyIsToken
  PROVE  Spec => Sequential!Init /\ [][Sequential!Next]_(Sequential!gdVars)
<1>1. Init => Sequential!Init
  BY DEF Init, Sequential!Init, Running
<1>2. IInv /\ GoesOn /\ [Next]_vars => [Sequential!Next]_(Sequential!gdVars)
  BY StepImplements
<1>3. Spec => []GoesOn
  <2>1. Init => GoesOn
    BY InitGoesOn
  <2>2. IInv /\ GoesOn /\ [Next]_vars => GoesOn'
    BY StepGoesOn
  <2> QED
    BY <2>1, <2>2, InvariantHolds, PTL DEF Spec
<1> QED
  BY <1>1, <1>2, <1>3, InvariantHolds, PTL DEF Spec
===============================================================================
