------------------------------- MODULE Weights -------------------------------
(***************************************************************************)
(* What the program makes of the weights of a loaded model: 8-bit rows for *)
(* the NPU (decode_for_npu(), src/quant/), exact rows for the host         *)
(* (dequant_tensor_row()), and logits by either way (compute_logits()).    *)
(* Values count eighths of 2^-24 (QuantBlocks); an 8-bit row keeps its     *)
(* scale times 127, its largest value, with 0 for the scale of a zero row. *)
(* Products of floating-point numbers are exact here.                      *)
(***************************************************************************)
EXTENDS ModelSetup, QuantBlocks
LOCAL INSTANCE FiniteSetsExt

CONSTANT Columns   \* the one-hot hidden rows that logits are computed of

VARIABLE made      \* the last thing made of a tensor

vars == <<modelVars, made>>

F32 == 0
F16 == 1
Q4_0 == 2
BF16 == 30
Q4_0_4_4 == 31
Unpacked == {F32, F16, BF16}
Blocks == {2, 3, 8, 20, 23} \cup KQuants \cup Codebooks

Abs(n) == IF n < 0 THEN -n ELSE n
Ceiling(n, d) == (n + d - 1) \div d

-----------------------------------------------------------------------------
(* Rows                                                                     *)

RowBytes(type, cols) ==
  CASE type = F32 -> 4 * cols
    [] type \in {F16, BF16} -> 2 * cols
    [] OTHER -> Ceiling(cols, BlockValues(type)) * BlockBytes(type)

\* Value k of a row of bytes b.  F32 values are ones that bf16 has too.
RowValue(type, b, k) ==
  CASE type = F32 -> 8 * BFloat(U16(b, 4 * k + 2))
    [] type = F16 -> 8 * Half(U16(b, 2 * k))
    [] type = BF16 -> 8 * BFloat(U16(b, 2 * k))
    [] OTHER ->
         LET n == k \div BlockValues(type)
             size == BlockBytes(type)
         IN Value(type, SubSeq(b, n * size + 1, (n + 1) * size), k % BlockValues(type))

Row(type, b, r, cols) ==
  LET size == RowBytes(type, cols)
      row == SubSeq(b, r * size + 1, (r + 1) * size)
  IN [k \in 1 .. cols |-> RowValue(type, row, k - 1)]

\* dequant_tensor_row() into zeros: it has no case for Q4_0_4_4.
DequantRow(type, b, r, cols) ==
  IF type \in Unpacked \cup Blocks THEN Row(type, b, r, cols) ELSE [k \in 1 .. cols |-> 0]

-----------------------------------------------------------------------------
(* decode_for_npu()                                                         *)

\* nearbyint(n / d): to even in the middle.
Nearest(n, d) ==
  LET up == (2 * n + d) \div (2 * d)
  IN IF (2 * n + d) % (2 * d) = 0 /\ up % 2 = 1 THEN up - 1 ELSE up

\* Mutant: the quotient is cut off, not rounded.
RequantizedDown(row) ==
  LET max == Max({Abs(row[k]) : k \in DOMAIN row})
  IN [scale |-> max,
      int8 |-> [k \in DOMAIN row |-> IF max = 0 THEN 0 ELSE (127 * row[k]) \div max]]

Requantized(row) ==
  LET max == Max({Abs(row[k]) : k \in DOMAIN row})
  IN [scale |-> max,
      int8 |-> [k \in DOMAIN row |-> IF max = 0 THEN 0 ELSE Nearest(127 * row[k], max)]]

\* A shape that is not the data's: the K-quants put every value into one row; the
\* others make one row too but fill no more of it than they had meant for a row.
FlatRow(type, b, cols) ==
  LET values == (Len(b) \div BlockBytes(type)) * BlockValues(type)
      filled == IF type \in KQuants THEN values
                ELSE LeastOf(values, Ceiling(cols, BlockValues(type)) * BlockValues(type))
  IN [k \in 1 .. values |-> IF k <= filled THEN RowValue(type, b, k - 1) ELSE 0]

DecodedRows(type, b, rows, cols) ==
  LET shaped == rows > 0 /\ cols > 0 /\ rows * RowBytes(type, cols) = Len(b)
  IN [r \in 1 .. (IF shaped THEN rows ELSE 1) |->
        Requantized(IF shaped THEN Row(type, b, r - 1, cols) ELSE FlatRow(type, b, cols))]

decode_q4_0(b, rows, cols) == DecodedRows(2, b, rows, cols)
decode_q4_1(b, rows, cols) == DecodedRows(3, b, rows, cols)
decode_q8_0(b, rows, cols) == DecodedRows(8, b, rows, cols)
decode_q2_k(b, rows, cols) == DecodedRows(10, b, rows, cols)
decode_q3_k(b, rows, cols) == DecodedRows(11, b, rows, cols)
decode_q4_k(b, rows, cols) == DecodedRows(12, b, rows, cols)
decode_q5_k(b, rows, cols) == DecodedRows(13, b, rows, cols)
decode_q6_k(b, rows, cols) == DecodedRows(14, b, rows, cols)
decode_iq4_nl(b, rows, cols) == DecodedRows(20, b, rows, cols)
decode_iq4_xs(b, rows, cols) == DecodedRows(23, b, rows, cols)
decode_iq_rows(type, b, rows, cols) == DecodedRows(type, b, rows, cols)
decode_halves(type, b, rows, cols) == DecodedRows(type, b, rows, cols)

\* ^ 0x88
Flipped(byte) == ((byte \div 16 + 8) % 16) * 16 + ((byte + 8) % 16)

\* Q4_0_4_4: the blocks of four rows, interleaved by four bytes, put apart again.
Deinterleaved(b, rows, cols) ==
  LET blocks == Ceiling(cols, 32)
      Byte(row, block, k) ==
        LET x4 == ((row \div 4) * blocks + block) * 72
            r == row % 4
            c == k - 2
        IN IF k < 2 THEN At(b, x4 + 2 * r + k)
           ELSE Flipped(At(b, x4 + 8 + 4 * (4 * (c \div 4) + r) + (c % 4)))
  IN [p \in 1 .. rows * blocks * 18 |->
        Byte((p - 1) \div (blocks * 18), ((p - 1) \div 18) % blocks, (p - 1) % 18)]

\* For the types attach_kquant_scales() knows; the number of rows of a repacked
\* tensor is a multiple of four.
DecodeForNpu(type, b, rows, cols) ==
  CASE type = 2 -> decode_q4_0(b, rows, cols) [] type = 3 -> decode_q4_1(b, rows, cols)
    [] type = 31 -> decode_q4_0(Deinterleaved(b, rows, cols), rows, cols)
    [] type = 8 -> decode_q8_0(b, rows, cols)
    [] type = 10 -> decode_q2_k(b, rows, cols) [] type = 11 -> decode_q3_k(b, rows, cols)
    [] type = 12 -> decode_q4_k(b, rows, cols) [] type = 13 -> decode_q5_k(b, rows, cols)
    [] type = 14 -> decode_q6_k(b, rows, cols)
    [] type = 20 -> decode_iq4_nl(b, rows, cols) [] type = 23 -> decode_iq4_xs(b, rows, cols)
    [] type \in Codebooks -> decode_iq_rows(type, b, rows, cols)
    [] type \in {F16, BF16} -> decode_halves(type, b, rows, cols)

HasScales(type) == type \in {F16, BF16, Q4_0_4_4} \cup Blocks

-----------------------------------------------------------------------------
(* Actions, of the tensors whose values the file's writer has noted         *)

\* expert_slice(): matrix e of a tensor of several; expert 0 of a matrix is itself.
Slice(name, e) ==
  LET t == tviews[tensor_map[name]]
      shape == <<t.info.dims[1], IF Len(t.info.dims) = 1 THEN 1 ELSE t.info.dims[2]>>
      size == DataSize(shape, t.info.type)
      at == t.data - disk.dataStart + e * size
  IN [name |-> name, expert |-> e, type |-> t.info.type, cols |-> shape[1], rows |-> shape[2],
      bytes |-> SubSeq(disk.bytes, at + 1, at + size)]

Slices ==
  UNION {{Slice(name, e) : e \in 0 .. disk.experts[name] - 1} : name \in DOMAIN disk.experts}

Made(op, w, rows) ==
  [op |-> op, name |-> w.name, expert |-> w.expert, type |-> w.type, rows |-> rows]
Nothing == [op |-> "nothing", name |-> "", expert |-> 0, type |-> F32, rows |-> <<>>]

DecodeWeight ==
  \E w \in Slices :
    /\ HasScales(w.type)
    /\ made' = Made("decode", w, DecodeForNpu(w.type, w.bytes, w.rows, w.cols))

\* Rows of half a block are read past their end: no model file has them.
WholeRows(w) == w.cols % BlckSize(w.type) = 0

ReadRow ==
  \E w \in {w \in Slices : WholeRows(w)} : \E r \in 0 .. w.rows - 1 :
    made' = Made("row", w, [k \in {r + 1} |-> DequantRow(w.type, w.bytes, r, w.cols)])

\* Mutant: the status of the launch is not looked at.
LogitsWhateverStatus(w, column, vocab, launched) ==
  LET decoded == DecodeForNpu(w.type, w.bytes, w.rows, w.cols)
  IN IF HasScales(w.type) /\ Len(decoded) \in {1, vocab}
     THEN [v \in 1 .. vocab |-> IF launched THEN decoded[v].int8[column] * decoded[v].scale ELSE 0]
     ELSE [v \in 1 .. vocab |-> 127 * DequantRow(w.type, w.bytes, v - 1, w.cols)[column]]

\* Logits in 127ths.  The NPU has no scales to use when their number is not N.
Logits(w, column, vocab, launched) ==
  LET decoded == DecodeForNpu(w.type, w.bytes, w.rows, w.cols)
  IN IF HasScales(w.type) /\ Len(decoded) \in {1, vocab} /\ launched
     THEN [v \in 1 .. vocab |-> decoded[v].int8[column] * decoded[v].scale]
     ELSE [v \in 1 .. vocab |-> 127 * DequantRow(w.type, w.bytes, v - 1, w.cols)[column]]

\* vocab_size() may be less than the rows of the matrix (two tokens of one text).
ComputeLogits ==
  \E w \in {w \in Slices : WholeRows(w) /\ w.rows > 1}, column \in Columns, launched \in BOOLEAN :
    \E vocab \in {w.rows, w.rows - 1} :
      made' = [op |-> "logits", name |-> w.name, expert |-> w.expert, type |-> w.type,
               rows |-> Logits(w, column, vocab, launched), column |-> column]

UseWeights ==
  /\ step = "loop" /\ made = Nothing
  /\ DecodeWeight \/ ReadRow \/ ComputeLogits
  /\ UNCHANGED modelVars

Init == SetupInit /\ made = Nothing
Next == (SetupNext /\ UNCHANGED made) \/ UseWeights
Spec == Init /\ [][Next]_vars

-----------------------------------------------------------------------------
(* Properties                                                               *)

\* The row the writer meant, of the matrix something was made of.
WrittenRow(r) ==
  LET all == disk.weights[made.name]
  IN all[made.expert * (Len(all) \div disk.experts[made.name]) + r]

Largest(row) == Max({Abs(row[k]) : k \in DOMAIN row})
WellShaped == tviews[tensor_map[made.name]].info.dims[1] % BlckSize(made.type) = 0

\* "Decodes the weight for the NPU": of every type of block, in every expert's
\* matrix, each 8-bit weight times its row's scale is the written weight to half a
\* step, and the row's largest weight is met.
NpuWeightsAreWritten ==
  made.op = "decode" /\ WellShaped =>
    \A r \in DOMAIN made.rows :
      LET row == made.rows[r]
          written == WrittenRow(r)
      IN /\ row.scale = Largest(written)
         /\ \A k \in DOMAIN written :
              2 * Abs(127 * written[k] - row.int8[k] * row.scale) <= row.scale

\* The host's own rows, for embeddings and where the NPU has failed, are the written
\* weights exactly: the two decoders of a type never disagree on where a value lies.
\* (The repacked type has only the NPU's decoder, here and in the next property.)
RowsAreWritten ==
  made.op = "row" /\ made.type # Q4_0_4_4 =>
    \A r \in DOMAIN made.rows : made.rows[r] = WrittenRow(r)

\* Whatever fails on the way (the launch, the number of scales), each logit is the
\* product with its own row of the matrix, to half a step of that row.
LogitsAreProducts ==
  made.op = "logits" /\ made.type # Q4_0_4_4 =>
    \A v \in DOMAIN made.rows :
      LET written == WrittenRow(v)
      IN 2 * Abs(made.rows[v] - 127 * written[made.column]) <= Largest(written)
=============================================================================
