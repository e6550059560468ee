----------------------------- MODULE QuantBlocks -----------------------------
(***************************************************************************)
(* The block formats of quantized tensors: what each decoder of            *)
(* include/ggnpu/quant/kquant.h and src/quant/ makes of the bytes of one   *)
(* block.  A decoder's loops are told by the index i of the value.  Values *)
(* are whole numbers: a half-precision number counts units of 2^-24 (its   *)
(* least one), and what a decoder puts out counts eighths of such a unit.  *)
(***************************************************************************)
EXTENDS Integers, Sequences

CONSTANT Grid(_, _, _)   \* the codebooks of iq_grids.inc: by name, index and place

Bits(x, lo, n) == (x \div 2^lo) % 2^n
Int8(x) == IF x > 127 THEN x - 256 ELSE x

\* Byte k of block b, and the two bytes from it.
At(b, k) == b[k + 1]
U16(b, k) == At(b, k) + 256 * At(b, k + 1)
Nibble(b, k, high) == Bits(At(b, k), IF high THEN 4 ELSE 0, 4)

\* fp16_to_f32(), f16_to_f32(): no infinities.
Half(h) ==
  LET exp == Bits(h, 10, 5)
      mant == Bits(h, 0, 10)
      size == IF exp = 0 THEN mant ELSE (1024 + mant) * 2^(exp - 1)
  IN IF Bits(h, 15, 1) = 1 THEN -size ELSE size

\* bf16_to_f32(), of numbers of at least 2^-17.
BFloat(h) ==
  LET exp == Bits(h, 7, 8)
      size == IF exp < 110 THEN 0 ELSE (128 + Bits(h, 0, 7)) * 2^(exp - 110)
  IN IF Bits(h, 15, 1) = 1 THEN -size ELSE size

HalfAt(b, k) == Half(U16(b, k))

-----------------------------------------------------------------------------
(* 32 values                                                                *)

q4_0(b, i) == 8 * HalfAt(b, 0) * (Nibble(b, 2 + (i % 16), i >= 16) - 8)
q4_1(b, i) == 8 * (HalfAt(b, 0) * Nibble(b, 4 + (i % 16), i >= 16) + HalfAt(b, 2))
q8_0(b, i) == 8 * HalfAt(b, 0) * Int8(At(b, 2 + i))

kvalues_iq4nl ==
  <<-127, -104, -83, -65, -49, -35, -22, -10, 1, 13, 25, 38, 53, 69, 89, 113>>
iq4_nl(b, i) == 8 * HalfAt(b, 0) * kvalues_iq4nl[Nibble(b, 2 + (i % 16), i >= 16) + 1]

-----------------------------------------------------------------------------
(* 256 values                                                               *)

iq4_xs(b, i) ==
  LET ib == i \div 32
      ls == Nibble(b, 4 + ib \div 2, ib % 2 = 1) + 16 * Bits(U16(b, 2), 2 * ib, 2)
      q == Nibble(b, 8 + 16 * ib + (i % 16), i % 32 >= 16)
  IN 8 * HalfAt(b, 0) * (ls - 32) * kvalues_iq4nl[q + 1]

q2_k(b, i) ==
  LET sc == At(b, i \div 16)
      q == Bits(At(b, 16 + 32 * (i \div 128) + (i % 32)), 2 * ((i % 128) \div 32), 2)
  IN 8 * (HalfAt(b, 80) * (sc % 16) * q - HalfAt(b, 82) * (sc \div 16))

\* Mutant: the high bits of the scales are taken four at a time.
q3_k_NibbleScales(b, i) ==
  LET k == i \div 16
      j == i \div 32
      sc == Nibble(b, 96 + (k % 8), k >= 8) + 16 * Bits(At(b, 104 + k \div 4), 2 * (k % 4), 2)
      low == Bits(At(b, 32 + 32 * (i \div 128) + (i % 32)), 2 * (j % 4), 2)
  IN 8 * HalfAt(b, 108) * (sc - 32) * (low - (IF Bits(At(b, i % 32), j, 1) = 1 THEN 0 ELSE 4))

\* The 6-bit scales: a nibble of the first 8 bytes and two bits of the last 4.
q3_k(b, i) ==
  LET k == i \div 16
      j == i \div 32
      sc == Nibble(b, 96 + (k % 8), k >= 8) + 16 * Bits(At(b, 104 + (k % 4)), 2 * (k \div 4), 2)
      low == Bits(At(b, 32 + 32 * (i \div 128) + (i % 32)), 2 * (j % 4), 2)
  IN 8 * HalfAt(b, 108) * (sc - 32) * (low - (IF Bits(At(b, i % 32), j, 1) = 1 THEN 0 ELSE 4))

\* q4k_get_scale_min() of sub-block j, the scales from byte 4.
ScaleOf(b, j) ==
  IF j < 4 THEN At(b, 4 + j) % 64 ELSE (At(b, 8 + j) % 16) + 16 * (At(b, j) \div 64)
MinOf(b, j) ==
  IF j < 4 THEN At(b, 8 + j) % 64 ELSE At(b, 8 + j) \div 16 + 16 * (At(b, 4 + j) \div 64)

Affine(b, j, q) == 8 * (HalfAt(b, 0) * ScaleOf(b, j) * q - HalfAt(b, 2) * MinOf(b, j))

q4_k(b, i) ==
  LET j == i \div 32
  IN Affine(b, j, Nibble(b, 16 + 32 * (j \div 2) + (i % 32), j % 2 = 1))

q5_k(b, i) ==
  LET j == i \div 32
  IN Affine(b, j, Nibble(b, 48 + 32 * (j \div 2) + (i % 32), j % 2 = 1)
                    + 16 * Bits(At(b, 16 + (i % 32)), j, 1))

q6_k(b, i) ==
  LET n == i \div 128
      g == (i % 128) \div 32
      q == Nibble(b, 64 * n + 32 * (g % 2) + (i % 32), g >= 2)
             + 16 * Bits(At(b, 128 + 32 * n + (i % 32)), 2 * g, 2)
  IN 8 * HalfAt(b, 208) * Int8(At(b, 192 + i \div 16)) * (q - 32)

-----------------------------------------------------------------------------
(* 256 values of a codebook: ib, l and j are the loops' own                 *)

Ib(i) == i \div 32
L(i) == (i % 32) \div 8
J(i) == i % 8

Parity(x) == (Bits(x, 0, 1) + Bits(x, 1, 1) + Bits(x, 2, 1) + Bits(x, 3, 1)
                + Bits(x, 4, 1) + Bits(x, 5, 1) + Bits(x, 6, 1)) % 2
ksigns(x) == x + 128 * Parity(x)
Signed(g, signs, j) == IF Bits(signs, j, 1) = 1 THEN -g ELSE g

\* Seven of the bits from bit 7 * l of the four bytes from k, and their last four.
SevenBits(b, k, l) == Bits(U16(b, k + (7 * l) \div 8), (7 * l) % 8, 7)
LastFour(b, k) == At(b, k + 3) \div 16

iq2_xxs(b, i) ==
  LET k == 2 + 8 * Ib(i)
      g == Grid("iq2xxs", At(b, k + L(i)), J(i))
  IN HalfAt(b, 0) * (2 * LastFour(b, k + 4) + 1)
       * Signed(g, ksigns(SevenBits(b, k + 4, L(i))), J(i))

iq2_xs(b, i) ==
  LET q == U16(b, 2 + 8 * Ib(i) + 2 * L(i))
      g == Grid("iq2xs", q % 512, J(i))
  IN HalfAt(b, 0) * (2 * Nibble(b, 66 + Ib(i), L(i) >= 2) + 1)
       * Signed(g, ksigns(q \div 512), J(i))

iq2_s(b, i) ==
  LET k == 4 * Ib(i) + L(i)
      g == Grid("iq2s", At(b, 2 + k) + 256 * Bits(At(b, 66 + Ib(i)), 2 * L(i), 2), J(i))
  IN HalfAt(b, 0) * (2 * Nibble(b, 74 + Ib(i), L(i) >= 2) + 1) * Signed(g, At(b, 34 + k), J(i))

iq3_xxs(b, i) ==
  LET k == 66 + 4 * Ib(i)
      g == Grid("iq3xxs", At(b, 2 + i \div 4), i % 4)
  IN 2 * HalfAt(b, 0) * (2 * LastFour(b, k) + 1) * Signed(g, ksigns(SevenBits(b, k, L(i))), J(i))

iq3_s(b, i) ==
  LET h == (i % 32) \div 4
      g == Grid("iq3s", At(b, 2 + i \div 4) + 256 * Bits(At(b, 66 + Ib(i)), h, 1), i % 4)
  IN 8 * HalfAt(b, 0) * (1 + 2 * Nibble(b, 106 + Ib(i) \div 2, Ib(i) % 2 = 1))
       * Signed(g, At(b, 74 + i \div 8), J(i))

\* IQ1S_DELTA is an eighth.
Shifted(g, below) == 8 * g + (IF below = 1 THEN -1 ELSE 1)

iq1_s(b, i) ==
  LET qh == U16(b, 34 + 2 * Ib(i))
      g == Grid("iq1s", At(b, 2 + i \div 8) + 256 * Bits(qh, 3 * L(i), 3), J(i))
  IN HalfAt(b, 0) * (2 * Bits(qh, 12, 3) + 1) * Shifted(g, Bits(qh, 15, 1))

iq1_m(b, i) ==
  LET sc(k) == U16(b, 48 + 2 * k)
      d == Half(Bits(sc(0), 12, 4) + 16 * Bits(sc(1), 12, 4)
                  + 256 * Bits(sc(2), 12, 4) + 4096 * Bits(sc(3), 12, 4))
      dl == d * (2 * Bits(sc(Ib(i) \div 2), 6 * (Ib(i) % 2) + 3 * (L(i) \div 2), 3) + 1)
      qh == Nibble(b, 32 + 2 * Ib(i) + L(i) \div 2, L(i) % 2 = 1)
  IN dl * Shifted(Grid("iq1s", At(b, i \div 8) + 256 * (qh % 8), J(i)), qh \div 8)

-----------------------------------------------------------------------------
\* The decoders by type: bytes and values of a block, and its value i.
KQuants == 10 .. 14
Codebooks == {16, 17, 18, 19, 21, 22, 29}

BlockValues(type) == IF type \in {2, 3, 8, 20} THEN 32 ELSE 256

BlockBytes(type) ==
  CASE type \in {2, 20} -> 18 [] type = 3 -> 20 [] type = 8 -> 34
    [] type = 10 -> 84 [] type = 11 -> 110 [] type = 12 -> 144
    [] type = 13 -> 176 [] type = 14 -> 210 [] type = 16 -> 66
    [] type = 17 -> 74 [] type = 18 -> 98 [] type = 19 -> 50
    [] type = 21 -> 110 [] type = 22 -> 82 [] type = 23 -> 136 [] type = 29 -> 56

Value(type, b, i) ==
  CASE type = 2 -> q4_0(b, i) [] type = 3 -> q4_1(b, i) [] type = 8 -> q8_0(b, i)
    [] type = 10 -> q2_k(b, i) [] type = 11 -> q3_k(b, i) [] type = 12 -> q4_k(b, i)
    [] type = 13 -> q5_k(b, i) [] type = 14 -> q6_k(b, i)
    [] type = 16 -> iq2_xxs(b, i) [] type = 17 -> iq2_xs(b, i) [] type = 18 -> iq3_xxs(b, i)
    [] type = 19 -> iq1_s(b, i) [] type = 20 -> iq4_nl(b, i) [] type = 21 -> iq3_s(b, i)
    [] type = 22 -> iq2_s(b, i) [] type = 23 -> iq4_xs(b, i) [] type = 29 -> iq1_m(b, i)
=============================================================================
