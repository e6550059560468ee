----------------------------- MODULE GgufWriter -----------------------------
(* A writer of model files, for the samples that the reader is checked on:   *)
(* the fields of the metadata one after the other, and tensors of blocks     *)
(* laid out by the description of each format, bit by bit.                   *)
EXTENDS GgufTypes, QuantBlocks, TLC

-----------------------------------------------------------------------------
(* Metadata: the fields of a file, each a width in bytes and a value.       *)
StringFields(s, len) == << <<8, len>>, <<len, s>> >>
NameFields(key) == StringFields(key, Len(key[1]) + 1 + Len(key[2]))

Cat(f) ==
  LET upTo[i \in 0 .. Len(f)] == IF i = 0 THEN <<>> ELSE upTo[i - 1] \o f[i]
  IN upTo[Len(f)]

ValueFields(e) ==
  CASE e.type = "STRING" -> StringFields(e.value, Len(e.value))
    [] e.type = "ARRAY" /\ e.elem = "STRING" ->
         << <<4, e.elem>>, <<8, Len(e.value)>> >>
           \o Cat([i \in DOMAIN e.value |-> StringFields(e.value[i], Len(e.value[i]))])
    [] e.type = "ARRAY" ->
         << <<4, e.elem>>, <<8, Len(e.value)>>,
            <<Len(e.value) * ElemSize(e.elem), e.value>> >>
    [] OTHER -> << <<ScalarSize(e.type), e.value>> >>

KvFields(e) == NameFields(e.key) \o << <<4, e.type>> >> \o ValueFields(e)

TensorFields(t) ==
  StringFields(t.name, Len(t.name)) \o << <<4, Len(t.dims)>> >>
    \o [i \in DOMAIN t.dims |-> <<8, t.dims[i]>>] \o << <<4, t.type>>, <<8, t.offset>> >>

\* The function of a sequence of pairs; the last pair of a key counts.
OfPairs(pairs) ==
  LET upTo[i \in 0 .. Len(pairs)] ==
        IF i = 0 THEN <<>> ELSE (pairs[i][1] :> pairs[i][2]) @@ upTo[i - 1]
  IN upTo[Len(pairs)]

\* The fields one after the other.
LaidOut(fields) ==
  LET upTo[i \in 0 .. Len(fields)] ==
        IF i = 0 THEN [end |-> 0, field |-> <<>>]
        ELSE LET before == upTo[i - 1]
             IN [end |-> before.end + fields[i][1],
                 field |-> (before.end :> fields[i][2]) @@ before.field]
  IN upTo[Len(fields)]

Written(magic, version, kvs, ts, align, spare) ==
  LET head == << <<24, [magic |-> magic, version |-> version,
                        tensor_count |-> Len(ts), kv_count |-> Len(kvs)]>> >>
      laid == LaidOut(head \o Cat([i \in DOMAIN kvs |-> KvFields(kvs[i])])
                           \o Cat([i \in DOMAIN ts |-> TensorFields(ts[i])]))
  IN [exists |-> TRUE, valid |-> magic = "GGUF" /\ version = 3,
      field |-> laid.field,
      metaEnd |-> laid.end,
      dataStart |-> AlignUp(laid.end, align),
      size |-> AlignUp(laid.end, align) + spare,
      bytes |-> <<>>, weights |-> <<>>, experts |-> <<>>,
      written |-> [kv |-> OfPairs([i \in DOMAIN kvs |-> <<kvs[i].key, kvs[i]>>]),
                   tensors |-> ts,
                   last |-> OfPairs([i \in DOMAIN ts |-> <<ts[i].name, ts[i].offset>>])]]

-----------------------------------------------------------------------------
(* Blocks.  A block of a type has fields d, e (half-precision), s, m        *)
(* (scales and minima), q (quants) or g, n (codebook entries, signs): Owner *)
(* is the field, its index and its bit that bit t of byte p belongs to.     *)

NibbleOwner(c, half, t) == <<"q", 2 * half * (c \div half) + (c % half) + half * (t \div 4), t % 4>>
PairOwner(c, t, bit) == <<"q", 128 * (c \div 32) + 32 * (t \div 2) + (c % 32), bit + (t % 2)>>
SmallOwner(p, from, t) == <<"s", 2 * (p - from) + (t \div 4), t % 4>>
DOwner(p, t) == <<"d", 0, 8 * p + t>>
EOwner(p, t) == <<"e", 0, 8 * p + t>>

\* Twelve bytes of eight 6-bit scales and eight 6-bit minima.
SixBitOwner(c, t) ==
  CASE c < 4 -> IF t < 6 THEN <<"s", c, t>> ELSE <<"s", c + 4, t - 2>>
    [] c \in 4 .. 7 -> IF t < 6 THEN <<"m", c - 4, t>> ELSE <<"m", c, t - 2>>
    [] OTHER -> IF t < 4 THEN <<"s", c - 4, t>> ELSE <<"m", c - 4, t - 4>>

\* Four bytes of four 7-bit signs and a 4-bit scale.
SignsOwner(c, t) ==
  LET y == 8 * (c % 4) + t
      ib == c \div 4
  IN IF y < 28 THEN <<"n", 4 * ib + (y \div 7), y % 7>> ELSE <<"s", ib, y - 28>>

Owner(type, p, t) ==
  CASE type \in {2, 20} -> IF p < 2 THEN DOwner(p, t) ELSE NibbleOwner(p - 2, 16, t)
    [] type = 3 -> IF p < 2 THEN DOwner(p, t) ELSE IF p < 4 THEN EOwner(p - 2, t)
                   ELSE NibbleOwner(p - 4, 16, t)
    [] type = 8 -> IF p < 2 THEN DOwner(p, t) ELSE <<"q", p - 2, t>>
    [] type = 10 -> IF p < 16 THEN <<IF t < 4 THEN "s" ELSE "m", p, t % 4>>
                    ELSE IF p < 80 THEN PairOwner(p - 16, t, 0)
                    ELSE IF p < 82 THEN DOwner(p - 80, t) ELSE EOwner(p - 82, t)
    [] type = 11 -> IF p < 32 THEN <<"q", 32 * t + p, 2>>
                    ELSE IF p < 96 THEN PairOwner(p - 32, t, 0)
                    ELSE IF p < 104 THEN <<"s", p - 96 + 8 * (t \div 4), t % 4>>
                    ELSE IF p < 108 THEN <<"s", p - 104 + 4 * (t \div 2), 4 + (t % 2)>>
                    ELSE DOwner(p - 108, t)
    [] type \in {12, 13} ->
         LET quants == IF type = 12 THEN 16 ELSE 48
         IN IF p < 2 THEN DOwner(p, t) ELSE IF p < 4 THEN EOwner(p - 2, t)
            ELSE IF p < 16 THEN SixBitOwner(p - 4, t)
            ELSE IF p < quants THEN <<"q", 32 * t + p - 16, 4>>
            ELSE NibbleOwner(p - quants, 32, t)
    [] type = 14 -> IF p < 128 THEN NibbleOwner(p, 64, t)
                    ELSE IF p < 192 THEN PairOwner(p - 128, t, 4)
                    ELSE IF p < 208 THEN <<"s", p - 192, t>> ELSE DOwner(p - 208, t)
    [] type = 16 -> IF p < 2 THEN DOwner(p, t)
                    ELSE LET c == p - 2 IN
                         IF c % 8 < 4 THEN <<"g", 4 * (c \div 8) + (c % 8), t>>
                         ELSE SignsOwner(4 * (c \div 8) + (c % 4), t)
    [] type = 17 -> IF p < 2 THEN DOwner(p, t) ELSE IF p >= 66 THEN SmallOwner(p, 66, t)
                    ELSE LET y == 8 * (p % 2) + t
                             l == p \div 2 - 1
                         IN IF y < 9 THEN <<"g", l, y>> ELSE <<"n", l, y - 9>>
    [] type = 18 -> IF p < 2 THEN DOwner(p, t) ELSE IF p < 66 THEN <<"g", p - 2, t>>
                    ELSE SignsOwner(p - 66, t)
    [] type = 19 -> IF p < 2 THEN DOwner(p, t) ELSE IF p < 34 THEN <<"g", p - 2, t>>
                    ELSE LET y == 8 * (p % 2) + t
                             ib == (p - 34) \div 2
                         IN IF y < 12 THEN <<"g", 4 * ib + (y \div 3), 8 + (y % 3)>>
                            ELSE IF y < 15 THEN <<"s", ib, y - 12>> ELSE <<"n", ib, 0>>
    [] type = 21 -> IF p < 2 THEN DOwner(p, t) ELSE IF p < 66 THEN <<"g", p - 2, t>>
                    ELSE IF p < 74 THEN <<"g", 8 * (p - 66) + t, 8>>
                    ELSE IF p < 106 THEN <<"n", p - 74, t>> ELSE SmallOwner(p, 106, t)
    [] type = 22 -> IF p < 2 THEN DOwner(p, t) ELSE IF p < 34 THEN <<"g", p - 2, t>>
                    ELSE IF p < 66 THEN <<"n", p - 34, t>>
                    ELSE IF p < 74 THEN <<"g", 4 * (p - 66) + (t \div 2), 8 + (t % 2)>>
                    ELSE SmallOwner(p, 74, t)
    [] type = 23 -> IF p < 2 THEN DOwner(p, t)
                    ELSE IF p < 4 THEN LET y == 8 * (p - 2) + t IN <<"s", y \div 2, 4 + (y % 2)>>
                    ELSE IF p < 8 THEN SmallOwner(p, 4, t) ELSE NibbleOwner(p - 8, 16, t)
    [] type = 29 -> IF p < 32 THEN <<"g", p, t>>
                    ELSE IF p < 48 THEN LET l == 2 * (p - 32) + (t \div 4)
                                        IN IF t % 4 < 3 THEN <<"g", l, 8 + (t % 4)>> ELSE <<"n", l, 0>>
                    ELSE LET y == 8 * (p % 2) + t
                             k == (p - 48) \div 2
                         IN IF y < 12 THEN <<"s", 4 * k + (y \div 3), y % 3>>
                            ELSE <<"d", 0, 4 * k + y - 12>>

\* The bits of the fields q, s (and m), g and n of each type.
Widths ==
  2 :> <<4, 0, 0, 0>> @@ 3 :> <<4, 0, 0, 0>> @@ 8 :> <<8, 0, 0, 0>> @@ 20 :> <<4, 0, 0, 0>>
    @@ 10 :> <<2, 4, 0, 0>> @@ 11 :> <<3, 6, 0, 0>> @@ 12 :> <<4, 6, 0, 0>>
    @@ 13 :> <<5, 6, 0, 0>> @@ 14 :> <<6, 8, 0, 0>> @@ 16 :> <<0, 4, 8, 7>>
    @@ 17 :> <<0, 4, 9, 7>> @@ 18 :> <<0, 4, 8, 7>> @@ 19 :> <<0, 3, 11, 1>>
    @@ 21 :> <<0, 4, 9, 8>> @@ 22 :> <<0, 4, 10, 8>> @@ 23 :> <<4, 6, 0, 0>>
    @@ 29 :> <<0, 3, 11, 1>>
WidthOf == "q" :> 1 @@ "s" :> 2 @@ "m" :> 2 @@ "g" :> 3 @@ "n" :> 4

\* Some value for each field of a block; d and e are small halves of either sign.
Halves == <<3, 32770, 7, 9, 5, 32769>>
Field(type, seed, name, i) ==
  IF name \in {"d", "e"} THEN Halves[((seed + (IF name = "d" THEN 0 ELSE 2)) % 6) + 1]
  ELSE LET spread == IF name = "m" THEN 13 ELSE 29
       IN (seed * 53 + i * spread + (i \div 5) * 11 + i * i) % 2^(Widths[type][WidthOf[name]])

Byte(type, seed, p) ==
  LET bit(o) == Bits(Field(type, seed, o[1], o[2]), o[3], 1)
      upTo[t \in 0 .. 8] == IF t = 0 THEN 0 ELSE upTo[t - 1] + 2^(t - 1) * bit(Owner(type, p, t - 1))
  IN upTo[8]

\* A sequence given by a rule, worked out once.
WorkedOut(seq) == <<>> \o seq

WrittenBlock(type, seed) == WorkedOut([p \in 1 .. BlockBytes(type) |-> Byte(type, seed, p - 1)])

\* What value i of a block is, by the fields.
Meant(type, seed, i) ==
  LET f(name, k) == Field(type, seed, name, k)
      d == Half(f("d", 0))
      e == Half(f("e", 0))
      q == f("q", i)
      eighth(signs) == Signed(1, signs, i % 8)
      g(book, n) == Grid(book, f("g", i \div n), i % n)
  IN CASE type = 2 -> 8 * d * (q - 8)
       [] type = 3 -> 8 * (d * q + e)
       [] type = 8 -> 8 * d * Int8(q)
       [] type = 20 -> 8 * d * kvalues_iq4nl[q + 1]
       [] type = 23 -> 8 * d * (f("s", i \div 32) - 32) * kvalues_iq4nl[q + 1]
       [] type = 10 -> 8 * (d * f("s", i \div 16) * q - e * f("m", i \div 16))
       [] type = 11 -> 8 * d * (f("s", i \div 16) - 32) * (q - 4)
       [] type \in {12, 13} -> 8 * (d * f("s", i \div 32) * q - e * f("m", i \div 32))
       [] type = 14 -> 8 * d * Int8(f("s", i \div 16)) * (q - 32)
       [] type = 16 -> d * (2 * f("s", i \div 32) + 1) * g("iq2xxs", 8) * eighth(ksigns(f("n", i \div 8)))
       [] type = 17 -> d * (2 * f("s", i \div 16) + 1) * g("iq2xs", 8) * eighth(ksigns(f("n", i \div 8)))
       [] type = 22 -> d * (2 * f("s", i \div 16) + 1) * g("iq2s", 8) * eighth(f("n", i \div 8))
       [] type = 18 -> 2 * d * (2 * f("s", i \div 32) + 1) * g("iq3xxs", 4) * eighth(ksigns(f("n", i \div 8)))
       [] type = 21 -> 8 * d * (2 * f("s", i \div 32) + 1) * g("iq3s", 4) * eighth(f("n", i \div 8))
       [] type = 19 -> d * (2 * f("s", i \div 32) + 1)
                         * (8 * g("iq1s", 8) + Signed(1, f("n", i \div 32), 0))
       [] type = 29 -> d * (2 * f("s", i \div 16) + 1)
                         * (8 * g("iq1s", 8) + Signed(1, f("n", i \div 8), 0))

-----------------------------------------------------------------------------
(* Tensors: rows of blocks, or of two or four bytes a value                 *)

Codes == <<0, 32771, 1030, 900, 33800, 17>>
BCodes == <<0, 14096, 46870, 14461, 14700, 47301>>
Code(codes, k) == codes[(k % 6) + 1]

Low(code) == code % 256
High(code) == code \div 256

Words(type, k, r) ==
  CASE type = 1 -> LET c == Code(Codes, k + r) IN <<Low(c), High(c)>>
    [] type = 30 -> LET c == Code(BCodes, k + r) IN <<Low(c), High(c)>>
    [] type = 0 -> LET c == Code(BCodes, k + r) IN <<0, 0, Low(c), High(c)>>

WordMeant(type, k, r) ==
  8 * (IF type = 1 THEN Half(Code(Codes, k + r)) ELSE BFloat(Code(BCodes, k + r)))

\* The bytes and the values of row r.
WrittenBytes(type, cols, seed, r) ==
  IF type \in {0, 1, 30} THEN Cat([k \in 1 .. cols |-> Words(type, k, r)])
  ELSE Cat([n \in 1 .. cols \div BlockValues(type) |-> WrittenBlock(type, seed + 5 * r + n)])

WrittenValues(type, cols, seed, r) ==
  IF type \in {0, 1, 30} THEN WorkedOut([k \in 1 .. cols |-> WordMeant(type, k, r)])
  ELSE LET size == BlockValues(type)
       IN WorkedOut([k \in 1 .. cols |->
            Meant(type, seed + 5 * r + 1 + (k - 1) \div size, (k - 1) % size)])

\* Four rows of one block each, interleaved by chunks of four bytes, their nibbles unsigned.
Interleaved(rows) ==
  LET flip(x) == 16 * ((x \div 16 + 8) % 16) + ((x + 8) % 16)
  IN [p \in 1 .. 72 |->
        LET k == p - 1
            i == (k - 8) \div 4
        IN IF k < 8 THEN rows[k \div 2 + 1][(k % 2) + 1]
           ELSE flip(rows[(i % 4) + 1][3 + 4 * (i \div 4) + ((k - 8) % 4)])]

\* Rows that are no whole number of blocks are written as one row.
WrittenTensor(type, dims, seed) ==
  LET plain == IF type = 31 THEN 2 ELSE type
      size == BlckSize(plain)
      whole == dims[1] % size = 0
      cols == IF whole THEN dims[1] ELSE (Product(dims) \div size) * size
      rows == IF whole THEN 1 .. Product(Tail(dims)) ELSE {1}
      bytes == WorkedOut([r \in rows |-> WrittenBytes(plain, cols, seed, r)])
  IN [type |-> type, dims |-> dims,
      bytes |-> IF type = 31 THEN WorkedOut(Interleaved(bytes)) ELSE Cat(bytes),
      rows |-> WorkedOut([r \in rows |-> WrittenValues(plain, cols, seed, r)])]

\* The data section: each tensor from the next multiple of 32 on.
Packed(tensors) ==
  LET pad(n) == WorkedOut([k \in 1 .. AlignUp(n, 32) - n |-> 0])
      upTo[i \in 0 .. Len(tensors)] ==
        IF i = 0 THEN <<>> ELSE upTo[i - 1] \o tensors[i].bytes \o pad(Len(tensors[i].bytes))
  IN upTo[Len(tensors)]
=============================================================================
