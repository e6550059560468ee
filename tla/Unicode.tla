-------------------------------- MODULE Unicode --------------------------------
(***************************************************************************)
(* src/cli/unicode.cpp and unicode-data.cpp: the character tables, UTF-8   *)
(* and the byte alphabet of byte-level BPE.  A string is a sequence of     *)
(* bytes, a text read from one a sequence of code points.  The tables are  *)
(* the generated ones up to U+07C0, for white space and for the Han        *)
(* ideographs: texts are taken from there.                                 *)
(***************************************************************************)
EXTENDS Integers, Sequences, FiniteSets, SequencesExt

Byte == 0 .. 255

-----------------------------------------------------------------------------
(* The tables.                                                              *)

(* The first code point of each range and its category: Undefined, Number, *)
(* Letter, Z (separator), Mark, Punctuation, Symbol, Control.               *)
RangesFlags == <<
  <<\h0, "C">>, <<\h20, "Z">>, <<\h21, "P">>, <<\h24, "S">>, <<\h25, "P">>, <<\h2B, "S">>,
  <<\h2C, "P">>, <<\h30, "N">>, <<\h3A, "P">>, <<\h3C, "S">>, <<\h3F, "P">>, <<\h41, "L">>,
  <<\h5B, "P">>, <<\h5E, "S">>, <<\h5F, "P">>, <<\h60, "S">>, <<\h61, "L">>, <<\h7B, "P">>,
  <<\h7C, "S">>, <<\h7D, "P">>, <<\h7E, "S">>, <<\h7F, "C">>, <<\hA0, "Z">>, <<\hA1, "P">>,
  <<\hA2, "S">>, <<\hA7, "P">>, <<\hA8, "S">>, <<\hAA, "L">>, <<\hAB, "P">>, <<\hAC, "S">>,
  <<\hAD, "C">>, <<\hAE, "S">>, <<\hB2, "N">>, <<\hB4, "S">>, <<\hB5, "L">>, <<\hB6, "P">>,
  <<\hB8, "S">>, <<\hB9, "N">>, <<\hBA, "L">>, <<\hBB, "P">>, <<\hBC, "N">>, <<\hBF, "P">>,
  <<\hC0, "L">>, <<\hD7, "S">>, <<\hD8, "L">>, <<\hF7, "S">>, <<\hF8, "L">>, <<\h2C2, "S">>,
  <<\h2C6, "L">>, <<\h2D2, "S">>, <<\h2E0, "L">>, <<\h2E5, "S">>, <<\h2EC, "L">>, <<\h2ED, "S">>,
  <<\h2EE, "L">>, <<\h2EF, "S">>, <<\h300, "M">>, <<\h370, "L">>, <<\h375, "S">>, <<\h376, "L">>,
  <<\h378, "U">>, <<\h37A, "L">>, <<\h37E, "P">>, <<\h37F, "L">>, <<\h380, "U">>, <<\h384, "S">>,
  <<\h386, "L">>, <<\h387, "P">>, <<\h388, "L">>, <<\h38B, "U">>, <<\h38C, "L">>, <<\h38D, "U">>,
  <<\h38E, "L">>, <<\h3A2, "U">>, <<\h3A3, "L">>, <<\h3F6, "S">>, <<\h3F7, "L">>, <<\h482, "S">>,
  <<\h483, "M">>, <<\h48A, "L">>, <<\h530, "U">>, <<\h531, "L">>, <<\h557, "U">>, <<\h559, "L">>,
  <<\h55A, "P">>, <<\h560, "L">>, <<\h589, "P">>, <<\h58B, "U">>, <<\h58D, "S">>, <<\h590, "U">>,
  <<\h591, "M">>, <<\h5BE, "P">>, <<\h5BF, "M">>, <<\h5C0, "P">>, <<\h5C1, "M">>, <<\h5C3, "P">>,
  <<\h5C4, "M">>, <<\h5C6, "P">>, <<\h5C7, "M">>, <<\h5C8, "U">>, <<\h5D0, "L">>, <<\h5EB, "U">>,
  <<\h5EF, "L">>, <<\h5F3, "P">>, <<\h5F5, "U">>, <<\h600, "C">>, <<\h606, "S">>, <<\h609, "P">>,
  <<\h60B, "S">>, <<\h60C, "P">>, <<\h60E, "S">>, <<\h610, "M">>, <<\h61B, "P">>, <<\h61C, "C">>,
  <<\h61D, "P">>, <<\h620, "L">>, <<\h64B, "M">>, <<\h660, "N">>, <<\h66A, "P">>, <<\h66E, "L">>,
  <<\h670, "M">>, <<\h671, "L">>, <<\h6D4, "P">>, <<\h6D5, "L">>, <<\h6D6, "M">>, <<\h6DD, "C">>,
  <<\h6DE, "S">>, <<\h6DF, "M">>, <<\h6E5, "L">>, <<\h6E7, "M">>, <<\h6E9, "S">>, <<\h6EA, "M">>,
  <<\h6EE, "L">>, <<\h6F0, "N">>, <<\h6FA, "L">>, <<\h6FD, "S">>, <<\h6FF, "L">>, <<\h700, "P">>,
  <<\h70E, "U">>, <<\h70F, "C">>, <<\h710, "L">>, <<\h711, "M">>, <<\h712, "L">>, <<\h730, "M">>,
  <<\h74B, "U">>, <<\h74D, "L">>, <<\h7A6, "M">>, <<\h7B1, "L">>, <<\h7B2, "U">>, <<\h7C0, "N">>,
  <<\h1680, "Z">>, <<\h1681, "L">>, <<\h2000, "Z">>, <<\h200B, "C">>, <<\h2028, "Z">>,
  <<\h202A, "C">>, <<\h202F, "Z">>, <<\h2030, "P">>, <<\h205F, "Z">>, <<\h2060, "C">>,
  <<\h3000, "Z">>, <<\h3001, "P">>, <<\h3400, "L">>, <<\h4DC0, "S">>, <<\h4E00, "L">>,
  <<\hA48D, "U">>, <<\hF900, "L">>, <<\hFA6E, "U">>, <<\hFA70, "L">>, <<\hFADA, "U">>,
  <<\h20000, "L">>, <<\h2A6E0, "U">>, <<\h2A700, "L">>, <<\h2B73A, "U">>, <<\h2B740, "L">>,
  <<\h2B81E, "U">>, <<\h2B820, "L">>, <<\h2CEA2, "U">>, <<\h2CEB0, "L">>, <<\h2EBE1, "U">>,
  <<\h2F800, "L">>, <<\h2FA1E, "U">> >>

SetWhitespace ==
  (\h9 .. \hD) \cup {\h20, \h85, \hA0, \h1680} \cup (\h2000 .. \h200A)
    \cup {\h2028, \h2029, \h202F, \h205F, \h3000}

\* Pairs of a code point and its lower case, up to U+0176.
MapLowercase ==
  {<<c, c + 32>> : c \in (\h41 .. \h5A) \cup (\hC0 .. \hD6) \cup (\hD8 .. \hDE)}
    \cup {<<2 * c, 2 * c + 1>> : c \in (\h80 .. \h97) \cup (\h99 .. \h9B) \cup (\hA5 .. \hBB)}
    \cup {<<2 * c - 1, 2 * c>> : c \in \h9D .. \hA4}
    \cup {<<\h130, \h69>>}

\* Pairs of a code point and its upper case, up to U+0177.
MapUppercase ==
  {<<c, c - 32>> : c \in (\h61 .. \h7A) \cup (\hE0 .. \hF6) \cup (\hF8 .. \hFE)}
    \cup {<<2 * c + 1, 2 * c>> : c \in (\h80 .. \h97) \cup (\h99 .. \h9B) \cup (\hA5 .. \hBB)}
    \cup {<<2 * c, 2 * c - 1>> : c \in \h9D .. \hA4}
    \cup {<<\hB5, \h39C>>, <<\hFF, \h178>>, <<\h131, \h49>>}

\* The decompositions of Latin-1: first, last and what they decompose to.
RangesNfd == <<
  <<0, 0, 0>>, <<\hC0, \hC5, \h41>>, <<\hC7, \hC7, \h43>>, <<\hC8, \hCB, \h45>>,
  <<\hCC, \hCF, \h49>>, <<\hD1, \hD1, \h4E>>, <<\hD2, \hD6, \h4F>>, <<\hD9, \hDC, \h55>>,
  <<\hDD, \hDD, \h59>>, <<\hE0, \hE5, \h61>>, <<\hE7, \hE7, \h63>>, <<\hE8, \hEB, \h65>>,
  <<\hEC, \hEF, \h69>>, <<\hF1, \hF1, \h6E>>, <<\hF2, \hF6, \h6F>>, <<\hF9, \hFC, \h75>>,
  <<\hFD, \hFD, \h79>>, <<\hFF, \hFF, \h79>> >>

\* The binary searches and the filling of ranges rely on sorted tables.
ASSUME TablesSorted ==
  /\ \A i \in 2 .. Len(RangesFlags) : RangesFlags[i - 1][1] < RangesFlags[i][1]
  /\ \A i \in 2 .. Len(RangesNfd) : RangesNfd[i - 1][2] < RangesNfd[i][1]
  /\ \A p, q \in MapLowercase : p[1] = q[1] => p = q

LastAtMost(table, c) == CHOOSE i \in DOMAIN table :
  table[i][1] <= c /\ (i = Len(table) \/ c < table[i + 1][1])

\* unicode_cpt_flags_array(): the category of a code point and its helper flags.
FlagsOf(c) ==
  {RangesFlags[LastAtMost(RangesFlags, c)][2]}
    \cup (IF c \in SetWhitespace THEN {"whitespace"} ELSE {})
    \cup (IF \E p \in MapLowercase : p[2] = c THEN {"lowercase"} ELSE {})
    \cup (IF \E p \in MapUppercase : p[2] = c THEN {"uppercase"} ELSE {})
    \cup (IF \E i \in DOMAIN RangesNfd : RangesNfd[i][3] = c THEN {"nfd"} ELSE {})

CptFlagsArray == [c \in 0 .. \h7C0 |-> FlagsOf(c)]

\* unicode_cpt_flags_from_cpt()
CptFlags(c) ==
  IF c \in DOMAIN CptFlagsArray THEN CptFlagsArray[c]
  ELSE IF c < \h110000 THEN FlagsOf(c)
  ELSE {"U"}

ToLower(c) ==
  IF \E p \in MapLowercase : p[1] = c
  THEN (CHOOSE p \in MapLowercase : p[1] = c)[2]
  ELSE c

\* unicode_cpt_is_han()
IsHan(c) ==
  \E range \in {<<\h4E00, \h9FFF>>, <<\h3400, \h4DBF>>, <<\h20000, \h2A6DF>>,
               <<\h2A700, \h2EBEF>>, <<\hF900, \hFAFF>>, <<\h2F800, \h2FA1F>>} :
    c \in range[1] .. range[2]

-----------------------------------------------------------------------------
(* UTF-8.                                                                   *)

CptToUtf8(c) ==
  LET tail(shift) == 128 + ((c \div shift) % 64)
  IN IF c <= \h7F THEN <<c>>
     ELSE IF c <= \h7FF THEN <<192 + (c \div 64), tail(1)>>
     ELSE IF c <= \hFFFF THEN <<224 + (c \div 4096), tail(64), tail(1)>>
     ELSE <<240 + (c \div 262144), tail(4096), tail(64), tail(1)>>

\* unicode_len_utf8(): the length a first byte announces, never checked.
LenUtf8(b) == IF b < 192 THEN 1 ELSE IF b < 224 THEN 2 ELSE IF b < 240 THEN 3 ELSE 4

Continues(s, i) == i <= Len(s) /\ s[i] \div 64 = 2

\* Mutant: first bytes past F7 are read like those before them.
ReadLenLong(s, i) ==
  LET n == IF s[i] \in 128 .. 191 THEN 0 ELSE LenUtf8(s[i])
  IN IF \A k \in 1 .. n - 1 : Continues(s, i + k) THEN n ELSE 0

\* unicode_cpt_from_utf8(): 0 is "invalid character", else the length read.
ReadLen(s, i) ==
  LET n == IF s[i] \in 128 .. 191 \/ s[i] >= 248 THEN 0 ELSE LenUtf8(s[i])
  IN IF \A k \in 1 .. n - 1 : Continues(s, i + k) THEN n ELSE 0

CptAt(s, i) ==
  LET t(k) == s[i + k] % 64
  IN CASE ReadLen(s, i) = 0 -> \hFFFD
       [] ReadLen(s, i) = 1 -> s[i]
       [] ReadLen(s, i) = 2 -> ((s[i] % 32) * 64) + t(1)
       [] ReadLen(s, i) = 3 -> ((s[i] % 16) * 4096) + (t(1) * 64) + t(2)
       [] OTHER -> ((s[i] % 8) * 262144) + (t(1) * 4096) + (t(2) * 64) + t(3)

\* unicode_cpts_from_utf8(): an invalid byte becomes U+FFFD and is skipped alone.
CptsFromUtf8(s) ==
  LET from[i \in 1 .. Len(s) + 1] ==
        IF i > Len(s) THEN <<>>
        ELSE <<CptAt(s, i)>> \o from[i + (IF ReadLen(s, i) = 0 THEN 1 ELSE ReadLen(s, i))]
  IN from[1]

CptsToUtf8(cpts) == FlattenSeq([i \in DOMAIN cpts |-> CptToUtf8(cpts[i])])

-----------------------------------------------------------------------------
(* The alphabet of byte-level BPE: each byte as a printable character.      *)

Printable == (\h21 .. \h7E) \cup (\hA1 .. \hAC) \cup (\hAE .. \hFF)

ByteToUtf8 == [b \in Byte |->
  CptToUtf8(IF b \in Printable THEN b
            ELSE 256 + Cardinality({x \in 0 .. b - 1 : x \notin Printable}))]

Utf8ToByte == [s \in Range(ByteToUtf8) |-> CHOOSE b \in Byte : ByteToUtf8[b] = s]

ByteStrings == DOMAIN Utf8ToByte

\* unicode_byte_encoding_process() on one word.
ByteEncoded(s) == FlattenSeq([i \in DOMAIN s |-> ByteToUtf8[s[i]]])
=============================================================================
