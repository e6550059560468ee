--------------------------- MODULE Tokenizer_proofs ---------------------------
(***************************************************************************)
(* Proofs about the tokenizer, for every vocabulary, merge list and score   *)
(* table, and every text.  The words a text is cut into cover it; only a    *)
(* code point past U+10FFFF makes encode() throw; the list of symbols goes  *)
(* through every live symbol, in order; and merging through a queue with    *)
(* stale candidates in it is byte-pair merging.  The splitters written by   *)
(* hand cut where their regular expressions do, and Han letters are apart.  *)
(* The recursive functions of the model exist because each walks towards    *)
(* the end of its text, and what they give is shown by induction on what is *)
(* left of it.                                                              *)
(***************************************************************************)
EXTENDS Tokenizer, SequenceTheorems, FiniteSetTheorems, WellFoundedInduction, TLAPS

-----------------------------------------------------------------------------
(* Numbers.                                                                 *)

\* A nonempty set of numbers has a smallest one, which stands in for induction.
LEMMA Smallest ==
  ASSUME NEW T, T \subseteq Nat, T # {}
  PROVE  \E n \in T : \A k \in T : n <= k
<1> DEFINE R == {ss \in Nat \X Nat : ss[1] < ss[2]}
<1>1. R = OpToRel(<, Nat)
  BY Zenon DEF OpToRel
<1>2. IsWellFoundedOn(OpToRel(<, Nat), Nat)
  BY NatLessThanWellFounded
<1>3. PICK n \in T : \A k \in T : ~(<<k, n>> \in R)
  <2> HIDE DEF R
  <2>1. IsWellFoundedOn(R, Nat)
    BY ONLY <1>1, <1>2
  <2> QED
    BY <2>1, WFMin
<1>4. ASSUME NEW k \in T
      PROVE  n <= k
  <2>1. n \in Nat /\ k \in Nat
    OBVIOUS
  <2>2. ~(<<k, n>> \in R)
    BY <1>3
  <2>3. <<k, n>> \in Nat \X Nat
    BY <2>1
  <2>4. ~(k < n)
    BY ONLY <2>2, <2>3
  <2> QED
    BY <2>1, <2>4
<1> QED
  BY <1>4

\* What holds of 0 and is handed from each number to the next holds of all.
LEMMA Counting ==
  ASSUME NEW T, 0 \in T, \A n \in Nat : n \in T => n + 1 \in T
  PROVE  Nat \subseteq T
<1> SUFFICES ASSUME Nat \ T # {}
             PROVE  FALSE
  OBVIOUS
<1>1. PICK n \in Nat \ T : \A k \in Nat \ T : n <= k
  BY Smallest
<1>2. n # 0 /\ n - 1 \in Nat
  BY <1>1
<1>3. n - 1 \in T
  BY <1>1, <1>2
<1> QED
  BY <1>1, <1>2, <1>3

\* A number that every element of S has, and what holds of an element as soon as
\* it holds of those with smaller numbers holds of all.
LEMMA Descending ==
  ASSUME NEW S, NEW rank, \A i \in S : rank[i] \in Nat, NEW P,
         \A i \in S : (\A j \in S : rank[j] < rank[i] => j \in P) => i \in P
  PROVE  S \subseteq P
<1> DEFINE R == {rank[i] : i \in S \ P}
<1> SUFFICES ASSUME R # {} PROVE FALSE
  OBVIOUS
<1>1. PICK n \in R : \A k \in R : n <= k
  <2>1. R \subseteq Nat
    OBVIOUS
  <2> HIDE DEF R
  <2> QED
    BY <2>1, Smallest
<1>2. PICK i \in S \ P : n = rank[i]
  BY <1>1
<1>3. ASSUME NEW j \in S, rank[j] < rank[i], j \notin P
      PROVE  FALSE
  <2>1. rank[j] \in R
    BY <1>3
  <2>2. rank[i] <= rank[j] /\ rank[i] \in Nat /\ rank[j] \in Nat
    BY <1>1, <1>2, <2>1
  <2> QED
    BY <1>3, <2>2
<1> QED
  BY <1>2, <1>3

-----------------------------------------------------------------------------
(* The recursive functions of the tokenizer walk through positions: at the  *)
(* end they are empty, elsewhere they put something before what they give   *)
(* at a later position.                                                     *)

\* f is such a walk over S that ends in B, with head h and next position next.
Walk(f, S, B, h, next) == f = [i \in S |-> IF i \in B THEN <<>> ELSE h[i] \o f[next[i]]]

\* Each step leads to a smaller rank.
Ends(S, B, next, rank) ==
  /\ \A i \in S : rank[i] \in Nat
  /\ \A i \in S \ B : next[i] \in S /\ rank[next[i]] < rank[i]

\* There is such a function when the walk ends.
LEMMA WalkExists ==
  ASSUME NEW S, NEW B, NEW h, NEW next, NEW rank, Ends(S, B, next, rank),
         NEW N \in Nat, \A i \in S : rank[i] < N
  PROVE  \E f : Walk(f, S, B, h, next)
<1> DEFINE Below(n) == {i \in S : rank[i] < n}
           Partly(f, n) == Walk(f, Below(n), B, h, next)
           T == {n \in Nat : \E f : Partly(f, n)}
<1>1. 0 \in T
  <2>1. Below(0) = {}
    BY DEF Ends
  <2>2. Partly([i \in {} |-> 0], 0)
    BY <2>1 DEF Walk
  <2> QED
    BY <2>2
<1>2. ASSUME NEW n \in Nat, n \in T
      PROVE  n + 1 \in T
  <2>1. PICK f : Partly(f, n)
    BY <1>2
  <2> DEFINE g == [i \in Below(n + 1) |->
                     IF i \in Below(n) THEN f[i] ELSE IF i \in B THEN <<>> ELSE h[i] \o f[next[i]]]
  <2>2. ASSUME NEW i \in Below(n + 1), i \notin B
        PROVE  next[i] \in Below(n) /\ next[i] \in Below(n + 1)
    BY <2>2 DEF Ends
  <2>3. ASSUME NEW i \in Below(n + 1)
        PROVE  g[i] = IF i \in B THEN <<>> ELSE h[i] \o g[next[i]]
    <3>1. i \notin B => g[next[i]] = f[next[i]]
      BY <2>2
    <3>2. CASE i \in Below(n)
      <4>1. f[i] = IF i \in B THEN <<>> ELSE h[i] \o f[next[i]]
        BY <2>1, <3>2 DEF Walk
      <4> QED
        BY <3>1, <3>2, <4>1
    <3>3. CASE i \notin Below(n)
      BY <3>1, <3>3
    <3> QED
      BY <3>2, <3>3
  <2>4. g = [i \in Below(n + 1) |-> IF i \in B THEN <<>> ELSE h[i] \o g[next[i]]]
    <3>1. g = [i \in Below(n + 1) |-> g[i]]
      OBVIOUS
    <3> HIDE DEF g
    <3> QED
      BY <2>3, <3>1
  <2>5. Partly(g, n + 1)
    <3> HIDE DEF g
    <3> QED
      BY <2>4 DEF Walk
  <2> HIDE DEF Partly
  <2> QED
    BY <2>5
<1>3. N \in T
  <2> HIDE DEF T
  <2> QED
    BY <1>1, <1>2, Counting
<1>4. Below(N) = S
  OBVIOUS
<1> QED
  BY <1>3, <1>4

\* What a walk gives is a sequence of what its heads have.
LEMMA WalkIsSequence ==
  ASSUME NEW S, NEW B, NEW h, NEW next, NEW rank, Ends(S, B, next, rank),
         NEW f, Walk(f, S, B, h, next),
         NEW T, \A i \in S \ B : h[i] \in Seq(T)
  PROVE  \A i \in S : f[i] \in Seq(T)
<1> DEFINE P == {i \in S : f[i] \in Seq(T)}
<1>1. ASSUME NEW i \in S, \A j \in S : rank[j] < rank[i] => j \in P
      PROVE  i \in P
  <2>1. f[i] = IF i \in B THEN <<>> ELSE h[i] \o f[next[i]]
    BY DEF Walk
  <2>2. CASE i \in B
    <3>1. f[i] = <<>>
      BY <2>1, <2>2
    <3>2. <<>> \in Seq(T)
      OBVIOUS
    <3> QED
      BY <3>1, <3>2
  <2>3. CASE i \notin B
    <3>1. next[i] \in P
      BY <1>1, <2>3 DEF Ends
    <3>2. h[i] \in Seq(T) /\ f[next[i]] \in Seq(T)
      BY <2>3, <3>1
    <3>3. h[i] \o f[next[i]] \in Seq(T)
      BY ONLY <3>2, ConcatProperties
    <3> QED
      BY <2>1, <2>3, <3>3
  <2> QED
    BY <2>2, <2>3
<1> HIDE DEF P
<1>2. S \subseteq P
  BY <1>1, Descending DEF Ends
<1> QED
  BY <1>2 DEF P

-----------------------------------------------------------------------------
(* Runs of positions and the rules of the splitters.                        *)

\* The classes of a text: sets of its positions, 1 to end - 1.
IsClasses(c) ==
  /\ c.end \in Nat \ {0} /\ c.all = 1 .. c.end - 1
  /\ \A P \in {c.letters, c.numbers, c.marks, c.spaces, c.breaks, c.lines, c.blanks, c.han} :
       P \subseteq c.all

\* A set of positions of the text.
Within(c, P) == P \subseteq 1 .. c.end - 1

\* A run: all of it is in the set, and its end, in the text or the end of that, is not.
LEMMA RunIs ==
  ASSUME NEW c, c.end \in Nat \ {0}, NEW P, Within(c, P), NEW i \in 1 .. c.end
  PROVE  /\ RunEnd(P, i) \in i .. c.end
         /\ i \in P => RunEnd(P, i) > i
         /\ (i .. RunEnd(P, i) - 1) \subseteq P /\ RunEnd(P, i) \notin P
         /\ Cardinality(P) \in Nat /\ RunEnd(P, i) - i <= Cardinality(P)
<1> DEFINE R == {j \in Nat : j >= i /\ j \notin P}
           Good(j) == (i .. j - 1) \subseteq P /\ j \notin P
<1>1. IsFiniteSet(P) /\ Cardinality(P) \in Nat
  <2>1. IsFiniteSet(1 .. c.end - 1)
    BY FS_Interval
  <2> QED
    BY <2>1, FS_Subset, FS_CardinalityType DEF Within
<1>2. PICK e \in R : \A k \in R : e <= k
  <2>1. c.end \in Nat /\ c.end >= i /\ c.end \notin P
    BY DEF Within
  <2>2. R \subseteq Nat /\ c.end \in R
    BY <2>1
  <2> HIDE DEF R
  <2> QED
    BY <2>2, Smallest
<1>3. e \in Nat /\ e >= i /\ Good(e)
  BY <1>2
<1>4. e - i <= Cardinality(P)
  <2>0. i \in Int /\ e - 1 \in Int
    BY <1>3
  <2>1. IsFiniteSet(i .. e - 1) /\ Cardinality(i .. e - 1) = IF i > e - 1 THEN 0 ELSE (e - 1) - i + 1
    BY ONLY <2>0, FS_Interval
  <2>2. Cardinality(i .. e - 1) <= Cardinality(P)
    BY <1>1, <1>3, FS_Subset
  <2> QED
    BY <1>1, <1>3, <2>1, <2>2
<1>5. e \in i .. i + Cardinality(P)
  BY <1>1, <1>3, <1>4
<1>6. RunEnd(P, i) \in i .. i + Cardinality(P) /\ Good(RunEnd(P, i))
  <2> HIDE DEF R
  <2>1. \E j \in i .. i + Cardinality(P) : Good(j)
    BY <1>3, <1>5
  <2>2. RunEnd(P, i) = CHOOSE j \in i .. i + Cardinality(P) : Good(j)
    BY DEF RunEnd
  <2> HIDE DEF Good
  <2> QED
    BY <2>1, <2>2
<1> DEFINE r == RunEnd(P, i)
<1>7. r \in Int /\ r >= i /\ (i .. r - 1) \subseteq P /\ r \notin P /\ r <= i + Cardinality(P)
  BY <1>1, <1>6
<1> HIDE DEF r
<1>8. r <= c.end
  <2> SUFFICES ASSUME r > c.end PROVE FALSE
    BY <1>7
  <2>1. c.end \in i .. r - 1
    BY <1>7
  <2> QED
    BY <1>7, <2>1 DEF Within
<1>9. i \in P => r > i
  BY <1>7
<1>10. r - i <= Cardinality(P)
  BY <1>1, <1>7
<1> QED
  BY <1>1, <1>7, <1>8, <1>9, <1>10 DEF r

\* A run ends in the text or at its end, and not where it begins if that is in it.
LEMMA RunEnds ==
  ASSUME NEW c, c.end \in Nat \ {0}, NEW P, Within(c, P), NEW i \in 1 .. c.end
  PROVE  /\ RunEnd(P, i) \in i .. c.end
         /\ i \in P => RunEnd(P, i) > i
BY RunIs

\* Where a run ends is the only place it can.
LEMMA RunIsOne ==
  ASSUME NEW c, c.end \in Nat \ {0}, NEW P, Within(c, P), NEW i \in 1 .. c.end,
         NEW r \in Int, r >= i, (i .. r - 1) \subseteq P, r \notin P
  PROVE  RunEnd(P, i) = r
<1> DEFINE q == RunEnd(P, i)
<1>1. q \in Int /\ q >= i /\ (i .. q - 1) \subseteq P /\ q \notin P
  BY RunIs
<1> HIDE DEF q
<1>2. ~(r < q)
  <2> SUFFICES ASSUME r < q PROVE FALSE
    OBVIOUS
  <2>1. r \in i .. q - 1
    BY <1>1
  <2> QED
    BY <1>1, <2>1
<1>3. ~(q < r)
  <2> SUFFICES ASSUME q < r PROVE FALSE
    OBVIOUS
  <2>1. q \in i .. r - 1
    BY <1>1
  <2> QED
    BY <1>1, <2>1
<1> QED
  BY <1>1, <1>2, <1>3 DEF q

\* A rule skips one blank at most.
LEMMA SkipIsNear ==
  ASSUME NEW c, IsClasses(c), NEW i \in 1 .. c.end - 1
  PROVE  Skip(c, i) \in {i, i + 1}
BY DEF Skip

\* Cuts from position i on: in order, past i, not past the end.
Cutting(c, i, r) ==
  /\ r \in Seq(Int)
  /\ r # <<>> => r[1] > i /\ r[Len(r)] <= c.end
  /\ \A k \in 2 .. Len(r) : r[k - 1] < r[k]

\* A position between i and the end.
Past(c, i, e) == e \in Int /\ e > i /\ e <= c.end

\* One cut past the position.
LEMMA OneCut ==
  ASSUME NEW c, NEW i, NEW e, Past(c, i, e)
  PROVE  Cutting(c, i, <<e>>)
BY DEF Cutting, Past

\* A rule that does not apply cuts nothing.
LEMMA NoCut ==
  ASSUME NEW c, NEW i
  PROVE  Cutting(c, i, <<>>)
BY DEF Cutting

\* The sets of a text's classes, and what is made of them, lie within the text.
LEMMA SetsAreWithin ==
  ASSUME NEW c, IsClasses(c)
  PROVE  /\ c.end \in Nat \ {0} /\ c.all = 1 .. c.end - 1
         /\ Within(c, c.letters) /\ Within(c, c.numbers) /\ Within(c, c.marks)
         /\ Within(c, c.spaces) /\ Within(c, c.breaks) /\ Within(c, c.lines)
         /\ Within(c, c.blanks) /\ Within(c, c.han) /\ Within(c, c.all)
         /\ Within(c, Others(c)) /\ Within(c, c.letters \cup c.marks)
         /\ Within(c, Others(c) \ c.marks) /\ Within(c, c.letters \ c.han)
         /\ Within(c, c.all \ c.lines)
BY DEF IsClasses, Within, Others

\* A position of the text, the one after it, and the end.
LEMMA PositionsAre ==
  ASSUME NEW c, IsClasses(c), NEW i \in 1 .. c.end - 1
  PROVE  /\ c.end \in Nat \ {0} /\ i \in Int /\ i < c.end
         /\ i \in 1 .. c.end /\ i + 1 \in 1 .. c.end /\ i \in c.all
<1>1. c.end \in Nat \ {0} /\ c.all = 1 .. c.end - 1
  BY DEF IsClasses
<1> QED
  BY <1>1

\* The run a position begins is past it.
LEMMA RunPast ==
  ASSUME NEW c, IsClasses(c), NEW i \in 1 .. c.end - 1, NEW P, Within(c, P), i \in P
  PROVE  Past(c, i, RunEnd(P, i))
<1>1. c.end \in Nat \ {0} /\ i \in 1 .. c.end /\ i \in Int
  BY PositionsAre
<1>2. RunEnd(P, i) \in i .. c.end /\ RunEnd(P, i) > i
  BY <1>1, RunEnds
<1> QED
  BY <1>1, <1>2 DEF Past

\* Each rule cuts from the position it is tried at on.
LEMMA ContractionCuts ==
  ASSUME NEW c, IsClasses(c), NEW i \in 1 .. c.end, NEW fold
  PROVE  Cutting(c, i, Contraction(c, i, fold))
<1> DEFINE at(k) == IF i + k \notin c.all THEN 0
                    ELSE IF fold THEN ToLower(c.text[i + k]) ELSE c.text[i + k]
<1>1. c.end \in Nat /\ c.all = 1 .. c.end - 1
  BY SetsAreWithin
<1>2. at(1) # 0 => Past(c, i, i + 2)
  BY <1>1 DEF Past
<1>3. at(2) # 0 => Past(c, i, i + 3)
  BY <1>1 DEF Past
<1>4. Contraction(c, i, fold) \in
        {<<>>} \cup (IF at(1) # 0 THEN {<<i + 2>>} ELSE {})
               \cup (IF at(2) # 0 THEN {<<i + 3>>} ELSE {})
  <2> HIDE DEF at
  <2>1. Contraction(c, i, fold) =
          IF i \notin c.all \/ c.text[i] # Quote THEN <<>>
          ELSE IF at(1) \in {\h73, \h74, \h6D, \h64} THEN <<i + 2>>
          ELSE IF <<at(1), at(2)>> \in {<<\h72, \h65>>, <<\h76, \h65>>, <<\h6C, \h6C>>} THEN <<i + 3>>
          ELSE <<>>
    BY DEF Contraction, at
  <2>2. at(1) \in {\h73, \h74, \h6D, \h64} => at(1) # 0
    OBVIOUS
  <2>3. <<at(1), at(2)>> \in {<<\h72, \h65>>, <<\h76, \h65>>, <<\h6C, \h6C>>} => at(2) # 0
    OBVIOUS
  <2> QED
    BY <2>1, <2>2, <2>3
<1>5. at(1) # 0 => Cutting(c, i, <<i + 2>>)
  BY <1>2, OneCut
<1>6. at(2) # 0 => Cutting(c, i, <<i + 3>>)
  BY <1>3, OneCut
<1>7. Cutting(c, i, <<>>)
  BY NoCut
<1> HIDE DEF at
<1> QED
  BY <1>4, <1>5, <1>6, <1>7

\* The rules cut past the position they are tried at: a run with or without a blank
\* before it,
LEMMA SpacedRunCuts ==
  ASSUME NEW c, IsClasses(c), NEW i \in 1 .. c.end - 1, NEW P, Within(c, P)
  PROVE  Cutting(c, i, SpacedRun(c, i, P))
<1>1. c.end \in Nat \ {0} /\ Skip(c, i) \in 1 .. c.end /\ Skip(c, i) >= i /\ i \in Int
  BY PositionsAre, SkipIsNear
<1>2. CASE Skip(c, i) \in P
  <2>1. RunEnd(P, Skip(c, i)) \in Skip(c, i) .. c.end /\ RunEnd(P, Skip(c, i)) > Skip(c, i)
    BY <1>1, <1>2, RunEnds
  <2>2. Past(c, i, RunEnd(P, Skip(c, i)))
    BY <1>1, <2>1 DEF Past
  <2>3. Cutting(c, i, <<RunEnd(P, Skip(c, i))>>)
    BY <2>2, OneCut
  <2> QED
    BY <1>2, <2>3 DEF SpacedRun
<1>3. Cutting(c, i, <<>>)
  BY NoCut
<1> QED
  BY <1>2, <1>3 DEF SpacedRun

\* a run with any one character before it,
LEMMA PrefixedRunCuts ==
  ASSUME NEW c, IsClasses(c), NEW i \in 1 .. c.end - 1, NEW P, Within(c, P)
  PROVE  Cutting(c, i, PrefixedRun(c, i, P))
<1>1. c.end \in Nat \ {0} /\ i + 1 \in 1 .. c.end /\ i \in Int
  BY PositionsAre
<1>2. RunEnd(P, i + 1) \in i + 1 .. c.end
  BY <1>1, RunEnds
<1>3. Past(c, i, RunEnd(P, i + 1))
  BY <1>1, <1>2 DEF Past
<1>4. Cutting(c, i, <<RunEnd(P, i + 1)>>) /\ Cutting(c, i, <<>>)
  BY <1>3, OneCut, NoCut
<1> QED
  BY <1>4 DEF PrefixedRun

\* one digit,
LEMMA DigitCuts ==
  ASSUME NEW c, IsClasses(c), NEW i \in 1 .. c.end - 1
  PROVE  Cutting(c, i, Digit(c, i))
<1>1. Past(c, i, i + 1)
  BY PositionsAre DEF Past
<1>2. Cutting(c, i, <<i + 1>>) /\ Cutting(c, i, <<>>)
  BY <1>1, OneCut, NoCut
<1> QED
  BY <1>2 DEF Digit

\* a run of symbols with the line breaks that follow it,
LEMMA SymbolsAndBreaksCuts ==
  ASSUME NEW c, IsClasses(c), NEW i \in 1 .. c.end - 1, NEW P, Within(c, P)
  PROVE  Cutting(c, i, SymbolsAndBreaks(c, i, P))
<1> DEFINE s == Skip(c, i)
           e == RunEnd(P, s)
           b == RunEnd(c.breaks, e)
<1>1. c.end \in Nat \ {0} /\ s \in 1 .. c.end /\ s >= i /\ i \in Int
  BY PositionsAre, SkipIsNear
<1> HIDE DEF s
<1>2. e \in s .. c.end /\ (s \in P => e > s)
  BY <1>1, RunEnds
<1> HIDE DEF e
<1>3. e \in 1 .. c.end
  BY <1>1, <1>2
<1>9. Within(c, c.breaks)
  BY SetsAreWithin
<1>4. b \in e .. c.end
  BY <1>1, <1>3, <1>9, RunEnds
<1>5. s \in P \cup {c.end} => Past(c, i, b)
  <2>1. CASE s \in P
    BY <1>1, <1>2, <1>4, <2>1 DEF Past
  <2>2. CASE s = c.end
    BY <1>1, <1>2, <1>4, <2>2 DEF Past
  <2> QED
    BY <2>1, <2>2
<1>6. s \in P \cup {c.end} => Cutting(c, i, <<b>>)
  BY <1>5, OneCut
<1>7. Cutting(c, i, <<>>)
  BY NoCut
<1>8. SymbolsAndBreaks(c, i, P) = IF s \in P \cup {c.end} THEN <<b>> ELSE <<>>
  BY DEF SymbolsAndBreaks, s, e
<1> HIDE DEF b
<1> QED
  BY <1>6, <1>7, <1>8

\* spaces up to the one before a word,
LEMMA SpacesBeforeCuts ==
  ASSUME NEW c, IsClasses(c), NEW i \in 1 .. c.end - 1
  PROVE  Cutting(c, i, SpacesBefore(c, i))
<1> DEFINE e == RunEnd(c.spaces, i)
<1>1. c.end \in Nat \ {0} /\ i \in 1 .. c.end /\ i \in Int /\ Within(c, c.spaces)
  BY PositionsAre, SetsAreWithin
<1>2. e \in i .. c.end
  BY <1>1, RunEnds
<1> HIDE DEF e
<1>3. e > i + 1 => Past(c, i, e - 1)
  BY <1>1, <1>2 DEF Past
<1>4. e > i + 1 => Cutting(c, i, <<e - 1>>)
  BY <1>3, OneCut
<1>5. Cutting(c, i, <<>>)
  BY NoCut
<1> QED
  BY <1>4, <1>5 DEF SpacesBefore, e

\* the spaces that are left,
LEMMA SpacesCuts ==
  ASSUME NEW c, IsClasses(c), NEW i \in 1 .. c.end - 1
  PROVE  Cutting(c, i, Spaces(c, i))
<1>1. i \in c.spaces => Past(c, i, RunEnd(c.spaces, i))
  BY SetsAreWithin, RunPast
<1>2. i \in c.spaces => Cutting(c, i, <<RunEnd(c.spaces, i)>>)
  BY <1>1, OneCut
<1>3. Cutting(c, i, <<>>)
  BY NoCut
<1> QED
  BY <1>2, <1>3 DEF Spaces

\* a run of Han characters,
LEMMA HanCuts ==
  ASSUME NEW c, IsClasses(c), NEW i \in 1 .. c.end - 1
  PROVE  Cutting(c, i, Han(c, i))
<1>1. i \in c.han => Past(c, i, RunEnd(c.han, i))
  BY SetsAreWithin, RunPast
<1>2. i \in c.han => Cutting(c, i, <<RunEnd(c.han, i)>>)
  BY <1>1, OneCut
<1>3. Cutting(c, i, <<>>)
  BY NoCut
<1> QED
  BY <1>2, <1>3 DEF Han

\* a run of one line,
LEMMA LinesCuts ==
  ASSUME NEW c, IsClasses(c), NEW i \in 1 .. c.end - 1
  PROVE  Cutting(c, i, Lines(c, i))
<1>1. i \in c.all
  BY PositionsAre
<1>2. i \in c.lines => Past(c, i, RunEnd(c.lines, i))
  BY SetsAreWithin, RunPast
<1>3. i \notin c.lines => Past(c, i, RunEnd(c.all \ c.lines, i))
  BY <1>1, SetsAreWithin, RunPast
<1>4. i \in c.lines => Cutting(c, i, <<RunEnd(c.lines, i)>>)
  BY <1>2, OneCut
<1>5. i \notin c.lines => Cutting(c, i, <<RunEnd(c.all \ c.lines, i)>>)
  BY <1>3, OneCut
<1> QED
  BY <1>4, <1>5 DEF Lines

\* The least of a set of numbers, and the greatest of a bounded one.
LEMMA MinIs ==
  ASSUME NEW S, S \subseteq Nat, S # {}
  PROVE  Min(S) \in S /\ \A y \in S : Min(S) <= y
<1>1. \E x \in S : \A y \in S : x <= y
  BY Smallest
<1> QED
  BY <1>1 DEF Min

\* The same of the greatest number.
LEMMA MaxIs ==
  ASSUME NEW a \in Int, NEW b \in Int, NEW S, S \subseteq a .. b, S # {}
  PROVE  Max(S) \in S /\ \A y \in S : Max(S) >= y
<1> DEFINE R == {b - x : x \in S}
<1>0. \A x \in S : x \in Int /\ b - x \in Nat
  OBVIOUS
<1>1. R \subseteq Nat /\ R # {}
  BY <1>0
<1>2. PICK n \in R : \A k \in R : n <= k
  <2> HIDE DEF R
  <2> QED
    BY <1>1, Smallest
<1>3. PICK x \in S : n = b - x
  BY <1>2
<1>4. ASSUME NEW y \in S
      PROVE  x >= y
  <2>1. b - y \in R
    OBVIOUS
  <2>2. b - x <= b - y /\ x \in Int /\ y \in Int
    BY <1>0, <1>2, <1>3, <2>1
  <2> QED
    BY <2>2
<1>5. \E z \in S : \A y \in S : z >= y
  BY <1>4
<1> QED
  BY <1>5 DEF Max

\* Spaces up to the last line break among them are cut past where they begin,
LEMMA BreaksCuts ==
  ASSUME NEW c, IsClasses(c), NEW i \in 1 .. c.end - 1
  PROVE  Cutting(c, i, Breaks(c, i))
<1> DEFINE e == RunEnd(c.spaces, i)
           R == c.breaks \cap (i .. e - 1)
<1>1. c.end \in Nat \ {0} /\ i \in 1 .. c.end /\ i \in Int
  BY PositionsAre
<1>2. Within(c, c.spaces)
  BY SetsAreWithin
<1>3. e \in i .. c.end
  BY <1>1, <1>2, RunEnds
<1> HIDE DEF e
<1>4. R \subseteq i .. e - 1 /\ e - 1 \in Int
  BY <1>1, <1>3
<1> HIDE DEF R
<1>5. R # {} => Max(R) \in i .. e - 1
  BY <1>1, <1>4, MaxIs
<1>6. R # {} => Past(c, i, Max(R) + 1)
  BY <1>1, <1>3, <1>5 DEF Past
<1>7. R # {} => Cutting(c, i, <<Max(R) + 1>>)
  BY <1>6, OneCut
<1>8. Cutting(c, i, <<>>)
  BY NoCut
<1> QED
  BY <1>7, <1>8 DEF Breaks, e, R

\* digits by threes from the left, each cut past the one before,
LEMMA DigitsOfThreeCuts ==
  ASSUME NEW c, IsClasses(c), NEW i \in 1 .. c.end - 1
  PROVE  Cutting(c, i, DigitsOfThree(c, i))
<1> DEFINE e == RunEnd(c.numbers, i)
           n == (e - i + 2) \div 3
           cut(k) == IF i + 3 * k <= e THEN i + 3 * k ELSE e
           r == [k \in 1 .. n |-> cut(k)]
<1>1. c.end \in Nat \ {0} /\ i \in 1 .. c.end /\ i \in Int
  BY PositionsAre
<1>2. Within(c, c.numbers)
  BY SetsAreWithin
<1>3. e \in i .. c.end
  BY <1>1, <1>2, RunEnds
<1> HIDE DEF e
<1>4. e \in Int /\ i <= e /\ e <= c.end
  BY <1>1, <1>3
<1>5. n \in Nat /\ 3 * n <= e - i + 2 /\ e - i <= 3 * n
  BY <1>1, <1>4
<1> HIDE DEF n
<1>6. ASSUME NEW k \in 1 .. n
      PROVE  cut(k) \in Int /\ cut(k) > i /\ cut(k) <= c.end
  BY <1>1, <1>4, <1>5
<1>7. ASSUME NEW k \in 2 .. n
      PROVE  cut(k - 1) < cut(k)
  BY <1>1, <1>4, <1>5
<1> HIDE DEF cut
<1>8. r \in Seq(Int) /\ Len(r) = n /\ \A k \in 1 .. n : r[k] = cut(k)
  BY <1>5, <1>6
<1> HIDE DEF r
<1>9. r # <<>> => 1 \in 1 .. n /\ n \in 1 .. n
  BY <1>5, <1>8
<1>10. r # <<>> => r[1] > i /\ r[n] <= c.end
  BY <1>6, <1>8, <1>9
<1>11. \A k \in 2 .. n : r[k - 1] < r[k]
  BY <1>5, <1>7, <1>8
<1>12. Cutting(c, i, r)
  BY <1>8, <1>10, <1>11 DEF Cutting
<1> QED
  BY <1>12 DEF DigitsOfThree, e, n, cut, r

\* digits by threes from the right,
LEMMA DigitsFromTheRightCuts ==
  ASSUME NEW c, IsClasses(c), NEW i \in 1 .. c.end - 1
  PROVE  Cutting(c, i, DigitsFromTheRight(c, i))
<1> DEFINE ends == {j + 1 : j \in {k \in c.numbers : (RunEnd(c.numbers, k) - 1 - k) % 3 = 0}}
           R == {e \in ends \cup {c.end} : e > i}
<1>1. c.end \in Nat \ {0} /\ i \in 1 .. c.end /\ i \in Int /\ i < c.end
  BY PositionsAre
<1>2. Within(c, c.numbers)
  BY SetsAreWithin
<1>3. \A e \in ends : e \in Nat /\ e <= c.end
  BY <1>1, <1>2 DEF Within
<1> HIDE DEF ends
<1>4. R \subseteq Nat /\ c.end \in R /\ \A e \in R : Past(c, i, e)
  BY <1>1, <1>3 DEF Past
<1> HIDE DEF R
<1>5. Min(R) \in R
  BY <1>4, MinIs
<1>6. Cutting(c, i, <<Min(R)>>)
  BY <1>4, <1>5, OneCut
<1> QED
  BY <1>6 DEF DigitsFromTheRight, R, ends

\* and a word of letters that are not Han, with its contraction.
LEMMA KimiWordCuts ==
  ASSUME NEW c, IsClasses(c), NEW i \in 1 .. c.end - 1
  PROVE  Cutting(c, i, KimiWord(c, i))
<1> DEFINE P == c.letters \ c.han
           leads == i \notin c.breaks \cup c.letters \cup c.numbers /\ i + 1 \in P
           s == IF leads THEN i + 1 ELSE i
           e == RunEnd(P, s)
           suffix == Contraction(c, e, TRUE)
<1>1. c.end \in Nat \ {0} /\ i \in 1 .. c.end /\ i \in Int /\ i < c.end /\ i + 1 \in 1 .. c.end
  BY PositionsAre
<1>2. Within(c, P)
  BY SetsAreWithin
<1>3. s \in 1 .. c.end /\ s >= i /\ s \in Int
  BY <1>1
<1>4. leads \/ i \in P => s \in P
  OBVIOUS
<1> HIDE DEF P, leads, s
<1>5. e \in s .. c.end /\ (s \in P => e > s)
  BY <1>1, <1>2, <1>3, RunEnds
<1> HIDE DEF e
<1>6. e \in 1 .. c.end /\ e \in Int /\ (leads \/ i \in P => e > i) /\ e <= c.end
  BY <1>1, <1>3, <1>4, <1>5
<1>7. Cutting(c, e, suffix)
  BY <1>6, ContractionCuts
<1> HIDE DEF suffix
<1>8. leads \/ i \in P => Cutting(c, i, suffix)
  <2> SUFFICES ASSUME e > i, suffix # <<>> PROVE suffix[1] > i
    BY <1>6, <1>7 DEF Cutting
  <2>1. suffix[1] > e /\ suffix[1] \in Int
    BY <1>7 DEF Cutting
  <2> QED
    BY <1>1, <1>6, <2>1
<1>9. leads \/ i \in P => Cutting(c, i, <<e>>)
  BY <1>6, OneCut DEF Past
<1>10. Cutting(c, i, <<>>)
  BY NoCut
<1>11. KimiWord(c, i) = IF ~leads /\ i \notin P THEN <<>> ELSE IF suffix = <<>> THEN <<e>> ELSE suffix
  BY DEF KimiWord, suffix, e, s, leads, P
<1> QED
  BY <1>8, <1>9, <1>10, <1>11

-----------------------------------------------------------------------------
(* The splitters.                                                           *)

\* Every rule of a splitter cuts from i on.
RulesCut(c, i, rules) ==
  DOMAIN rules \subseteq Nat /\ \A k \in DOMAIN rules : Cutting(c, i, rules[k])

\* A sequence of rules that cut well is one, whatever their number: one,
LEMMA OneRule ==
  ASSUME NEW c, NEW i, NEW a1, Cutting(c, i, a1)
  PROVE  RulesCut(c, i, <<a1>>)
BY DEF RulesCut

\* six,
LEMMA SixRules ==
  ASSUME NEW c, NEW i, NEW a1, NEW a2, NEW a3, NEW a4, NEW a5, NEW a6,
         Cutting(c, i, a1), Cutting(c, i, a2), Cutting(c, i, a3), Cutting(c, i, a4),
         Cutting(c, i, a5), Cutting(c, i, a6)
  PROVE  RulesCut(c, i, <<a1, a2, a3, a4, a5, a6>>)
BY DEF RulesCut

\* and seven.
LEMMA SevenRules ==
  ASSUME NEW c, NEW i, NEW a1, NEW a2, NEW a3, NEW a4, NEW a5, NEW a6, NEW a7,
         Cutting(c, i, a1), Cutting(c, i, a2), Cutting(c, i, a3), Cutting(c, i, a4),
         Cutting(c, i, a5), Cutting(c, i, a6), Cutting(c, i, a7)
  PROVE  RulesCut(c, i, <<a1, a2, a3, a4, a5, a6, a7>>)
BY DEF RulesCut

\* The names of the splitters written by hand.
Splitters == {"gpt2", "llama3", "qwen2", "qwen35", "kimi_k2", "newlines", "afmoe"}

\* Every rule of every splitter written by hand cuts past the position it is tried at.
LEMMA SplittersCut ==
  ASSUME NEW c, IsClasses(c), NEW i \in 1 .. c.end - 1, NEW name \in Splitters
  PROVE  RulesCut(c, i, Rules(c, i, name))
<1>0. i \in 1 .. c.end
  BY PositionsAre
<1>1. /\ Within(c, c.letters) /\ Within(c, c.numbers) /\ Within(c, Others(c))
      /\ Within(c, c.letters \cup c.marks) /\ Within(c, Others(c) \ c.marks)
  BY SetsAreWithin
<1>2. /\ \A fold \in BOOLEAN : Cutting(c, i, Contraction(c, i, fold))
      /\ \A P : Within(c, P) => /\ Cutting(c, i, SpacedRun(c, i, P))
                                /\ Cutting(c, i, PrefixedRun(c, i, P))
                                /\ Cutting(c, i, SymbolsAndBreaks(c, i, P))
  BY <1>0, ContractionCuts, SpacedRunCuts, PrefixedRunCuts, SymbolsAndBreaksCuts
<1>3. /\ Cutting(c, i, Digit(c, i)) /\ Cutting(c, i, DigitsOfThree(c, i))
      /\ Cutting(c, i, Breaks(c, i)) /\ Cutting(c, i, SpacesBefore(c, i))
      /\ Cutting(c, i, Spaces(c, i)) /\ Cutting(c, i, Han(c, i))
      /\ Cutting(c, i, KimiWord(c, i)) /\ Cutting(c, i, Lines(c, i))
      /\ Cutting(c, i, DigitsFromTheRight(c, i)) /\ Cutting(c, i, <<>>)
  BY DigitCuts, DigitsOfThreeCuts, BreaksCuts, SpacesBeforeCuts, SpacesCuts, HanCuts,
     KimiWordCuts, LinesCuts, DigitsFromTheRightCuts, NoCut
<1>4. RulesCut(c, i, Gpt2(c, i))
  BY <1>1, <1>2, <1>3, SixRules DEF Gpt2
<1>5. RulesCut(c, i, Llama3(c, i))
  BY <1>1, <1>2, <1>3, SevenRules DEF Llama3
<1>6. RulesCut(c, i, Qwen2(c, i))
  BY <1>1, <1>2, <1>3, SevenRules DEF Qwen2
<1>7. RulesCut(c, i, Qwen35(c, i))
  BY <1>1, <1>2, <1>3, SevenRules DEF Qwen35
<1>8. RulesCut(c, i, KimiK2(c, i))
  BY <1>1, <1>2, <1>3, SevenRules DEF KimiK2
<1>9. RulesCut(c, i, <<Lines(c, i)>>) /\ RulesCut(c, i, <<DigitsFromTheRight(c, i)>>)
  BY <1>3, OneRule
<1>10. CASE name = "gpt2"
  BY <1>4, <1>10, Zenon DEF Rules
<1>11. CASE name = "llama3"
  BY <1>5, <1>11, Zenon DEF Rules
<1>12. CASE name = "qwen2"
  BY <1>6, <1>12, Zenon DEF Rules
<1>13. CASE name = "qwen35"
  BY <1>7, <1>13, Zenon DEF Rules
<1>14. CASE name = "kimi_k2"
  BY <1>8, <1>14, Zenon DEF Rules
<1>15. CASE name = "newlines"
  BY <1>9, <1>15, Zenon DEF Rules
<1>16. CASE name = "afmoe"
  BY <1>9, <1>16, Zenon DEF Rules
<1> QED
  BY <1>10, <1>11, <1>12, <1>13, <1>14, <1>15, <1>16 DEF Splitters

\* The first rule that matches, or the next position, cuts the text from i on.
LEMMA CutsAtCuts ==
  ASSUME NEW c, IsClasses(c), NEW i \in 1 .. c.end - 1, NEW name \in Splitters
  PROVE  Cutting(c, i, CutsAt(c, i, name)) /\ CutsAt(c, i, name) # <<>>
<1> DEFINE rules == Rules(c, i, name)
           matching == {k \in DOMAIN rules : rules[k] # <<>>}
<1>1. RulesCut(c, i, rules)
  BY SplittersCut
<1> HIDE DEF rules
<1>2. matching \subseteq Nat /\ \A k \in matching : Cutting(c, i, rules[k]) /\ rules[k] # <<>>
  BY <1>1 DEF RulesCut
<1>3. Cutting(c, i, <<i + 1>>)
  <2>1. Past(c, i, i + 1)
    BY PositionsAre DEF Past
  <2> QED
    BY <2>1, OneCut
<1> HIDE DEF matching
<1>4. matching # {} => Min(matching) \in matching
  BY <1>2, MinIs
<1>5. CutsAt(c, i, name) = IF matching = {} THEN <<i + 1>> ELSE rules[Min(matching)]
  BY DEF CutsAt, matching, rules
<1>6. CASE matching = {}
  <2>1. CutsAt(c, i, name) = <<i + 1>> /\ <<i + 1>> # <<>>
    BY <1>5, <1>6
  <2> QED
    BY <1>3, <2>1
<1>7. CASE matching # {}
  <2>1. CutsAt(c, i, name) = rules[Min(matching)]
    BY <1>5, <1>7, Zenon
  <2> QED
    BY <1>2, <1>4, <1>7, <2>1, Zenon
<1> QED
  BY <1>6, <1>7

\* Cuts from i on, the last of them at the end of the text.
CutsToEnd(c, i, r) == Cutting(c, i, r) /\ r # <<>> /\ r[Len(r)] = c.end

\* Cuts, and cuts to the end from the last of them on, are cuts to the end.
LEMMA CutsJoin ==
  ASSUME NEW c, c.end \in Int, NEW i, i \in Int, NEW r, Cutting(c, i, r), r # <<>>,
         NEW s, \/ r[Len(r)] = c.end /\ s = <<>>
                \/ CutsToEnd(c, r[Len(r)], s)
  PROVE  CutsToEnd(c, i, r \o s)
<1>1. r \in Seq(Int) /\ s \in Seq(Int) /\ Len(r) \in Nat \ {0} /\ Len(s) \in Nat
  <2>1. <<>> \in Seq(Int)
    OBVIOUS
  <2>2. r \in Seq(Int)
    BY DEF Cutting
  <2>3. s \in Seq(Int)
    BY <2>1 DEF Cutting, CutsToEnd
  <2>4. Len(r) \in Nat /\ Len(r) # 0
    BY <2>2
  <2> QED
    BY <2>2, <2>3, <2>4
<1>2. r \o s \in Seq(Int) /\ Len(r \o s) = Len(r) + Len(s)
  BY <1>1
<1>3. \A k \in 1 .. Len(r) + Len(s) :
        (r \o s)[k] = IF k <= Len(r) THEN r[k] ELSE s[k - Len(r)]
  BY <1>1
<1> DEFINE t == r \o s
<1> HIDE DEF t
<1>4. t # <<>> /\ t[1] > i
  BY <1>1, <1>2, <1>3 DEF Cutting, t
<1>5. t[Len(t)] = c.end
  <2>1. CASE s = <<>>
    <3>1. Len(s) = 0 /\ r[Len(r)] = c.end
      BY <2>1 DEF CutsToEnd
    <3> QED
      BY <1>1, <1>2, <1>3, <3>1 DEF t
  <2>2. CASE s # <<>>
    <3>1. Len(s) > 0 /\ s[Len(s)] = c.end
      BY <1>1, <2>2 DEF CutsToEnd
    <3> QED
      BY <1>1, <1>2, <1>3, <3>1 DEF t
  <2> QED
    BY <2>1, <2>2
<1>6. ASSUME NEW k \in 2 .. Len(t)
      PROVE  t[k - 1] < t[k]
  <2>1. k \in Int /\ k - 1 \in 1 .. Len(r) + Len(s) /\ k \in 1 .. Len(r) + Len(s)
    BY <1>1, <1>2 DEF t
  <2>2. CASE k <= Len(r)
    <3>1. t[k - 1] = r[k - 1] /\ t[k] = r[k]
      BY <1>1, <1>3, <2>1, <2>2 DEF t
    <3> QED
      BY <1>1, <2>1, <2>2, <3>1 DEF Cutting
  <2>3. CASE k = Len(r) + 1
    <3>1. t[k - 1] = r[Len(r)] /\ t[k] = s[1] /\ Len(s) >= 1
      BY <1>1, <1>3, <2>1, <2>3 DEF t
    <3>2. s[1] > r[Len(r)]
      BY <1>1, <3>1 DEF CutsToEnd, Cutting
    <3>3. s[1] \in Int /\ r[Len(r)] \in Int
      BY <1>1, <3>1
    <3> QED
      BY <3>1, <3>2, <3>3
  <2>4. CASE k > Len(r) + 1
    <3>1. t[k - 1] = s[k - Len(r) - 1] /\ t[k] = s[k - Len(r)]
      BY <1>1, <1>3, <2>1, <2>4 DEF t
    <3>2. k - Len(r) \in 2 .. Len(s) /\ Len(s) >= 2
      BY <1>1, <2>1, <2>4
    <3>3. CutsToEnd(c, r[Len(r)], s)
      BY <1>1, <3>2
    <3> QED
      BY <3>1, <3>2, <3>3 DEF CutsToEnd, Cutting
  <2> QED
    BY <1>1, <2>1, <2>2, <2>3, <2>4
<1> QED
  BY <1>2, <1>4, <1>5, <1>6 DEF CutsToEnd, Cutting, t

\* So is the last of the cuts past where they start.
LEMMA LastIsPast ==
  ASSUME NEW c, NEW i, i \in Int, NEW r, Cutting(c, i, r), r # <<>>
  PROVE  r[Len(r)] > i
<1> DEFINE U == {k \in Nat : k + 1 <= Len(r) => r[k + 1] > i}
<1>1. r \in Seq(Int) /\ Len(r) \in Nat \ {0} /\ r[1] > i
  BY DEF Cutting
<1>2. \A k \in 1 .. Len(r) : r[k] \in Int
  BY <1>1
<1>3. 0 \in U
  BY <1>1
<1>4. ASSUME NEW k \in Nat, k \in U
      PROVE  k + 1 \in U
  <2> SUFFICES ASSUME k + 2 <= Len(r) PROVE r[k + 2] > i
    BY <1>1
  <2>1. k + 2 \in 2 .. Len(r) /\ (k + 2) - 1 = k + 1 /\ k + 1 \in 1 .. Len(r) /\ k + 2 \in 1 .. Len(r)
    BY <1>1
  <2>2. r[k + 1] > i
    BY <1>4, <2>1, <1>1
  <2>3. r[(k + 2) - 1] < r[k + 2]
    BY <2>1 DEF Cutting
  <2>4. r[k + 1] < r[k + 2]
    BY <2>1, <2>3
  <2>5. r[k + 1] \in Int /\ r[k + 2] \in Int
    BY <1>2, <2>1
  <2> HIDE DEF U
  <2> QED
    BY ONLY <2>2, <2>4, <2>5, i \in Int
<1> HIDE DEF U
<1>5. Nat \subseteq U
  BY <1>3, <1>4, Counting
<1>6. Len(r) - 1 \in U
  BY <1>1, <1>5
<1> QED
  BY <1>1, <1>6 DEF U

\* A walk through the positions of a text whose heads are cuts gives cuts to the end.
LEMMA WalkCuts ==
  ASSUME NEW c, c.end \in Nat \ {0}, NEW h,
         \A i \in 1 .. c.end - 1 : Cutting(c, i, h[i]) /\ h[i] # <<>>,
         NEW next, \A i \in 1 .. c.end - 1 : next[i] = h[i][Len(h[i])]
  PROVE  /\ \E f : Walk(f, 1 .. c.end, {c.end}, h, next)
         /\ \A f : Walk(f, 1 .. c.end, {c.end}, h, next) =>
                     \A i \in 1 .. c.end - 1 : CutsToEnd(c, i, f[i])
<1> DEFINE S == 1 .. c.end
           rank == [i \in S |-> c.end - i]
<1>0. S \ {c.end} = 1 .. c.end - 1
  OBVIOUS
<1>1. ASSUME NEW i \in 1 .. c.end - 1
      PROVE  next[i] \in Int /\ next[i] > i /\ next[i] <= c.end
  <2>1. h[i] \in Seq(Int) /\ Len(h[i]) \in Nat \ {0} /\ h[i][1] > i /\ h[i][Len(h[i])] <= c.end
    BY DEF Cutting
  <2>2. h[i][Len(h[i])] > i
    <3>1. Cutting(c, i, h[i]) /\ h[i] # <<>> /\ i \in Int
      OBVIOUS
    <3> QED
      BY <3>1, LastIsPast
  <2>3. next[i] = h[i][Len(h[i])]
    OBVIOUS
  <2>4. h[i][Len(h[i])] \in Int
    BY <2>1
  <2> QED
    BY <2>1, <2>2, <2>3, <2>4
<1>2. Ends(S, {c.end}, next, rank)
  BY <1>0, <1>1 DEF Ends
<1>3. \E f : Walk(f, S, {c.end}, h, next)
  <2>1. c.end \in Nat /\ \A i \in S : rank[i] < c.end
    OBVIOUS
  <2> HIDE DEF S, rank
  <2> QED
    BY <1>2, <2>1, WalkExists
<1>4. ASSUME NEW f, Walk(f, S, {c.end}, h, next)
      PROVE  \A i \in 1 .. c.end - 1 : CutsToEnd(c, i, f[i])
  <2> DEFINE P == {i \in S : i # c.end => CutsToEnd(c, i, f[i])}
  <2>1. ASSUME NEW i \in S, \A j \in S : rank[j] < rank[i] => j \in P
        PROVE  i \in P
    <3> SUFFICES ASSUME i # c.end PROVE CutsToEnd(c, i, f[i])
      OBVIOUS
    <3>1. i \in 1 .. c.end - 1 /\ next[i] \in S /\ i \in Int /\ c.end \in Int
      BY <1>1
    <3>2. f[i] = h[i] \o f[next[i]]
      BY <1>4 DEF Walk
    <3>3. next[i] \in P
      <4>1. rank[next[i]] = c.end - next[i] /\ rank[i] = c.end - i
        BY <3>1
      <4>2. rank[next[i]] < rank[i]
        BY <1>1, <3>1, <4>1
      <4> QED
        BY <2>1, <3>1, <4>2
    <3>4. next[i] = c.end => f[next[i]] = <<>>
      BY <1>4, <3>1 DEF Walk
    <3>5. Cutting(c, i, h[i]) /\ h[i] # <<>> /\ next[i] = h[i][Len(h[i])]
      BY <3>1
    <3>6. \/ h[i][Len(h[i])] = c.end /\ f[next[i]] = <<>>
          \/ CutsToEnd(c, h[i][Len(h[i])], f[next[i]])
      BY <3>3, <3>4, <3>5
    <3> HIDE DEF S, rank, P
    <3>7. CutsToEnd(c, i, h[i] \o f[next[i]])
      BY <3>1, <3>5, <3>6, CutsJoin
    <3> QED
      BY <3>2, <3>7
  <2>2. \A i \in S : rank[i] \in Nat
    OBVIOUS
  <2> HIDE DEF P, S, rank
  <2>3. S \subseteq P
    BY <2>1, <2>2, Descending
  <2> QED
    BY <2>3 DEF P, S
<1> QED
  BY <1>3, <1>4

\* The hand-written splitters cut a text that is not empty from beginning to end.
LEMMA SplitCuts ==
  ASSUME NEW c, IsClasses(c), c.end > 1, NEW name \in Splitters
  PROVE  CutsToEnd(c, 1, Split(c, name))
<1> DEFINE h == [i \in 1 .. c.end |-> CutsAt(c, i, name)]
           next == [i \in 1 .. c.end |-> Last(CutsAt(c, i, name))]
           f == CHOOSE f : f = [i \in 1 .. c.end |->
                  IF i = c.end THEN <<>>
                  ELSE CutsAt(c, i, name) \o f[Last(CutsAt(c, i, name))]]
<1>1. c.end \in Nat \ {0}
  BY DEF IsClasses
<1>2. \A i \in 1 .. c.end - 1 : Cutting(c, i, h[i]) /\ h[i] # <<>>
  BY <1>1, CutsAtCuts
<1>3. \A i \in 1 .. c.end - 1 : next[i] = h[i][Len(h[i])]
  BY <1>1 DEF Last
<1>4. Split(c, name) = f[1]
  BY DEF Split
<1>5. \A g : Walk(g, 1 .. c.end, {c.end}, h, next) <=>
             g = [i \in 1 .. c.end |->
                    IF i = c.end THEN <<>>
                    ELSE CutsAt(c, i, name) \o g[Last(CutsAt(c, i, name))]]
  BY DEF Walk
<1>6. \E g : Walk(g, 1 .. c.end, {c.end}, h, next)
  <2> HIDE DEF h, next
  <2> QED
    BY <1>1, <1>2, <1>3, WalkCuts
<1>7. Walk(f, 1 .. c.end, {c.end}, h, next)
  <2> HIDE DEF h, next
  <2>1. \E g : g = [i \in 1 .. c.end |->
                    IF i = c.end THEN <<>>
                    ELSE CutsAt(c, i, name) \o g[Last(CutsAt(c, i, name))]]
    BY <1>5, <1>6
  <2>2. f = [i \in 1 .. c.end |->
                    IF i = c.end THEN <<>>
                    ELSE CutsAt(c, i, name) \o f[Last(CutsAt(c, i, name))]]
    BY <2>1
  <2> HIDE DEF f
  <2> QED
    BY <1>5, <2>2
<1> HIDE DEF h, next, f
<1>8. 1 \in 1 .. c.end - 1
  BY <1>1
<1>9. \A i \in 1 .. c.end - 1 : CutsToEnd(c, i, f[i])
  BY <1>1, <1>2, <1>3, <1>7, WalkCuts
<1> QED
  BY <1>4, <1>8, <1>9

-----------------------------------------------------------------------------
(* The regular expressions.                                                 *)

\* An item asks for positions of the text, at least none or one of them.
IsItem(c, item) ==
  /\ Within(c, item.set) /\ item.min \in 0 .. 1 /\ item.max \in Nat

\* Items one of which must match something.
AreItems(c, items) ==
  /\ Len(items) \in Nat /\ \A k \in 1 .. Len(items) : IsItem(c, items[k])
  /\ \E k \in 1 .. Len(items) : items[k].min = 1

\* What the items from k on give at j, from what those after them give.
Matching(items, unless, f, k) ==
  IF k > Len(items) THEN [j \in Nat |-> IF j \in unless THEN 0 ELSE j]
  ELSE [j \in Nat |->
          LET most == Min({items[k].max, RunEnd(items[k].set, j) - j})
              good == {n \in items[k].min .. most : f[k + 1][j + n] # 0}
          IN IF good = {} THEN 0 ELSE f[k + 1][j + Max(good)]]

\* f gives the ends of the matches of the items from each k in K on.
Matches(items, unless, f, K) == f = [k \in K |-> Matching(items, unless, f, k)]

\* What the items from k on give depends on what those from k + 1 on give.
LEMMA MatchingIsLocal ==
  ASSUME NEW items, NEW unless, NEW f, NEW g, NEW k, f[k + 1] = g[k + 1] \/ k > Len(items)
  PROVE  Matching(items, unless, f, k) = Matching(items, unless, g, k)
<1>1. CASE k > Len(items)
  BY <1>1 DEF Matching
<1>2. CASE ~(k > Len(items))
  BY <1>2 DEF Matching
<1> QED
  BY <1>1, <1>2

\* The ends of the matches exist.
LEMMA MatchesExist ==
  ASSUME NEW items, NEW N \in Nat, Len(items) = N, NEW unless
  PROVE  \E f : Matches(items, unless, f, 1 .. N + 1)
<1> DEFINE K(d) == {k \in 1 .. N + 1 : k > N - d}
           T == {d \in Nat : \E f : Matches(items, unless, f, K(d))}
<1>1. 0 \in T
  <2> DEFINE f == [k \in K(0) |-> [j \in Nat |-> IF j \in unless THEN 0 ELSE j]]
  <2>1. \A k \in K(0) : k > Len(items)
    OBVIOUS
  <2>2. f = [k \in K(0) |-> Matching(items, unless, f, k)]
    BY <2>1 DEF Matching
  <2> HIDE DEF f
  <2>3. Matches(items, unless, f, K(0))
    BY <2>2 DEF Matches
  <2> QED
    BY <2>3
<1>2. ASSUME NEW d \in Nat, d \in T
      PROVE  d + 1 \in T
  <2>1. PICK f : Matches(items, unless, f, K(d))
    BY <1>2
  <2> DEFINE g == [k \in K(d + 1) |-> Matching(items, unless, f, k)]
  <2>2. ASSUME NEW k \in K(d)
        PROVE  g[k] = f[k]
    <3>1. k \in K(d + 1)
      OBVIOUS
    <3>2. g[k] = Matching(items, unless, f, k)
      BY <3>1
    <3>3. f[k] = Matching(items, unless, f, k)
      BY <2>1 DEF Matches
    <3> QED
      BY <3>2, <3>3
  <2>3. ASSUME NEW k \in K(d + 1)
        PROVE  g[k] = Matching(items, unless, g, k)
    <3>1. k > Len(items) \/ k + 1 \in K(d)
      OBVIOUS
    <3>2. f[k + 1] = g[k + 1] \/ k > Len(items)
      BY <3>1, <2>2
    <3>3. g[k] = Matching(items, unless, f, k)
      OBVIOUS
    <3> HIDE DEF g, K
    <3> QED
      BY <3>2, <3>3, MatchingIsLocal
  <2>4. g = [k \in K(d + 1) |-> g[k]]
    OBVIOUS
  <2> HIDE DEF g, K
  <2>5. Matches(items, unless, g, K(d + 1))
    BY <2>3, <2>4 DEF Matches
  <2> QED
    BY <2>5
<1>3. N \in T
  <2> HIDE DEF T
  <2> QED
    BY <1>1, <1>2, Counting
<1>4. K(N) = 1 .. N + 1
  OBVIOUS
<1> QED
  BY <1>3, <1>4

\* A match of items from j on, 0 if there is none: it ends in the text, past j if
\* one of the items must match something.
MatchesFrom(c, items, e, k, j) ==
  e = 0 \/ /\ e \in Int /\ e >= j /\ e <= c.end
           /\ (\E q \in k .. Len(items) : items[q].min = 1) => e > j

\* The match of one item and those after it.
LEMMA OneMatch ==
  ASSUME NEW c, c.end \in Nat \ {0}, NEW items, Len(items) \in Nat,
         NEW k \in 1 .. Len(items), IsItem(c, items[k]),
         NEW f, NEW unless, NEW j \in 1 .. c.end,
         \A l \in 1 .. c.end : MatchesFrom(c, items, f[k + 1][l], k + 1, l)
  PROVE  MatchesFrom(c, items, Matching(items, unless, f, k)[j], k, j)
<1> DEFINE most == Min({items[k].max, RunEnd(items[k].set, j) - j})
           good == {n \in items[k].min .. most : f[k + 1][j + n] # 0}
<1>1. Matching(items, unless, f, k)[j] = IF good = {} THEN 0 ELSE f[k + 1][j + Max(good)]
  <2>1. j \in Nat /\ ~(k > Len(items))
    OBVIOUS
  <2> QED
    BY <2>1 DEF Matching
<1>2. RunEnd(items[k].set, j) \in j .. c.end
  BY RunEnds DEF IsItem
<1>3. most \in Nat /\ j + most <= c.end
  <2> DEFINE S == {items[k].max, RunEnd(items[k].set, j) - j}
  <2>1. S \subseteq Nat /\ S # {} /\ RunEnd(items[k].set, j) - j \in S
    BY <1>2 DEF IsItem
  <2>2. \A y \in S : y \in Nat
    BY <2>1
  <2> HIDE DEF S
  <2>3. Min(S) \in S /\ \A y \in S : Min(S) <= y
    BY <2>1, MinIs
  <2>4. Min(S) \in Nat /\ Min(S) <= RunEnd(items[k].set, j) - j
    BY <2>1, <2>3
  <2>5. most = Min(S)
    BY DEF S
  <2> HIDE DEF most
  <2> QED
    BY <1>2, <2>4, <2>5
<1> HIDE DEF most
<1>4. CASE good = {}
  BY <1>1, <1>4 DEF MatchesFrom
<1>5. CASE good # {}
  <2> DEFINE n == Max(good)
  <2>1. good \subseteq 0 .. most
    BY <1>3 DEF IsItem
  <2> HIDE DEF good
  <2>2. n \in good
    <3>1. 0 \in Int /\ most \in Int
      BY <1>3
    <3>2. Max(good) \in good
      BY <1>5, <2>1, <3>1, MaxIs
    <3> QED
      BY <3>2
  <2> HIDE DEF n
  <2>3. n \in Nat /\ items[k].min <= n /\ n <= most
    BY <1>3, <2>2 DEF good, IsItem
  <2>4. j + n \in 1 .. c.end /\ j + n >= j + items[k].min /\ j \in Int /\ j + n \in Int
    BY <1>3, <2>3 DEF IsItem
  <2> DEFINE e == f[k + 1][j + n]
  <2>5. MatchesFrom(c, items, e, k + 1, j + n)
    BY <2>4
  <2>6. Matching(items, unless, f, k)[j] = e
    BY <1>1, <1>5 DEF n
  <2> HIDE DEF e
  <2>7. ASSUME e # 0
        PROVE  /\ e \in Int /\ e >= j /\ e <= c.end
               /\ (\E q \in k .. Len(items) : items[q].min = 1) => e > j
    <3>1. /\ e \in Int /\ e >= j + n /\ e <= c.end
          /\ (\E q \in k + 1 .. Len(items) : items[q].min = 1) => e > j + n
      BY <2>5, <2>7 DEF MatchesFrom
    <3>2. e >= j
      BY <2>3, <2>4, <3>1
    <3>3. ASSUME NEW q \in k .. Len(items), items[q].min = 1
          PROVE  e > j
      <4>1. CASE q = k
        <5>1. n >= 1
          BY <2>3, <3>3, <4>1
        <5> QED
          BY <2>3, <2>4, <3>1, <5>1
      <4>2. CASE q # k
        <5>1. q \in k + 1 .. Len(items)
          BY <4>2
        <5>2. e > j + n
          BY <3>1, <3>3, <5>1
        <5> QED
          BY <2>3, <2>4, <3>1, <5>2
      <4> QED
        BY <4>1, <4>2
    <3> QED
      BY <3>1, <3>2, <3>3
  <2>8. MatchesFrom(c, items, e, k, j)
    BY <2>7 DEF MatchesFrom
  <2> QED
    BY <2>6, <2>8
<1> QED
  BY <1>4, <1>5

\* A match ends in the text, and past the position it begins at.
LEMMA MatchEndIsPast ==
  ASSUME NEW c, c.end \in Nat \ {0}, NEW items, AreItems(c, items), NEW unless,
         NEW i \in 1 .. c.end - 1
  PROVE  MatchEnd(items, unless, i) = 0 \/ Past(c, i, MatchEnd(items, unless, i))
<1> DEFINE N == Len(items)
           F(g) == [k \in 1 .. Len(items) + 1 |->
                     IF k > Len(items) THEN [j \in Nat |-> IF j \in unless THEN 0 ELSE j]
                     ELSE [j \in Nat |->
                             LET most == Min({items[k].max, RunEnd(items[k].set, j) - j})
                                 good == {n \in items[k].min .. most : g[k + 1][j + n] # 0}
                             IN IF good = {} THEN 0 ELSE g[k + 1][j + Max(good)]]]
           f == CHOOSE f : f = F(f)
<1>1. N \in Nat
  BY DEF AreItems
<1>2. MatchEnd(items, unless, i) = f[1][i]
  BY DEF MatchEnd
<1>3. Matches(items, unless, f, 1 .. N + 1)
  <2>1. \A g : Matches(items, unless, g, 1 .. N + 1) <=> g = F(g)
    BY DEF Matches, Matching
  <2> HIDE DEF F, N
  <2>2. Len(items) = N
    BY DEF N
  <2>3. \E g : Matches(items, unless, g, 1 .. N + 1)
    BY <1>1, <2>2, MatchesExist
  <2>4. f = F(f)
    BY <2>1, <2>3
  <2> HIDE DEF f
  <2> QED
    BY <2>1, <2>4
<1> HIDE DEF f, F
<1> DEFINE rank == [k \in 1 .. N + 1 |-> N + 1 - k]
           P == {k \in 1 .. N + 1 : \A j \in 1 .. c.end : MatchesFrom(c, items, f[k][j], k, j)}
<1>4. ASSUME NEW k \in 1 .. N + 1, \A l \in 1 .. N + 1 : rank[l] < rank[k] => l \in P
      PROVE  k \in P
  <2> SUFFICES ASSUME NEW j \in 1 .. c.end
               PROVE  MatchesFrom(c, items, f[k][j], k, j)
    OBVIOUS
  <2>1. f[k] = Matching(items, unless, f, k)
    BY <1>3 DEF Matches
  <2>2. CASE k = N + 1
    <3>1. f[k][j] = IF j \in unless THEN 0 ELSE j
      BY <1>1, <2>1, <2>2 DEF Matching
    <3>2. ~ \E q \in k .. Len(items) : items[q].min = 1
      BY <1>1, <2>2
    <3>3. j \in Int /\ j >= j /\ j <= c.end
      OBVIOUS
    <3> QED
      BY <3>1, <3>2, <3>3 DEF MatchesFrom
  <2>3. CASE k # N + 1
    <3>1. k \in 1 .. N /\ k + 1 \in 1 .. N + 1 /\ rank[k + 1] < rank[k]
      BY <1>1, <2>3
    <3>2. k + 1 \in P
      BY <1>4, <3>1
    <3>3. \A l \in 1 .. c.end : MatchesFrom(c, items, f[k + 1][l], k + 1, l)
      BY <3>2
    <3>4. IsItem(c, items[k])
      BY <3>1 DEF AreItems
    <3>5. Len(items) \in Nat /\ k \in 1 .. Len(items)
      BY <1>1, <3>1
    <3>6. MatchesFrom(c, items, Matching(items, unless, f, k)[j], k, j)
      BY ONLY <3>3, <3>4, <3>5, c.end \in Nat \ {0}, j \in 1 .. c.end, OneMatch
    <3> QED
      BY <2>1, <3>6
  <2> QED
    BY <2>2, <2>3
<1>5. \A k \in 1 .. N + 1 : rank[k] \in Nat
  BY <1>1
<1>6. 1 .. N + 1 \subseteq P
  <2> DEFINE S == 1 .. N + 1
  <2>1. \A k \in S : rank[k] \in Nat
    BY <1>5
  <2>2. \A k \in S : (\A l \in S : rank[l] < rank[k] => l \in P) => k \in P
    <3> HIDE DEF P, rank, N
    <3> QED
      BY <1>4
  <2> HIDE DEF P, rank, N, S
  <2>3. S \subseteq P
    BY <2>1, <2>2, Descending
  <2> QED
    BY <2>3 DEF S
<1>7. MatchesFrom(c, items, f[1][i], 1, i)
  <2>1. 1 \in 1 .. N + 1 /\ i \in 1 .. c.end
    BY <1>1
  <2> HIDE DEF N
  <2> QED
    BY <1>6, <2>1
<1>8. \E q \in 1 .. Len(items) : items[q].min = 1
  BY DEF AreItems
<1> QED
  BY <1>2, <1>7, <1>8 DEF MatchesFrom, Past

\* A sequence of items one of which must match consumes something: one item,
LEMMA OneItem ==
  ASSUME NEW c, NEW a1, IsItem(c, a1), a1.min = 1
  PROVE  AreItems(c, <<a1>>)
BY DEF AreItems

\* two,
LEMMA TwoItems ==
  ASSUME NEW c, NEW a1, NEW a2, IsItem(c, a1), IsItem(c, a2), a1.min = 1 \/ a2.min = 1
  PROVE  AreItems(c, <<a1, a2>>)
BY DEF AreItems

\* and three.
LEMMA ThreeItems ==
  ASSUME NEW c, NEW a1, NEW a2, NEW a3, IsItem(c, a1), IsItem(c, a2), IsItem(c, a3),
         a1.min = 1 \/ a2.min = 1 \/ a3.min = 1
  PROVE  AreItems(c, <<a1, a2, a3>>)
BY DEF AreItems

\* The items the regular expressions are made of.
LEMMA ItemsAre ==
  ASSUME NEW c, c.end \in Nat \ {0}, NEW P, Within(c, P)
  PROVE  /\ IsItem(c, One(P)) /\ One(P).min = 1
         /\ IsItem(c, Plus(P)) /\ Plus(P).min = 1
         /\ IsItem(c, Opt(P)) /\ IsItem(c, Star(P))
<1>1. Cardinality(P) \in Nat
  <2>1. IsFiniteSet(1 .. c.end - 1)
    BY FS_Interval
  <2> QED
    BY <2>1, FS_Subset, FS_CardinalityType DEF Within
<1> QED
  BY <1>1 DEF IsItem, One, Plus, Opt, Star, Item

\* Every alternative of the regular expression of "tekken" must match something.
LEMMA AlternativesAre ==
  ASSUME NEW c, IsClasses(c)
  PROVE  \E A : /\ Alternatives(c, "tekken") \in Seq(A)
                /\ \A x \in A : AreItems(c, x.items)
<1> DEFINE marked == c.letters \cup c.marks
           lead == c.all \ (c.breaks \cup c.letters \cup c.numbers)
           after == c.breaks \cup Character(c, {\h2F})
           p1 == <<Opt(lead), Star(marked), Plus(marked)>>
           p2 == <<Opt(lead), Plus(marked), Star(marked)>>
           p3 == <<One(c.numbers)>>
           p4 == <<Opt(c.blanks), Plus(Others(c)), Star(after)>>
           p5 == <<Star(c.spaces), Plus(c.breaks)>>
           p6 == <<Plus(c.spaces)>>
           R == Regex(c, "tekken")
           T == {p1, p2, p3, p4, p5}
           spaces == [items |-> p6, unless |-> {}]
           before == [spaces EXCEPT !.unless = c.all \ c.spaces]
           A == {[items |-> p, unless |-> {}] : p \in T} \cup {spaces, before}
<1>1. /\ Within(c, marked) /\ Within(c, lead) /\ Within(c, after) /\ Within(c, c.blanks)
      /\ Within(c, c.numbers) /\ Within(c, Others(c)) /\ Within(c, c.spaces) /\ Within(c, c.breaks)
  <2>1. Within(c, c.all) /\ Within(c, c.breaks)
    BY SetsAreWithin
  <2>2. Character(c, {\h2F}) \subseteq c.all
    BY DEF Character
  <2>3. Within(c, lead) /\ Within(c, after)
    BY <2>1, <2>2 DEF Within
  <2> QED
    BY <2>3, SetsAreWithin
<1>2. R = <<p1, p2, p3, p4>> \o <<p5>>
  BY DEF Regex
<1>3. AreItems(c, p1) /\ AreItems(c, p2) /\ AreItems(c, p4)
  <2> HIDE DEF marked, lead, after
  <2> QED
    BY <1>1, SetsAreWithin, ItemsAre, ThreeItems
<1>4. AreItems(c, p3) /\ AreItems(c, p5) /\ AreItems(c, p6)
  BY <1>1, SetsAreWithin, ItemsAre, OneItem, TwoItems
<1> HIDE DEF p1, p2, p3, p4, p5, p6, R
<1>5. R \in Seq(T)
  <2>1. <<p1, p2, p3, p4>> \in Seq(T) /\ <<p5>> \in Seq(T)
    OBVIOUS
  <2> HIDE DEF T
  <2> QED
    BY ONLY <1>2, <2>1, ConcatProperties
<1> DEFINE patterns == [k \in DOMAIN R |-> [items |-> R[k], unless |-> {}]]
<1>6. patterns \in Seq(A)
  <2>1. Len(R) \in Nat /\ DOMAIN R = 1 .. Len(R) /\ \A k \in 1 .. Len(R) : R[k] \in T
    BY <1>5
  <2>2. \A p \in T : [items |-> p, unless |-> {}] \in A
    OBVIOUS
  <2> DEFINE n == Len(R)
             item(k) == [items |-> R[k], unless |-> {}]
  <2>3. patterns = [k \in 1 .. n |-> item(k)]
    BY <2>1
  <2>4. \A k \in 1 .. n : item(k) \in A
    BY <2>1, <2>2
  <2>5. n \in Nat
    BY <2>1
  <2> HIDE DEF T, A, item, n, patterns
  <2> QED
    BY <2>3, <2>4, <2>5
<1>7. <<before, spaces>> \in Seq(A)
  OBVIOUS
<1>8. Alternatives(c, "tekken") = patterns \o <<before, spaces>>
  <2>1. "tekken" # "newlines" /\ "tekken" # "gpt2" /\ "tekken" \notin {"newlines", "gpt2"}
    OBVIOUS
  <2> QED
    BY <2>1, Zenon DEF Alternatives, Patterns, R, p6
<1>9. \A x \in A : AreItems(c, x.items)
  BY <1>3, <1>4
<1> HIDE DEF patterns, before, spaces, A
<1>10. Alternatives(c, "tekken") \in Seq(A)
  BY ONLY <1>6, <1>7, <1>8, ConcatProperties
<1> QED
  BY <1>9, <1>10

\* A match, or the next position, is past where it is tried.
LEMMA MatchAtIsPast ==
  ASSUME NEW c, IsClasses(c), NEW i \in 1 .. c.end - 1
  PROVE  Past(c, i, MatchAt(c, "tekken", i))
<1> DEFINE alts == Alternatives(c, "tekken")
           ends == [k \in DOMAIN alts |-> MatchEnd(alts[k].items, alts[k].unless, i)]
           matching == {k \in DOMAIN ends : ends[k] # 0}
<1>1. PICK A : alts \in Seq(A) /\ \A x \in A : AreItems(c, x.items)
  BY AlternativesAre
<1> HIDE DEF alts
<1>2. DOMAIN alts \subseteq Nat /\ \A k \in DOMAIN alts : AreItems(c, alts[k].items)
  <2>1. \A k \in DOMAIN alts : alts[k] \in A /\ k \in Nat
    BY <1>1
  <2> QED
    BY <1>1, <2>1
<1>3. c.end \in Nat \ {0}
  BY DEF IsClasses
<1>4. \A k \in DOMAIN alts : ends[k] = 0 \/ Past(c, i, ends[k])
  <2> SUFFICES ASSUME NEW k \in DOMAIN alts
               PROVE  ends[k] = 0 \/ Past(c, i, ends[k])
    OBVIOUS
  <2>1. ends[k] = MatchEnd(alts[k].items, alts[k].unless, i)
    OBVIOUS
  <2>2. AreItems(c, alts[k].items)
    BY <1>2
  <2> HIDE DEF ends
  <2> QED
    BY <1>3, <2>1, <2>2, MatchEndIsPast
<1>5. MatchAt(c, "tekken", i) = IF matching = {} THEN i + 1 ELSE ends[Min(matching)]
  BY DEF MatchAt, FirstMatch, alts
<1>6. matching \subseteq DOMAIN alts
  OBVIOUS
<1>7. \A k \in matching : ends[k] # 0
  OBVIOUS
<1> HIDE DEF ends, matching
<1>8. CASE matching = {}
  <2>1. Past(c, i, i + 1)
    BY PositionsAre DEF Past
  <2> QED
    BY <1>5, <1>8, <2>1
<1>9. CASE matching # {}
  <2>1. matching \subseteq Nat
    BY <1>2, <1>6
  <2>2. Min(matching) \in matching
    BY <1>9, <2>1, MinIs
  <2> QED
    BY <1>4, <1>5, <1>6, <1>7, <1>9, <2>2
<1> QED
  BY <1>8, <1>9

\* The regular expression cuts a text that is not empty from beginning to end.
LEMMA RegexSplitCuts ==
  ASSUME NEW c, IsClasses(c), c.end > 1
  PROVE  CutsToEnd(c, 1, RegexSplit(c, "tekken"))
<1> DEFINE h == [i \in 1 .. c.end |-> <<MatchAt(c, "tekken", i)>>]
           next == [i \in 1 .. c.end |-> MatchAt(c, "tekken", i)]
           F(g) == [i \in 1 .. c.end |->
                     LET e == MatchAt(c, "tekken", i) IN IF i = c.end THEN <<>> ELSE <<e>> \o g[e]]
           f == CHOOSE g : g = F(g)
<1>1. c.end \in Nat \ {0}
  BY DEF IsClasses
<1>2. \A i \in 1 .. c.end - 1 : Cutting(c, i, h[i]) /\ h[i] # <<>>
  <2> SUFFICES ASSUME NEW i \in 1 .. c.end - 1
               PROVE  Cutting(c, i, h[i]) /\ h[i] # <<>>
    OBVIOUS
  <2>1. Past(c, i, MatchAt(c, "tekken", i))
    BY MatchAtIsPast
  <2>2. Cutting(c, i, <<MatchAt(c, "tekken", i)>>)
    BY <2>1, OneCut
  <2>3. h[i] = <<MatchAt(c, "tekken", i)>>
    BY <1>1
  <2> HIDE DEF h
  <2> QED
    BY <2>2, <2>3
<1>3. \A i \in 1 .. c.end - 1 : next[i] = h[i][Len(h[i])]
  BY <1>1
<1>4. RegexSplit(c, "tekken") = f[1]
  BY DEF RegexSplit
<1>5. \A g : Walk(g, 1 .. c.end, {c.end}, h, next) <=> g = F(g)
  BY DEF Walk
<1> HIDE DEF h, next, F
<1>6. \E g : Walk(g, 1 .. c.end, {c.end}, h, next)
  BY <1>1, <1>2, <1>3, WalkCuts
<1>7. f = F(f)
  BY <1>5, <1>6
<1> HIDE DEF f
<1>8. Walk(f, 1 .. c.end, {c.end}, h, next)
  BY <1>5, <1>7
<1>9. 1 \in 1 .. c.end - 1
  BY <1>1
<1>10. \A i \in 1 .. c.end - 1 : CutsToEnd(c, i, f[i])
  BY <1>1, <1>2, <1>3, <1>8, WalkCuts
<1> QED
  BY <1>4, <1>9, <1>10

-----------------------------------------------------------------------------
(* Texts and their code points.                                             *)

\* The classes of a sequence are classes.
LEMMA ClassesAre ==
  ASSUME NEW T, NEW cpts \in Seq(T)
  PROVE  IsClasses(Classes(cpts)) /\ Classes(cpts).end = Len(cpts) + 1
<1>1. Len(cpts) \in Nat /\ DOMAIN cpts = 1 .. Len(cpts)
  OBVIOUS
<1> DEFINE c == Classes(cpts)
<1>2. /\ c.end = Len(cpts) + 1 /\ c.all = DOMAIN cpts
      /\ c.letters \subseteq DOMAIN cpts /\ c.numbers \subseteq DOMAIN cpts
      /\ c.marks \subseteq DOMAIN cpts /\ c.spaces \subseteq DOMAIN cpts
      /\ c.breaks \subseteq DOMAIN cpts /\ c.lines \subseteq DOMAIN cpts
      /\ c.blanks \subseteq DOMAIN cpts /\ c.han \subseteq DOMAIN cpts
  BY DEF Classes
<1> HIDE DEF c
<1>3. c.end \in Nat \ {0} /\ c.all = 1 .. c.end - 1
  BY <1>1, <1>2
<1>4. IsClasses(c)
  BY <1>2, <1>3 DEF IsClasses
<1> QED
  BY <1>2, <1>4 DEF c

\* What is read at a position of a byte string: no more than there is.
LEMMA ReadLenIs ==
  ASSUME NEW s \in Seq(Byte), NEW i \in 1 .. Len(s)
  PROVE  /\ ReadLen(s, i) \in 0 .. 4 /\ i + ReadLen(s, i) <= Len(s) + 1
         /\ ReadLen(s, i) = 1 => s[i] \in Byte
         /\ ReadLen(s, i) = 4 => s[i] \in 240 .. 247
         /\ \A k \in 1 .. ReadLen(s, i) - 1 : s[i + k] \in Byte
<1> DEFINE n == IF s[i] \in 128 .. 191 \/ s[i] >= 248 THEN 0 ELSE LenUtf8(s[i])
<1>0. Len(s) \in Nat /\ s[i] \in Byte
  OBVIOUS
<1>1. Len(s) \in Nat /\ s[i] \in Byte /\ s[i] \in 0 .. 255
  BY <1>0 DEF Byte
<1>2. n \in 0 .. 4 /\ (n = 4 => s[i] \in 240 .. 247)
  <2> DEFINE b == s[i]
  <2>1. n = IF b \in 128 .. 191 \/ b >= 248 THEN 0 ELSE LenUtf8(b)
    OBVIOUS
  <2> HIDE DEF n
  <2>2. b \in 0 .. 255
    BY <1>1
  <2> HIDE DEF b
  <2>3. n \in 0 .. 4 /\ (n = 4 => b \in 240 .. 247)
    BY <2>1, <2>2 DEF LenUtf8
  <2> QED
    BY <2>3 DEF b
<1>3. ReadLen(s, i) = IF \A k \in 1 .. n - 1 : Continues(s, i + k) THEN n ELSE 0
  BY DEF ReadLen
<1> HIDE DEF n
<1>4. CASE \A k \in 1 .. n - 1 : Continues(s, i + k)
  <2>1. ReadLen(s, i) = n
    BY <1>3, <1>4
  <2>2. \A k \in 1 .. n - 1 : i + k <= Len(s)
    BY <1>4 DEF Continues
  <2>3. i + n <= Len(s) + 1
    <3>1. CASE n <= 1
      BY <1>1, <1>2, <3>1
    <3>2. CASE n > 1
      <4>1. n - 1 \in 1 .. n - 1
        BY <1>2, <3>2
      <4>2. i + (n - 1) <= Len(s)
        BY <2>2, <4>1
      <4> QED
        BY <1>1, <1>2, <4>2
    <3> QED
      BY <1>2, <3>1, <3>2
  <2>4. \A k \in 1 .. n - 1 : s[i + k] \in Byte
    <3> SUFFICES ASSUME NEW k \in 1 .. n - 1
                 PROVE  s[i + k] \in Byte
      OBVIOUS
    <3>1. i + k \in 1 .. Len(s)
      BY <1>1, <2>2
    <3> QED
      BY <3>1
  <2> QED
    BY <1>1, <1>2, <2>1, <2>3, <2>4
<1>5. CASE ~ \A k \in 1 .. n - 1 : Continues(s, i + k)
  <2>1. ReadLen(s, i) = 0
    BY <1>3, <1>5
  <2> QED
    BY <1>1, <2>1
<1> QED
  BY <1>4, <1>5

\* A code point, past U+10FFFF only when its first byte is from F4 to F7.
IsCpt(x, byte) == x \in Nat /\ (x > \h10FFFF => byte \in 244 .. 247)

\* The arithmetic of reading one, two, three or four bytes.
LEMMA OneByte ==
  ASSUME NEW u \in 0 .. 255, NEW x, x = \hFFFD \/ x = u
  PROVE  IsCpt(x, u)
BY SMT DEF IsCpt

Read2(u, t1) == ((u % 32) * 64) + t1
Read3(u, t1, t2) == ((u % 16) * 4096) + (t1 * 64) + t2
Read4(u, t1, t2, t3) == ((u % 8) * 262144) + (t1 * 4096) + (t2 * 64) + t3

\* What two bytes spell is a code point,
LEMMA TwoBytes ==
  ASSUME NEW u \in 0 .. 255, NEW t1 \in 0 .. 63
  PROVE  IsCpt(Read2(u, t1), u)
<1>1. u % 32 \in 0 .. 31
  BY SMT
<1>2. SUFFICES ASSUME NEW v \in 0 .. 31
               PROVE  (v * 64) + t1 \in Nat /\ (v * 64) + t1 <= \hFFFF
  BY <1>1, SMT DEF IsCpt, Read2
<1> QED
  BY SMT

\* so is what three bytes spell,
LEMMA ThreeBytes ==
  ASSUME NEW u \in 0 .. 255, NEW t1 \in 0 .. 63, NEW t2 \in 0 .. 63
  PROVE  IsCpt(Read3(u, t1, t2), u)
<1>1. u % 16 \in 0 .. 15
  BY SMT
<1>2. SUFFICES ASSUME NEW v \in 0 .. 15
               PROVE  /\ (v * 4096) + (t1 * 64) + t2 \in Nat
                      /\ (v * 4096) + (t1 * 64) + t2 <= \hFFFF
  BY <1>1, SMT DEF IsCpt, Read3
<1> QED
  BY SMT

\* and what four bytes spell is past U+10FFFF only if the first is F4 to F7.
LEMMA FourBytes ==
  ASSUME NEW u \in 240 .. 247, NEW t1 \in 0 .. 63, NEW t2 \in 0 .. 63, NEW t3 \in 0 .. 63
  PROVE  IsCpt(Read4(u, t1, t2, t3), u)
<1>1. u % 8 = u - 240
  BY SMT
<1>2. Read4(u, t1, t2, t3) = ((u - 240) * 262144) + (t1 * 4096) + (t2 * 64) + t3
  BY <1>1, SMT DEF Read4
<1> QED
  BY <1>2, SMT DEF IsCpt

\* What is read at a position is one.
LEMMA CptAtIs ==
  ASSUME NEW s \in Seq(Byte), NEW i \in 1 .. Len(s)
  PROVE  IsCpt(CptAt(s, i), s[i])
<1> DEFINE t(k) == s[i + k] % 64
           n == ReadLen(s, i)
           u == s[i]
<1>1. /\ n \in 0 .. 4 /\ (n = 4 => u \in 240 .. 247)
      /\ \A k \in 1 .. n - 1 : s[i + k] \in 0 .. 255
  BY ReadLenIs, SMT DEF Byte
<1>2. u \in 0 .. 255
  <2>1. u \in Byte
    BY SMT
  <2> QED
    BY <2>1, SMT DEF Byte
<1>3. \A k \in 1 .. n - 1 : t(k) \in 0 .. 63
  <2>1. \A x \in 0 .. 255 : x % 64 \in 0 .. 63
    BY SMT
  <2> SUFFICES ASSUME NEW k \in 1 .. n - 1
               PROVE  t(k) \in 0 .. 63
    BY SMT
  <2> DEFINE y == s[i + k]
  <2>2. y \in 0 .. 255 /\ t(k) = y % 64
    BY <1>1, SMT
  <2> HIDE DEF y, t
  <2> QED
    BY <2>1, <2>2, SMT
<1>4. CptAt(s, i) =
        CASE n = 0 -> \hFFFD
          [] n = 1 -> u
          [] n = 2 -> ((u % 32) * 64) + t(1)
          [] n = 3 -> ((u % 16) * 4096) + (t(1) * 64) + t(2)
          [] OTHER -> ((u % 8) * 262144) + (t(1) * 4096) + (t(2) * 64) + t(3)
  BY SMT DEF CptAt
<1> HIDE DEF n, t, u
<1>5. SUFFICES IsCpt(CptAt(s, i), u)
  BY SMT DEF u
<1>6. CASE n = 0
  <2>1. CptAt(s, i) = \hFFFD
    BY <1>4, <1>6, SMT
  <2> QED
    BY <1>2, <2>1, OneByte, SMT
<1>7. CASE n = 1
  <2>1. CptAt(s, i) = u
    BY <1>4, <1>7, SMT
  <2> QED
    BY <1>2, <2>1, OneByte, SMT
<1>8. CASE n = 2
  <2>1. CptAt(s, i) = Read2(u, t(1))
    BY <1>4, <1>8, SMT DEF Read2
  <2>2. t(1) \in 0 .. 63
    BY <1>3, <1>8, SMT
  <2>4. IsCpt(Read2(u, t(1)), u)
    BY <1>2, <2>2, TwoBytes, Zenon
  <2> QED
    BY <2>1, <2>4, SMT
<1>9. CASE n = 3
  <2>1. CptAt(s, i) = Read3(u, t(1), t(2))
    BY <1>4, <1>9, SMT DEF Read3
  <2>2. t(1) \in 0 .. 63 /\ t(2) \in 0 .. 63
    BY <1>3, <1>9, SMT
  <2>4. IsCpt(Read3(u, t(1), t(2)), u)
    BY <1>2, <2>2, ThreeBytes, Zenon
  <2> QED
    BY <2>1, <2>4, SMT
<1>10. CASE n = 4
  <2>1. CptAt(s, i) = Read4(u, t(1), t(2), t(3))
    BY <1>4, <1>10, SMT DEF Read4
  <2>2. t(1) \in 0 .. 63 /\ t(2) \in 0 .. 63 /\ t(3) \in 0 .. 63
    BY <1>3, <1>10, SMT
  <2>3. u \in 240 .. 247
    BY <1>1, <1>10, SMT
  <2>4. IsCpt(Read4(u, t(1), t(2), t(3)), u)
    BY <2>3, <2>2, FourBytes, Zenon
  <2> QED
    BY <2>1, <2>4, SMT
<1> QED
  BY <1>1, <1>6, <1>7, <1>8, <1>9, <1>10, SMT

\* The code points of a text, and where they are read.
LEMMA CptsAre ==
  ASSUME NEW s \in Seq(Byte)
  PROVE  /\ CptsFromUtf8(s) \in Seq({CptAt(s, i) : i \in 1 .. Len(s)})
         /\ s # <<>> => CptsFromUtf8(s) # <<>>
<1> DEFINE S == 1 .. Len(s) + 1
           B == {i \in S : i > Len(s)}
           T == {CptAt(s, i) : i \in 1 .. Len(s)}
           h == [i \in S |-> <<CptAt(s, i)>>]
           next == [i \in S |-> i + (IF ReadLen(s, i) = 0 THEN 1 ELSE ReadLen(s, i))]
           rank == [i \in S |-> Len(s) + 1 - i]
           F(g) == [i \in S |->
                     IF i > Len(s) THEN <<>>
                     ELSE <<CptAt(s, i)>> \o g[i + (IF ReadLen(s, i) = 0 THEN 1 ELSE ReadLen(s, i))]]
           f == CHOOSE g : g = F(g)
<1>1. Len(s) \in Nat /\ S \ B = 1 .. Len(s)
  OBVIOUS
<1>2. ASSUME NEW i \in 1 .. Len(s)
      PROVE  next[i] \in S /\ next[i] > i /\ rank[next[i]] < rank[i]
  <2>1. ReadLen(s, i) \in 0 .. 4 /\ i + ReadLen(s, i) <= Len(s) + 1
    BY ReadLenIs
  <2>2. next[i] = i + (IF ReadLen(s, i) = 0 THEN 1 ELSE ReadLen(s, i)) /\ i \in S
    BY <1>1
  <2>3. next[i] \in S /\ next[i] > i /\ i \in Int /\ next[i] \in Int
    BY <1>1, <2>1, <2>2
  <2>4. rank[i] = Len(s) + 1 - i /\ rank[next[i]] = Len(s) + 1 - next[i]
    BY <2>2, <2>3
  <2> HIDE DEF S, rank, next
  <2> QED
    BY <1>1, <2>3, <2>4
<1>3. \A i \in S : rank[i] \in Nat /\ rank[i] < Len(s) + 1
  BY <1>1
<1>4. Ends(S, B, next, rank)
  <2> HIDE DEF S, B, next, rank
  <2> QED
    BY <1>1, <1>2, <1>3 DEF Ends
<1>5. \A g : Walk(g, S, B, h, next) <=> g = F(g)
  BY DEF Walk
<1>6. \A i \in S \ B : h[i] \in Seq(T)
  <2> SUFFICES ASSUME NEW i \in 1 .. Len(s)
               PROVE  h[i] \in Seq(T)
    BY <1>1
  <2>1. h[i] = <<CptAt(s, i)>> /\ CptAt(s, i) \in T
    BY <1>1
  <2> HIDE DEF h, T
  <2> QED
    BY <2>1
<1>7. CptsFromUtf8(s) = f[1]
  BY DEF CptsFromUtf8
<1>a. s # <<>> => 1 \in S /\ 1 \notin B /\ h[1] = <<CptAt(s, 1)>> /\ next[1] \in S /\ 1 \in S \ B
  <2> SUFFICES ASSUME s # <<>>
               PROVE  1 \in S /\ 1 \notin B /\ h[1] = <<CptAt(s, 1)>> /\ next[1] \in S /\ 1 \in S \ B
    OBVIOUS
  <2>1. 1 \in 1 .. Len(s)
    OBVIOUS
  <2>2. next[1] \in S
    BY <1>2, <2>1
  <2>3. 1 \in S /\ 1 \notin B /\ h[1] = <<CptAt(s, 1)>>
    BY <1>1, <2>1
  <2> HIDE DEF next, h, B, S
  <2> QED
    BY <2>2, <2>3
<1>b. 1 \in S
  BY <1>1
<1> HIDE DEF S, B, T, h, next, rank, F
<1>8. \E g : Walk(g, S, B, h, next)
  <2>1. Len(s) + 1 \in Nat
    BY <1>1
  <2> QED
    BY <1>3, <1>4, <2>1, WalkExists
<1>9. f = F(f)
  BY <1>5, <1>8
<1> HIDE DEF f
<1>10. Walk(f, S, B, h, next)
  BY <1>5, <1>9
<1>11. \A i \in S : f[i] \in Seq(T)
  BY <1>4, <1>6, <1>10, WalkIsSequence
<1>12. ASSUME s # <<>>
       PROVE  f[1] # <<>>
  <2>1. f[1] = h[1] \o f[next[1]]
    BY <1>10, <1>a, <1>12 DEF Walk
  <2>2. h[1] \in Seq(T) /\ f[next[1]] \in Seq(T) /\ Len(h[1]) = 1
    BY <1>6, <1>11, <1>a, <1>12
  <2>3. Len(f[1]) = 1 + Len(f[next[1]])
    <3>1. Len(h[1] \o f[next[1]]) = Len(h[1]) + Len(f[next[1]])
      BY ONLY <2>2, ConcatProperties
    <3> QED
      BY <2>1, <2>2, <3>1
  <2>5. Len(f[next[1]]) \in Nat
    BY ONLY <2>2
  <2>4. Len(f[1]) # 0
    BY <2>3, <2>5
  <2> QED
    BY <2>4
<1> QED
  BY <1>7, <1>11, <1>12, <1>b DEF T

-----------------------------------------------------------------------------
(* Sequences of sequences, and the bytes of words.                          *)

\* A sequence whose elements are in a set is one over that set.
LEMMA ElementsAre ==
  ASSUME NEW S, NEW s \in Seq(S), NEW T, \A k \in 1 .. Len(s) : s[k] \in T
  PROVE  s \in Seq(T)
<1>1. Len(s) \in Nat /\ DOMAIN s = 1 .. Len(s) /\ s = [k \in 1 .. Len(s) |-> s[k]]
  OBVIOUS
<1> DEFINE n == Len(s)
<1>2. n \in Nat /\ s = [k \in 1 .. n |-> s[k]] /\ \A k \in 1 .. n : s[k] \in T
  BY <1>1
<1> HIDE DEF n
<1> QED
  BY ONLY <1>2

\* A function on the first n numbers is a sequence.
LEMMA FunctionIsSequence ==
  ASSUME NEW n \in Nat, NEW T, NEW s, s = [k \in 1 .. n |-> s[k]], \A k \in 1 .. n : s[k] \in T
  PROVE  s \in Seq(T) /\ Len(s) = n
OBVIOUS

\* g has the first d sequences of ss, one after the other.
Flat(g, ss, d) == g = [i \in 1 .. d |-> IF i = 1 THEN ss[i] ELSE g[i - 1] \o ss[i]]

\* There is such a function.
LEMMA FlatExists ==
  ASSUME NEW ss, NEW n \in Nat
  PROVE  \E g : Flat(g, ss, n)
<1> DEFINE U == {d \in Nat : \E g : Flat(g, ss, d)}
<1>1. 0 \in U
  <2> DEFINE g == [i \in 1 .. 0 |-> <<>>]
  <2>1. g = [i \in 1 .. 0 |-> IF i = 1 THEN ss[i] ELSE g[i - 1] \o ss[i]]
    OBVIOUS
  <2> HIDE DEF g
  <2>2. Flat(g, ss, 0)
    BY <2>1 DEF Flat
  <2> QED
    BY <2>2
<1>2. ASSUME NEW d \in Nat, d \in U
      PROVE  d + 1 \in U
  <2>1. PICK g : Flat(g, ss, d)
    BY <1>2
  <2> DEFINE h == [i \in 1 .. d + 1 |->
                     IF i <= d THEN g[i] ELSE IF i = 1 THEN ss[i] ELSE g[i - 1] \o ss[i]]
  <2>2. \A i \in 1 .. d : h[i] = g[i]
    OBVIOUS
  <2>3. ASSUME NEW i \in 1 .. d + 1
        PROVE  h[i] = IF i = 1 THEN ss[i] ELSE h[i - 1] \o ss[i]
    <3>1. i # 1 => h[i - 1] = g[i - 1]
      BY <2>2
    <3>2. CASE i <= d
      <4>1. i \in 1 .. d
        BY <3>2
      <4>2. g[i] = IF i = 1 THEN ss[i] ELSE g[i - 1] \o ss[i]
        BY <2>1, <4>1 DEF Flat
      <4>3. h[i] = g[i]
        BY <2>2, <4>1
      <4> HIDE DEF h
      <4> QED
        BY <3>1, <4>2, <4>3
    <3>3. CASE ~(i <= d)
      <4>1. h[i] = IF i = 1 THEN ss[i] ELSE g[i - 1] \o ss[i]
        BY <3>3
      <4> HIDE DEF h
      <4> QED
        BY <3>1, <4>1
    <3> QED
      BY <3>2, <3>3
  <2>4. h = [i \in 1 .. d + 1 |-> h[i]]
    OBVIOUS
  <2> HIDE DEF h
  <2>5. Flat(h, ss, d + 1)
    BY <2>3, <2>4 DEF Flat
  <2> QED
    BY <2>5
<1> HIDE DEF U
<1>3. n \in U
  BY <1>1, <1>2, Counting
<1> QED
  BY <1>3 DEF U

\* Sequences over T, one after the other, are a sequence over T.
LEMMA FlattenSeqIs ==
  ASSUME NEW T, NEW ss \in Seq(Seq(T))
  PROVE  FlattenSeq(ss) \in Seq(T)
<1> DEFINE n == Len(ss)
           F(g) == [i \in 1 .. Len(ss) |-> IF i = 1 THEN ss[i] ELSE g[i - 1] \o ss[i]]
           f == CHOOSE g : g = F(g)
<1>1. n \in Nat /\ \A k \in 1 .. n : ss[k] \in Seq(T)
  OBVIOUS
<1>2. FlattenSeq(ss) = IF n = 0 THEN ss ELSE f[n]
  BY DEF FlattenSeq
<1>3. CASE n = 0
  <2>1. ss = <<>>
    BY <1>3
  <2>2. <<>> \in Seq(T)
    OBVIOUS
  <2> QED
    BY <1>2, <1>3, <2>1, <2>2
<1>4. CASE n # 0
  <2>1. \A g : Flat(g, ss, n) <=> g = F(g)
    BY DEF Flat
  <2> HIDE DEF F, n
  <2>2. \E g : Flat(g, ss, n)
    BY <1>1, FlatExists
  <2>3. f = F(f)
    BY <2>1, <2>2
  <2> HIDE DEF f
  <2>4. Flat(f, ss, n)
    BY <2>1, <2>3
  <2> DEFINE U == {k \in Nat : k + 1 <= n => f[k + 1] \in Seq(T)}
  <2>5. 0 \in U
    <3>1. n >= 1 /\ 1 \in 1 .. n
      BY <1>1, <1>4
    <3>2. f[1] = ss[1]
      BY <2>4, <3>1 DEF Flat
    <3> QED
      BY <1>1, <3>1, <3>2
  <2>6. ASSUME NEW k \in Nat, k \in U
        PROVE  k + 1 \in U
    <3> SUFFICES ASSUME k + 2 <= n PROVE f[k + 2] \in Seq(T)
      BY <1>1
    <3>1. k + 2 \in 1 .. n /\ k + 2 # 1 /\ (k + 2) - 1 = k + 1 /\ k + 1 <= n
      BY <1>1
    <3>2. f[k + 2] = f[k + 1] \o ss[k + 2]
      BY <2>4, <3>1 DEF Flat
    <3>3. f[k + 1] \in Seq(T) /\ ss[k + 2] \in Seq(T)
      BY <1>1, <2>6, <3>1
    <3>4. f[k + 1] \o ss[k + 2] \in Seq(T)
      BY ONLY <3>3, ConcatProperties
    <3> QED
      BY <3>2, <3>4
  <2> HIDE DEF U
  <2>7. n - 1 \in U
    <3>1. n - 1 \in Nat
      BY <1>1, <1>4
    <3>2. Nat \subseteq U
      BY <2>5, <2>6, Counting
    <3> QED
      BY <3>1, <3>2
  <2>8. f[n] \in Seq(T)
    BY <1>1, <2>7 DEF U
  <2> QED
    BY <1>2, <1>4, <2>8
<1> QED
  BY <1>3, <1>4

\* The code points that have an encoding.
Code == {x \in Nat : x <= \h10FFFF}

\* The UTF-8 of a code point: bytes when it has an encoding.
LEMMA CptToUtf8Is ==
  ASSUME NEW x \in Nat
  PROVE  CptToUtf8(x) \in Seq(Nat) /\ (x <= \h10FFFF => CptToUtf8(x) \in Seq(Byte))
<1> DEFINE tail(shift) == 128 + ((x \div shift) % 64)
<1>1. /\ x \div 64 \in Nat /\ x \div 4096 \in Nat /\ x \div 262144 \in Nat
  BY SMT
<1>2. /\ (x <= \h7FF => x \div 64 <= 31) /\ (x <= \hFFFF => x \div 4096 <= 15)
      /\ (x <= \h10FFFF => x \div 262144 <= 4)
  BY SMT
<1>3. tail(1) \in Byte /\ tail(64) \in Byte /\ tail(4096) \in Byte
  BY SMT DEF Byte
<1>4. \A y \in Byte : y \in Nat
  BY DEF Byte
<1>5. CptToUtf8(x) = IF x <= \h7F THEN <<x>>
     ELSE IF x <= \h7FF THEN <<192 + (x \div 64), tail(1)>>
     ELSE IF x <= \hFFFF THEN <<224 + (x \div 4096), tail(64), tail(1)>>
     ELSE <<240 + (x \div 262144), tail(4096), tail(64), tail(1)>>
  BY SMT DEF CptToUtf8
<1> DEFINE a == 192 + (x \div 64)
           b == 224 + (x \div 4096)
           d == 240 + (x \div 262144)
<1>6. a \in Nat /\ b \in Nat /\ d \in Nat
  BY <1>1, SMT
<1>7. /\ (x <= \h7F => x \in Byte) /\ (x <= \h7FF => a \in Byte) /\ (x <= \hFFFF => b \in Byte)
      /\ (x <= \h10FFFF => d \in Byte)
  BY <1>1, <1>2, SMT DEF Byte
<1> DEFINE t1 == tail(1)
           t2 == tail(64)
           t3 == tail(4096)
<1>8. t1 \in Byte /\ t2 \in Byte /\ t3 \in Byte /\ t1 \in Nat /\ t2 \in Nat /\ t3 \in Nat
  BY <1>3, <1>4, SMT
<1>9. CptToUtf8(x) = IF x <= \h7F THEN <<x>>
     ELSE IF x <= \h7FF THEN <<a, t1>>
     ELSE IF x <= \hFFFF THEN <<b, t2, t1>>
     ELSE <<d, t3, t2, t1>>
  BY <1>5, SMT
<1> HIDE DEF a, b, d, t1, t2, t3
<1>10. <<x>> \in Seq(Nat) /\ <<a, t1>> \in Seq(Nat) /\ <<b, t2, t1>> \in Seq(Nat)
       /\ <<d, t3, t2, t1>> \in Seq(Nat)
  BY <1>6, <1>8, SMT
<1>11. /\ (x <= \h7F => <<x>> \in Seq(Byte))
       /\ (x <= \h7FF => <<a, t1>> \in Seq(Byte))
       /\ (x <= \hFFFF => <<b, t2, t1>> \in Seq(Byte))
       /\ (x <= \h10FFFF => <<d, t3, t2, t1>> \in Seq(Byte))
  BY <1>7, <1>8, SMT
<1> QED
  BY <1>9, <1>10, <1>11, SMT

\* As a sequence of numbers.
LEMMA CptToUtf8IsSequence ==
  ASSUME NEW x \in Nat
  PROVE  CptToUtf8(x) \in Seq(Nat)
BY CptToUtf8Is, SMT

\* Code points that have an encoding are encoded in bytes.
LEMMA CptsToUtf8Is ==
  ASSUME NEW cpts \in Seq(Code)
  PROVE  CptsToUtf8(cpts) \in Seq(Byte)
<1> DEFINE n == Len(cpts)
           ss == [i \in DOMAIN cpts |-> CptToUtf8(cpts[i])]
<1>1. n \in Nat /\ DOMAIN cpts = 1 .. n /\ \A i \in 1 .. n : cpts[i] \in Code
  OBVIOUS
<1>2. \A i \in 1 .. n : CptToUtf8(cpts[i]) \in Seq(Byte)
  BY <1>1, CptToUtf8Is, SMT DEF Code
<1>3. ss = [i \in 1 .. n |-> ss[i]] /\ \A i \in 1 .. n : ss[i] \in Seq(Byte)
  BY <1>1, <1>2
<1> HIDE DEF ss, n
<1>4. ss \in Seq(Seq(Byte))
  BY <1>1, <1>3, FunctionIsSequence
<1> QED
  BY <1>4, FlattenSeqIs DEF CptsToUtf8, ss

\* The character of a byte in the alphabet of bytes.
LEMMA ByteToUtf8Is ==
  ASSUME NEW b \in Byte
  PROVE  ByteToUtf8[b] \in Seq(Nat)
<1> DEFINE P == {x \in 0 .. b - 1 : x \notin Printable}
           y == IF b \in Printable THEN b ELSE 256 + Cardinality(P)
<1>1. b \in Nat
  BY DEF Byte
<1>2. Cardinality(P) \in Nat
  <2>1. IsFiniteSet(0 .. b - 1)
    <3>1. 0 \in Int /\ b - 1 \in Int
      BY <1>1
    <3> QED
      BY ONLY <3>1, FS_Interval
  <2>2. P \subseteq 0 .. b - 1
    OBVIOUS
  <2> HIDE DEF P
  <2> QED
    BY <2>1, <2>2, FS_Subset, FS_CardinalityType
<1>3. ByteToUtf8[b] = CptToUtf8(y)
  BY DEF ByteToUtf8
<1> HIDE DEF P
<1>4. y \in Nat
  BY <1>1, <1>2
<1> HIDE DEF y
<1> QED
  BY <1>3, <1>4, CptToUtf8IsSequence

\* Bytes in the alphabet of bytes are a sequence of bytes.
LEMMA ByteEncodedIs ==
  ASSUME NEW s \in Seq(Byte)
  PROVE  ByteEncoded(s) \in Seq(Nat)
<1> DEFINE n == Len(s)
           ss == [i \in DOMAIN s |-> ByteToUtf8[s[i]]]
<1>1. n \in Nat /\ DOMAIN s = 1 .. n /\ \A i \in 1 .. n : s[i] \in Byte
  OBVIOUS
<1>2. \A i \in 1 .. n : ByteToUtf8[s[i]] \in Seq(Nat)
  BY <1>1, ByteToUtf8Is
<1>3. ss = [i \in 1 .. n |-> ss[i]] /\ \A i \in 1 .. n : ss[i] \in Seq(Nat)
  BY <1>1, <1>2
<1> HIDE DEF ss, n
<1>4. ss \in Seq(Seq(Nat))
  BY <1>1, <1>3, FunctionIsSequence
<1> QED
  BY <1>4, FlattenSeqIs DEF ByteEncoded, ss

\* Cuts are past where they start and not past the end.
LEMMA CutsAreBetween ==
  ASSUME NEW c, c.end \in Int, NEW i, i \in Int, NEW r, Cutting(c, i, r)
  PROVE  \A k \in 1 .. Len(r) : r[k] \in Int /\ r[k] > i /\ r[k] <= c.end
<1> DEFINE n == Len(r)
           U == {k \in Nat : k + 1 <= n => r[k + 1] > i}
           V == {k \in Nat : k + 1 <= n => r[n - k] <= c.end}
<1>1. r \in Seq(Int) /\ n \in Nat /\ \A k \in 1 .. n : r[k] \in Int
  <2>1. r \in Seq(Int)
    BY DEF Cutting
  <2> QED
    BY <2>1
<1>2. CASE n = 0
  BY <1>2
<1>3. CASE n # 0
  <2>1. r # <<>> /\ r[1] > i /\ r[n] <= c.end /\ \A k \in 2 .. n : r[k - 1] < r[k]
    BY <1>1, <1>3 DEF Cutting
  <2> HIDE DEF n
  <2>2. 0 \in U
    BY <2>1
  <2>3. ASSUME NEW k \in Nat, k \in U
        PROVE  k + 1 \in U
    <3> SUFFICES ASSUME k + 2 <= n PROVE r[k + 2] > i
      BY <1>1
    <3>1. k + 2 \in 2 .. n /\ (k + 2) - 1 = k + 1 /\ k + 1 \in 1 .. n /\ k + 2 \in 1 .. n
      BY <1>1
    <3>2. r[k + 1] > i /\ r[k + 1] \in Int /\ r[k + 2] \in Int
      BY <1>1, <2>3, <3>1
    <3>3. r[(k + 2) - 1] < r[k + 2]
      BY <2>1, <3>1
    <3>4. r[k + 1] < r[k + 2]
      BY <3>1, <3>3
    <3> QED
      BY <3>2, <3>4
  <2>4. 0 \in V
    BY <1>1, <2>1
  <2>5. ASSUME NEW k \in Nat, k \in V
        PROVE  k + 1 \in V
    <3> SUFFICES ASSUME k + 2 <= n PROVE r[n - (k + 1)] <= c.end
      BY <1>1
    <3>1. n - k \in 2 .. n /\ (n - k) - 1 = n - (k + 1) /\ n - k \in 1 .. n /\ n - (k + 1) \in 1 .. n
      BY <1>1
    <3>2. r[n - k] <= c.end /\ r[n - k] \in Int /\ r[n - (k + 1)] \in Int
      BY <1>1, <2>5, <3>1
    <3>3. r[(n - k) - 1] < r[n - k]
      BY <2>1, <3>1
    <3>4. r[n - (k + 1)] < r[n - k]
      BY <3>1, <3>3
    <3> QED
      BY <3>2, <3>4
  <2> HIDE DEF U, V
  <2>6. Nat \subseteq U /\ Nat \subseteq V
    BY <2>2, <2>3, <2>4, <2>5, Counting
  <2> SUFFICES ASSUME NEW k \in 1 .. n
               PROVE  r[k] \in Int /\ r[k] > i /\ r[k] <= c.end
    BY DEF n
  <2>7. k - 1 \in U /\ n - k \in V
    BY <1>1, <2>6
  <2>8. (k - 1) + 1 = k /\ k <= n /\ n - (n - k) = k /\ (n - k) + 1 <= n
    BY <1>1
  <2>9. r[k] > i
    BY <2>7, <2>8 DEF U
  <2>10. r[k] <= c.end
    BY <2>7, <2>8 DEF V
  <2> QED
    BY <1>1, <2>9, <2>10
<1> QED
  BY <1>2, <1>3

\* A text that is not empty is cut from its first code point to its last.
LEMMA TextIsCut ==
  ASSUME NEW s \in Seq(Byte), s # <<>>
  PROVE  LET c == Classes(CptsFromUtf8(s))
         IN /\ \A name \in Splitters : CutsToEnd(c, 1, Split(c, name))
            /\ CutsToEnd(c, 1, RegexSplit(c, "tekken"))
<1> DEFINE cpts == CptsFromUtf8(s)
           T == {CptAt(s, i) : i \in 1 .. Len(s)}
           c == Classes(cpts)
<1>1. cpts \in Seq(T) /\ cpts # <<>>
  BY CptsAre
<1> HIDE DEF cpts, T
<1>2. Len(cpts) \in Nat /\ Len(cpts) # 0
  BY <1>1
<1>3. IsClasses(c) /\ c.end = Len(cpts) + 1
  BY <1>1, ClassesAre
<1> HIDE DEF c
<1>4. c.end > 1
  BY <1>2, <1>3
<1>5. \A name \in Splitters : CutsToEnd(c, 1, Split(c, name))
  BY <1>3, <1>4, SplitCuts
<1>6. CutsToEnd(c, 1, RegexSplit(c, "tekken"))
  BY <1>3, <1>4, RegexSplitCuts
<1> QED
  BY <1>5, <1>6 DEF c, cpts

\* The code points of a text that is not refused have an encoding.
LEMMA CptsAreCodes ==
  ASSUME NEW s \in Seq(Byte), ~Unencodable(CptsFromUtf8(s))
  PROVE  CptsFromUtf8(s) \in Seq(Code)
<1> DEFINE cpts == CptsFromUtf8(s)
           T == {CptAt(s, i) : i \in 1 .. Len(s)}
<1>1. cpts \in Seq(T)
  BY CptsAre
<1>2. \A x \in T : x \in Nat
  BY CptAtIs, SMT DEF IsCpt
<1>3. \A i \in DOMAIN cpts : ~(cpts[i] > \h10FFFF)
  BY SMT DEF Unencodable
<1> HIDE DEF T, cpts
<1>4. \A i \in 1 .. Len(cpts) : cpts[i] \in T /\ i \in DOMAIN cpts
  BY <1>1, SMT
<1>5. \A i \in 1 .. Len(cpts) : cpts[i] \in Code
  BY <1>2, <1>3, <1>4, SMT DEF Code
<1>6. cpts \in Seq(Code)
  <2> HIDE DEF Code
  <2> QED
    BY <1>1, <1>5, ElementsAre
<1> QED
  BY <1>6 DEF cpts

\* The words between cuts are sequences of bytes, in the alphabet of bytes.
LEMMA WordsAre ==
  ASSUME NEW cpts \in Seq(Code), NEW r, CutsToEnd(Classes(cpts), 1, r)
  PROVE  Words(cpts, r) \in Seq(Seq(Nat))
<1> DEFINE n == Len(r)
           c == Classes(cpts)
           first(k) == IF k = 1 THEN 1 ELSE r[k - 1]
           ss == Words(cpts, r)
<1>1. c.end = Len(cpts) + 1 /\ Len(cpts) \in Nat
  BY ClassesAre
<1>2. Cutting(c, 1, r)
  BY DEF CutsToEnd
<1> HIDE DEF c
<1>3. n \in Nat /\ DOMAIN r = 1 .. n
  BY <1>2 DEF Cutting
<1>4. \A k \in 1 .. n : r[k] \in Int /\ r[k] > 1 /\ r[k] <= Len(cpts) + 1
  <2>1. c.end \in Int /\ 1 \in Int
    BY <1>1
  <2> QED
    BY <1>1, <1>2, <2>1, CutsAreBetween
<1>5. ASSUME NEW k \in 1 .. n
      PROVE  ByteEncoded(CptsToUtf8(SubSeq(cpts, first(k), r[k] - 1))) \in Seq(Nat)
  <2>1. first(k) \in 1 .. Len(cpts) + 1 /\ r[k] - 1 \in Int /\ r[k] - 1 <= Len(cpts)
    <3>1. CASE k = 1
      BY <1>1, <1>4, <3>1
    <3>2. CASE k # 1
      <4>1. k - 1 \in 1 .. n
        BY <1>3, <3>2
      <4>2. r[k - 1] \in Int /\ r[k - 1] > 1 /\ r[k - 1] <= Len(cpts) + 1
        BY <1>4, <4>1
      <4> QED
        BY <1>1, <1>4, <3>2, <4>2
    <3> QED
      BY <3>1, <3>2
  <2> DEFINE p == first(k)
             q == r[k] - 1
  <2> HIDE DEF Code, first, p, q
  <2>2. SubSeq(cpts, p, q) \in Seq(Code)
    <3>1. p \in 1 .. Len(cpts) + 1 /\ q \in Int /\ q <= Len(cpts)
      BY <2>1 DEF p, q
    <3>2. \A j \in p .. q : j \in 1 .. Len(cpts)
      BY <1>1, <3>1
    <3>3. \A j \in p .. q : cpts[j] \in Code
      BY <3>2
    <3>4. p \in Int /\ q \in Int
      BY <3>1
    <3> QED
      BY <3>3, <3>4
  <2>3. CptsToUtf8(SubSeq(cpts, p, q)) \in Seq(Byte)
    BY <2>2, CptsToUtf8Is
  <2>4. ByteEncoded(CptsToUtf8(SubSeq(cpts, p, q))) \in Seq(Nat)
    BY <2>3, ByteEncodedIs
  <2> QED
    BY <2>4 DEF p, q
<1>6. ss = [k \in 1 .. n |-> ByteEncoded(CptsToUtf8(SubSeq(cpts, first(k), r[k] - 1)))]
  BY <1>3 DEF Words
<1> HIDE DEF ss, first, n
<1>7. ss = [k \in 1 .. n |-> ss[k]] /\ \A k \in 1 .. n : ss[k] \in Seq(Nat)
  BY <1>5, <1>6
<1>8. ss \in Seq(Seq(Nat))
  BY <1>3, <1>7, FunctionIsSequence
<1> QED
  BY <1>8 DEF ss

-----------------------------------------------------------------------------
(* The invariant: what is known of the text and its words in each phase.    *)

\* The splitters of the model files, and those no model asks for.
Pres == Splitters \cup {"none", "tekken"}

\* A text is refused for a code point, and cut all of it.
Prompted ==
  /\ file \in DOMAIN Files /\ text \in Seq(Byte) /\ pre \in Pres
  /\ words \in Seq(Seq(Nat))
  /\ phase = "threw" => Unencodable(CptsFromUtf8(text))
  /\ phase \in {"cut", "split"} => CutsToEnd(Classes(CptsFromUtf8(text)), 1, cuts)

\* The splitter a file asks for is one the code has.
LEMMA FilePreIs ==
  ASSUME NEW f \in DOMAIN Files
  PROVE  Loaded[f].pre \in Pres
<1> DEFINE name == Get(Files[f], "pre", "")
<1>1. Loaded[f].pre = PreType(name)
  BY DEF Loaded, LoadFromGguf
<1>2. PreType(name) \in Pres
  <2> HIDE DEF name
  <2> QED
    BY DEF PreType, Pres, Splitters
<1> QED
  BY <1>1, <1>2

\* The invariant of the text holds at the start.
LEMMA InitPrompted ==
  ASSUME Init
  PROVE  Prompted
<1>1. PICK case \in Cases : file = case[1] /\ text = case[2]
  BY DEF Init
<1>2. file \in DOMAIN Files /\ text \in Seq(Byte)
  BY <1>1, CasesAreTexts
<1>3. words \in Seq(Seq(Nat))
  <2>1. <<>> \in Seq(Seq(Nat))
    OBVIOUS
  <2> QED
    BY <2>1 DEF Init
<1>4. pre \in Pres /\ phase = "load"
  BY DEF Init, Pres
<1> QED
  BY <1>2, <1>3, <1>4 DEF Prompted

\* One word is a sequence of words.
LEMMA WordIs ==
  ASSUME NEW w \in Seq(Nat)
  PROVE  <<w>> \in Seq(Seq(Nat)) /\ <<>> \in Seq(Seq(Nat))
<1> DEFINE S == Seq(Nat)
<1>1. w \in S
  OBVIOUS
<1> HIDE DEF S
<1>2. <<w>> \in Seq(S) /\ <<>> \in Seq(S)
  BY <1>1
<1> QED
  BY <1>2 DEF S

\* Bytes are numbers.
LEMMA BytesAreNumbers ==
  ASSUME NEW s \in Seq(Byte)
  PROVE  s \in Seq(Nat)
<1>1. \A k \in 1 .. Len(s) : s[k] \in Byte
  OBVIOUS
<1>2. \A x \in Byte : x \in Nat
  BY DEF Byte
<1>3. \A k \in 1 .. Len(s) : s[k] \in Nat
  BY <1>1, <1>2
<1> QED
  BY <1>3, ElementsAre

\* A text with its blanks replaced is a sequence of bytes.
LEMMA NormalizedIs ==
  ASSUME NEW s \in Seq(Byte), NEW lead \in {MetaSpace, <<>>}
  PROVE  lead \o FlattenSeq([k \in DOMAIN s |-> IF s[k] = Blank THEN MetaSpace ELSE <<s[k]>>])
           \in Seq(Nat)
<1> DEFINE n == Len(s)
           ss == [k \in DOMAIN s |-> IF s[k] = Blank THEN MetaSpace ELSE <<s[k]>>]
<1>1. MetaSpace \in Seq(Nat) /\ lead \in Seq(Nat)
  <2>1. MetaSpace \in Seq(Nat)
    BY DEF MetaSpace
  <2>2. <<>> \in Seq(Nat)
    OBVIOUS
  <2> QED
    BY <2>1, <2>2
<1>2. s \in Seq(Nat) /\ n \in Nat /\ DOMAIN s = 1 .. n /\ \A k \in 1 .. n : s[k] \in Nat
  BY BytesAreNumbers
<1>3. ss = [k \in 1 .. n |-> ss[k]]
  BY <1>2
<1>4. ASSUME NEW k \in 1 .. n
      PROVE  ss[k] \in Seq(Nat)
  <2>1. <<s[k]>> \in Seq(Nat)
    BY <1>2
  <2>2. ss[k] = IF s[k] = Blank THEN MetaSpace ELSE <<s[k]>>
    BY <1>2
  <2> QED
    BY <1>1, <2>1, <2>2
<1> HIDE DEF ss, n
<1>5. ss \in Seq(Seq(Nat))
  BY <1>2, <1>3, <1>4, FunctionIsSequence
<1>6. FlattenSeq(ss) \in Seq(Nat)
  BY <1>5, FlattenSeqIs
<1>7. lead \o FlattenSeq(ss) \in Seq(Nat)
  BY ONLY <1>1, <1>6, ConcatProperties
<1> QED
  BY <1>7 DEF ss

\* Every step keeps it: only Pretokenize and SplitSpare cut, and they cut all of the text.
LEMMA NextPrompted ==
  ASSUME Prompted, [Next]_vars
  PROVE  Prompted'
<1> USE DEF Prompted
<1>1. CASE Load
  <2>1. pre' \in Pres
    BY <1>1, FilePreIs DEF Load, tk
  <2> QED
    BY <1>1, <2>1 DEF Load
<1>2. CASE SplitSpare
  <2>1. PICK name \in Spare :
          pre' = name /\ cuts' = Split(Classes(CptsFromUtf8(text)), name)
    BY <1>2 DEF SplitSpare
  <2>2. name \in Splitters
    BY SpareSplitters DEF Splitters
  <2>3. text # <<>> /\ ~Unencodable(CptsFromUtf8(text)) /\ words' = Words(CptsFromUtf8(text), cuts')
        /\ phase' = "split" /\ UNCHANGED <<file, text>>
    BY <1>2 DEF SplitSpare
  <2>4. CutsToEnd(Classes(CptsFromUtf8(text)), 1, cuts')
    BY <2>1, <2>2, <2>3, TextIsCut
  <2>5. words' \in Seq(Seq(Nat))
    BY <2>3, <2>4, CptsAreCodes, WordsAre
  <2> QED
    BY <2>1, <2>2, <2>3, <2>4, <2>5 DEF Pres
<1>3. CASE Pretokenize
  <2>1. text # <<>> /\ pre # "none" /\ UNCHANGED <<file, text, pre>>
    BY <1>3 DEF Pretokenize
  <2>2. CASE Unencodable(CptsFromUtf8(text))
    BY <1>3, <2>1, <2>2 DEF Pretokenize
  <2>3. CASE ~Unencodable(CptsFromUtf8(text))
    <3>1. /\ cuts' = IF pre = "tekken" THEN RegexSplit(Classes(CptsFromUtf8(text)), pre)
                     ELSE Split(Classes(CptsFromUtf8(text)), pre)
          /\ words' = Words(CptsFromUtf8(text), cuts') /\ phase' = "cut"
      BY <1>3, <2>3 DEF Pretokenize
    <3>2. CutsToEnd(Classes(CptsFromUtf8(text)), 1, cuts')
      <4>1. CASE pre = "tekken"
        <5>1. CutsToEnd(Classes(CptsFromUtf8(text)), 1, RegexSplit(Classes(CptsFromUtf8(text)), "tekken"))
          BY <2>1, TextIsCut
        <5> QED
          BY <3>1, <4>1, <5>1
      <4>2. CASE pre # "tekken"
        <5>1. pre \in Splitters
          BY <2>1, <4>2 DEF Pres
        <5>2. CutsToEnd(Classes(CptsFromUtf8(text)), 1, Split(Classes(CptsFromUtf8(text)), pre))
          BY <2>1, <5>1, TextIsCut
        <5> QED
          BY <3>1, <4>2, <5>2
      <4> QED
        BY <4>1, <4>2
    <3>3. words' \in Seq(Seq(Nat))
      BY <2>3, <3>1, <3>2, CptsAreCodes, WordsAre
    <3> QED
      BY <2>1, <3>1, <3>2, <3>3
  <2> QED
    BY <2>2, <2>3
<1>4. CASE OneWord
  <2>1. text \in Seq(Nat)
    BY BytesAreNumbers
  <2>2. words' \in Seq(Seq(Nat))
    BY <1>4, <2>1, WordIs DEF OneWord
  <2> QED
    BY <1>4, <2>2 DEF OneWord
<1>5. CASE Normalize
  <2> DEFINE w == (IF tk.spacePrefix THEN MetaSpace ELSE <<>>)
                    \o FlattenSeq([k \in DOMAIN text |->
                                     IF text[k] = Blank THEN MetaSpace ELSE <<text[k]>>])
  <2>1. w \in Seq(Nat)
    BY NormalizedIs
  <2>2. words' = IF text = <<>> THEN <<>> ELSE <<w>>
    BY <1>5 DEF Normalize
  <2> HIDE DEF w
  <2>3. words' \in Seq(Seq(Nat))
    BY <2>1, <2>2, WordIs
  <2> QED
    BY <1>5, <2>3 DEF Normalize
<1>6. CASE BeginWords
  BY <1>6 DEF BeginWords
<1>7. CASE NextWord
  <2> DEFINE S == Seq(Nat)
  <2>1. words # <<>> /\ words' = Tail(words) /\ words \in Seq(S)
    BY <1>7 DEF NextWord
  <2>2. words' \in Seq(S)
    <3> HIDE DEF S
    <3> QED
      BY <2>1
  <2> QED
    BY <1>7, <2>2 DEF NextWord
<1>8. CASE Pop
  BY <1>8 DEF Pop
<1>9. CASE EmitWord
  BY <1>9 DEF EmitWord
<1>10. CASE Finish
  BY <1>10 DEF Finish
<1>11. CASE Done \/ UNCHANGED vars
  BY <1>11 DEF Done, vars
<1> QED
  BY <1>1, <1>2, <1>3, <1>4, <1>5, <1>6, <1>7, <1>8, <1>9, <1>10, <1>11 DEF Next

\* The invariant of the text and its words holds in every reachable state.
THEOREM PromptedHolds == Spec => []Prompted
<1>1. Init => Prompted
  BY InitPrompted
<1>2. Prompted /\ [Next]_vars => Prompted'
  BY NextPrompted
<1> QED
  BY <1>1, <1>2, PTL DEF Spec

\* Words are not empty, in order, and cover the text, whichever splitter cut it and
\* whatever the text: what the assertion of _add_token() asks, and that nothing is left over.
THEOREM CutsCoverHolds == Spec => []CutsCover
<1>1. Prompted => CutsCover
  <2> SUFFICES ASSUME Prompted, phase \in {"cut", "split"}
               PROVE  /\ cuts # <<>> /\ Last(cuts) = Len(CptsFromUtf8(text)) + 1
                      /\ cuts[1] > 1
                      /\ \A k \in 2 .. Len(cuts) : cuts[k - 1] < cuts[k]
    BY DEF CutsCover
  <2> DEFINE c == Classes(CptsFromUtf8(text))
             T == {CptAt(text, i) : i \in 1 .. Len(text)}
  <2>1. CutsToEnd(c, 1, cuts) /\ text \in Seq(Byte)
    BY DEF Prompted
  <2>2. CptsFromUtf8(text) \in Seq(T)
    BY <2>1, CptsAre
  <2> HIDE DEF T
  <2>3. c.end = Len(CptsFromUtf8(text)) + 1
    BY <2>2, ClassesAre
  <2> HIDE DEF c
  <2>4. Cutting(c, 1, cuts) /\ cuts # <<>> /\ cuts[Len(cuts)] = c.end
    BY <2>1 DEF CutsToEnd
  <2> QED
    BY <2>3, <2>4 DEF Cutting, Last
<1> QED
  BY <1>1, PromptedHolds, PTL

\* encode() throws only when the text has a byte that can begin a code point past U+10FFFF.
THEOREM ThrowsOnlyPastUnicodeHolds == Spec => []ThrowsOnlyPastUnicode
<1>1. Prompted => ThrowsOnlyPastUnicode
  <2> SUFFICES ASSUME Prompted, phase = "threw"
               PROVE  \E i \in DOMAIN text : text[i] \in 244 .. 247
    BY DEF ThrowsOnlyPastUnicode
  <2>1. text \in Seq(Byte) /\ Unencodable(CptsFromUtf8(text))
    BY DEF Prompted
  <2> DEFINE cpts == CptsFromUtf8(text)
             T == {CptAt(text, i) : i \in 1 .. Len(text)}
  <2>2. cpts \in Seq(T)
    BY <2>1, CptsAre
  <2>3. PICK k \in DOMAIN cpts : cpts[k] > \h10FFFF
    BY <2>1, SMT DEF Unencodable
  <2>4. cpts[k] \in T
    <3> HIDE DEF cpts, T
    <3> QED
      BY <2>2
  <2>5. PICK i \in 1 .. Len(text) : cpts[k] = CptAt(text, i)
    BY <2>4, SMT
  <2>6. IsCpt(CptAt(text, i), text[i])
    BY <2>1, CptAtIs
  <2>7. text[i] \in 244 .. 247
    BY <2>3, <2>5, <2>6, SMT DEF IsCpt
  <2>8. i \in DOMAIN text
    BY <2>1
  <2> QED
    BY <2>7, <2>8
<1> QED
  BY <1>1, PromptedHolds, PTL

-----------------------------------------------------------------------------
(* The linked list.                                                         *)

\* A list of symbols.
IsSymbols(syms) == syms \in Seq([text : Seq(Nat), prev : Nat, next : Nat])

\* idx has the places of the live symbols in order, and the links of each are its
\* neighbours; the links of the others lead forward or nowhere too.
Path(syms, idx) ==
  /\ idx \in Seq(Nat) /\ \A k \in 1 .. Len(idx) : idx[k] \in 1 .. Len(syms)
  /\ \A k, l \in 1 .. Len(idx) : k < l => idx[k] < idx[l]
  /\ syms # <<>> => idx # <<>> /\ idx[1] = 1
  /\ \A k \in 1 .. Len(idx) :
       /\ syms[idx[k]].next = (IF k = Len(idx) THEN 0 ELSE idx[k + 1])
       /\ syms[idx[k]].prev = (IF k = 1 THEN 0 ELSE idx[k - 1])
  /\ \A j \in 1 .. Len(syms) : Live(syms, j) <=> \E k \in 1 .. Len(idx) : idx[k] = j
  /\ \A j \in 1 .. Len(syms) : syms[j].next = 0 \/ syms[j].next \in j + 1 .. Len(syms)

\* The texts of a path from the k-th place on.
Texts(syms, idx, k) == [j \in 1 .. Len(idx) - k + 1 |-> syms[idx[k + j - 1]].text]

\* The symbols of a list and what they are made of.
LEMMA SymbolIs ==
  ASSUME NEW syms, IsSymbols(syms)
  PROVE  /\ Len(syms) \in Nat /\ DOMAIN syms = 1 .. Len(syms)
         /\ syms = [k \in 1 .. Len(syms) |-> syms[k]]
         /\ \A k \in 1 .. Len(syms) :
              /\ syms[k] \in [text : Seq(Nat), prev : Nat, next : Nat]
              /\ syms[k].text \in Seq(Nat) /\ syms[k].prev \in Nat /\ syms[k].next \in Nat
<1> DEFINE R == [text : Seq(Nat), prev : Nat, next : Nat]
<1>1. syms \in Seq(R)
  BY DEF IsSymbols
<1>2. \A r \in R : r.text \in Seq(Nat) /\ r.prev \in Nat /\ r.next \in Nat
  OBVIOUS
<1> HIDE DEF R
<1>3. /\ Len(syms) \in Nat /\ DOMAIN syms = 1 .. Len(syms)
      /\ syms = [k \in 1 .. Len(syms) |-> syms[k]]
      /\ \A k \in 1 .. Len(syms) : syms[k] \in R
  BY <1>1
<1> QED
  BY <1>2, <1>3 DEF R

\* A text before others.
LEMMA PutBefore ==
  ASSUME NEW T, NEW t \in T, NEW s \in Seq(T)
  PROVE  /\ <<t>> \o s \in Seq(T) /\ Len(<<t>> \o s) = Len(s) + 1
         /\ \A j \in 1 .. Len(s) + 1 : (<<t>> \o s)[j] = IF j = 1 THEN t ELSE s[j - 1]
<1>1. <<t>> \in Seq(T) /\ Len(<<t>>) = 1 /\ <<t>>[1] = t
  OBVIOUS
<1> DEFINE u == <<t>> \o s
<1>2. /\ u \in Seq(T) /\ Len(u) = Len(<<t>>) + Len(s)
      /\ \A i \in 1 .. Len(<<t>>) + Len(s) : u[i] = IF i <= Len(<<t>>) THEN <<t>>[i] ELSE s[i - Len(<<t>>)]
  BY ONLY <1>1, s \in Seq(T), ConcatProperties
<1>3. Len(s) \in Nat
  OBVIOUS
<1> HIDE DEF u
<1>4. Len(u) = Len(s) + 1 /\ \A j \in 1 .. Len(s) + 1 : u[j] = IF j = 1 THEN t ELSE s[j - 1]
  BY <1>1, <1>2, <1>3
<1> QED
  BY <1>2, <1>4 DEF u

\* The texts from a place on are that of the place and those after it.
LEMMA TextsFrom ==
  ASSUME NEW syms, IsSymbols(syms), NEW idx, Path(syms, idx)
  PROVE  /\ Len(idx) \in Nat
         /\ \A k \in 1 .. Len(idx) + 1 : Texts(syms, idx, k) \in Seq(Seq(Nat))
         /\ \A k \in 1 .. Len(idx) :
              Texts(syms, idx, k) = <<syms[idx[k]].text>> \o Texts(syms, idx, k + 1)
         /\ Texts(syms, idx, Len(idx) + 1) = <<>>
<1> DEFINE n == Len(idx)
           T == Seq(Nat)
           at(k) == syms[idx[k]].text
<1>1. n \in Nat
  BY DEF Path
<1>2. \A k \in 1 .. n : at(k) \in T
  BY SymbolIs DEF Path
<1>3. \A k \in 1 .. n + 1 : Texts(syms, idx, k) = [j \in 1 .. n - k + 1 |-> at(k + j - 1)]
  BY DEF Texts
<1> HIDE DEF n, T, at
<1>4. ASSUME NEW k \in 1 .. n + 1
      PROVE  Texts(syms, idx, k) \in Seq(T) /\ Len(Texts(syms, idx, k)) = n - k + 1
  <2> DEFINE s == Texts(syms, idx, k)
             m == n - k + 1
  <2>1. s = [j \in 1 .. m |-> at(k + j - 1)]
    BY <1>3
  <2>2. m \in Nat /\ \A j \in 1 .. m : k + j - 1 \in 1 .. n
    BY <1>1
  <2> HIDE DEF s, m
  <2>3. s = [j \in 1 .. m |-> s[j]] /\ \A j \in 1 .. m : s[j] \in T
    BY <1>2, <2>1, <2>2
  <2>4. s \in Seq(T) /\ Len(s) = m
    BY <2>2, <2>3, FunctionIsSequence
  <2> QED
    BY <2>4 DEF s, m
<1>5. ASSUME NEW k \in 1 .. n
      PROVE  Texts(syms, idx, k) = <<at(k)>> \o Texts(syms, idx, k + 1)
  <2> DEFINE s == Texts(syms, idx, k + 1)
  <2>1. k + 1 \in 1 .. n + 1 /\ k \in 1 .. n + 1
    BY <1>1
  <2>2. s \in Seq(T) /\ Len(s) = n - (k + 1) + 1
    BY <1>4, <2>1
  <2>3. s = [j \in 1 .. n - (k + 1) + 1 |-> at((k + 1) + j - 1)]
    BY <1>3, <2>1
  <2>4. at(k) \in T
    BY <1>2
  <2> DEFINE t == at(k)
             u == <<t>> \o s
  <2> HIDE DEF s
  <2>5. /\ u \in Seq(T) /\ Len(u) = Len(s) + 1
        /\ \A j \in 1 .. Len(s) + 1 : u[j] = IF j = 1 THEN t ELSE s[j - 1]
    <3>1. t \in T
      BY <2>4
    <3>2. s \in Seq(T)
      BY <2>2
    <3> HIDE DEF t, u
    <3>3. /\ <<t>> \o s \in Seq(T) /\ Len(<<t>> \o s) = Len(s) + 1
          /\ \A j \in 1 .. Len(s) + 1 : (<<t>> \o s)[j] = IF j = 1 THEN t ELSE s[j - 1]
      BY <3>1, <3>2, PutBefore
    <3> QED
      BY <3>3, Zenon DEF u
  <2>6. Len(s) + 1 = n - k + 1
    BY <1>1, <2>2
  <2>7. ASSUME NEW j \in 1 .. n - k + 1
        PROVE  (IF j = 1 THEN at(k) ELSE s[j - 1]) = at(k + j - 1)
    <3>1. CASE j = 1
      <4>1. k + j - 1 = k
        BY <3>1
      <4> QED
        BY <3>1, <4>1
    <3>2. CASE j # 1
      <4>1. j - 1 \in 1 .. n - (k + 1) + 1 /\ (k + 1) + (j - 1) - 1 = k + j - 1
        BY <1>1, <3>2
      <4>2. s[j - 1] = at((k + 1) + (j - 1) - 1)
        BY <2>3, <4>1
      <4> QED
        BY <3>2, <4>1, <4>2
    <3> QED
      BY <3>1, <3>2
  <2> HIDE DEF u
  <2>8. u = [j \in 1 .. n - k + 1 |-> at(k + j - 1)]
    <3>1. u = [j \in 1 .. Len(u) |-> u[j]]
      BY <2>5
    <3>2. u = [j \in 1 .. n - k + 1 |-> u[j]]
      BY <2>5, <2>6, <3>1
    <3>3. \A j \in 1 .. n - k + 1 : u[j] = at(k + j - 1)
      BY <2>5, <2>6, <2>7
    <3> QED
      BY <3>2, <3>3
  <2>9. Texts(syms, idx, k) = [j \in 1 .. n - k + 1 |-> at(k + j - 1)]
    BY <1>3, <2>1
  <2> QED
    BY <2>8, <2>9 DEF s, u
<1>6. Texts(syms, idx, n + 1) = <<>>
  <2>1. n + 1 \in 1 .. n + 1 /\ n - (n + 1) + 1 = 0
    BY <1>1
  <2>2. Texts(syms, idx, n + 1) \in Seq(T) /\ Len(Texts(syms, idx, n + 1)) = 0
    BY <1>4, <2>1
  <2> QED
    BY <2>2
<1> QED
  BY <1>1, <1>4, <1>5, <1>6 DEF n, T, at

\* The texts along the list are those of the path.
LEMMA ChainIs ==
  ASSUME NEW syms, IsSymbols(syms), NEW idx, Path(syms, idx)
  PROVE  Chain(syms) = Texts(syms, idx, 1)
<1> DEFINE S == 0 .. Len(syms)
           h == [k \in S |-> <<syms[k].text>>]
           next == [k \in S |-> syms[k].next]
           rank == [k \in S |-> IF k = 0 THEN 0 ELSE Len(syms) - k + 1]
           F(g) == [k \in 0 .. Len(syms) |-> IF k = 0 THEN <<>> ELSE <<syms[k].text>> \o g[syms[k].next]]
           f == CHOOSE g : g = F(g)
           n == Len(idx)
<1>1. Len(syms) \in Nat /\ S \ {0} = 1 .. Len(syms) /\ n \in Nat
  BY SymbolIs DEF Path
<1>2. ASSUME NEW k \in 1 .. Len(syms)
      PROVE  next[k] \in S /\ rank[next[k]] < rank[k]
  <2>1. syms[k].next = 0 \/ syms[k].next \in k + 1 .. Len(syms)
    BY DEF Path
  <2>2. next[k] = syms[k].next /\ rank[k] = Len(syms) - k + 1
    BY <1>1
  <2>3. syms[k].next \in S
    BY <1>1, <2>1
  <2> QED
    BY <1>1, <2>1, <2>2, <2>3
<1>3. \A k \in S : rank[k] \in Nat /\ rank[k] < Len(syms) + 1
  BY <1>1
<1>4. Ends(S, {0}, next, rank)
  <2> HIDE DEF S, next, rank
  <2> QED
    BY <1>1, <1>2, <1>3 DEF Ends
<1>5. \A g : Walk(g, S, {0}, h, next) <=> g = F(g)
  BY DEF Walk
<1>6. Chain(syms) = IF syms = <<>> THEN <<>> ELSE f[1]
  BY DEF Chain
<1>7. \A k \in 1 .. Len(syms) : h[k] = <<syms[k].text>> /\ next[k] = syms[k].next /\ k \in S /\ k # 0
  BY <1>1
<1> HIDE DEF S, h, next, rank, F
<1>8. \E g : Walk(g, S, {0}, h, next)
  <2>1. Len(syms) + 1 \in Nat
    BY <1>1
  <2> QED
    BY <1>3, <1>4, <2>1, WalkExists
<1>9. f = F(f)
  BY <1>5, <1>8
<1> HIDE DEF f
<1>10. Walk(f, S, {0}, h, next)
  BY <1>5, <1>9
<1>11. f[0] = <<>> /\ \A k \in 1 .. Len(syms) : f[k] = <<syms[k].text>> \o f[syms[k].next]
  <2>1. 0 \in S
    BY <1>1 DEF S
  <2> QED
    BY <1>7, <1>10, <2>1 DEF Walk
<1> DEFINE U == {d \in Nat : d + 1 <= n => f[idx[n - d]] = Texts(syms, idx, n - d)}
<1>12. 0 \in U
  <2> SUFFICES ASSUME 1 <= n PROVE f[idx[n]] = Texts(syms, idx, n)
    BY <1>1
  <2>1. n \in 1 .. n /\ idx[n] \in 1 .. Len(syms) /\ syms[idx[n]].next = 0
    BY <1>1 DEF Path
  <2>2. f[idx[n]] = <<syms[idx[n]].text>> \o <<>>
    BY <1>11, <2>1
  <2>3. Texts(syms, idx, n) = <<syms[idx[n]].text>> \o <<>>
    <3>1. Texts(syms, idx, n) = <<syms[idx[n]].text>> \o Texts(syms, idx, n + 1)
      BY <2>1, TextsFrom
    <3>2. Texts(syms, idx, n + 1) = <<>>
      BY TextsFrom
    <3> QED
      BY <3>1, <3>2
  <2> QED
    BY <2>2, <2>3
<1>13. ASSUME NEW d \in Nat, d \in U
       PROVE  d + 1 \in U
  <2> SUFFICES ASSUME d + 2 <= n PROVE f[idx[n - (d + 1)]] = Texts(syms, idx, n - (d + 1))
    BY <1>1
  <2> DEFINE k == n - (d + 1)
  <2>1. k \in 1 .. n /\ k # n /\ k + 1 = n - d /\ d + 1 <= n
    BY <1>1
  <2>2. idx[k] \in 1 .. Len(syms) /\ syms[idx[k]].next = idx[k + 1]
    BY <2>1 DEF Path
  <2>3. f[idx[k + 1]] = Texts(syms, idx, k + 1)
    BY <1>13, <2>1
  <2>4. f[idx[k]] = <<syms[idx[k]].text>> \o Texts(syms, idx, k + 1)
    BY <1>11, <2>2, <2>3
  <2>5. Texts(syms, idx, k) = <<syms[idx[k]].text>> \o Texts(syms, idx, k + 1)
    BY <2>1, TextsFrom
  <2> QED
    BY <2>4, <2>5
<1> HIDE DEF U
<1>14. Nat \subseteq U
  BY <1>12, <1>13, Counting
<1>15. CASE syms = <<>>
  <2>1. n = 0
    <3>1. Len(syms) = 0
      BY <1>15
    <3>2. ~ \E k \in 1 .. n : TRUE
      BY <3>1 DEF Path
    <3> QED
      BY <1>1, <3>2
  <2>2. Texts(syms, idx, n + 1) = <<>>
    BY TextsFrom
  <2> QED
    BY <1>6, <1>15, <2>1, <2>2
<1>16. CASE syms # <<>>
  <2>1. n >= 1 /\ idx[1] = 1
    BY <1>1, <1>16 DEF Path
  <2>2. n - 1 \in U /\ n - (n - 1) = 1 /\ (n - 1) + 1 <= n
    BY <1>1, <1>14, <2>1
  <2>3. f[idx[n - (n - 1)]] = Texts(syms, idx, n - (n - 1))
    BY <2>2 DEF U
  <2>4. f[1] = Texts(syms, idx, 1)
    BY <2>1, <2>2, <2>3
  <2> QED
    BY <1>6, <1>16, <2>4
<1> QED
  BY <1>15, <1>16

\* The live texts in the order of their places are those of the path.
LEMMA LiveTextsIs ==
  ASSUME NEW syms, IsSymbols(syms), NEW idx, Path(syms, idx)
  PROVE  LiveTexts(syms) = Texts(syms, idx, 1)
<1> DEFINE N == Len(syms)
           n == Len(idx)
           S == 1 .. N + 1
           B == {k \in S : k > N}
           h == [k \in S |-> IF Live(syms, k) THEN <<syms[k].text>> ELSE <<>>]
           next == [k \in S |-> k + 1]
           rank == [k \in S |-> N + 1 - k]
           F(g) == [k \in 1 .. Len(syms) + 1 |->
                     IF k > Len(syms) THEN <<>>
                     ELSE (IF Live(syms, k) THEN <<syms[k].text>> ELSE <<>>) \o g[k + 1]]
           f == CHOOSE g : g = F(g)
<1>1. N \in Nat /\ n \in Nat /\ S \ B = 1 .. N
  BY SymbolIs DEF Path
<1>2. \A k \in S : rank[k] \in Nat /\ rank[k] < N + 1
  BY <1>1
<1>3. Ends(S, B, next, rank)
  <2>1. \A k \in 1 .. N : next[k] \in S /\ rank[next[k]] < rank[k]
    BY <1>1
  <2> HIDE DEF S, B, next, rank
  <2> QED
    BY <1>1, <1>2, <2>1 DEF Ends
<1>4. \A g : Walk(g, S, B, h, next) <=> g = F(g)
  BY DEF Walk
<1>5. LiveTexts(syms) = f[1]
  BY DEF LiveTexts
<1>6. \A k \in 1 .. N : /\ h[k] = IF Live(syms, k) THEN <<syms[k].text>> ELSE <<>>
                        /\ next[k] = k + 1 /\ k \in S /\ k \notin B
  BY <1>1
<1>7. N + 1 \in S /\ N + 1 \in B /\ N + 1 \in Nat
  BY <1>1
<1> HIDE DEF S, B, h, next, rank, F
<1>8. \E g : Walk(g, S, B, h, next)
  <2> HIDE DEF N
  <2> QED
    BY <1>2, <1>3, <1>7, WalkExists
<1>9. f = F(f)
  BY <1>4, <1>8
<1> HIDE DEF f
<1>10. Walk(f, S, B, h, next)
  BY <1>4, <1>9
<1>11. /\ f[N + 1] = <<>>
       /\ \A k \in 1 .. N : f[k] = (IF Live(syms, k) THEN <<syms[k].text>> ELSE <<>>) \o f[k + 1]
  BY <1>6, <1>7, <1>10 DEF Walk
<1> HIDE DEF N, n
<1> DEFINE Near(j, k) == (k = 1 \/ idx[k - 1] < j) /\ (k = n + 1 \/ j <= idx[k])
           U == {d \in Nat : d <= N => \A k \in 1 .. n + 1 :
                  Near(N + 1 - d, k) => f[N + 1 - d] = Texts(syms, idx, k)}
<1>12. /\ \A k \in 1 .. n : idx[k] \in 1 .. N
       /\ \A k, l \in 1 .. n : k < l => idx[k] < idx[l]
       /\ \A j \in 1 .. N : Live(syms, j) <=> \E k \in 1 .. n : idx[k] = j
  BY DEF Path, N, n
<1>13. /\ \A k \in 1 .. n + 1 : Texts(syms, idx, k) \in Seq(Seq(Nat))
       /\ \A k \in 1 .. n : Texts(syms, idx, k) = <<syms[idx[k]].text>> \o Texts(syms, idx, k + 1)
       /\ Texts(syms, idx, n + 1) = <<>>
  BY TextsFrom DEF n
<1>14. 0 \in U
  <2> SUFFICES ASSUME NEW k \in 1 .. n + 1, Near(N + 1, k)
               PROVE  f[N + 1] = Texts(syms, idx, k)
    BY <1>1
  <2>1. k = n + 1
    <3> SUFFICES ASSUME k # n + 1 PROVE FALSE
      OBVIOUS
    <3>1. k \in 1 .. n /\ N + 1 <= idx[k]
      BY <1>1
    <3> QED
      BY <1>1, <1>12, <3>1
  <2> QED
    BY <1>11, <1>13, <2>1
<1>15. ASSUME NEW d \in Nat, d \in U
       PROVE  d + 1 \in U
  <2> DEFINE j == N + 1 - (d + 1)
  <2> SUFFICES ASSUME d + 1 <= N, NEW k \in 1 .. n + 1, Near(j, k)
               PROVE  f[j] = Texts(syms, idx, k)
    BY <1>1
  <2>1. j \in 1 .. N /\ j + 1 = N + 1 - d /\ d <= N
    BY <1>1
  <2>2. \A l \in 1 .. n + 1 : Near(j + 1, l) => f[j + 1] = Texts(syms, idx, l)
    BY <1>15, <2>1
  <2>3. f[j] = (IF Live(syms, j) THEN <<syms[j].text>> ELSE <<>>) \o f[j + 1]
    BY <1>11, <2>1
  <2>4. j \in Int /\ k \in Int /\ n \in Int
    BY <1>1, <2>1
  <2>n. (k = 1 \/ idx[k - 1] < j) /\ (k = n + 1 \/ j <= idx[k])
    OBVIOUS
  <2> HIDE DEF j, U
  <2>5. CASE Live(syms, j)
    <3>1. PICK m \in 1 .. n : idx[m] = j
      BY <1>12, <2>1, <2>5
    <3>2. m = k
      <4>1. CASE m < k
        <5>1. k - 1 \in 1 .. n /\ k # 1 /\ (m = k - 1 \/ m < k - 1)
          BY <1>1, <4>1
        <5>2. idx[m] <= idx[k - 1]
          BY <1>12, <5>1
        <5>3. idx[k - 1] < j
          BY <2>n, <5>1
        <5>4. idx[k - 1] \in Int
          BY <1>12, <5>1
        <5> QED
          BY <2>4, <3>1, <5>2, <5>3, <5>4
      <4>2. CASE m > k
        <5>1. k \in 1 .. n /\ k # n + 1
          BY <1>1, <4>2
        <5>2. idx[k] < idx[m] /\ idx[k] \in Int
          BY <1>12, <4>2, <5>1
        <5>3. j <= idx[k]
          BY <2>n, <5>1
        <5> QED
          BY <2>4, <3>1, <5>2, <5>3
      <4> QED
        BY <2>4, <4>1, <4>2
    <3>3. k \in 1 .. n /\ k + 1 \in 1 .. n + 1
      BY <1>1, <3>2
    <3>4. Near(j + 1, k + 1)
      <4>1. (k + 1) - 1 = k /\ idx[k] < j + 1
        BY <2>4, <3>1, <3>2
      <4>2. k + 1 = n + 1 \/ j + 1 <= idx[k + 1]
        <5> SUFFICES ASSUME k + 1 # n + 1 PROVE j + 1 <= idx[k + 1]
          OBVIOUS
        <5>1. k + 1 \in 1 .. n
          BY <1>1, <3>3
        <5>2. idx[k] < idx[k + 1] /\ idx[k + 1] \in Int
          BY <1>12, <3>3, <5>1
        <5> QED
          BY <2>4, <3>1, <3>2, <5>2
      <4> QED
        BY <4>1, <4>2
    <3> HIDE DEF Near
    <3>5. f[j + 1] = Texts(syms, idx, k + 1)
      BY <2>2, <3>3, <3>4
    <3>6. f[j] = <<syms[idx[k]].text>> \o Texts(syms, idx, k + 1)
      BY <2>3, <2>5, <3>1, <3>2, <3>5
    <3> QED
      BY <1>13, <3>3, <3>6
  <2>6. CASE ~Live(syms, j)
    <3>1. \A m \in 1 .. n : idx[m] # j
      BY <1>12, <2>1, <2>6
    <3>2. Near(j + 1, k)
      <4>1. k = 1 \/ idx[k - 1] < j + 1
        <5> SUFFICES ASSUME k # 1 PROVE idx[k - 1] < j + 1
          OBVIOUS
        <5>1. k - 1 \in 1 .. n
          BY <1>1
        <5>2. idx[k - 1] \in Int /\ idx[k - 1] < j
          BY <1>12, <2>n, <5>1
        <5> QED
          BY <2>4, <5>2
      <4>2. k = n + 1 \/ j + 1 <= idx[k]
        <5> SUFFICES ASSUME k # n + 1 PROVE j + 1 <= idx[k]
          OBVIOUS
        <5>1. k \in 1 .. n
          BY <1>1
        <5>2. idx[k] \in Int /\ j <= idx[k] /\ idx[k] # j
          BY <1>12, <2>n, <3>1, <5>1
        <5> QED
          BY <2>4, <5>2
      <4> QED
        BY <4>1, <4>2
    <3> HIDE DEF Near
    <3>3. f[j + 1] = Texts(syms, idx, k)
      BY <2>2, <3>2
    <3>4. f[j] = <<>> \o Texts(syms, idx, k)
      BY <2>3, <2>6, <3>3
    <3>5. Texts(syms, idx, k) \in Seq(Seq(Nat))
      BY <1>13
    <3> QED
      BY <3>4, <3>5, ConcatEmptySeq
  <2> QED
    BY <2>5, <2>6
<1>16. N \in U
  <2> HIDE DEF U
  <2> QED
    BY <1>1, <1>14, <1>15, Counting
<1>17. Near(1, 1)
  <2> SUFFICES ASSUME n # 0 PROVE 1 <= idx[1]
    BY <1>1
  <2> QED
    BY <1>1, <1>12
<1>18. N + 1 - N = 1 /\ 1 \in 1 .. n + 1 /\ N <= N
  BY <1>1
<1>19. \A k \in 1 .. n + 1 : Near(N + 1 - N, k) => f[N + 1 - N] = Texts(syms, idx, k)
  <2> HIDE DEF Near
  <2> QED
    BY <1>16, <1>18
<1> HIDE DEF Near, U
<1>20. f[1] = Texts(syms, idx, 1)
  BY <1>17, <1>18, <1>19
<1> QED
  BY <1>5, <1>20

\* What a symbol of a word starts as.
Char == Seq(Nat) \ {<<>>}

\* A symbol takes at least one byte of the word and none after it.
LEMMA CharLenIs ==
  ASSUME NEW s \in Seq(Nat), NEW i \in 1 .. Len(s)
  PROVE  /\ CharLen(s, i) \in 1 .. Len(s) - i + 1
         /\ SubSeq(s, i, i + CharLen(s, i) - 1) \in Char
<1> DEFINE a == Len(s) - i + 1
           b == LenUtf8(s[i])
           n == CharLen(s, i)
<1>1. Len(s) \in Nat /\ s[i] \in Nat /\ a \in Nat /\ a >= 1
  OBVIOUS
<1>2. b \in 1 .. 4
  BY <1>1 DEF LenUtf8
<1>3. n = Min({a, b})
  BY DEF CharLen
<1> HIDE DEF a, b, n
<1>4. n \in {a, b} /\ n <= a
  <2> DEFINE S == {a, b}
  <2>1. S \subseteq Nat /\ S # {} /\ a \in S /\ n = Min(S)
    BY <1>1, <1>2, <1>3
  <2>2. S = {a, b}
    OBVIOUS
  <2> HIDE DEF S
  <2>3. Min(S) \in S /\ \A y \in S : Min(S) <= y
    BY <2>1, MinIs
  <2> QED
    BY <2>1, <2>2, <2>3
<1>5. n \in 1 .. a
  BY <1>1, <1>2, <1>4
<1>6. SubSeq(s, i, i + n - 1) \in Char
  <2>1. n \in Nat /\ n >= 1 /\ i + n - 1 <= Len(s) /\ i + n - 1 \in Int /\ i <= i + n - 1
    BY <1>1, <1>5 DEF a
  <2> DEFINE q == i + n - 1
  <2>2. q \in Int /\ i \in Int /\ i <= q /\ \A j \in i .. q : j \in 1 .. Len(s)
    BY <1>1, <2>1
  <2> HIDE DEF q
  <2>3. \A j \in i .. q : s[j] \in Nat
    BY <2>2
  <2>4. SubSeq(s, i, q) \in Seq(Nat)
    BY <2>2, <2>3
  <2>5. Len(SubSeq(s, i, q)) = q - i + 1
    BY <2>2
  <2>6. SubSeq(s, i, q) # <<>>
    <3>1. q - i + 1 # 0
      BY <2>2
    <3> QED
      BY <2>4, <2>5, <3>1
  <2> QED
    BY <2>4, <2>6 DEF q, Char
<1> QED
  BY <1>5, <1>6 DEF a, n

\* A word is cut into symbols, and its list is the path through all of them.
LEMMA SymbolsAre ==
  ASSUME NEW word \in Seq(Nat)
  PROVE  LET syms == Symbols(word)
         IN /\ IsSymbols(syms)
            /\ \A k \in 1 .. Len(syms) :
                 /\ Live(syms, k) /\ syms[k].prev = k - 1
                 /\ syms[k].next = IF k = Len(syms) THEN 0 ELSE k + 1
<1> DEFINE N == Len(word)
           S == 1 .. N + 1
           B == {k \in S : k > N}
           h == [i \in S |-> <<SubSeq(word, i, i + CharLen(word, i) - 1)>>]
           next == [i \in S |-> i + CharLen(word, i)]
           rank == [k \in S |-> N + 1 - k]
           F(g) == [i \in 1 .. Len(word) + 1 |->
                      IF i > Len(word) THEN <<>>
                      ELSE <<SubSeq(word, i, i + CharLen(word, i) - 1)>> \o g[i + CharLen(word, i)]]
           f == CHOOSE g : g = F(g)
           chars == f[1]
           syms == Symbols(word)
<1>1. N \in Nat /\ S \ B = 1 .. N
  OBVIOUS
<1>2. \A k \in S : rank[k] \in Nat /\ rank[k] < N + 1
  BY <1>1
<1>3. \A i \in 1 .. N : CharLen(word, i) \in 1 .. N - i + 1
                        /\ SubSeq(word, i, i + CharLen(word, i) - 1) \in Char
  BY CharLenIs
<1>4. Ends(S, B, next, rank)
  <2>1. \A i \in 1 .. N : next[i] \in S /\ rank[next[i]] < rank[i]
    BY <1>1, <1>3
  <2> HIDE DEF S, B, next, rank
  <2> QED
    BY <1>1, <1>2, <2>1 DEF Ends
<1>5. \A i \in S \ B : h[i] \in Seq(Char)
  <2> SUFFICES ASSUME NEW i \in 1 .. N PROVE h[i] \in Seq(Char)
    BY <1>1
  <2> DEFINE x == SubSeq(word, i, i + CharLen(word, i) - 1)
  <2>1. h[i] = <<x>> /\ x \in Char
    BY <1>1, <1>3
  <2> HIDE DEF h, x
  <2> QED
    BY <2>1
<1>6. \A g : Walk(g, S, B, h, next) <=> g = F(g)
  BY DEF Walk
<1>7. syms = [k \in DOMAIN chars |->
        [text |-> chars[k], prev |-> k - 1, next |-> IF k = Len(chars) THEN 0 ELSE k + 1]]
  BY DEF Symbols
<1> HIDE DEF S, B, h, next, rank, F
<1>8. \E g : Walk(g, S, B, h, next)
  <2>1. N + 1 \in Nat
    BY <1>1
  <2> HIDE DEF N
  <2> QED
    BY <1>2, <1>4, <2>1, WalkExists
<1>9. f = F(f)
  BY <1>6, <1>8
<1> HIDE DEF f
<1>10. Walk(f, S, B, h, next)
  BY <1>6, <1>9
<1>11. chars \in Seq(Char)
  <2>1. \A i \in S : f[i] \in Seq(Char)
    BY <1>4, <1>5, <1>10, WalkIsSequence
  <2>2. 1 \in S
    BY <1>1 DEF S
  <2> QED
    BY <2>1, <2>2
<1> HIDE DEF chars, syms
<1> DEFINE n == Len(chars)
<1>12. n \in Nat /\ DOMAIN chars = 1 .. n /\ \A k \in 1 .. n : chars[k] \in Char
  BY <1>11
<1> HIDE DEF n
<1>13. syms = [k \in 1 .. n |-> syms[k]]
  BY <1>7, <1>12
<1>14. \A k \in 1 .. n : /\ syms[k].text = chars[k] /\ syms[k].prev = k - 1
                         /\ syms[k].next = IF k = n THEN 0 ELSE k + 1
                         /\ syms[k] \in [text : Seq(Nat), prev : Nat, next : Nat]
  <2> TAKE k \in 1 .. n
  <2>1. chars[k] \in Seq(Nat) /\ k - 1 \in Nat /\ (IF k = n THEN 0 ELSE k + 1) \in Nat
    BY <1>12 DEF Char
  <2>2. syms[k] = [text |-> chars[k], prev |-> k - 1, next |-> IF k = n THEN 0 ELSE k + 1]
    BY <1>7, <1>12 DEF n
  <2> QED
    BY <2>1, <2>2
<1>15. IsSymbols(syms) /\ Len(syms) = n
  <2> DEFINE R == [text : Seq(Nat), prev : Nat, next : Nat]
  <2>1. \A k \in 1 .. n : syms[k] \in R
    BY <1>14
  <2> HIDE DEF R
  <2>2. syms \in Seq(R) /\ Len(syms) = n
    BY <1>12, <1>13, <2>1, FunctionIsSequence
  <2> QED
    BY <2>2 DEF R, IsSymbols
<1>16. \A k \in 1 .. n : Live(syms, k)
  BY <1>12, <1>14 DEF Live, Char
<1> QED
  BY <1>14, <1>15, <1>16 DEF syms

\* The list of a word that nothing has been merged in is a path through all of it.
LEMMA WordPath ==
  ASSUME NEW word \in Seq(Nat)
  PROVE  \E idx : Path(Symbols(word), idx)
<1> DEFINE syms == Symbols(word)
           n == Len(syms)
           idx == [k \in 1 .. n |-> k]
<1>1. /\ IsSymbols(syms)
      /\ \A k \in 1 .. n : /\ Live(syms, k) /\ syms[k].prev = k - 1
                           /\ syms[k].next = IF k = n THEN 0 ELSE k + 1
  BY SymbolsAre
<1> HIDE DEF syms
<1>2. n \in Nat /\ (syms # <<>> => n # 0)
  <2>1. n \in Nat /\ DOMAIN syms = 1 .. n /\ syms = [k \in 1 .. n |-> syms[k]]
    BY <1>1, SymbolIs
  <2>2. n = 0 => syms = <<>>
    BY <1>1 DEF IsSymbols
  <2> QED
    BY <2>1, <2>2
<1>3. idx \in Seq(Nat) /\ Len(idx) = n
  <2>1. n \in Nat /\ \A k \in 1 .. n : k \in Nat
    BY <1>2
  <2> HIDE DEF n
  <2>2. idx = [k \in 1 .. n |-> idx[k]] /\ \A k \in 1 .. n : idx[k] \in Nat
    BY <2>1
  <2> HIDE DEF idx
  <2> QED
    BY <2>1, <2>2, FunctionIsSequence
<1>4. \A k \in 1 .. n : idx[k] = k
  OBVIOUS
<1> HIDE DEF idx, n
<1>5. Path(syms, idx)
  <2>1. idx \in Seq(Nat) /\ \A k \in 1 .. Len(idx) : idx[k] \in 1 .. Len(syms)
    BY <1>3, <1>4 DEF n
  <2>2. \A k, l \in 1 .. Len(idx) : k < l => idx[k] < idx[l]
    BY <1>3, <1>4
  <2>3. syms # <<>> => idx # <<>> /\ idx[1] = 1
    <3> SUFFICES ASSUME syms # <<>> PROVE idx # <<>> /\ idx[1] = 1
      OBVIOUS
    <3>1. Len(idx) # 0 /\ 1 \in 1 .. n
      BY <1>2, <1>3
    <3>2. Len(<<>>) = 0
      OBVIOUS
    <3> QED
      BY <1>4, <3>1, <3>2
  <2>4. \A k \in 1 .. Len(idx) :
          /\ syms[idx[k]].next = (IF k = Len(idx) THEN 0 ELSE idx[k + 1])
          /\ syms[idx[k]].prev = (IF k = 1 THEN 0 ELSE idx[k - 1])
    <3> SUFFICES ASSUME NEW k \in 1 .. n
                 PROVE  /\ syms[k].next = (IF k = n THEN 0 ELSE idx[k + 1])
                        /\ syms[k].prev = (IF k = 1 THEN 0 ELSE idx[k - 1])
      BY <1>3, <1>4
    <3>1. k # n => k + 1 \in 1 .. n
      BY <1>2
    <3>2. k # 1 => k - 1 \in 1 .. n
      BY <1>2
    <3>3. syms[k].prev = k - 1 /\ syms[k].next = IF k = n THEN 0 ELSE k + 1
      BY <1>1 DEF n
    <3> QED
      BY <1>4, <3>1, <3>2, <3>3
  <2>5. \A j \in 1 .. Len(syms) : Live(syms, j) <=> \E k \in 1 .. Len(idx) : idx[k] = j
    BY <1>1, <1>3, <1>4 DEF n
  <2>6. \A j \in 1 .. Len(syms) : syms[j].next = 0 \/ syms[j].next \in j + 1 .. Len(syms)
    BY <1>1, <1>2 DEF n
  <2> QED
    BY <2>1, <2>2, <2>3, <2>4, <2>5, <2>6 DEF Path
<1> QED
  BY <1>5 DEF syms

-----------------------------------------------------------------------------
(* The queue.                                                               *)

\* While both symbols of a candidate are live they are neighbours, the left one is
\* what it was when the candidate was queued, and the right one may have grown.
Candidate(syms, b) ==
  /\ b.left \in 1 .. Len(syms) /\ b.right \in 1 .. Len(syms) /\ b.left < b.right
  /\ Live(syms, b.left) /\ Live(syms, b.right) =>
       /\ syms[b.left].next = b.right
       /\ \E t \in Seq(Nat) :
            /\ b.text = syms[b.left].text \o t
            /\ Joinable(syms[b.left].text, t) /\ b.priority = Priority(syms[b.left].text, t)

\* Every pair of neighbours that can be joined is queued.
Queued(syms, q) ==
  /\ \A b \in q : Candidate(syms, b)
  /\ \A l \in 1 .. Len(syms) : Live(syms, l) => NewBigram(syms, l, syms[l].next) \subseteq q

\* What add_new_bigram() queues.
LEMMA BigramIs ==
  ASSUME NEW syms, NEW l, NEW r
  PROVE  /\ \A b \in NewBigram(syms, l, r) :
              /\ l # 0 /\ r # 0 /\ b.left = l /\ b.right = r
              /\ b.text = syms[l].text \o syms[r].text
              /\ Joinable(syms[l].text, syms[r].text)
              /\ b.priority = Priority(syms[l].text, syms[r].text)
         /\ r = 0 => NewBigram(syms, l, r) = {}
         /\ l # 0 /\ r # 0 /\ Joinable(syms[l].text, syms[r].text) =>
              NewBigram(syms, l, r) # {}
<1> DEFINE x == syms[l].text
           y == syms[r].text
           c == [left |-> l, right |-> r, text |-> x \o y, priority |-> Priority(x, y)]
<1>1. NewBigram(syms, l, r) = IF l = 0 \/ r = 0 \/ ~Joinable(x, y) THEN {} ELSE {c}
  BY DEF NewBigram
<1>2. c.left = l /\ c.right = r /\ c.text = x \o y /\ c.priority = Priority(x, y)
  OBVIOUS
<1> HIDE DEF c, x, y
<1>3. CASE l = 0 \/ r = 0 \/ ~Joinable(x, y)
  BY <1>1, <1>3, Zenon DEF x, y
<1>4. CASE ~(l = 0 \/ r = 0 \/ ~Joinable(x, y))
  <2>1. NewBigram(syms, l, r) = {c} /\ l # 0 /\ r # 0 /\ Joinable(x, y)
    BY <1>1, <1>4
  <2> QED
    BY <1>2, <2>1, Zenon DEF x, y
<1> QED
  BY <1>3, <1>4, Zenon

\* A candidate for two neighbours as they are.
LEMMA BigramIsCandidate ==
  ASSUME NEW syms, IsSymbols(syms), NEW l \in 1 .. Len(syms), NEW r \in 1 .. Len(syms), l < r,
         Live(syms, l) /\ Live(syms, r) => syms[l].next = r,
         NEW b \in NewBigram(syms, l, r)
  PROVE  Candidate(syms, b)
<1>1. /\ b.left = l /\ b.right = r
      /\ b.text = syms[l].text \o syms[r].text
      /\ Joinable(syms[l].text, syms[r].text)
      /\ b.priority = Priority(syms[l].text, syms[r].text)
  BY BigramIs
<1>2. syms[r].text \in Seq(Nat)
  BY SymbolIs
<1> QED
  BY <1>1, <1>2, Zenon DEF Candidate

\* The first candidates of a word are those of its neighbours.
LEMMA WordQueued ==
  ASSUME NEW word \in Seq(Nat)
  PROVE  Queued(Symbols(word), AllBigrams(Symbols(word)))
<1> DEFINE syms == Symbols(word)
           n == Len(syms)
<1>1. /\ IsSymbols(syms)
      /\ \A k \in 1 .. n : /\ Live(syms, k)
                           /\ syms[k].next = IF k = n THEN 0 ELSE k + 1
  BY SymbolsAre
<1> HIDE DEF syms
<1>2. n \in Nat
  BY <1>1, SymbolIs
<1>3. ASSUME NEW b \in AllBigrams(syms)
      PROVE  Candidate(syms, b)
  <2>1. PICK k \in 1 .. n - 1 : b \in NewBigram(syms, k, k + 1)
    BY <1>3 DEF AllBigrams
  <2>2. k \in 1 .. n /\ k + 1 \in 1 .. n /\ k # n /\ k < k + 1
    BY <1>2
  <2>3. syms[k].next = k + 1
    BY <1>1, <2>2
  <2> DEFINE r == k + 1
  <2>4. r \in 1 .. n /\ k < r /\ syms[k].next = r /\ b \in NewBigram(syms, k, r)
    BY <2>1, <2>2, <2>3
  <2> HIDE DEF r
  <2> QED
    BY <1>1, <2>2, <2>4, BigramIsCandidate
<1>4. ASSUME NEW l \in 1 .. n
      PROVE  NewBigram(syms, l, syms[l].next) \subseteq AllBigrams(syms)
  <2>1. CASE l = n
    BY <1>1, <2>1, BigramIs
  <2>2. CASE l # n
    <3>1. l \in 1 .. n - 1 /\ syms[l].next = l + 1
      BY <1>1, <1>2, <2>2
    <3> QED
      BY <3>1 DEF AllBigrams
  <2> QED
    BY <2>1, <2>2
<1> QED
  BY <1>3, <1>4 DEF Queued, syms

\* What joining two symbols makes of each symbol.
LEMMA JoinedIs ==
  ASSUME IsSymbols(symbols), NEW b, b.left \in 1 .. Len(symbols), b.right \in 1 .. Len(symbols),
         b.left # b.right
  PROVE  LET syms == Joined(b)
             after == symbols[b.right].next
         IN /\ IsSymbols(syms) /\ Len(syms) = Len(symbols)
            /\ \A k \in 1 .. Len(symbols) :
                 /\ syms[k].text = IF k = b.left THEN symbols[k].text \o symbols[b.right].text
                                   ELSE IF k = b.right THEN <<>> ELSE symbols[k].text
                 /\ syms[k].next = IF k = b.left THEN after ELSE symbols[k].next
                 /\ syms[k].prev = IF k # b.left /\ k # b.right /\ k = after THEN b.left
                                   ELSE symbols[k].prev
<1> DEFINE syms == Joined(b)
           after == symbols[b.right].next
           L == b.left
           R == b.right
           N == Len(symbols)
           S == [text : Seq(Nat), prev : Nat, next : Nat]
           joined == symbols[L].text \o symbols[R].text
           at(k) == IF k = L THEN [symbols[k] EXCEPT !.text = @ \o symbols[R].text, !.next = after]
                    ELSE IF k = R THEN [symbols[k] EXCEPT !.text = <<>>]
                    ELSE IF k = after THEN [symbols[k] EXCEPT !.prev = L]
                    ELSE symbols[k]
<1>1. /\ N \in Nat /\ DOMAIN symbols = 1 .. N
      /\ \A k \in 1 .. N : /\ symbols[k] \in S /\ symbols[k].text \in Seq(Nat)
                           /\ symbols[k].prev \in Nat /\ symbols[k].next \in Nat
  BY SymbolIs
<1>2. L \in 1 .. N /\ R \in 1 .. N /\ L # R /\ L \in Nat
  OBVIOUS
<1>3. syms = [k \in 1 .. N |-> at(k)]
  BY <1>1 DEF Joined
<1>4. joined \in Seq(Nat) /\ <<>> \in Seq(Nat) /\ after \in Nat
  <2>1. symbols[L].text \in Seq(Nat) /\ symbols[R].text \in Seq(Nat) /\ after \in Nat
    BY <1>1, <1>2
  <2>2. <<>> \in Seq(Nat)
    OBVIOUS
  <2> QED
    BY <2>1, <2>2, ConcatProperties
<1> HIDE DEF syms, after, N, L, R
<1> DEFINE Same(x, k) ==
             /\ x \in S
             /\ x.text = IF k = L THEN joined ELSE IF k = R THEN <<>> ELSE symbols[k].text
             /\ x.next = IF k = L THEN after ELSE symbols[k].next
             /\ x.prev = IF k # L /\ k # R /\ k = after THEN L ELSE symbols[k].prev
<1>5. ASSUME NEW k \in 1 .. N
      PROVE  Same(at(k), k)
  <2>1. symbols[k] \in S
    BY <1>1
  <2>2. CASE k = L
    <3>1. at(k) = [symbols[k] EXCEPT !.text = joined, !.next = after]
      BY <2>2
    <3> HIDE DEF joined, at
    <3> QED
      BY <1>2, <1>4, <2>1, <2>2, <3>1
  <2>3. CASE k = R
    <3>1. at(k) = [symbols[k] EXCEPT !.text = <<>>]
      BY <1>2, <2>3
    <3> HIDE DEF joined, at
    <3> QED
      BY <1>2, <1>4, <2>1, <2>3, <3>1
  <2>4. CASE k # L /\ k # R /\ k = after
    <3>1. at(k) = [symbols[k] EXCEPT !.prev = L]
      BY <2>4
    <3> HIDE DEF joined, at
    <3> QED
      BY <1>2, <1>4, <2>1, <2>4, <3>1
  <2>5. CASE k # L /\ k # R /\ k # after
    <3>1. at(k) = symbols[k]
      BY <2>5
    <3> HIDE DEF joined, at
    <3> QED
      BY <1>2, <1>4, <2>1, <2>5, <3>1
  <2> QED
    BY <2>2, <2>3, <2>4, <2>5
<1> HIDE DEF at, S
<1>6. syms = [k \in 1 .. N |-> syms[k]] /\ \A k \in 1 .. N : Same(syms[k], k)
  <2> HIDE DEF Same
  <2> QED
    BY <1>3, <1>5
<1>7. syms \in Seq(S) /\ Len(syms) = N
  <2>1. \A k \in 1 .. N : syms[k] \in S
    BY <1>6
  <2> QED
    BY <1>1, <1>6, <2>1, FunctionIsSequence
<1>8. IsSymbols(syms)
  BY <1>7 DEF S, IsSymbols
<1> HIDE DEF joined
<1>9. ASSUME NEW k \in 1 .. N
      PROVE /\ syms[k].text = IF k = L THEN symbols[k].text \o symbols[R].text
                                ELSE IF k = R THEN <<>> ELSE symbols[k].text
            /\ syms[k].next = IF k = L THEN after ELSE symbols[k].next
            /\ syms[k].prev = IF k # L /\ k # R /\ k = after THEN L ELSE symbols[k].prev
  BY <1>6, Zenon DEF joined
<1> QED
  BY <1>7, <1>8, <1>9 DEF syms, L, R, N, after

\* A candidate that is not stale is for two neighbours as they are.
LEMMA NeighboursAre ==
  ASSUME IsSymbols(symbols), NEW idx, Path(symbols, idx), NEW b, Candidate(symbols, b), ~Stale(b)
  PROVE  /\ \E m \in 1 .. Len(idx) - 1 : idx[m] = b.left /\ idx[m + 1] = b.right
         /\ Joinable(symbols[b.left].text, symbols[b.right].text)
         /\ b.priority = Priority(symbols[b.left].text, symbols[b.right].text)
         /\ Live(symbols, b.left) /\ symbols[b.left].next = b.right
<1> DEFINE L == b.left
           R == b.right
           n == Len(idx)
<1>1. /\ L \in 1 .. Len(symbols) /\ R \in 1 .. Len(symbols)
      /\ Live(symbols, L) /\ Live(symbols, R)
      /\ symbols[L].text \o symbols[R].text = b.text
  BY DEF Candidate, Stale
<1>2. PICK t \in Seq(Nat) :
        /\ b.text = symbols[L].text \o t
        /\ Joinable(symbols[L].text, t) /\ b.priority = Priority(symbols[L].text, t)
  BY <1>1 DEF Candidate
<1>3. symbols[L].next = R
  BY <1>1 DEF Candidate
<1>4. t = symbols[R].text
  <2>1. symbols[L].text \in Seq(Nat) /\ symbols[R].text \in Seq(Nat)
    BY <1>1, SymbolIs
  <2> HIDE DEF L, R
  <2> QED
    BY <1>1, <1>2, <2>1, ConcatSimplifications
<1> HIDE DEF L, R
<1>5. PICK m \in 1 .. n : idx[m] = L
  BY <1>1 DEF Path
<1>6. symbols[idx[m]].next = IF m = n THEN 0 ELSE idx[m + 1]
  BY DEF Path
<1>7. n \in Nat
  BY DEF Path
<1>8. m # n /\ idx[m + 1] = R
  BY <1>1, <1>3, <1>5, <1>6
<1>9. m \in 1 .. n - 1
  BY <1>7, <1>8
<1> QED
  BY <1>1, <1>2, <1>3, <1>4, <1>5, <1>8, <1>9 DEF L, R, n

\* A sequence without the place after its m-th.
Without(idx, m) == [i \in 1 .. Len(idx) - 1 |-> IF i <= m THEN idx[i] ELSE idx[i + 1]]

\* Its length and its elements.
LEMMA WithoutIs ==
  ASSUME NEW idx \in Seq(Nat), NEW m \in 1 .. Len(idx) - 1
  PROVE  /\ Without(idx, m) \in Seq(Nat) /\ Len(Without(idx, m)) = Len(idx) - 1
         /\ \A i \in 1 .. Len(idx) - 1 : Without(idx, m)[i] = IF i <= m THEN idx[i] ELSE idx[i + 1]
<1> DEFINE n == Len(idx) - 1
           w == Without(idx, m)
<1>1. Len(idx) \in Nat /\ n \in Nat /\ \A k \in 1 .. Len(idx) : idx[k] \in Nat
  OBVIOUS
<1>2. w = [i \in 1 .. n |-> IF i <= m THEN idx[i] ELSE idx[i + 1]]
  BY DEF Without
<1> HIDE DEF w
<1>3. \A i \in 1 .. n : w[i] = IF i <= m THEN idx[i] ELSE idx[i + 1]
  BY <1>2
<1>4. \A i \in 1 .. n : w[i] \in Nat
  <2> TAKE i \in 1 .. n
  <2>1. i \in 1 .. Len(idx) /\ i + 1 \in 1 .. Len(idx)
    BY <1>1
  <2> QED
    BY <1>1, <1>3, <2>1
<1>5. w = [i \in 1 .. n |-> w[i]]
  BY <1>2
<1> HIDE DEF n
<1>6. w \in Seq(Nat) /\ Len(w) = n
  BY <1>1, <1>4, <1>5, FunctionIsSequence
<1> QED
  BY <1>3, <1>6 DEF w, n

\* Joining two symbols leaves every other one live or not as it was.
LEMMA JoinedLive ==
  ASSUME IsSymbols(symbols), NEW b, b.left \in 1 .. Len(symbols), b.right \in 1 .. Len(symbols),
         b.left # b.right, Live(symbols, b.left)
  PROVE  \A j \in 1 .. Len(symbols) : Live(Joined(b), j) <=> Live(symbols, j) /\ j # b.right
<1> DEFINE L == b.left
           R == b.right
           syms == Joined(b)
<1>1. \A k \in 1 .. Len(symbols) :
        syms[k].text = IF k = L THEN symbols[k].text \o symbols[R].text
                       ELSE IF k = R THEN <<>> ELSE symbols[k].text
  BY JoinedIs
<1>2. symbols[L].text \in Seq(Nat) /\ symbols[R].text \in Seq(Nat) /\ symbols[L].text # <<>>
  BY SymbolIs DEF Live
<1>3. L # R /\ Live(symbols, L)
  OBVIOUS
<1> HIDE DEF L, R, syms
<1>4. symbols[L].text \o symbols[R].text # <<>>
  BY <1>2, ConcatEqualIffEmpty
<1>5. \A k \in 1 .. Len(symbols) : Live(syms, k) <=> Live(symbols, k) /\ k # R
  BY <1>1, <1>3, <1>4 DEF Live
<1> QED
  BY <1>5 DEF R, syms

\* Joining two neighbours takes the right one out of the path.
LEMMA PathJoined ==
  ASSUME IsSymbols(symbols), NEW idx, Path(symbols, idx), NEW b,
         NEW m \in 1 .. Len(idx) - 1, idx[m] = b.left, idx[m + 1] = b.right
  PROVE  Path(Joined(b), Without(idx, m))
<1> DEFINE L == b.left
           R == b.right
           N == Len(symbols)
           n == Len(idx)
           syms == Joined(b)
           w == Without(idx, m)
           after == symbols[R].next
<1>1. /\ idx \in Seq(Nat) /\ n \in Nat /\ \A k \in 1 .. n : idx[k] \in 1 .. N
      /\ \A k, l \in 1 .. n : k < l => idx[k] < idx[l]
      /\ symbols # <<>> => idx # <<>> /\ idx[1] = 1
      /\ \A k \in 1 .. n :
           /\ symbols[idx[k]].next = (IF k = n THEN 0 ELSE idx[k + 1])
           /\ symbols[idx[k]].prev = (IF k = 1 THEN 0 ELSE idx[k - 1])
      /\ \A j \in 1 .. N : Live(symbols, j) <=> \E k \in 1 .. n : idx[k] = j
      /\ \A j \in 1 .. N : symbols[j].next = 0 \/ symbols[j].next \in j + 1 .. N
  BY DEF Path
<1>2. m \in 1 .. n /\ m + 1 \in 1 .. n /\ m < m + 1 /\ n - 1 \in Nat
      /\ n \in Nat /\ m \in Nat /\ m <= n - 1
  BY <1>1
<1>3. L \in 1 .. N /\ R \in 1 .. N /\ L < R /\ L # R /\ N \in Nat
  BY <1>1, <1>2, SymbolIs
<1>4. /\ IsSymbols(syms) /\ Len(syms) = N
      /\ \A k \in 1 .. N :
           /\ syms[k].text = IF k = L THEN symbols[k].text \o symbols[R].text
                             ELSE IF k = R THEN <<>> ELSE symbols[k].text
           /\ syms[k].next = IF k = L THEN after ELSE symbols[k].next
           /\ syms[k].prev = IF k # L /\ k # R /\ k = after THEN L ELSE symbols[k].prev
  BY <1>3, JoinedIs
<1>5. /\ w \in Seq(Nat) /\ Len(w) = n - 1
      /\ \A i \in 1 .. n - 1 : w[i] = IF i <= m THEN idx[i] ELSE idx[i + 1]
  BY <1>1, WithoutIs
<1>6. after = IF m + 1 = n THEN 0 ELSE idx[m + 2]
  <2>1. symbols[idx[m + 1]].next = IF m + 1 = n THEN 0 ELSE idx[(m + 1) + 1]
    BY <1>1, <1>2
  <2>2. (m + 1) + 1 = m + 2
    BY <1>2
  <2> QED
    BY <2>1, <2>2
<1>7. after = 0 \/ after \in R + 1 .. N
  BY <1>1, <1>3
<1>8. idx[m] = L /\ idx[m + 1] = R
  OBVIOUS
<1> HIDE DEF L, R, N, n, syms, w, after
<1>9. \A i \in 1 .. n - 1 : i \in 1 .. n /\ i + 1 \in 1 .. n /\ (i <= m \/ i >= m + 1)
  BY <1>1, <1>2
<1>10. \A k \in 1 .. n : idx[k] \in Nat
  BY <1>1
<1>20. \A k, l \in 1 .. n : k < l => idx[k] < idx[l]
  BY <1>1
<1>11. \A k \in 1 .. n : (idx[k] = L <=> k = m) /\ (idx[k] = R <=> k = m + 1)
  <2> SUFFICES ASSUME NEW k \in 1 .. n, NEW l \in 1 .. n, idx[k] = idx[l] PROVE k = l
    BY <1>2, <1>8
  <2>1. k \in Int /\ l \in Int /\ idx[k] \in Int /\ idx[l] \in Int
    BY <1>10
  <2>2. ~(k < l)
    <3>1. k < l => idx[k] < idx[l]
      BY <1>1
    <3> QED
      BY <2>1, <3>1
  <2>3. ~(l < k)
    <3>1. l < k => idx[l] < idx[k]
      BY <1>1
    <3> QED
      BY <2>1, <3>1
  <2> QED
    BY <2>1, <2>2, <2>3
<1>12. \A i \in 1 .. n - 1 : w[i] \in 1 .. N
  BY <1>1, <1>5, <1>9
<1>13. ASSUME NEW k \in 1 .. n - 1, NEW l \in 1 .. n - 1, k < l
       PROVE  w[k] < w[l]
  <2>1. k \in Int /\ l \in Int /\ k + 1 < l + 1 /\ k < l + 1
    BY <1>13
  <2>2. k \in 1 .. n /\ k + 1 \in 1 .. n /\ l \in 1 .. n /\ l + 1 \in 1 .. n
    BY <1>9
  <2>3. CASE l <= m
    <3>1. k <= m
      BY <1>2, <1>13, <2>1, <2>3
    <3>2. w[k] = idx[k] /\ w[l] = idx[l]
      BY <1>5, <2>3, <3>1
    <3> QED
      BY <1>1, <1>13, <2>2, <3>2
  <2>4. CASE k <= m /\ ~(l <= m)
    <3>1. w[k] = idx[k] /\ w[l] = idx[l + 1]
      BY <1>5, <2>4
    <3> QED
      BY <1>1, <2>1, <2>2, <3>1
  <2>5. CASE ~(k <= m)
    <3>1. ~(l <= m)
      BY <1>2, <1>13, <2>1, <2>5
    <3>2. w[k] = idx[k + 1] /\ w[l] = idx[l + 1]
      BY <1>5, <2>5, <3>1
    <3> QED
      BY <1>1, <2>1, <2>2, <3>2
  <2> QED
    BY <2>3, <2>4, <2>5
<1>14. syms # <<>> => w # <<>> /\ w[1] = 1
  <2>1. n - 1 # 0 /\ 1 \in 1 .. n - 1 /\ 1 <= m
    BY <1>1, <1>2 DEF n
  <2>2. w # <<>>
    <3>1. Len(<<>>) = 0
      OBVIOUS
    <3> QED
      BY <1>5, <2>1, <3>1
  <2>3. w[1] = idx[1]
    BY <1>5, <2>1
  <2>4. symbols # <<>>
    <3>1. Len(<<>>) = 0
      OBVIOUS
    <3> QED
      BY <1>3, <3>1 DEF N
  <2> QED
    BY <1>1, <2>2, <2>3, <2>4
<1>15. ASSUME NEW i \in 1 .. n - 1
       PROVE  syms[w[i]].next = IF i = n - 1 THEN 0 ELSE w[i + 1]
  <2>0. i \in Int /\ m \in Int /\ n \in Int /\ (i # n - 1 => i + 1 \in 1 .. n - 1)
    BY <1>1, <1>2
  <2>1. CASE i = m
    <3>1. w[i] = L /\ L \in 1 .. N
      BY <1>3, <1>5, <1>8, <2>0, <2>1
    <3>2. syms[L].next = after
      BY <1>4, <3>1
    <3>3. CASE i = n - 1
      <4>1. m + 1 = n
        BY <2>0, <2>1, <3>3
      <4> QED
        BY <1>6, <3>1, <3>2, <3>3, <4>1
    <3>4. CASE i # n - 1
      <4>1. m + 1 # n /\ i + 1 \in 1 .. n - 1 /\ ~(i + 1 <= m) /\ (i + 1) + 1 = m + 2
        BY <2>0, <2>1, <3>4
      <4>2. w[i + 1] = idx[m + 2]
        BY <1>5, <4>1
      <4> QED
        BY <1>6, <3>1, <3>2, <3>4, <4>1, <4>2
    <3> QED
      BY <3>3, <3>4
  <2>2. CASE i < m
    <3>1. i \in 1 .. n /\ i # n /\ i <= m /\ i # m /\ i # n - 1 /\ i + 1 <= m /\ i + 1 \in 1 .. n - 1
      BY <1>2, <2>0, <2>2
    <3>2. w[i] = idx[i] /\ w[i + 1] = idx[i + 1]
      BY <1>5, <3>1
    <3>3. idx[i] # L /\ idx[i] \in 1 .. N /\ symbols[idx[i]].next = idx[i + 1]
      BY <1>1, <1>11, <3>1
    <3>4. syms[idx[i]].next = symbols[idx[i]].next
      BY <1>4, <3>3
    <3> QED
      BY <3>1, <3>2, <3>3, <3>4
  <2>3. CASE i > m
    <3>1. i + 1 \in 1 .. n /\ i + 1 # m /\ ~(i <= m) /\ (i + 1 = n <=> i = n - 1)
      BY <1>2, <2>0, <2>3
    <3>2. w[i] = idx[i + 1]
      BY <1>5, <3>1
    <3>3. /\ idx[i + 1] # L /\ idx[i + 1] \in 1 .. N
          /\ symbols[idx[i + 1]].next = IF i + 1 = n THEN 0 ELSE idx[(i + 1) + 1]
      BY <1>1, <1>11, <3>1
    <3>4. syms[idx[i + 1]].next = symbols[idx[i + 1]].next
      BY <1>4, <3>3
    <3>5. i # n - 1 => w[i + 1] = idx[(i + 1) + 1]
      <4> SUFFICES ASSUME i # n - 1 PROVE w[i + 1] = idx[(i + 1) + 1]
        OBVIOUS
      <4>1. i + 1 \in 1 .. n - 1 /\ ~(i + 1 <= m)
        BY <2>0, <2>3
      <4> QED
        BY <1>5, <4>1
    <3> QED
      BY <3>1, <3>2, <3>3, <3>4, <3>5
  <2> QED
    BY <2>0, <2>1, <2>2, <2>3
<1>16. ASSUME NEW i \in 1 .. n - 1
       PROVE  syms[w[i]].prev = IF i = 1 THEN 0 ELSE w[i - 1]
  <2>0. i \in Int /\ m \in Int /\ n \in Int /\ (i # 1 => i - 1 \in 1 .. n - 1)
    BY <1>1, <1>2
  <2>1. CASE i <= m
    <3>1. i \in 1 .. n /\ i # m + 1 /\ i # m + 2
      BY <1>2, <2>0, <2>1
    <3>2. w[i] = idx[i] /\ (i # 1 => w[i - 1] = idx[i - 1])
      <4>1. i # 1 => i - 1 <= m
        BY <2>0, <2>1
      <4> QED
        BY <1>5, <2>0, <2>1, <4>1
    <3>3. idx[i] \in 1 .. N /\ symbols[idx[i]].prev = IF i = 1 THEN 0 ELSE idx[i - 1]
      BY <1>1, <3>1
    <3>4. idx[i] # after
      <4>1. idx[i] <= L
        <5>1. CASE i = m
          BY <1>3, <1>8, <5>1
        <5>2. CASE i < m
          <6>1. idx[i] < idx[m] /\ idx[i] \in Nat
            BY <1>1, <1>2, <1>10, <3>1, <5>2
          <6> QED
            BY <1>3, <1>8, <6>1
        <5> QED
          BY <2>0, <2>1, <5>1, <5>2
      <4> QED
        BY <1>3, <1>7, <3>3, <4>1
    <3>5. syms[idx[i]].prev = symbols[idx[i]].prev
      BY <1>4, <3>3, <3>4
    <3> QED
      BY <3>2, <3>3, <3>5
  <2>2. CASE i = m + 1
    <3>1. i + 1 = m + 2 /\ m + 2 \in 1 .. n /\ m + 1 # n /\ i # 1 /\ i - 1 = m /\ ~(i <= m)
          /\ m + 2 # m /\ m + 2 # m + 1 /\ m \in 1 .. n - 1 /\ m <= m
      BY <1>2, <2>0, <2>2
    <3>2. w[i] = idx[m + 2] /\ w[i - 1] = L
      BY <1>5, <1>8, <3>1
    <3>3. idx[m + 2] = after /\ idx[m + 2] \in 1 .. N /\ idx[m + 2] # L /\ idx[m + 2] # R
      BY <1>1, <1>6, <1>11, <3>1
    <3>4. syms[idx[m + 2]].prev = L
      BY <1>4, <3>3
    <3> QED
      BY <3>1, <3>2, <3>4
  <2>3. CASE i > m + 1
    <3>0. i - 1 \in 1 .. n - 1 /\ i - 1 > m /\ i - 1 \in Int
      BY <1>2, <2>0, <2>3
    <3>1. i + 1 \in 1 .. n /\ i + 1 # 1 /\ (i + 1) - 1 = i /\ i # 1 /\ ~(i <= m) /\ ~(i - 1 <= m)
          /\ i - 1 \in 1 .. n - 1 /\ (i - 1) + 1 = i /\ m + 2 \in 1 .. n /\ m + 2 < i + 1 /\ m + 1 # n
      <4>1. i + 1 \in 1 .. n /\ i + 1 # 1 /\ (i + 1) - 1 = i /\ i # 1 /\ (i - 1) + 1 = i
        BY <1>2, <2>0, <2>3
      <4>2. ~(i <= m) /\ ~(i - 1 <= m)
        BY <2>0, <2>3, <3>0
      <4>3. m + 2 \in 1 .. n /\ m + 2 < i + 1 /\ m + 1 # n
        BY <1>2, <2>0, <2>3
      <4> QED
        BY <3>0, <4>1, <4>2, <4>3
    <3>2. w[i] = idx[i + 1] /\ w[i - 1] = idx[i]
      BY <1>5, <3>1
    <3>3. idx[i + 1] \in 1 .. N /\ symbols[idx[i + 1]].prev = idx[i]
      BY <1>1, <3>1
    <3>4. idx[i + 1] # after
      <4>1. idx[m + 2] < idx[i + 1] /\ idx[m + 2] \in Int /\ idx[i + 1] \in Int
        <5>1. m + 2 \in 1 .. n /\ i + 1 \in 1 .. n /\ m + 2 < i + 1
          BY <3>1
        <5>2. idx[m + 2] < idx[i + 1]
          BY <1>20, <5>1
        <5>3. idx[m + 2] \in Int /\ idx[i + 1] \in Int
          BY <1>10, <5>1
        <5> QED
          BY <5>2, <5>3
      <4> QED
        BY <1>6, <3>1, <4>1
    <3>5. syms[idx[i + 1]].prev = symbols[idx[i + 1]].prev
      BY <1>4, <3>3, <3>4
    <3> QED
      BY <3>1, <3>2, <3>3, <3>5
  <2> QED
    BY <2>0, <2>1, <2>2, <2>3
<1>17. ASSUME NEW j \in 1 .. N
       PROVE  Live(syms, j) <=> \E k \in 1 .. n - 1 : w[k] = j
  <2>1. Live(syms, j) <=> Live(symbols, j) /\ j # R
    <3>1. Live(symbols, L)
      BY <1>1, <1>2, <1>8
    <3> QED
      BY <1>3, <3>1, JoinedLive DEF syms, L, R, N
  <2>2. ASSUME NEW k \in 1 .. n, idx[k] = j, j # R
        PROVE  \E i \in 1 .. n - 1 : w[i] = j
    <3>1. k # m + 1 /\ k \in Int
      BY <1>11, <2>2
    <3>2. CASE k <= m
      <4>1. k \in 1 .. n - 1
        BY <1>2, <3>1, <3>2
      <4> QED
        BY <1>5, <2>2, <3>2, <4>1
    <3>3. CASE k > m + 1
      <4> DEFINE i == k - 1
      <4>1. i \in 1 .. n - 1 /\ ~(i <= m) /\ i + 1 = k
        BY <1>2, <3>1, <3>3
      <4> HIDE DEF i
      <4> QED
        BY <1>5, <2>2, <4>1
    <3> QED
      BY <1>2, <3>1, <3>2, <3>3
  <2>3. ASSUME NEW i \in 1 .. n - 1
        PROVE  \E k \in 1 .. n : idx[k] = w[i] /\ k # m + 1
    <3>1. i <= m => i # m + 1
      BY <1>2
    <3>2. ~(i <= m) => i + 1 # m + 1
      BY <1>2
    <3> QED
      BY <1>5, <1>9, <3>1, <3>2
  <2>4. (\E i \in 1 .. n - 1 : w[i] = j) => (\E k \in 1 .. n : idx[k] = j) /\ j # R
    BY <1>11, <2>3
  <2> QED
    BY <1>1, <2>1, <2>2, <2>4
<1>18. \A j \in 1 .. N : syms[j].next = 0 \/ syms[j].next \in j + 1 .. N
  <2> TAKE j \in 1 .. N
  <2>1. CASE j = L
    BY <1>3, <1>4, <1>7, <2>1
  <2>2. CASE j # L
    BY <1>1, <1>4, <2>2
  <2> QED
    BY <2>1, <2>2
<1>19. Path(syms, w)
  BY <1>4, <1>5, <1>12, <1>13, <1>14, <1>15, <1>16, <1>17, <1>18 DEF Path
<1> QED
  BY <1>19 DEF syms, w

\* The links of a live symbol lead to live symbols that lead back.
LEMMA LinksAre ==
  ASSUME NEW syms, IsSymbols(syms), NEW idx, Path(syms, idx), NEW j \in 1 .. Len(syms), Live(syms, j)
  PROVE  /\ syms[j].next # 0 =>
              /\ syms[j].next \in 1 .. Len(syms) /\ j < syms[j].next
              /\ Live(syms, syms[j].next) /\ syms[syms[j].next].prev = j
         /\ syms[j].prev # 0 =>
              /\ syms[j].prev \in 1 .. Len(syms) /\ syms[j].prev < j
              /\ Live(syms, syms[j].prev) /\ syms[syms[j].prev].next = j
<1> DEFINE n == Len(idx)
<1>1. /\ n \in Nat /\ \A k \in 1 .. n : idx[k] \in 1 .. Len(syms)
      /\ \A k, l \in 1 .. n : k < l => idx[k] < idx[l]
      /\ \A k \in 1 .. n :
           /\ syms[idx[k]].next = (IF k = n THEN 0 ELSE idx[k + 1])
           /\ syms[idx[k]].prev = (IF k = 1 THEN 0 ELSE idx[k - 1])
      /\ \A k \in 1 .. n : Live(syms, idx[k])
  BY DEF Path
<1>2. PICK k \in 1 .. n : idx[k] = j
  BY DEF Path
<1> HIDE DEF n
<1>3. ASSUME syms[j].next # 0
      PROVE  /\ syms[j].next \in 1 .. Len(syms) /\ j < syms[j].next
             /\ Live(syms, syms[j].next) /\ syms[syms[j].next].prev = j
  <2> DEFINE l == k + 1
  <2>1. k # n /\ syms[j].next = idx[l]
    BY <1>1, <1>2, <1>3
  <2>2. l \in 1 .. n /\ k < l /\ l # 1 /\ l - 1 = k
    BY <1>1, <2>1
  <2> HIDE DEF l
  <2> QED
    BY <1>1, <1>2, <2>1, <2>2
<1>4. ASSUME syms[j].prev # 0
      PROVE  /\ syms[j].prev \in 1 .. Len(syms) /\ syms[j].prev < j
             /\ Live(syms, syms[j].prev) /\ syms[syms[j].prev].next = j
  <2> DEFINE l == k - 1
  <2>1. k # 1 /\ syms[j].prev = idx[l]
    BY <1>1, <1>2, <1>4
  <2>2. l \in 1 .. n /\ l < k /\ l # n /\ l + 1 = k
    BY <1>1, <2>1
  <2> HIDE DEF l
  <2> QED
    BY <1>1, <1>2, <2>1, <2>2
<1> QED
  BY <1>3, <1>4

\* Dropping a stale candidate leaves those of the neighbours as they are.
LEMMA QueuedDropped ==
  ASSUME IsSymbols(symbols), NEW idx, Path(symbols, idx), NEW q, Queued(symbols, q),
         NEW b \in q, Stale(b)
  PROVE  Queued(symbols, q \ {b})
<1>1. \A d \in q \ {b} : Candidate(symbols, d)
  BY DEF Queued
<1>2. ASSUME NEW l \in 1 .. Len(symbols), Live(symbols, l),
             NEW d \in NewBigram(symbols, l, symbols[l].next)
      PROVE  d \in q \ {b}
  <2>1. d \in q
    BY <1>2 DEF Queued
  <2>2. /\ symbols[l].next # 0 /\ d.left = l /\ d.right = symbols[l].next
        /\ d.text = symbols[l].text \o symbols[symbols[l].next].text
    BY BigramIs
  <2>3. Live(symbols, symbols[l].next)
    BY <1>2, <2>2, LinksAre
  <2>4. ~Stale(d)
    BY <1>2, <2>2, <2>3 DEF Stale
  <2> QED
    BY <2>1, <2>4
<1> QED
  BY <1>1, <1>2 DEF Queued

\* Joining two neighbours and queuing the pairs the result is in keeps the queue.
LEMMA QueuedJoined ==
  ASSUME IsSymbols(symbols), NEW idx, Path(symbols, idx), NEW q, Queued(symbols, q),
         NEW b \in q, ~Stale(b)
  PROVE  LET syms == Joined(b)
         IN Queued(syms, (q \ {b}) \cup NewBigram(syms, syms[b.left].prev, b.left)
                                   \cup NewBigram(syms, b.left, syms[b.left].next))
<1> DEFINE L == b.left
           R == b.right
           N == Len(symbols)
           syms == Joined(b)
           P == syms[L].prev
           A == syms[L].next
           r == (q \ {b}) \cup NewBigram(syms, P, L) \cup NewBigram(syms, L, A)
<1>1. Candidate(symbols, b)
  BY DEF Queued
<1>2. L \in 1 .. N /\ R \in 1 .. N /\ L < R /\ L # R
  <2>1. L \in 1 .. N /\ R \in 1 .. N /\ L < R
    BY <1>1 DEF Candidate
  <2> QED
    BY <2>1
<1>3. /\ Live(symbols, L) /\ symbols[L].next = R
      /\ \E m \in 1 .. Len(idx) - 1 : idx[m] = L /\ idx[m + 1] = R
  BY <1>1, NeighboursAre
<1>4. PICK w : Path(syms, w)
  BY <1>3, PathJoined
<1>5. /\ IsSymbols(syms) /\ Len(syms) = N
      /\ \A k \in 1 .. N :
           /\ k # L /\ k # R => syms[k].text = symbols[k].text
           /\ k # L => syms[k].next = symbols[k].next
  BY <1>2, JoinedIs
<1>6. \A j \in 1 .. N : Live(syms, j) <=> Live(symbols, j) /\ j # R
  BY <1>2, <1>3, JoinedLive
<1>7. Live(syms, L)
  BY <1>2, <1>3, <1>6
<1>b. \A d \in q : Candidate(symbols, d)
  BY DEF Queued
<1>c. \A l \in 1 .. N : Live(symbols, l) => NewBigram(symbols, l, symbols[l].next) \subseteq q
  BY DEF Queued
<1>d. b.left = L /\ b.right = R
  OBVIOUS
<1> HIDE DEF L, R, syms
<1>8. ASSUME NEW d \in q
      PROVE  Candidate(syms, d)
  <2> DEFINE x == d.left
             y == d.right
  <2>1. x \in 1 .. N /\ y \in 1 .. N /\ x < y
    BY <1>b DEF Candidate
  <2>2. ASSUME Live(syms, x), Live(syms, y)
        PROVE  /\ syms[x].next = y
               /\ \E t \in Seq(Nat) : /\ d.text = syms[x].text \o t /\ Joinable(syms[x].text, t)
                                      /\ d.priority = Priority(syms[x].text, t)
    <3>1. Live(symbols, x) /\ Live(symbols, y) /\ x # R /\ y # R
      BY <1>6, <2>1, <2>2
    <3>2. /\ symbols[x].next = y
          /\ \E t \in Seq(Nat) : /\ d.text = symbols[x].text \o t /\ Joinable(symbols[x].text, t)
                                 /\ d.priority = Priority(symbols[x].text, t)
      BY <1>b, <3>1 DEF Candidate
    <3>3. x # L
      BY <1>3, <3>1, <3>2
    <3>4. syms[x].text = symbols[x].text /\ syms[x].next = symbols[x].next
      BY <1>5, <2>1, <3>1, <3>3
    <3> QED
      BY <3>2, <3>4, Zenon
  <2> QED
    BY <1>5, <2>1, <2>2, Zenon DEF Candidate
<1>9. ASSUME NEW d \in NewBigram(syms, P, L)
      PROVE  Candidate(syms, d)
  <2>1. P # 0
    BY BigramIs
  <2>2. P \in 1 .. N /\ P < L /\ syms[P].next = L
    BY <1>2, <1>4, <1>5, <1>7, <2>1, LinksAre
  <2> HIDE DEF P, N
  <2> QED
    BY <1>2, <1>5, <2>2, BigramIsCandidate
<1>10. ASSUME NEW d \in NewBigram(syms, L, A)
       PROVE  Candidate(syms, d)
  <2>1. A # 0
    BY BigramIs
  <2>2. A \in 1 .. N /\ L < A /\ syms[L].next = A
    BY <1>2, <1>4, <1>5, <1>7, <2>1, LinksAre
  <2> HIDE DEF A, N
  <2> QED
    BY <1>2, <1>5, <2>2, BigramIsCandidate
<1>11. ASSUME NEW l \in 1 .. N, Live(syms, l), NEW d \in NewBigram(syms, l, syms[l].next)
       PROVE  d \in r
  <2> DEFINE x == syms[l].next
  <2>1. x # 0 /\ d.left = l
    BY <1>11, BigramIs
  <2>2. x \in 1 .. N /\ syms[x].prev = l
    BY <1>4, <1>5, <1>11, <2>1, LinksAre
  <2>3. CASE l = L
    BY <1>11, <2>3
  <2>4. CASE l # L /\ x = L
    <3>1. P = l
      BY <2>2, <2>4
    <3> QED
      BY <1>11, <2>4, <3>1
  <2>5. CASE l # L /\ x # L
    <3>1. l # R /\ Live(symbols, l) /\ symbols[l].next = x
      BY <1>5, <1>6, <1>11, <2>5
    <3>2. x # R
      <4> SUFFICES ASSUME x = R PROVE FALSE
        OBVIOUS
      <4>1. symbols[R].prev = l
        BY <2>1, <3>1, LinksAre
      <4>2. symbols[R].prev = L
        BY <1>2, <1>3, <2>1, LinksAre
      <4> QED
        BY <2>5, <4>1, <4>2
    <3>3. syms[l].text = symbols[l].text /\ syms[x].text = symbols[x].text
      BY <1>5, <2>2, <2>5, <3>1, <3>2
    <3>4. NewBigram(syms, l, x) = NewBigram(symbols, l, x)
      <4> HIDE DEF x
      <4> QED
        BY <3>3 DEF NewBigram
    <3>5. d \in q
      BY <1>11, <1>c, <3>1, <3>4
    <3>6. d # b
      BY <1>d, <2>1, <2>5
    <3> QED
      BY <3>5, <3>6
  <2> QED
    BY <2>3, <2>4, <2>5
<1>12. \A d \in r : Candidate(syms, d)
  BY <1>8, <1>9, <1>10
<1> HIDE DEF r
<1>13. Queued(syms, r)
  BY <1>5, <1>11, <1>12 DEF Queued
<1> QED
  BY <1>13 DEF r, P, A, L, syms

\* The list and the queue of the word that is merged.
Listed ==
  /\ Prompted
  /\ phase = "merge" =>
       /\ IsSymbols(symbols) /\ \E idx : Path(symbols, idx)
       /\ Queued(symbols, queue)

\* The invariant holds at the start, when nothing is merged.
LEMMA InitListed ==
  ASSUME Init
  PROVE  Listed
BY InitPrompted DEF Init, Listed

\* What can be joined and in which order is a matter of the model file only.
LEMMA SameFile ==
  ASSUME file' = file, IsSymbols(symbols'), \E idx : Path(symbols', idx), Queued(symbols', queue'),
         Prompted'
  PROVE  Listed'
<1>1. tk' = tk
  BY DEF tk
<1>2. \A l, r : FindBpeRank(l, r)' = FindBpeRank(l, r)
  BY <1>1 DEF FindBpeRank
<1>3. \A p : PieceToId(p)' = PieceToId(p)
  BY <1>1 DEF PieceToId
<1>4. \A l, r : Joinable(l, r)' <=> Joinable(l, r)
  BY <1>1, <1>2, <1>3 DEF Joinable
<1>5. \A l, r : Priority(l, r)' = Priority(l, r)
  BY <1>1, <1>2, <1>3 DEF Priority
<1>6. \A l, r : NewBigram(symbols, l, r)' = NewBigram(symbols', l, r)
  BY <1>4, <1>5 DEF NewBigram
<1>7. \A b : Candidate(symbols, b)' <=> Candidate(symbols', b)
  BY <1>4, <1>5 DEF Candidate
<1>8. Queued(symbols, queue)'
  BY <1>6, <1>7 DEF Queued
<1> QED
  BY <1>8 DEF Listed

\* Every step keeps the list a path and every pair of neighbours queued.
LEMMA NextListed ==
  ASSUME Listed, [Next]_vars
  PROVE  Listed'
<1>1. Prompted /\ Prompted'
  BY NextPrompted DEF Listed
<1>0. file' = file
  BY DEF Next, Load, SplitSpare, Pretokenize, OneWord, Normalize, BeginWords, NextWord, Pop,
         EmitWord, Finish, Done, vars
<1>2. CASE Load \/ SplitSpare \/ Pretokenize \/ OneWord \/ Normalize \/ BeginWords
  <2>1. phase' # "merge"
    BY <1>2 DEF Load, SplitSpare, Pretokenize, OneWord, Normalize, BeginWords
  <2> QED
    BY <1>1, <2>1 DEF Listed
<1>3. CASE EmitWord \/ Finish
  <2>1. phase' # "merge"
    BY <1>3 DEF EmitWord, Finish
  <2> QED
    BY <1>1, <2>1 DEF Listed
<1>4. CASE NextWord
  <2> DEFINE S == Seq(Nat)
             word == Head(words)
  <2>1. /\ words # <<>> /\ words \in Seq(S)
        /\ symbols' = Symbols(word) /\ queue' = AllBigrams(symbols')
    BY <1>1, <1>4 DEF NextWord, Prompted
  <2> HIDE DEF S
  <2>2. word \in S
    BY <2>1
  <2> HIDE DEF word
  <2>3. IsSymbols(Symbols(word))
    BY <2>2, SymbolsAre DEF S
  <2>4. \E idx : Path(Symbols(word), idx)
    BY <2>2, WordPath DEF S
  <2>5. Queued(Symbols(word), AllBigrams(Symbols(word)))
    BY <2>2, WordQueued DEF S
  <2>6. IsSymbols(symbols') /\ (\E idx : Path(symbols', idx)) /\ Queued(symbols', queue')
    BY <2>1, <2>3, <2>4, <2>5
  <2> QED
    BY <1>0, <1>1, <2>6, SameFile
<1>5. CASE Pop
  <2>1. phase = "merge" /\ phase' = "merge"
    BY <1>5 DEF Pop
  <2>2. /\ IsSymbols(symbols) /\ Queued(symbols, queue)
        /\ \E idx : Path(symbols, idx)
    BY <2>1 DEF Listed
  <2>3. PICK idx : Path(symbols, idx)
    BY <2>2
  <2>4. PICK b \in queue :
          IF Stale(b)
          THEN queue' = queue \ {b} /\ UNCHANGED symbols
          ELSE LET syms == Joined(b)
               IN /\ symbols' = syms
                  /\ queue' = (queue \ {b}) \cup NewBigram(syms, syms[b.left].prev, b.left)
                                            \cup NewBigram(syms, b.left, syms[b.left].next)
    BY <1>5 DEF Pop
  <2>5. CASE Stale(b)
    <3>1. queue' = queue \ {b} /\ symbols' = symbols
      BY <2>4, <2>5
    <3>2. Queued(symbols, queue \ {b})
      BY <2>2, <2>3, <2>5, QueuedDropped
    <3>3. IsSymbols(symbols') /\ (\E i : Path(symbols', i)) /\ Queued(symbols', queue')
      BY <2>2, <3>1, <3>2
    <3> QED
      BY <1>0, <1>1, <3>3, SameFile
  <2>6. CASE ~Stale(b)
    <3> DEFINE syms == Joined(b)
    <3>1. /\ symbols' = syms
          /\ queue' = (queue \ {b}) \cup NewBigram(syms, syms[b.left].prev, b.left)
                                    \cup NewBigram(syms, b.left, syms[b.left].next)
      BY <2>4, <2>6
    <3>2. Candidate(symbols, b)
      BY <2>2 DEF Queued
    <3>3. PICK m \in 1 .. Len(idx) - 1 : idx[m] = b.left /\ idx[m + 1] = b.right
      BY <2>2, <2>3, <2>6, <3>2, NeighboursAre
    <3>4. Path(syms, Without(idx, m))
      BY <2>2, <2>3, <3>3, PathJoined
    <3>5. IsSymbols(syms)
      <4>1. b.left \in 1 .. Len(symbols) /\ b.right \in 1 .. Len(symbols) /\ b.left < b.right
        BY <3>2 DEF Candidate
      <4>2. b.left # b.right
        BY <4>1
      <4> QED
        BY <2>2, <4>1, <4>2, JoinedIs
    <3>6. Queued(syms, queue')
      BY <2>2, <2>3, <2>6, <3>1, QueuedJoined
    <3> HIDE DEF syms
    <3>7. IsSymbols(symbols') /\ (\E i : Path(symbols', i)) /\ Queued(symbols', queue')
      BY <3>1, <3>4, <3>5, <3>6
    <3> QED
      BY <1>0, <1>1, <3>7, SameFile
  <2> QED
    BY <2>5, <2>6
<1>6. CASE Done \/ UNCHANGED vars
  <2>1. phase' = phase /\ symbols' = symbols /\ queue' = queue
    BY <1>6 DEF Done, vars
  <2>2. CASE phase = "merge"
    <3>1. IsSymbols(symbols') /\ (\E i : Path(symbols', i)) /\ Queued(symbols', queue')
      BY <2>1, <2>2 DEF Listed
    <3> QED
      BY <1>0, <1>1, <3>1, SameFile
  <2>3. CASE phase # "merge"
    BY <1>1, <2>1, <2>3 DEF Listed
  <2> QED
    BY <2>2, <2>3
<1> QED
  BY <1>2, <1>3, <1>4, <1>5, <1>6 DEF Next

\* The invariant of the list and the queue holds in every reachable state.
THEOREM ListedHolds == Spec => []Listed
<1>1. Init => Listed
  BY InitListed
<1>2. Listed /\ [Next]_vars => Listed'
  BY NextListed
<1> QED
  BY <1>1, <1>2, PTL DEF Spec

\* Following the list of symbols from the first one spells what is left of the word:
\* the links always go through every live symbol, in order, and lead back.
THEOREM ListSpellsWordHolds == Spec => []ListSpellsWord
<1>1. Listed => ListSpellsWord
  <2> SUFFICES ASSUME Listed, phase = "merge"
               PROVE  /\ Chain(symbols) = LiveTexts(symbols)
                      /\ \A k \in DOMAIN symbols :
                           Live(symbols, k) /\ symbols[k].next # 0 => symbols[symbols[k].next].prev = k
                      /\ \A b \in queue : b.left < b.right /\ b.right \in DOMAIN symbols
    BY DEF ListSpellsWord
  <2>1. IsSymbols(symbols) /\ Queued(symbols, queue) /\ \E idx : Path(symbols, idx)
    BY DEF Listed
  <2>2. PICK idx : Path(symbols, idx)
    BY <2>1
  <2>3. Chain(symbols) = LiveTexts(symbols)
    BY <2>1, <2>2, ChainIs, LiveTextsIs
  <2>4. DOMAIN symbols = 1 .. Len(symbols)
    BY <2>1, SymbolIs
  <2>5. \A k \in 1 .. Len(symbols) :
          Live(symbols, k) /\ symbols[k].next # 0 => symbols[symbols[k].next].prev = k
    BY <2>1, <2>2, LinksAre
  <2>6. \A b \in queue : b.left < b.right /\ b.right \in 1 .. Len(symbols)
    BY <2>1 DEF Queued, Candidate
  <2> QED
    BY <2>3, <2>4, <2>5, <2>6
<1> QED
  BY <1>1, ListedHolds, PTL

\* The texts of a path, one by one.
LEMMA TextsAre ==
  ASSUME NEW syms, IsSymbols(syms), NEW idx, Path(syms, idx)
  PROVE  /\ Chain(syms) = [k \in 1 .. Len(idx) |-> Chain(syms)[k]]
         /\ Len(Chain(syms)) = Len(idx)
         /\ \A k \in 1 .. Len(idx) : Chain(syms)[k] = syms[idx[k]].text
<1> DEFINE n == Len(idx)
           s == Chain(syms)
<1>1. n \in Nat
  BY DEF Path
<1>2. s = [j \in 1 .. n - 1 + 1 |-> syms[idx[1 + j - 1]].text]
  BY ChainIs DEF Texts
<1>3. n - 1 + 1 = n
  BY <1>1
<1>4. s = [j \in 1 .. n |-> syms[idx[1 + j - 1]].text]
  BY <1>2, <1>3
<1> HIDE DEF s
<1>5. \A k \in 1 .. n : s[k] = syms[idx[k]].text
  <2> TAKE k \in 1 .. n
  <2>1. 1 + k - 1 = k
    BY <1>1
  <2> QED
    BY <1>4, <2>1
<1>6. s \in Seq(Seq(Nat))
  <2>1. 1 \in 1 .. n + 1
    BY <1>1
  <2> QED
    BY <2>1, ChainIs, TextsFrom DEF s
<1>7. DOMAIN s = 1 .. n /\ s = [k \in 1 .. n |-> s[k]]
  BY <1>4
<1>8. Len(s) = n
  BY <1>1, <1>6, <1>7
<1> QED
  BY <1>5, <1>7, <1>8 DEF s, n

\* Joining two neighbours of the list joins the two texts.
LEMMA ChainJoined ==
  ASSUME IsSymbols(symbols), NEW idx, Path(symbols, idx), NEW b,
         NEW m \in 1 .. Len(idx) - 1, idx[m] = b.left, idx[m + 1] = b.right
  PROVE  Chain(Joined(b)) = Merged(Chain(symbols), m)
<1> DEFINE L == b.left
           R == b.right
           N == Len(symbols)
           n == Len(idx)
           syms == Joined(b)
           w == Without(idx, m)
           old == Chain(symbols)
           new == Chain(syms)
<1>1. /\ idx \in Seq(Nat) /\ n \in Nat /\ \A k \in 1 .. n : idx[k] \in 1 .. N
      /\ \A k, l \in 1 .. n : k < l => idx[k] < idx[l]
  BY DEF Path
<1>2. m \in 1 .. n /\ m + 1 \in 1 .. n /\ m < m + 1 /\ m \in Nat /\ n - 1 \in Nat
  BY <1>1
<1>3. L \in 1 .. N /\ R \in 1 .. N /\ L # R
  BY <1>1, <1>2
<1>4. /\ IsSymbols(syms)
      /\ \A k \in 1 .. N :
           syms[k].text = IF k = L THEN symbols[k].text \o symbols[R].text
                          ELSE IF k = R THEN <<>> ELSE symbols[k].text
  BY <1>3, JoinedIs
<1>5. Path(syms, w)
  BY PathJoined
<1>6. /\ Len(w) = n - 1
      /\ \A i \in 1 .. n - 1 : w[i] = IF i <= m THEN idx[i] ELSE idx[i + 1]
  BY <1>1, WithoutIs
<1>7. Len(old) = n /\ \A k \in 1 .. n : old[k] = symbols[idx[k]].text
  BY TextsAre
<1> HIDE DEF syms, w
<1>8. new = [k \in 1 .. n - 1 |-> new[k]] /\ \A k \in 1 .. n - 1 : new[k] = syms[w[k]].text
  <2>1. new = [k \in 1 .. Len(w) |-> new[k]] /\ \A k \in 1 .. Len(w) : new[k] = syms[w[k]].text
    BY <1>4, <1>5, TextsAre
  <2> HIDE DEF new
  <2> QED
    BY <1>6, <2>1
<1>9. idx[m] = L /\ idx[m + 1] = R
  OBVIOUS
<1> HIDE DEF old, new, L, R, N, n
<1>10. ASSUME NEW k \in 1 .. n - 1
       PROVE  new[k] = IF k < m THEN old[k] ELSE IF k = m THEN old[m] \o old[m + 1] ELSE old[k + 1]
  <2>1. k \in 1 .. n /\ k + 1 \in 1 .. n /\ k \in Int
    BY <1>1
  <2>2. CASE k < m
    <3>1. k <= m /\ idx[k] < L /\ idx[k] < R /\ idx[k] \in 1 .. N
      BY <1>1, <1>2, <1>9, <2>1, <2>2
    <3>2. idx[k] # L /\ idx[k] # R
      BY <1>3, <3>1
    <3> QED
      BY <1>4, <1>6, <1>7, <1>8, <2>1, <2>2, <3>1, <3>2
  <2>3. CASE k = m
    <3>1. k <= m /\ ~(k < m)
      BY <2>1, <2>3
    <3>2. w[k] = L
      BY <1>6, <1>9, <2>3, <3>1
    <3>3. new[k] = symbols[L].text \o symbols[R].text
      BY <1>3, <1>4, <1>8, <3>2
    <3>4. old[m] = symbols[L].text /\ old[m + 1] = symbols[R].text
      BY <1>2, <1>7, <1>9
    <3> QED
      BY <2>3, <3>1, <3>3, <3>4
  <2>4. CASE k > m
    <3>1. ~(k <= m) /\ ~(k < m) /\ k # m /\ m + 1 < k + 1
      BY <1>2, <2>1, <2>4
    <3>2. idx[m + 1] < idx[k + 1] /\ idx[m] < idx[m + 1] /\ idx[k + 1] \in 1 .. N
      BY <1>1, <1>2, <2>1, <3>1
    <3>3. idx[k + 1] # L /\ idx[k + 1] # R
      BY <1>3, <1>9, <3>2
    <3>4. w[k] = idx[k + 1]
      BY <1>6, <3>1
    <3>5. new[k] = symbols[idx[k + 1]].text
      BY <1>4, <1>8, <3>2, <3>3, <3>4
    <3>6. old[k + 1] = symbols[idx[k + 1]].text
      BY <1>7, <2>1
    <3> QED
      BY <3>1, <3>5, <3>6
  <2> QED
    BY <1>2, <2>1, <2>2, <2>3, <2>4
<1>11. new = Merged(old, m)
  <2>1. new = [k \in 1 .. n - 1 |->
                 IF k < m THEN old[k] ELSE IF k = m THEN old[m] \o old[m + 1] ELSE old[k + 1]]
    BY <1>8, <1>10
  <2> QED
    BY <1>7, <2>1 DEF Merged
<1> QED
  BY <1>11 DEF new, old, syms

\* Every pair of neighbours that can be merged has a candidate in the queue.
LEMMA MergeableIsQueued ==
  ASSUME IsSymbols(symbols), NEW idx, Path(symbols, idx), NEW q, Queued(symbols, q),
         NEW k \in Mergeable(Chain(symbols))
  PROVE  /\ k \in 1 .. Len(idx) - 1
         /\ \E d \in q : /\ d.left = idx[k]
                         /\ d.priority = Priority(Chain(symbols)[k], Chain(symbols)[k + 1])
<1> DEFINE n == Len(idx)
           chain == Chain(symbols)
           l == idx[k]
           r == idx[k + 1]
<1>1. n \in Nat /\ Len(chain) = n /\ \A i \in 1 .. n : chain[i] = symbols[idx[i]].text
  BY TextsAre DEF Path
<1> HIDE DEF chain
<1>2. k \in 1 .. n - 1 /\ Joinable(chain[k], chain[k + 1])
  BY <1>1 DEF Mergeable, chain
<1>3. k \in 1 .. n /\ k + 1 \in 1 .. n /\ k # n
  BY <1>1, <1>2
<1>4. /\ l \in 1 .. Len(symbols) /\ r \in 1 .. Len(symbols) /\ Live(symbols, l)
      /\ symbols[l].next = r
  BY <1>3 DEF Path
<1>5. chain[k] = symbols[l].text /\ chain[k + 1] = symbols[r].text
  BY <1>1, <1>3
<1> HIDE DEF l, r
<1>6. l # 0 /\ r # 0
  BY <1>4
<1>7. NewBigram(symbols, l, r) # {}
  <2>1. Joinable(symbols[l].text, symbols[r].text)
    BY <1>2, <1>5
  <2> QED
    BY <1>6, <2>1, BigramIs
<1>8. PICK d \in NewBigram(symbols, l, r) : TRUE
  BY <1>7
<1>9. d.left = l /\ d.priority = Priority(symbols[l].text, symbols[r].text)
  BY BigramIs
<1>10. d \in q
  BY <1>4, <1>8 DEF Queued
<1> QED
  BY <1>2, <1>5, <1>9, <1>10 DEF l, chain, n

\* Merging pair by pair through the queue, whose candidates may be stale, is byte-pair
\* merging: each merge joins the best pair of neighbours there is, and a word is emitted
\* when no pair can be joined.
THEOREM BestFirstHolds == Spec => BestFirst
<1> DEFINE A == phase = "merge" =>
       LET chain == Chain(symbols)
       IN /\ (phase' = "merge" /\ symbols' # symbols) =>
               \E k \in Mergeable(chain) :
                 /\ \A l \in Mergeable(chain) : ~Better(chain, l, k)
                 /\ Chain(symbols') = Merged(chain, k)
          /\ phase' # "merge" => Mergeable(chain) = {}
<1>1. ASSUME Listed, [Next]_vars
      PROVE  A
  <2> DEFINE chain == Chain(symbols)
  <2> SUFFICES ASSUME phase = "merge"
               PROVE  /\ (phase' = "merge" /\ symbols' # symbols) =>
                           \E k \in Mergeable(chain) :
                             /\ \A l \in Mergeable(chain) : ~Better(chain, l, k)
                             /\ Chain(symbols') = Merged(chain, k)
                      /\ phase' # "merge" => Mergeable(chain) = {}
    OBVIOUS
  <2>1. IsSymbols(symbols) /\ Queued(symbols, queue) /\ \E idx : Path(symbols, idx)
    BY <1>1 DEF Listed
  <2>2. PICK idx : Path(symbols, idx)
    BY <2>1
  <2>3. Pop \/ EmitWord \/ UNCHANGED vars
    BY <1>1 DEF Next, Load, SplitSpare, Pretokenize, OneWord, Normalize, BeginWords, NextWord,
                Finish, Done
  <2>4. CASE Pop
    <3>1. phase' = "merge"
      BY <2>4 DEF Pop
    <3>2. PICK b \in queue :
            /\ \A d \in queue : ~Before(d, b)
            /\ IF Stale(b) THEN UNCHANGED symbols ELSE symbols' = Joined(b)
      BY <2>4 DEF Pop
    <3> SUFFICES ASSUME symbols' # symbols
                 PROVE  \E k \in Mergeable(chain) :
                          /\ \A l \in Mergeable(chain) : ~Better(chain, l, k)
                          /\ Chain(symbols') = Merged(chain, k)
      BY <3>1
    <3>3. ~Stale(b) /\ symbols' = Joined(b)
      BY <3>2
    <3>4. Candidate(symbols, b)
      BY <2>1 DEF Queued
    <3>5. /\ \E m \in 1 .. Len(idx) - 1 : idx[m] = b.left /\ idx[m + 1] = b.right
          /\ Joinable(symbols[b.left].text, symbols[b.right].text)
          /\ b.priority = Priority(symbols[b.left].text, symbols[b.right].text)
      BY <2>1, <2>2, <3>3, <3>4, NeighboursAre
    <3>6. PICK m \in 1 .. Len(idx) - 1 : idx[m] = b.left /\ idx[m + 1] = b.right
      BY <3>5
    <3>7. Chain(symbols') = Merged(chain, m)
      BY <2>1, <2>2, <3>3, <3>6, ChainJoined
    <3>8. Len(chain) = Len(idx) /\ \A i \in 1 .. Len(idx) : chain[i] = symbols[idx[i]].text
      BY <2>1, <2>2, TextsAre
    <3>9. Len(idx) \in Nat /\ \A i \in 1 .. Len(idx) : idx[i] \in Nat
      BY <2>2 DEF Path
    <3>10. m \in 1 .. Len(idx) /\ m + 1 \in 1 .. Len(idx)
      BY <3>9
    <3>11. chain[m] = symbols[b.left].text /\ chain[m + 1] = symbols[b.right].text
      BY <3>6, <3>8, <3>10
    <3>12. \A l \in Mergeable(chain) :
             /\ l \in 1 .. Len(idx) - 1
             /\ \E d \in queue : d.left = idx[l] /\ d.priority = Priority(chain[l], chain[l + 1])
      BY <2>1, <2>2, MergeableIsQueued
    <3> HIDE DEF chain
    <3>13. m \in Mergeable(chain)
      BY <3>5, <3>8, <3>11 DEF Mergeable
    <3>14. ASSUME NEW l \in Mergeable(chain), Better(chain, l, m)
           PROVE  FALSE
      <4>1. PICK d \in queue : d.left = idx[l] /\ d.priority = Priority(chain[l], chain[l + 1])
        BY <3>12
      <4> DEFINE p == Priority(chain[l], chain[l + 1])
                 r == Priority(chain[m], chain[m + 1])
      <4>2. (IF tk.model = "bpe" THEN p < r ELSE p > r) \/ (p = r /\ l < m)
        BY <3>14 DEF Better
      <4>3. d.priority = p /\ b.priority = r
        BY <3>5, <3>11, <4>1
      <4>4. l < m => d.left < b.left
        <5>1. l \in 1 .. Len(idx)
          BY <3>9, <3>12
        <5> QED
          BY <2>2, <3>6, <3>10, <4>1, <5>1 DEF Path
      <4> HIDE DEF p, r
      <4>5. Before(d, b)
        BY <4>2, <4>3, <4>4, Zenon DEF Before
      <4> QED
        BY <3>2, <4>5
    <3> QED
      BY <3>7, <3>13, <3>14
  <2>5. CASE EmitWord
    <3>1. queue = {} /\ phase' = "word"
      BY <2>5 DEF EmitWord
    <3>2. \A l \in Mergeable(chain) : \E d \in queue : TRUE
      BY <2>1, <2>2, MergeableIsQueued
    <3> QED
      BY <3>1, <3>2
  <2>6. CASE UNCHANGED vars
    BY <2>6 DEF vars
  <2> QED
    BY <2>3, <2>4, <2>5, <2>6
<1>2. Listed /\ [Next]_vars => [A]_vars
  BY <1>1
<1> HIDE DEF A
<1>3. [][A]_vars <=> BestFirst
  BY DEF BestFirst, A
<1> QED
  BY <1>2, <1>3, ListedHolds, PTL DEF Spec

\* The table of categories is sorted.
LEMMA RangesSorted ==
  /\ Len(RangesFlags) \in Nat /\ DOMAIN RangesFlags = 1 .. Len(RangesFlags)
  /\ \A i \in 1 .. Len(RangesFlags) : RangesFlags[i][1] \in Nat
  /\ \A i, j \in 1 .. Len(RangesFlags) : i < j => RangesFlags[i][1] < RangesFlags[j][1]
<1> DEFINE T == RangesFlags
           n == Len(T)
           U == {d \in Nat : \A i \in 1 .. n : d > 0 /\ i + d <= n => T[i][1] < T[i + d][1]}
<1>1. n \in Nat /\ DOMAIN T = 1 .. n /\ \A i \in 1 .. n : T[i][1] \in Nat
  <2>1. T \in Seq(Nat \X {"U", "N", "L", "Z", "M", "P", "S", "C"})
    BY SMTT(200) DEF RangesFlags
  <2> HIDE DEF T
  <2> QED
    BY <2>1
<1>2. \A i \in 2 .. n : T[i - 1][1] < T[i][1]
  BY TablesSorted
<1> HIDE DEF T, n
<1>3. 0 \in U
  OBVIOUS
<1>4. ASSUME NEW d \in Nat, d \in U
      PROVE  d + 1 \in U
  <2> SUFFICES ASSUME NEW i \in 1 .. n, i + (d + 1) <= n
               PROVE  T[i][1] < T[i + (d + 1)][1]
    OBVIOUS
  <2>1. i + (d + 1) \in 2 .. n /\ (i + (d + 1)) - 1 = i + d /\ i + d \in 1 .. n
    BY <1>1
  <2>2. T[i + d][1] < T[i + (d + 1)][1]
    BY <1>2, <2>1
  <2>3. d = 0 \/ T[i][1] < T[i + d][1]
    BY <1>4, <2>1
  <2> QED
    BY <1>1, <2>1, <2>2, <2>3
<1>5. Nat \subseteq U
  <2> HIDE DEF U
  <2> QED
    BY <1>3, <1>4, Counting
<1>6. ASSUME NEW i \in 1 .. n, NEW j \in 1 .. n, i < j
      PROVE  T[i][1] < T[j][1]
  <2>1. j - i \in Nat /\ j - i > 0 /\ i + (j - i) = j /\ j <= n
    BY <1>1, <1>6
  <2>2. j - i \in U
    BY <1>5, <2>1
  <2> QED
    BY <2>1, <2>2
<1> QED
  BY <1>1, <1>6 DEF T, n

\* The range a code point is in.
LEMMA RangeIs ==
  ASSUME NEW c \in Nat, NEW k \in 1 .. Len(RangesFlags), NEW l \in 1 .. Len(RangesFlags),
         l = k + 1, RangesFlags[k][1] <= c, c < RangesFlags[l][1]
  PROVE  LastAtMost(RangesFlags, c) = k
<1> DEFINE T == RangesFlags
           n == Len(T)
           Good(i) == T[i][1] <= c /\ (i = n \/ c < T[i + 1][1])
<1>1. n \in Nat /\ DOMAIN T = 1 .. n /\ k \in 1 .. n /\ k + 1 \in 1 .. n
  BY RangesSorted
<1>2. LastAtMost(T, c) = CHOOSE i \in 1 .. n : Good(i)
  BY <1>1 DEF LastAtMost
<1>3. /\ \A i \in 1 .. n : T[i][1] \in Nat
      /\ \A i, j \in 1 .. n : i < j => T[i][1] < T[j][1]
  BY RangesSorted
<1> HIDE DEF T, n
<1>4. Good(k)
  BY DEF T
<1>5. ASSUME NEW i \in 1 .. n, Good(i)
      PROVE  i = k
  <2>1. CASE i < k
    <3>1. i + 1 \in 1 .. n /\ i + 1 <= k /\ i # n
      BY <1>1, <2>1
    <3>2. T[i + 1][1] <= T[k][1]
      BY <1>1, <1>3, <3>1
    <3> QED
      BY <1>1, <1>3, <1>4, <1>5, <3>1, <3>2
  <2>2. CASE i > k
    <3>1. T[k + 1][1] <= T[i][1]
      BY <1>1, <1>3, <2>2
    <3> QED
      BY <1>1, <1>3, <1>4, <1>5, <2>2, <3>1 DEF T
  <2> QED
    BY <1>1, <2>1, <2>2
<1> QED
  <2> HIDE DEF Good
  <2>1. k \in 1 .. n
    BY <1>1
  <2> QED
    BY ONLY <1>2, <1>4, <1>5, <2>1 DEF T

\* The ranges of white space and of the quote.
LEMMA SomeRanges ==
  /\ Len(RangesFlags) = 182
  /\ RangesFlags[1] = <<\h0, "C">> /\ RangesFlags[2] = <<\h20, "Z">>
  /\ RangesFlags[3][1] = \h21
  /\ RangesFlags[5] = <<\h25, "P">> /\ RangesFlags[6][1] = \h2B
  /\ RangesFlags[22] = <<\h7F, "C">> /\ RangesFlags[23] = <<\hA0, "Z">>
  /\ RangesFlags[24][1] = \hA1
  /\ RangesFlags[151] = <<\h1680, "Z">> /\ RangesFlags[152][1] = \h1681
  /\ RangesFlags[153] = <<\h2000, "Z">> /\ RangesFlags[154][1] = \h200B
  /\ RangesFlags[155] = <<\h2028, "Z">> /\ RangesFlags[156][1] = \h202A
  /\ RangesFlags[157] = <<\h202F, "Z">> /\ RangesFlags[158][1] = \h2030
  /\ RangesFlags[159] = <<\h205F, "Z">> /\ RangesFlags[160][1] = \h2060
  /\ RangesFlags[161] = <<\h3000, "Z">> /\ RangesFlags[162][1] = \h3001
<1>1. /\ Len(RangesFlags) = 182
      /\ RangesFlags[1] = <<\h0, "C">> /\ RangesFlags[2] = <<\h20, "Z">>
      /\ RangesFlags[3][1] = \h21
      /\ RangesFlags[5] = <<\h25, "P">> /\ RangesFlags[6][1] = \h2B
  BY SMTT(200) DEF RangesFlags
<1>2. /\ RangesFlags[22] = <<\h7F, "C">> /\ RangesFlags[23] = <<\hA0, "Z">>
      /\ RangesFlags[24][1] = \hA1
      /\ RangesFlags[151] = <<\h1680, "Z">> /\ RangesFlags[152][1] = \h1681
  BY SMTT(200) DEF RangesFlags
<1>3. /\ RangesFlags[153] = <<\h2000, "Z">> /\ RangesFlags[154][1] = \h200B
      /\ RangesFlags[155] = <<\h2028, "Z">> /\ RangesFlags[156][1] = \h202A
  BY SMTT(200) DEF RangesFlags
<1>4. /\ RangesFlags[157] = <<\h202F, "Z">> /\ RangesFlags[158][1] = \h2030
      /\ RangesFlags[159] = <<\h205F, "Z">> /\ RangesFlags[160][1] = \h2060
      /\ RangesFlags[161] = <<\h3000, "Z">> /\ RangesFlags[162][1] = \h3001
  BY SMTT(200) DEF RangesFlags
<1> QED
  BY <1>1, <1>2, <1>3, <1>4

\* White space is no letter, number or mark, and a quote is no number.
LEMMA SpaceCategory ==
  /\ \A c \in SetWhitespace : RangesFlags[LastAtMost(RangesFlags, c)][2] \in {"Z", "C"}
  /\ RangesFlags[LastAtMost(RangesFlags, Quote)][2] = "P"
<1> DEFINE Cat(c) == RangesFlags[LastAtMost(RangesFlags, c)][2]
<1>1. ASSUME NEW c \in Nat, NEW k \in 1 .. Len(RangesFlags), NEW l \in 1 .. Len(RangesFlags),
             l = k + 1, RangesFlags[k][1] <= c, c < RangesFlags[l][1]
      PROVE  Cat(c) = RangesFlags[k][2]
  BY <1>1, RangeIs
<1>n. Len(RangesFlags) = 182
  BY SomeRanges
<1>2. ASSUME NEW c \in Nat
      PROVE  /\ c \in 0 .. 31 => Cat(c) = "C"
             /\ c = 32 => Cat(c) = "Z"
             /\ c \in 37 .. 42 => Cat(c) = "P"
             /\ c \in \h7F .. \h9F => Cat(c) = "C"
             /\ c = \hA0 => Cat(c) = "Z"
             /\ c = \h1680 => Cat(c) = "Z"
             /\ c \in \h2000 .. \h200A => Cat(c) = "Z"
             /\ c \in \h2028 .. \h2029 => Cat(c) = "Z"
             /\ c = \h202F => Cat(c) = "Z"
             /\ c = \h205F => Cat(c) = "Z"
             /\ c = \h3000 => Cat(c) = "Z"
  <2> HIDE DEF Cat
  <2>1. ASSUME c \in 0 .. 31
       PROVE  Cat(c) = "C"
    <3>1. 1 \in 1 .. 182 /\ 2 \in 1 .. 182 /\ 2 = 1 + 1
      OBVIOUS
    <3>2. RangesFlags[1][1] <= c /\ c < RangesFlags[2][1]
      BY <2>1, SomeRanges
    <3>3. RangesFlags[1][2] = "C"
      BY SomeRanges
    <3> QED
      BY ONLY <1>n, <1>1, <3>1, <3>2, <3>3, c \in Nat
  <2>2. ASSUME c = 32
       PROVE  Cat(c) = "Z"
    <3>1. 2 \in 1 .. 182 /\ 3 \in 1 .. 182 /\ 3 = 2 + 1
      OBVIOUS
    <3>2. RangesFlags[2][1] <= c /\ c < RangesFlags[3][1]
      BY <2>2, SomeRanges
    <3>3. RangesFlags[2][2] = "Z"
      BY SomeRanges
    <3> QED
      BY ONLY <1>n, <1>1, <3>1, <3>2, <3>3, c \in Nat
  <2>3. ASSUME c \in 37 .. 42
       PROVE  Cat(c) = "P"
    <3>1. 5 \in 1 .. 182 /\ 6 \in 1 .. 182 /\ 6 = 5 + 1
      OBVIOUS
    <3>2. RangesFlags[5][1] <= c /\ c < RangesFlags[6][1]
      BY <2>3, SomeRanges
    <3>3. RangesFlags[5][2] = "P"
      BY SomeRanges
    <3> QED
      BY ONLY <1>n, <1>1, <3>1, <3>2, <3>3, c \in Nat
  <2>4. ASSUME c \in \h7F .. \h9F
       PROVE  Cat(c) = "C"
    <3>1. 22 \in 1 .. 182 /\ 23 \in 1 .. 182 /\ 23 = 22 + 1
      OBVIOUS
    <3>2. RangesFlags[22][1] <= c /\ c < RangesFlags[23][1]
      BY <2>4, SomeRanges
    <3>3. RangesFlags[22][2] = "C"
      BY SomeRanges
    <3> QED
      BY ONLY <1>n, <1>1, <3>1, <3>2, <3>3, c \in Nat
  <2>5. ASSUME c = \hA0
       PROVE  Cat(c) = "Z"
    <3>1. 23 \in 1 .. 182 /\ 24 \in 1 .. 182 /\ 24 = 23 + 1
      OBVIOUS
    <3>2. RangesFlags[23][1] <= c /\ c < RangesFlags[24][1]
      BY <2>5, SomeRanges
    <3>3. RangesFlags[23][2] = "Z"
      BY SomeRanges
    <3> QED
      BY ONLY <1>n, <1>1, <3>1, <3>2, <3>3, c \in Nat
  <2>6. ASSUME c = \h1680
       PROVE  Cat(c) = "Z"
    <3>1. 151 \in 1 .. 182 /\ 152 \in 1 .. 182 /\ 152 = 151 + 1
      OBVIOUS
    <3>2. RangesFlags[151][1] <= c /\ c < RangesFlags[152][1]
      BY <2>6, SomeRanges
    <3>3. RangesFlags[151][2] = "Z"
      BY SomeRanges
    <3> QED
      BY ONLY <1>n, <1>1, <3>1, <3>2, <3>3, c \in Nat
  <2>7. ASSUME c \in \h2000 .. \h200A
       PROVE  Cat(c) = "Z"
    <3>1. 153 \in 1 .. 182 /\ 154 \in 1 .. 182 /\ 154 = 153 + 1
      OBVIOUS
    <3>2. RangesFlags[153][1] <= c /\ c < RangesFlags[154][1]
      BY <2>7, SomeRanges
    <3>3. RangesFlags[153][2] = "Z"
      BY SomeRanges
    <3> QED
      BY ONLY <1>n, <1>1, <3>1, <3>2, <3>3, c \in Nat
  <2>8. ASSUME c \in \h2028 .. \h2029
       PROVE  Cat(c) = "Z"
    <3>1. 155 \in 1 .. 182 /\ 156 \in 1 .. 182 /\ 156 = 155 + 1
      OBVIOUS
    <3>2. RangesFlags[155][1] <= c /\ c < RangesFlags[156][1]
      BY <2>8, SomeRanges
    <3>3. RangesFlags[155][2] = "Z"
      BY SomeRanges
    <3> QED
      BY ONLY <1>n, <1>1, <3>1, <3>2, <3>3, c \in Nat
  <2>9. ASSUME c = \h202F
       PROVE  Cat(c) = "Z"
    <3>1. 157 \in 1 .. 182 /\ 158 \in 1 .. 182 /\ 158 = 157 + 1
      OBVIOUS
    <3>2. RangesFlags[157][1] <= c /\ c < RangesFlags[158][1]
      BY <2>9, SomeRanges
    <3>3. RangesFlags[157][2] = "Z"
      BY SomeRanges
    <3> QED
      BY ONLY <1>n, <1>1, <3>1, <3>2, <3>3, c \in Nat
  <2>10. ASSUME c = \h205F
       PROVE  Cat(c) = "Z"
    <3>1. 159 \in 1 .. 182 /\ 160 \in 1 .. 182 /\ 160 = 159 + 1
      OBVIOUS
    <3>2. RangesFlags[159][1] <= c /\ c < RangesFlags[160][1]
      BY <2>10, SomeRanges
    <3>3. RangesFlags[159][2] = "Z"
      BY SomeRanges
    <3> QED
      BY ONLY <1>n, <1>1, <3>1, <3>2, <3>3, c \in Nat
  <2>11. ASSUME c = \h3000
       PROVE  Cat(c) = "Z"
    <3>1. 161 \in 1 .. 182 /\ 162 \in 1 .. 182 /\ 162 = 161 + 1
      OBVIOUS
    <3>2. RangesFlags[161][1] <= c /\ c < RangesFlags[162][1]
      BY <2>11, SomeRanges
    <3>3. RangesFlags[161][2] = "Z"
      BY SomeRanges
    <3> QED
      BY ONLY <1>n, <1>1, <3>1, <3>2, <3>3, c \in Nat
  <2> QED
    BY ONLY <2>1, <2>2, <2>3, <2>4, <2>5, <2>6, <2>7, <2>8, <2>9, <2>10, <2>11
<1> HIDE DEF Cat
<1>3. ASSUME NEW c \in SetWhitespace
      PROVE  Cat(c) \in {"Z", "C"}
  BY <1>2, SMTT(90) DEF SetWhitespace
<1>4. Cat(Quote) = "P"
  BY <1>2, SMTT(90) DEF Quote
<1> QED
  BY <1>3, <1>4 DEF Cat

\* A code point has one category; white space and the quote are no part of a word.
LEMMA FlagsAre ==
  ASSUME NEW x \in Nat
  PROVE  LET F == CptFlags(x)
         IN /\ ~("L" \in F /\ "N" \in F) /\ ~("L" \in F /\ "M" \in F) /\ ~("N" \in F /\ "M" \in F)
            /\ "whitespace" \in F => "L" \notin F /\ "N" \notin F /\ "M" \notin F
            /\ x \in {CR, LF, Blank} => "whitespace" \in F
            /\ x = Quote => "N" \notin F
<1> DEFINE F == CptFlags(x)
           cat == RangesFlags[LastAtMost(RangesFlags, x)][2]
           Helpers == {"whitespace", "lowercase", "uppercase", "nfd"}
<1>1. /\ \A f \in FlagsOf(x) : f = cat \/ f \in Helpers
      /\ cat \in FlagsOf(x)
      /\ "whitespace" \in FlagsOf(x) => x \in SetWhitespace \/ cat = "whitespace"
      /\ x \in SetWhitespace => "whitespace" \in FlagsOf(x)
  <2> DEFINE A == {cat}
             B == IF x \in SetWhitespace THEN {"whitespace"} ELSE {}
             C == IF \E p \in MapLowercase : p[2] = x THEN {"lowercase"} ELSE {}
             D == IF \E p \in MapUppercase : p[2] = x THEN {"uppercase"} ELSE {}
             E == IF \E i \in DOMAIN RangesNfd : RangesNfd[i][3] = x THEN {"nfd"} ELSE {}
  <2>1. FlagsOf(x) = A \cup B \cup C \cup D \cup E
    BY DEF FlagsOf
  <2>2. /\ A = {cat} /\ C \subseteq {"lowercase"} /\ D \subseteq {"uppercase"} /\ E \subseteq {"nfd"}
        /\ B \subseteq {"whitespace"} /\ ("whitespace" \in B <=> x \in SetWhitespace)
    OBVIOUS
  <2> HIDE DEF A, B, C, D, E, cat
  <2> QED
    BY <2>1, <2>2
<1>3. F = FlagsOf(x) \/ (F = {"U"} /\ ~(x < \h110000))
  <2> DEFINE n == \h7C0
             S == 0 .. n
  <2>1. CptFlagsArray = [y \in S |-> FlagsOf(y)]
    BY Zenon DEF CptFlagsArray
  <2> HIDE DEF S
  <2>2. DOMAIN CptFlagsArray = S /\ \A y \in S : CptFlagsArray[y] = FlagsOf(y)
    BY <2>1, Zenon
  <2>3. F = IF x \in DOMAIN CptFlagsArray THEN CptFlagsArray[x]
            ELSE IF x < \h110000 THEN FlagsOf(x) ELSE {"U"}
    BY SMT DEF CptFlags
  <2> DEFINE low == x < \h110000
  <2>4. F = IF x \in DOMAIN CptFlagsArray THEN CptFlagsArray[x]
            ELSE IF low THEN FlagsOf(x) ELSE {"U"}
    BY <2>3
  <2> HIDE DEF F, S, low
  <2>5. F = FlagsOf(x) \/ (F = {"U"} /\ ~low)
    BY <2>2, <2>4
  <2> QED
    BY <2>5 DEF low
<1>4. x \in SetWhitespace => cat \in {"Z", "C"}
  BY SpaceCategory
<1>5. x = Quote => cat = "P"
  BY SpaceCategory
<1>6. x \in {CR, LF, Blank} => x \in SetWhitespace /\ x < \h110000
  BY SMT DEF CR, LF, Blank, SetWhitespace
<1> HIDE DEF F, cat
<1> QED
  BY <1>1, <1>3, <1>4, <1>5, <1>6 DEF F

\* The positions of a text are apart by the classes of its code points.
Apart(c) ==
  /\ IsClasses(c)
  /\ c.letters \cap c.numbers = {} /\ c.letters \cap c.marks = {} /\ c.numbers \cap c.marks = {}
  /\ c.spaces \cap (c.letters \cup c.numbers \cup c.marks) = {}
  /\ c.breaks \subseteq c.spaces /\ c.blanks \subseteq c.spaces /\ c.blanks \cap c.breaks = {}
  /\ \A i \in c.all : c.text[i] = Quote => i \notin c.numbers

\* So they are in every text.
LEMMA ClassesApart ==
  ASSUME NEW cpts \in Seq(Nat)
  PROVE  Apart(Classes(cpts))
<1> DEFINE c == Classes(cpts)
           flagged == [i \in DOMAIN cpts |-> CptFlags(cpts[i])]
           having(f) == {i \in DOMAIN cpts : f \in flagged[i]}
<1>1. IsClasses(c)
  BY ClassesAre
<1>2. /\ c.letters = having("L") /\ c.numbers = having("N") /\ c.marks = having("M")
      /\ c.spaces = having("whitespace")
      /\ c.breaks = {i \in DOMAIN cpts : cpts[i] \in {CR, LF}}
      /\ c.blanks = {i \in DOMAIN cpts : cpts[i] = Blank}
      /\ c.all = DOMAIN cpts /\ c.text = cpts
  BY DEF Classes
<1>3. ASSUME NEW i \in DOMAIN cpts
      PROVE  /\ ~(i \in c.letters /\ i \in c.numbers) /\ ~(i \in c.letters /\ i \in c.marks)
             /\ ~(i \in c.numbers /\ i \in c.marks)
             /\ i \in c.spaces => i \notin c.letters /\ i \notin c.numbers /\ i \notin c.marks
             /\ i \in c.breaks => i \in c.spaces
             /\ i \in c.blanks => i \in c.spaces
             /\ ~(i \in c.blanks /\ i \in c.breaks)
             /\ c.text[i] = Quote => i \notin c.numbers
  <2>1. cpts[i] \in Nat
    BY <1>3
  <2>2. flagged[i] = CptFlags(cpts[i])
    BY <1>3
  <2>3. \A f : i \in having(f) <=> f \in CptFlags(cpts[i])
    BY <2>2, <1>3
  <2> HIDE DEF c, flagged, having
  <2> DEFINE F == CptFlags(cpts[i])
  <2>4. /\ ~("L" \in F /\ "N" \in F) /\ ~("L" \in F /\ "M" \in F) /\ ~("N" \in F /\ "M" \in F)
        /\ "whitespace" \in F => "L" \notin F /\ "N" \notin F /\ "M" \notin F
        /\ cpts[i] \in {CR, LF, Blank} => "whitespace" \in F
        /\ cpts[i] = Quote => "N" \notin F
    BY <2>1, FlagsAre
  <2> HIDE DEF F
  <2>5. \A f : i \in having(f) <=> f \in F
    BY <2>3 DEF F
  <2>6. ~(cpts[i] = Blank /\ cpts[i] \in {CR, LF})
    BY DEF Blank, CR, LF
  <2> QED
    BY <1>2, <1>3, <2>4, <2>5, <2>6
<1>4. /\ c.letters \subseteq DOMAIN cpts /\ c.numbers \subseteq DOMAIN cpts
      /\ c.marks \subseteq DOMAIN cpts /\ c.spaces \subseteq DOMAIN cpts
      /\ c.breaks \subseteq DOMAIN cpts /\ c.blanks \subseteq DOMAIN cpts
  BY <1>2
<1> HIDE DEF c
<1> QED
  BY <1>1, <1>2, <1>3, <1>4 DEF Apart, c

\* The letters of contractions.
SuffixLetters == {\h73, \h74, \h72, \h65, \h76, \h6D, \h6C, \h64}

\* What becomes such a letter is the letter in either case.
LEMMA ToLowerIs ==
  ASSUME NEW x, NEW l \in SuffixLetters
  PROVE  ToLower(x) = l <=> x \in {l, l - 32}
<1> DEFINE P(c) == \E p \in MapLowercase : p[1] = c
           A == {<<c, c + 32>> : c \in (\h41 .. \h5A) \cup (\hC0 .. \hD6) \cup (\hD8 .. \hDE)}
           B == {<<2 * c, 2 * c + 1>> : c \in (\h80 .. \h97) \cup (\h99 .. \h9B) \cup (\hA5 .. \hBB)}
           C == {<<2 * c - 1, 2 * c>> : c \in \h9D .. \hA4}
           D == {<<\h130, \h69>>}
<1>1. MapLowercase = A \cup B \cup C \cup D
  BY Zenon DEF MapLowercase
<1>2. l \in 100 .. 118 /\ l # \h69 /\ l - 32 \in \h41 .. \h5A
  BY SMT DEF SuffixLetters
<1>3. /\ \A p \in A : p[1] \in 65 .. 222 /\ p[2] = p[1] + 32 /\ (p[1] <= 90 \/ p[1] >= 192)
      /\ \A p \in B : p[1] >= 256 /\ p[2] >= 256
      /\ \A p \in C : p[1] >= 256 /\ p[2] >= 256
      /\ \A p \in D : p[1] = \h130 /\ p[2] = \h69
  BY SMT
<1>4. <<l - 32, (l - 32) + 32>> \in A
  BY <1>2, SMT
<1> HIDE DEF A, B, C, D
<1>5. ASSUME NEW p \in MapLowercase, p[2] = l
      PROVE  p[1] = l - 32
  BY <1>1, <1>2, <1>3, <1>5, SMT
<1>6. ASSUME NEW p \in MapLowercase, p[1] = l - 32
      PROVE  p[2] = l
  BY <1>1, <1>2, <1>3, <1>6, SMT
<1>7. \A p \in MapLowercase : p[1] # l
  BY <1>1, <1>2, <1>3, SMT
<1>8. CASE \E p \in MapLowercase : p[1] = x
  <2> DEFINE q == CHOOSE p \in MapLowercase : p[1] = x
  <2>1. q \in MapLowercase /\ q[1] = x
    BY <1>8, Zenon
  <2>2. ToLower(x) = q[2]
    BY <1>8, Zenon DEF ToLower
  <2> HIDE DEF q
  <2> QED
    BY <1>5, <1>6, <1>7, <2>1, <2>2, SMT
<1>9. CASE ~\E p \in MapLowercase : p[1] = x
  <2>1. ToLower(x) = x
    BY <1>9, Zenon DEF ToLower
  <2>2. x # l - 32
    <3>1. PICK p \in A : p[1] = l - 32
      BY <1>4, SMT
    <3> QED
      BY <1>1, <1>9, <3>1
  <2> QED
    BY <2>1, <2>2
<1> QED
  BY <1>8, <1>9

-----------------------------------------------------------------------------
(* What the items of the regular expressions match.                         *)

\* The end of the match of an item at j, from what is given by those after it.
Step(item, g, j) ==
  LET most == Min({item.max, RunEnd(item.set, j) - j})
      good == {n \in item.min .. most : g[j + n] # 0}
  IN IF good = {} THEN 0 ELSE g[j + Max(good)]

\* After the last item.
Fin(unless) == [j \in Nat |-> IF j \in unless THEN 0 ELSE j]

Before1(item, g) == [j \in Nat |-> Step(item, g, j)]

\* What each item gives and those after it.
LEMMA MatchEndIs ==
  ASSUME NEW items, Len(items) \in Nat, NEW unless, NEW i
  PROVE  \E f : /\ MatchEnd(items, unless, i) = f[1][i]
                /\ f[Len(items) + 1] = Fin(unless)
                /\ \A k \in 1 .. Len(items) : f[k] = Before1(items[k], f[k + 1])
<1> DEFINE N == Len(items)
           F(g) == [k \in 1 .. Len(items) + 1 |->
                     IF k > Len(items) THEN [j \in Nat |-> IF j \in unless THEN 0 ELSE j]
                     ELSE [j \in Nat |->
                             LET most == Min({items[k].max, RunEnd(items[k].set, j) - j})
                                 good == {n \in items[k].min .. most : g[k + 1][j + n] # 0}
                             IN IF good = {} THEN 0 ELSE g[k + 1][j + Max(good)]]]
           f == CHOOSE f : f = F(f)
<1>1. N \in Nat
  OBVIOUS
<1>2. MatchEnd(items, unless, i) = f[1][i]
  BY DEF MatchEnd
<1>3. Matches(items, unless, f, 1 .. N + 1)
  <2>1. \A g : Matches(items, unless, g, 1 .. N + 1) <=> g = F(g)
    BY DEF Matches, Matching
  <2> HIDE DEF F, N
  <2>2. Len(items) = N
    BY DEF N
  <2>3. \E g : Matches(items, unless, g, 1 .. N + 1)
    BY <1>1, <2>2, MatchesExist
  <2>4. f = F(f)
    BY <2>1, <2>3
  <2> HIDE DEF f
  <2> QED
    BY <2>1, <2>4
<1> HIDE DEF f, F
<1>4. \A k \in 1 .. N + 1 : f[k] = Matching(items, unless, f, k)
  BY <1>3, Zenon DEF Matches
<1>5. f[N + 1] = Fin(unless)
  <2>1. N + 1 \in 1 .. N + 1 /\ N + 1 > Len(items)
    BY <1>1
  <2> QED
    BY <1>4, <2>1 DEF Matching, Fin
<1>6. ASSUME NEW k \in 1 .. N
      PROVE  f[k] = Before1(items[k], f[k + 1])
  <2>1. k \in 1 .. N + 1 /\ ~(k > Len(items))
    BY <1>1
  <2> QED
    BY <1>4, <2>1 DEF Matching, Before1, Step
<1> QED
  BY <1>2, <1>5, <1>6

\* Of one item, of two and of three.
LEMMA OneItemEnd ==
  ASSUME NEW a1, NEW unless, NEW i \in Nat
  PROVE  MatchEnd(<<a1>>, unless, i) = Step(a1, Fin(unless), i)
<1> DEFINE items == <<a1>>
<1>1. Len(items) = 1 /\ items[1] = a1
  OBVIOUS
<1> HIDE DEF items
<1>2. PICK f : /\ MatchEnd(items, unless, i) = f[1][i]
               /\ f[Len(items) + 1] = Fin(unless)
               /\ \A k \in 1 .. Len(items) : f[k] = Before1(items[k], f[k + 1])
  BY <1>1, MatchEndIs
<1>3. f[2] = Fin(unless) /\ f[1] = Before1(a1, f[2])
  BY <1>1, <1>2
<1> QED
  BY <1>2, <1>3 DEF Before1, items

\* Where a pattern of two items ends,
LEMMA TwoItemsEnd ==
  ASSUME NEW a1, NEW a2, NEW unless, NEW i \in Nat
  PROVE  MatchEnd(<<a1, a2>>, unless, i) = Step(a1, Before1(a2, Fin(unless)), i)
<1> DEFINE items == <<a1, a2>>
<1>1. Len(items) = 2 /\ items[1] = a1 /\ items[2] = a2
  OBVIOUS
<1> HIDE DEF items
<1>2. PICK f : /\ MatchEnd(items, unless, i) = f[1][i]
               /\ f[Len(items) + 1] = Fin(unless)
               /\ \A k \in 1 .. Len(items) : f[k] = Before1(items[k], f[k + 1])
  BY <1>1, MatchEndIs
<1>3. f[3] = Fin(unless) /\ f[2] = Before1(a2, f[3]) /\ f[1] = Before1(a1, f[2])
  BY <1>1, <1>2
<1>4. f[1] = Before1(a1, Before1(a2, Fin(unless)))
  BY <1>3
<1> QED
  BY <1>2, <1>4 DEF Before1, items

\* and one of three.
LEMMA ThreeItemsEnd ==
  ASSUME NEW a1, NEW a2, NEW a3, NEW unless, NEW i \in Nat
  PROVE  MatchEnd(<<a1, a2, a3>>, unless, i) =
           Step(a1, Before1(a2, Before1(a3, Fin(unless))), i)
<1> DEFINE items == <<a1, a2, a3>>
<1>1. Len(items) = 3 /\ items[1] = a1 /\ items[2] = a2 /\ items[3] = a3
  OBVIOUS
<1> HIDE DEF items
<1>2. PICK f : /\ MatchEnd(items, unless, i) = f[1][i]
               /\ f[Len(items) + 1] = Fin(unless)
               /\ \A k \in 1 .. Len(items) : f[k] = Before1(items[k], f[k + 1])
  BY <1>1, MatchEndIs
<1>3. /\ f[4] = Fin(unless) /\ f[3] = Before1(a3, f[4])
      /\ f[2] = Before1(a2, f[3]) /\ f[1] = Before1(a1, f[2])
  BY <1>1, <1>2
<1>4. f[1] = Before1(a1, Before1(a2, Before1(a3, Fin(unless))))
  BY <1>3
<1> QED
  BY <1>2, <1>4 DEF Before1, items

\* The least of two numbers.
LEMMA MinOfTwo ==
  ASSUME NEW a \in Nat, NEW b \in Nat
  PROVE  Min({a, b}) = IF a <= b THEN a ELSE b
<1> DEFINE S == {a, b}
<1>1. S \subseteq Nat /\ S # {} /\ a \in S /\ b \in S /\ (\A y \in S : y = a \/ y = b)
  OBVIOUS
<1> HIDE DEF S
<1>2. Min(S) \in S /\ \A y \in S : Min(S) <= y
  BY <1>1, MinIs
<1>3. Min(S) <= a /\ Min(S) <= b /\ (Min(S) = a \/ Min(S) = b)
  BY <1>1, <1>2
<1>4. Min(S) = IF a <= b THEN a ELSE b
  BY <1>3
<1> QED
  BY <1>4 DEF S

\* An item takes n positions when what follows then matches and would not after more.
LEMMA StepIs ==
  ASSUME NEW c, c.end \in Nat \ {0}, NEW item, IsItem(c, item), NEW g, NEW j \in 1 .. c.end,
         NEW n \in Nat, item.min <= n, n <= item.max, n <= RunEnd(item.set, j) - j,
         g[j + n] # 0,
         \A m \in Nat : (n < m /\ m <= item.max /\ m <= RunEnd(item.set, j) - j) => g[j + m] = 0
  PROVE  Step(item, g, j) = g[j + n]
<1> DEFINE r == RunEnd(item.set, j)
           most == Min({item.max, r - j})
           good == {m \in item.min .. most : g[j + m] # 0}
<1>1. r \in Int /\ j \in Int /\ r - j \in Nat /\ item.max \in Nat /\ item.min \in Nat
  <2>1. r \in j .. c.end
    BY RunIs DEF IsItem
  <2> QED
    BY <2>1 DEF IsItem
<1>2. Step(item, g, j) = IF good = {} THEN 0 ELSE g[j + Max(good)]
  BY DEF Step
<1>3. n <= r - j
  OBVIOUS
<1>4. \A m \in Nat : (n < m /\ m <= item.max /\ m <= r - j) => g[j + m] = 0
  OBVIOUS
<1> HIDE DEF r
<1>5. most \in Nat /\ most = IF item.max <= r - j THEN item.max ELSE r - j
  BY <1>1, MinOfTwo
<1> HIDE DEF most
<1>6. n \in good
  BY <1>1, <1>3, <1>5
<1>7. good \subseteq item.min .. most
  OBVIOUS
<1>8. Max(good) \in good /\ \A y \in good : Max(good) >= y
  <2> HIDE DEF good
  <2>1. item.min \in Int /\ most \in Int /\ good # {}
    BY <1>1, <1>5, <1>6
  <2> QED
    BY <1>7, <2>1, MaxIs
<1> DEFINE q == Max(good)
<1>9. q \in Nat /\ q >= n /\ q <= most /\ g[j + q] # 0
  BY <1>1, <1>5, <1>6, <1>8
<1> HIDE DEF q
<1>10. q = n
  BY <1>1, <1>4, <1>5, <1>9
<1>11. good # {}
  BY <1>6
<1> HIDE DEF good
<1> QED
  BY <1>2, <1>10, <1>11 DEF q

\* It does not match when what follows would not after any number of positions.
LEMMA StepIsNone ==
  ASSUME NEW c, c.end \in Nat \ {0}, NEW item, IsItem(c, item), NEW g, NEW j \in 1 .. c.end,
         \A m \in Nat : (item.min <= m /\ m <= item.max /\ m <= RunEnd(item.set, j) - j) =>
                          g[j + m] = 0
  PROVE  Step(item, g, j) = 0
<1> DEFINE r == RunEnd(item.set, j)
           most == Min({item.max, r - j})
           good == {m \in item.min .. most : g[j + m] # 0}
<1>1. r \in Int /\ j \in Int /\ r - j \in Nat /\ item.max \in Nat /\ item.min \in Nat
  <2>1. r \in j .. c.end
    BY RunIs DEF IsItem
  <2> QED
    BY <2>1 DEF IsItem
<1>2. Step(item, g, j) = IF good = {} THEN 0 ELSE g[j + Max(good)]
  BY DEF Step
<1>4. \A m \in Nat : (item.min <= m /\ m <= item.max /\ m <= r - j) => g[j + m] = 0
  OBVIOUS
<1> HIDE DEF r
<1>5. most \in Nat /\ most = IF item.max <= r - j THEN item.max ELSE r - j
  BY <1>1, MinOfTwo
<1> HIDE DEF most
<1>6. good = {}
  BY <1>1, <1>4, <1>5
<1> HIDE DEF good
<1> QED
  BY <1>2, <1>6

\* What each kind of item matches: one position,
LEMMA OneStep ==
  ASSUME NEW c, c.end \in Nat \ {0}, NEW P, Within(c, P), NEW g, NEW j \in 1 .. c.end
  PROVE  Step(One(P), g, j) = IF j \in P THEN g[j + 1] ELSE 0
<1>1. IsItem(c, One(P)) /\ One(P).set = P /\ One(P).min = 1 /\ One(P).max = 1
  BY ItemsAre DEF One, Item
<1> DEFINE item == One(P)
           r == RunEnd(P, j)
<1> HIDE DEF item
<1>2. item.set = P /\ item.min = 1 /\ item.max = 1 /\ IsItem(c, item)
  BY <1>1 DEF item
<1>3. r \in j .. c.end /\ (j \in P => r > j) /\ (j .. r - 1) \subseteq P
  BY RunIs
<1>4. r \in Int /\ j \in Int
  BY <1>3
<1>5. r > j => j \in P
  <2> SUFFICES ASSUME r > j PROVE j \in P
    OBVIOUS
  <2>1. j \in j .. r - 1
    BY <1>4
  <2> QED
    BY <1>3, <2>1
<1> HIDE DEF r
<1>6. RunEnd(item.set, j) = r
  BY <1>2 DEF r
<1>7. CASE j \in P /\ g[j + 1] # 0
  <2>1. item.min <= 1 /\ 1 <= item.max /\ 1 <= RunEnd(item.set, j) - j
    BY <1>2, <1>3, <1>4, <1>6, <1>7
  <2>2. \A m \in Nat : (1 < m /\ m <= item.max /\ m <= RunEnd(item.set, j) - j) => g[j + m] = 0
    BY <1>2
  <2>3. Step(item, g, j) = g[j + 1]
    BY <1>2, <1>7, <2>1, <2>2, StepIs
  <2> QED
    BY <1>7, <2>3 DEF item
<1>8. CASE ~(j \in P /\ g[j + 1] # 0)
  <2>1. \A m \in Nat : (item.min <= m /\ m <= item.max /\ m <= RunEnd(item.set, j) - j) =>
                          g[j + m] = 0
    <3> SUFFICES ASSUME NEW m \in Nat, item.min <= m, m <= item.max, m <= r - j
                 PROVE  g[j + m] = 0
      BY <1>6
    <3>1. m = 1 /\ r > j
      BY <1>2, <1>4
    <3> QED
      BY <1>5, <1>8, <3>1
  <2>2. Step(item, g, j) = 0
    BY <1>2, <2>1, StepIsNone
  <2> QED
    BY <1>8, <2>2 DEF item
<1> QED
  BY <1>7, <1>8

\* one position or none,
LEMMA OptStep ==
  ASSUME NEW c, c.end \in Nat \ {0}, NEW P, Within(c, P), NEW g, NEW j \in 1 .. c.end
  PROVE  Step(Opt(P), g, j) = IF j \in P /\ g[j + 1] # 0 THEN g[j + 1] ELSE g[j]
<1> DEFINE item == Opt(P)
           r == RunEnd(P, j)
<1>2. item.set = P /\ item.min = 0 /\ item.max = 1 /\ IsItem(c, item)
  BY ItemsAre DEF Opt, Item
<1> HIDE DEF item
<1>3. r \in j .. c.end /\ (j \in P => r > j) /\ (j .. r - 1) \subseteq P
  BY RunIs
<1>4. r \in Int /\ j \in Int /\ r >= j
  BY <1>3
<1>5. r > j => j \in P
  <2> SUFFICES ASSUME r > j PROVE j \in P
    OBVIOUS
  <2>1. j \in j .. r - 1
    BY <1>4
  <2> QED
    BY <1>3, <2>1
<1> HIDE DEF r
<1>6. RunEnd(item.set, j) = r
  BY <1>2 DEF r
<1>7. CASE j \in P /\ g[j + 1] # 0
  <2>1. item.min <= 1 /\ 1 <= item.max /\ 1 <= RunEnd(item.set, j) - j
    BY <1>2, <1>3, <1>4, <1>6, <1>7
  <2>2. \A m \in Nat : (1 < m /\ m <= item.max /\ m <= RunEnd(item.set, j) - j) => g[j + m] = 0
    BY <1>2
  <2>3. Step(item, g, j) = g[j + 1]
    BY <1>2, <1>7, <2>1, <2>2, StepIs
  <2> QED
    BY <1>7, <2>3 DEF item
<1>8. CASE ~(j \in P /\ g[j + 1] # 0)
  <2>0. j + 0 = j
    BY <1>4
  <2>1. ASSUME NEW m \in Nat, 0 < m, m <= item.max, m <= r - j
        PROVE  g[j + m] = 0
    <3>1. m = 1 /\ r > j
      BY <1>2, <1>4, <2>1
    <3> QED
      BY <1>5, <1>8, <3>1
  <2>2. CASE g[j] # 0
    <3>1. item.min <= 0 /\ 0 <= item.max /\ 0 <= RunEnd(item.set, j) - j
      BY <1>2, <1>4, <1>6
    <3>2. \A m \in Nat : (0 < m /\ m <= item.max /\ m <= RunEnd(item.set, j) - j) => g[j + m] = 0
      BY <1>6, <2>1
    <3>3. g[j + 0] # 0
      BY <2>0, <2>2
    <3>4. Step(item, g, j) = g[j + 0]
      BY <1>2, <3>1, <3>2, <3>3, StepIs
    <3> QED
      BY <1>8, <2>0, <3>4 DEF item
  <2>3. CASE g[j] = 0
    <3>1. \A m \in Nat : (item.min <= m /\ m <= item.max /\ m <= RunEnd(item.set, j) - j) =>
                            g[j + m] = 0
      <4> SUFFICES ASSUME NEW m \in Nat, m <= item.max, m <= r - j
                   PROVE  g[j + m] = 0
        BY <1>6
      <4>1. CASE m = 0
        BY <2>0, <2>3, <4>1
      <4>2. CASE m # 0
        BY <2>1, <4>2
      <4> QED
        BY <4>1, <4>2
    <3>2. Step(item, g, j) = 0
      BY <1>2, <3>1, StepIsNone
    <3> QED
      BY <1>8, <2>3, <3>2 DEF item
  <2> QED
    BY <2>2, <2>3
<1> QED
  BY <1>7, <1>8

\* a run that is not empty, and one that may be, when what follows matches after it.
LEMMA PlusStep ==
  ASSUME NEW c, c.end \in Nat \ {0}, NEW P, Within(c, P), NEW g, NEW j \in 1 .. c.end,
         j \in P => g[RunEnd(P, j)] # 0
  PROVE  Step(Plus(P), g, j) = IF j \in P THEN g[RunEnd(P, j)] ELSE 0
<1> DEFINE item == Plus(P)
           r == RunEnd(P, j)
<1>1. r \in j .. c.end /\ (j \in P => r > j) /\ (j .. r - 1) \subseteq P /\ r - j <= Cardinality(P)
  BY RunIs
<1>2. /\ item.set = P /\ item.min = 1 /\ item.max = Cardinality(P) /\ IsItem(c, item)
  BY ItemsAre DEF Plus, Item
<1> HIDE DEF item
<1>3. r \in Int /\ j \in Int /\ r >= j
  BY <1>1
<1>4. r > j => j \in P
  <2> SUFFICES ASSUME r > j PROVE j \in P
    OBVIOUS
  <2>1. j \in j .. r - 1
    BY <1>3
  <2> QED
    BY <1>1, <2>1
<1>5. j \in P => g[r] # 0
  OBVIOUS
<1> HIDE DEF r
<1>6. RunEnd(item.set, j) = r
  BY <1>2 DEF r
<1>7. CASE j \in P
  <2> DEFINE n == r - j
  <2>1. n \in Nat /\ item.min <= n /\ n <= item.max /\ n <= RunEnd(item.set, j) - j /\ j + n = r
    BY <1>1, <1>2, <1>3, <1>6, <1>7
  <2>2. \A m \in Nat : (n < m /\ m <= item.max /\ m <= RunEnd(item.set, j) - j) => g[j + m] = 0
    BY <1>3, <1>6
  <2> HIDE DEF n
  <2>3. Step(item, g, j) = g[j + n]
    BY <1>2, <1>5, <1>7, <2>1, <2>2, StepIs
  <2> QED
    BY <1>7, <2>1, <2>3 DEF item, r
<1>8. CASE j \notin P
  <2>1. \A m \in Nat : (item.min <= m /\ m <= item.max /\ m <= RunEnd(item.set, j) - j) =>
                          g[j + m] = 0
    BY <1>2, <1>3, <1>4, <1>6, <1>8
  <2>2. Step(item, g, j) = 0
    BY <1>2, <2>1, StepIsNone
  <2> QED
    BY <1>8, <2>2 DEF item
<1> QED
  BY <1>7, <1>8

\* A run that may be empty takes all of the run too.
LEMMA StarStep ==
  ASSUME NEW c, c.end \in Nat \ {0}, NEW P, Within(c, P), NEW g, NEW j \in 1 .. c.end,
         g[RunEnd(P, j)] # 0
  PROVE  Step(Star(P), g, j) = g[RunEnd(P, j)]
<1> DEFINE item == Star(P)
           r == RunEnd(P, j)
           n == r - j
<1>1. r \in j .. c.end /\ r - j <= Cardinality(P)
  BY RunIs
<1>2. /\ item.set = P /\ item.min = 0 /\ item.max = Cardinality(P) /\ IsItem(c, item)
  BY ItemsAre DEF Star, Item
<1> HIDE DEF item
<1>3. r \in Int /\ j \in Int /\ r >= j
  BY <1>1
<1>5. g[r] # 0
  OBVIOUS
<1> HIDE DEF r
<1>6. RunEnd(item.set, j) = r
  BY <1>2 DEF r
<1>7. n \in Nat /\ item.min <= n /\ n <= item.max /\ n <= RunEnd(item.set, j) - j /\ j + n = r
  BY <1>1, <1>2, <1>3, <1>6
<1>8. \A m \in Nat : (n < m /\ m <= item.max /\ m <= RunEnd(item.set, j) - j) => g[j + m] = 0
  BY <1>3, <1>6
<1> HIDE DEF n
<1>9. Step(item, g, j) = g[j + n]
  BY <1>2, <1>5, <1>7, <1>8, StepIs
<1> QED
  BY <1>7, <1>9 DEF item, r

\* After the last item every position is the end of the match.
LEMMA FinIs ==
  ASSUME NEW j \in Nat, NEW unless
  PROVE  Fin(unless)[j] = IF j \in unless THEN 0 ELSE j
BY DEF Fin

\* What an item before others gives at a position.
LEMMA Before1Is ==
  ASSUME NEW j \in Nat, NEW item, NEW g
  PROVE  Before1(item, g)[j] = Step(item, g, j)
BY DEF Before1

\* A run at the end of a pattern,
LEMMA LastRun ==
  ASSUME NEW c, c.end \in Nat \ {0}, NEW P, Within(c, P), NEW j \in 1 .. c.end
  PROVE  /\ Step(Plus(P), Fin({}), j) = IF j \in P THEN RunEnd(P, j) ELSE 0
         /\ Step(Star(P), Fin({}), j) = RunEnd(P, j)
         /\ RunEnd(P, j) # 0
<1>1. RunEnd(P, j) \in Nat /\ RunEnd(P, j) # 0
  <2>1. RunEnd(P, j) \in j .. c.end
    BY RunIs
  <2> QED
    BY <2>1
<1>2. Fin({})[RunEnd(P, j)] = RunEnd(P, j)
  BY <1>1, FinIs
<1>3. Step(Plus(P), Fin({}), j) = IF j \in P THEN Fin({})[RunEnd(P, j)] ELSE 0
  BY <1>1, <1>2, PlusStep
<1>4. Step(Star(P), Fin({}), j) = Fin({})[RunEnd(P, j)]
  BY <1>1, <1>2, StarStep
<1> QED
  BY <1>1, <1>2, <1>3, <1>4

\* and one position there.
LEMMA LastOne ==
  ASSUME NEW c, c.end \in Nat \ {0}, NEW P, Within(c, P), NEW j \in 1 .. c.end
  PROVE  Step(One(P), Fin({}), j) = IF j \in P THEN j + 1 ELSE 0
<1>1. j + 1 \in Nat
  OBVIOUS
<1>2. Fin({})[j + 1] = j + 1
  BY <1>1, FinIs
<1>3. Step(One(P), Fin({}), j) = IF j \in P THEN Fin({})[j + 1] ELSE 0
  BY OneStep
<1> QED
  BY <1>2, <1>3

-----------------------------------------------------------------------------
(* Each alternative of a regular expression ends where the rule written for *)
(* it cuts.                                                                 *)

\* A position of the text and the one after it.
LEMMA Here ==
  ASSUME NEW c, Apart(c), NEW i \in 1 .. c.end - 1
  PROVE  /\ c.end \in Nat \ {0} /\ i \in 1 .. c.end /\ i + 1 \in 1 .. c.end
         /\ i \in Nat /\ i + 1 \in Nat /\ i \in c.all /\ IsClasses(c)
<1>1. IsClasses(c)
  BY DEF Apart
<1>2. c.end \in Nat \ {0} /\ i \in 1 .. c.end /\ i + 1 \in 1 .. c.end /\ i \in c.all
  BY <1>1, PositionsAre
<1> QED
  BY <1>1, <1>2

\* Where a rule cuts first, 0 if it does not.
Cut(ends) == IF ends = <<>> THEN 0 ELSE ends[1]

\* A rule that cuts once at most.
Once(ends) == \/ ends = <<>>
              \/ ends # <<>> /\ ends = <<ends[1]>> /\ ends[1] # 0

\* One cut, and none, are rules that cut once at most.
LEMMA OnceIs ==
  ASSUME NEW x, x # 0
  PROVE  Once(<<x>>) /\ Cut(<<x>>) = x /\ Once(<<>>) /\ Cut(<<>>) = 0 /\ <<x>> # <<>>
BY DEF Once, Cut

\* A run with a blank before it or not.
LEMMA SpacedRunEnd ==
  ASSUME NEW c, Apart(c), NEW i \in 1 .. c.end - 1, NEW P, Within(c, P), P \cap c.blanks = {}
  PROVE  /\ MatchEnd(<<Opt(c.blanks), Plus(P)>>, {}, i) = Cut(SpacedRun(c, i, P))
         /\ Once(SpacedRun(c, i, P))
<1> DEFINE g == Before1(Plus(P), Fin({}))
<1>1. /\ c.end \in Nat \ {0} /\ i \in 1 .. c.end /\ i + 1 \in 1 .. c.end /\ i \in Nat
      /\ i + 1 \in Nat /\ Within(c, c.blanks)
  BY Here, SetsAreWithin
<1>2. ASSUME NEW l \in 1 .. c.end
      PROVE  g[l] = (IF l \in P THEN RunEnd(P, l) ELSE 0) /\ RunEnd(P, l) # 0
  BY <1>1, LastRun, Before1Is
<1>3. MatchEnd(<<Opt(c.blanks), Plus(P)>>, {}, i) = Step(Opt(c.blanks), g, i)
  BY <1>1, TwoItemsEnd
<1> HIDE DEF g
<1>4. Step(Opt(c.blanks), g, i) = IF i \in c.blanks /\ g[i + 1] # 0 THEN g[i + 1] ELSE g[i]
  BY <1>1, OptStep
<1>5. SpacedRun(c, i, P) =
        IF i \in c.blanks THEN IF i + 1 \in P THEN <<RunEnd(P, i + 1)>> ELSE <<>>
        ELSE IF i \in P THEN <<RunEnd(P, i)>> ELSE <<>>
  BY DEF SpacedRun, Skip
<1>6. i \in c.blanks => i \notin P
  OBVIOUS
<1>7. /\ g[i] = (IF i \in P THEN RunEnd(P, i) ELSE 0) /\ RunEnd(P, i) # 0
      /\ g[i + 1] = (IF i + 1 \in P THEN RunEnd(P, i + 1) ELSE 0) /\ RunEnd(P, i + 1) # 0
  BY <1>1, <1>2
<1>8. /\ Once(<<RunEnd(P, i)>>) /\ Cut(<<RunEnd(P, i)>>) = RunEnd(P, i)
      /\ Once(<<RunEnd(P, i + 1)>>) /\ Cut(<<RunEnd(P, i + 1)>>) = RunEnd(P, i + 1)
      /\ Once(<<>>) /\ Cut(<<>>) = 0
  BY <1>7, OnceIs
<1> QED
  BY <1>3, <1>4, <1>5, <1>6, <1>7, <1>8

\* A run with one character before it.
LEMMA PrefixedRunEnd ==
  ASSUME NEW c, Apart(c), NEW i \in 1 .. c.end - 1, NEW P, Within(c, P),
         c.letters \subseteq P, P \cap (c.breaks \cup c.numbers) = {},
         NEW before, before = c.all \ (c.breaks \cup c.letters \cup c.numbers)
  PROVE  /\ MatchEnd(<<Opt(before), Plus(P)>>, {}, i) = Cut(PrefixedRun(c, i, P))
         /\ Once(PrefixedRun(c, i, P))
<1> DEFINE g == Before1(Plus(P), Fin({}))
<1>1. /\ c.end \in Nat \ {0} /\ i \in 1 .. c.end /\ i + 1 \in 1 .. c.end /\ i \in Nat
      /\ i + 1 \in Nat /\ i \in c.all /\ Within(c, before)
  BY Here, SetsAreWithin DEF Within
<1>2. ASSUME NEW l \in 1 .. c.end
      PROVE  g[l] = (IF l \in P THEN RunEnd(P, l) ELSE 0) /\ RunEnd(P, l) # 0
  BY <1>1, LastRun, Before1Is
<1>3. MatchEnd(<<Opt(before), Plus(P)>>, {}, i) = Step(Opt(before), g, i)
  BY <1>1, TwoItemsEnd
<1> HIDE DEF g
<1>4. Step(Opt(before), g, i) = IF i \in before /\ g[i + 1] # 0 THEN g[i + 1] ELSE g[i]
  BY <1>1, OptStep
<1>5. PrefixedRun(c, i, P) =
        IF i \notin c.breaks \cup c.numbers /\ (i \in P \/ i + 1 \in P)
        THEN <<RunEnd(P, i + 1)>> ELSE <<>>
  BY DEF PrefixedRun
<1>6. i \in P => i \notin c.breaks \cup c.numbers
  OBVIOUS
<1>7. i \notin P => (i \in before <=> i \notin c.breaks \cup c.numbers)
  BY <1>1
<1>8. /\ g[i] = (IF i \in P THEN RunEnd(P, i) ELSE 0) /\ RunEnd(P, i) # 0
      /\ g[i + 1] = (IF i + 1 \in P THEN RunEnd(P, i + 1) ELSE 0) /\ RunEnd(P, i + 1) # 0
  BY <1>1, <1>2
<1>9. i \in P => RunEnd(P, i) = RunEnd(P, i + 1)
  <2> SUFFICES ASSUME i \in P PROVE RunEnd(P, i + 1) = RunEnd(P, i)
    OBVIOUS
  <2> DEFINE r == RunEnd(P, i)
  <2>1. r \in i .. c.end /\ r > i /\ (i .. r - 1) \subseteq P /\ r \notin P
    BY <1>1, RunIs
  <2> HIDE DEF r
  <2>2. r \in Int /\ r >= i + 1 /\ (i + 1 .. r - 1) \subseteq P
    BY <1>1, <2>1
  <2>3. RunEnd(P, i + 1) = r
    BY <1>1, <2>1, <2>2, RunIsOne
  <2> QED
    BY <2>3 DEF r
<1>10. /\ Once(<<RunEnd(P, i + 1)>>) /\ Cut(<<RunEnd(P, i + 1)>>) = RunEnd(P, i + 1)
       /\ Once(<<>>) /\ Cut(<<>>) = 0
  BY <1>8, OnceIs
<1>11. CASE i \in P
  BY <1>3, <1>4, <1>5, <1>6, <1>8, <1>9, <1>10, <1>11
<1>12. CASE i \notin P
  BY <1>3, <1>4, <1>5, <1>7, <1>8, <1>10, <1>12
<1> QED
  BY <1>11, <1>12

\* One digit.
LEMMA DigitEnd ==
  ASSUME NEW c, Apart(c), NEW i \in 1 .. c.end - 1
  PROVE  /\ MatchEnd(<<One(c.numbers)>>, {}, i) = Cut(Digit(c, i))
         /\ Once(Digit(c, i))
<1>1. /\ c.end \in Nat \ {0} /\ i \in 1 .. c.end /\ i \in Nat /\ Within(c, c.numbers)
  BY Here, SetsAreWithin
<1>2. MatchEnd(<<One(c.numbers)>>, {}, i) = IF i \in c.numbers THEN i + 1 ELSE 0
  BY <1>1, OneItemEnd, LastOne
<1>3. Once(<<i + 1>>) /\ Cut(<<i + 1>>) = i + 1 /\ Once(<<>>) /\ Cut(<<>>) = 0
  <2>1. i + 1 # 0
    BY <1>1
  <2> QED
    BY <2>1, OnceIs
<1> QED
  BY <1>2, <1>3 DEF Digit

\* Three digits at most.
LEMMA ThreeDigitsEnd ==
  ASSUME NEW c, Apart(c), NEW i \in 1 .. c.end - 1, NEW r, r = RunEnd(c.numbers, i)
  PROVE  MatchEnd(<<Item(c.numbers, 1, 3)>>, {}, i) =
           IF i \notin c.numbers THEN 0 ELSE IF i + 3 <= r THEN i + 3 ELSE r
<1> DEFINE item == Item(c.numbers, 1, 3)
           g == Fin({})
<1>1. /\ c.end \in Nat \ {0} /\ i \in 1 .. c.end /\ i \in Nat /\ Within(c, c.numbers)
  BY Here, SetsAreWithin
<1>2. r \in i .. c.end /\ (i \in c.numbers => r > i) /\ (i .. r - 1) \subseteq c.numbers
  BY <1>1, RunIs
<1>3. r \in Nat
  BY <1>1, <1>2
<1>4. r > i => i \in c.numbers
  <2> SUFFICES ASSUME r > i PROVE i \in c.numbers
    OBVIOUS
  <2>1. i \in i .. r - 1
    BY <1>1, <1>3
  <2> QED
    BY <1>2, <2>1
<1>5. item.set = c.numbers /\ item.min = 1 /\ item.max = 3 /\ IsItem(c, item)
  BY <1>1 DEF Item, IsItem
<1>6. MatchEnd(<<item>>, {}, i) = Step(item, g, i)
  BY <1>1, OneItemEnd
<1>7. \A l \in Nat : g[l] = l
  BY FinIs
<1> HIDE DEF item, g
<1>8. RunEnd(item.set, i) = r
  BY <1>5
<1>9. CASE i \in c.numbers
  <2> DEFINE n == IF i + 3 <= r THEN 3 ELSE r - i
  <2>1. n \in Nat /\ item.min <= n /\ n <= item.max /\ n <= RunEnd(item.set, i) - i
    BY <1>1, <1>2, <1>3, <1>5, <1>8, <1>9
  <2>2. \A m \in Nat : (n < m /\ m <= item.max /\ m <= RunEnd(item.set, i) - i) => g[i + m] = 0
    BY <1>1, <1>3, <1>5, <1>8
  <2>3. i + n = (IF i + 3 <= r THEN i + 3 ELSE r) /\ i + n \in Nat /\ i + n # 0
    BY <1>1, <1>2, <1>3
  <2> HIDE DEF n
  <2>4. g[i + n] = i + n /\ g[i + n] # 0
    BY <1>7, <2>3
  <2>5. Step(item, g, i) = g[i + n]
    BY <1>1, <1>5, <2>1, <2>2, <2>4, StepIs
  <2> QED
    BY <1>6, <1>9, <2>3, <2>4, <2>5 DEF item
<1>10. CASE i \notin c.numbers
  <2>1. \A m \in Nat : (item.min <= m /\ m <= item.max /\ m <= RunEnd(item.set, i) - i) =>
                          g[i + m] = 0
    BY <1>1, <1>3, <1>2, <1>4, <1>5, <1>8, <1>10
  <2>2. Step(item, g, i) = 0
    BY <1>1, <1>5, <2>1, StepIsNone
  <2> QED
    BY <1>6, <1>10, <2>2 DEF item
<1> QED
  BY <1>9, <1>10

\* Symbols and line breaks: the rule also takes a blank at the end of the text.
LEMMA SymbolsEnd ==
  ASSUME NEW c, Apart(c), NEW i \in 1 .. c.end - 1, NEW P, Within(c, P), P \cap c.blanks = {}
  PROVE  /\ MatchEnd(<<Opt(c.blanks), Plus(P), Star(c.breaks)>>, {}, i) =
              IF Skip(c, i) \in P THEN Cut(SymbolsAndBreaks(c, i, P)) ELSE 0
         /\ Once(SymbolsAndBreaks(c, i, P))
         /\ Skip(c, i) \notin P =>
              SymbolsAndBreaks(c, i, P) = IF Skip(c, i) = c.end THEN <<c.end>> ELSE <<>>
<1> DEFINE g3 == Before1(Star(c.breaks), Fin({}))
           g2 == Before1(Plus(P), g3)
           s == Skip(c, i)
           End(l) == RunEnd(c.breaks, RunEnd(P, l))
<1>1. /\ c.end \in Nat \ {0} /\ i \in 1 .. c.end /\ i + 1 \in 1 .. c.end /\ i \in Nat
      /\ i + 1 \in Nat /\ Within(c, c.blanks) /\ Within(c, c.breaks)
  BY Here, SetsAreWithin
<1>2. ASSUME NEW l \in 1 .. c.end
      PROVE  g3[l] = RunEnd(c.breaks, l) /\ RunEnd(c.breaks, l) # 0
  BY <1>1, LastRun, Before1Is
<1>3. ASSUME NEW l \in 1 .. c.end
      PROVE  g2[l] = (IF l \in P THEN End(l) ELSE 0) /\ End(l) # 0
  <2>1. RunEnd(P, l) \in l .. c.end
    BY <1>1, RunIs
  <2>2. RunEnd(P, l) \in 1 .. c.end
    BY <1>1, <2>1
  <2>3. g3[RunEnd(P, l)] = End(l) /\ End(l) # 0
    BY <1>2, <2>2
  <2> HIDE DEF g3
  <2>4. Step(Plus(P), g3, l) = IF l \in P THEN g3[RunEnd(P, l)] ELSE 0
    BY <1>1, <2>3, PlusStep
  <2>5. g2[l] = Step(Plus(P), g3, l)
    BY Before1Is
  <2> QED
    BY <2>3, <2>4, <2>5
<1>4. MatchEnd(<<Opt(c.blanks), Plus(P), Star(c.breaks)>>, {}, i) = Step(Opt(c.blanks), g2, i)
  BY <1>1, ThreeItemsEnd
<1> HIDE DEF g2, g3
<1>5. Step(Opt(c.blanks), g2, i) = IF i \in c.blanks /\ g2[i + 1] # 0 THEN g2[i + 1] ELSE g2[i]
  BY <1>1, OptStep
<1>6. SymbolsAndBreaks(c, i, P) = IF s \in P \cup {c.end} THEN <<End(s)>> ELSE <<>>
  BY DEF SymbolsAndBreaks
<1>7. s = (IF i \in c.blanks THEN i + 1 ELSE i) /\ s \in 1 .. c.end
  BY <1>1 DEF Skip
<1> HIDE DEF s, End
<1>8. i \in c.blanks => i \notin P
  OBVIOUS
<1>9. /\ g2[i] = (IF i \in P THEN End(i) ELSE 0) /\ g2[i + 1] = (IF i + 1 \in P THEN End(i + 1) ELSE 0)
      /\ End(i) # 0 /\ End(i + 1) # 0 /\ End(s) # 0
  BY <1>1, <1>3, <1>7
<1>10. Step(Opt(c.blanks), g2, i) = IF s \in P THEN End(s) ELSE 0
  <2>1. CASE i \in c.blanks
    BY <1>5, <1>7, <1>8, <1>9, <2>1
  <2>2. CASE i \notin c.blanks
    BY <1>5, <1>7, <1>9, <2>2
  <2> QED
    BY <2>1, <2>2
<1>11. Once(<<End(s)>>) /\ Cut(<<End(s)>>) = End(s) /\ Once(<<>>)
  BY <1>9, OnceIs
<1>12. s = c.end => End(s) = c.end
  <2> SUFFICES ASSUME s = c.end PROVE RunEnd(c.breaks, RunEnd(P, c.end)) = c.end
    BY DEF End
  <2>0. c.end \in 1 .. c.end
    BY <1>1
  <2>1. RunEnd(P, c.end) \in c.end .. c.end
    BY <1>1, <2>0, RunIs
  <2>2. RunEnd(P, c.end) = c.end
    BY <1>1, <2>1
  <2>3. RunEnd(c.breaks, c.end) \in c.end .. c.end
    BY <1>1, <2>0, RunIs
  <2> QED
    BY <1>1, <2>2, <2>3
<1> QED
  BY <1>4, <1>6, <1>10, <1>11, <1>12 DEF s

\* White space up to its last line break.
LEMMA BreaksEnd ==
  ASSUME NEW c, Apart(c), NEW i \in 1 .. c.end - 1
  PROVE  /\ MatchEnd(<<Star(c.spaces), Plus(c.breaks)>>, {}, i) = Cut(Breaks(c, i))
         /\ Once(Breaks(c, i))
<1> DEFINE g == Before1(Plus(c.breaks), Fin({}))
           item == Star(c.spaces)
           r == RunEnd(c.spaces, i)
           R == c.breaks \cap (i .. r - 1)
           m == Max(R)
<1>1. /\ c.end \in Nat \ {0} /\ i \in 1 .. c.end /\ i \in Nat
      /\ Within(c, c.spaces) /\ Within(c, c.breaks) /\ c.breaks \subseteq c.spaces
  BY Here, SetsAreWithin DEF Apart
<1>2. ASSUME NEW l \in 1 .. c.end
      PROVE  g[l] = (IF l \in c.breaks THEN RunEnd(c.breaks, l) ELSE 0) /\ RunEnd(c.breaks, l) # 0
  BY <1>1, LastRun, Before1Is
<1>3. MatchEnd(<<item, Plus(c.breaks)>>, {}, i) = Step(item, g, i)
  BY <1>1, TwoItemsEnd
<1>4. /\ r \in i .. c.end /\ (i .. r - 1) \subseteq c.spaces /\ r \notin c.spaces
      /\ r - i <= Cardinality(c.spaces)
  BY <1>1, RunIs
<1>5. /\ item.set = c.spaces /\ item.min = 0 /\ item.max = Cardinality(c.spaces)
      /\ IsItem(c, item)
  BY <1>1, ItemsAre DEF Star, Item
<1> HIDE DEF item, g
<1>6. RunEnd(item.set, i) = r
  BY <1>5
<1>7. Breaks(c, i) = IF R = {} THEN <<>> ELSE <<m + 1>>
  BY DEF Breaks
<1> HIDE DEF r
<1>8. r \in Nat /\ i <= r /\ r <= c.end /\ r \notin c.breaks
  BY <1>1, <1>4
<1>9. \A n \in Nat : n <= r - i /\ i + n \notin R => g[i + n] = 0
  <2> SUFFICES ASSUME NEW n \in Nat, n <= r - i, i + n \notin R PROVE g[i + n] = 0
    OBVIOUS
  <2>1. i + n \in 1 .. c.end /\ i + n \in i .. r
    BY <1>1, <1>8
  <2>2. i + n \notin c.breaks
    <3>1. CASE i + n = r
      BY <1>8, <3>1
    <3>2. CASE i + n # r
      <4>1. i + n \in i .. r - 1
        BY <1>1, <1>8, <2>1, <3>2
      <4> QED
        BY <4>1
    <3> QED
      BY <3>1, <3>2
  <2> QED
    BY <1>2, <2>1, <2>2
<1>10. CASE R = {}
  <2>1. \A n \in Nat : (item.min <= n /\ n <= item.max /\ n <= RunEnd(item.set, i) - i) => g[i + n] = 0
    BY <1>6, <1>9, <1>10
  <2>2. Step(item, g, i) = 0
    BY <1>1, <1>5, <2>1, StepIsNone
  <2>3. Once(<<>>) /\ Cut(<<>>) = 0
    BY DEF Once, Cut
  <2> QED
    BY <1>3, <1>7, <1>10, <2>2, <2>3 DEF item
<1>11. CASE R # {}
  <2>1. m \in R /\ \A y \in R : m >= y
    <3>1. R \subseteq i .. r - 1 /\ i \in Int /\ r - 1 \in Int
      BY <1>1, <1>8
    <3> HIDE DEF R
    <3> QED
      BY <1>11, <3>1, MaxIs
  <2> HIDE DEF m
  <2>2. m \in Nat /\ i <= m /\ m < r /\ m \in c.breaks /\ m \in 1 .. c.end
    BY <1>1, <1>8, <2>1
  <2>3. RunEnd(c.breaks, m) = m + 1
    <3>1. m + 1 \notin c.breaks
      <4>1. CASE m + 1 = r
        BY <1>8, <4>1
      <4>2. CASE m + 1 # r
        <5>1. m + 1 \in i .. r - 1 /\ m + 1 \notin R
          BY <1>1, <1>8, <2>1, <2>2, <4>2
        <5> QED
          BY <5>1
      <4> QED
        BY <4>1, <4>2
    <3>2. (m .. (m + 1) - 1) \subseteq c.breaks /\ m + 1 \in Int /\ m + 1 >= m
      BY <2>2
    <3> QED
      BY <1>1, <2>2, <3>1, <3>2, RunIsOne
  <2>4. g[m] = m + 1 /\ m + 1 # 0
    BY <1>2, <2>2, <2>3
  <2> DEFINE n == m - i
  <2>5. n \in Nat /\ i + n = m /\ n <= r - i /\ item.min <= n /\ n <= item.max
    <3>1. Cardinality(c.spaces) \in Nat
      BY <1>1, RunIs
    <3> QED
      BY <1>1, <1>4, <1>5, <1>8, <2>2, <3>1
  <2>6. \A k \in Nat : (n < k /\ k <= item.max /\ k <= RunEnd(item.set, i) - i) => g[i + k] = 0
    <3> SUFFICES ASSUME NEW k \in Nat, n < k, k <= r - i PROVE g[i + k] = 0
      BY <1>6
    <3>1. i + k > m
      BY <1>1, <2>2
    <3>2. i + k \notin R
      BY <2>1, <2>2, <3>1
    <3> QED
      BY <1>9, <3>2
  <2> HIDE DEF n, R
  <2>7. Step(item, g, i) = g[i + n]
    BY <1>1, <1>5, <1>6, <2>4, <2>5, <2>6, StepIs
  <2>8. Once(<<m + 1>>) /\ Cut(<<m + 1>>) = m + 1
    BY <2>4, OnceIs
  <2>9. Step(item, g, i) = m + 1
    BY <2>4, <2>5, <2>7
  <2> QED
    BY <1>3, <1>7, <1>11, <2>8, <2>9 DEF item
<1> QED
  BY <1>10, <1>11

\* White space before a word, and the rest of it.
LEMMA SpacesEnd ==
  ASSUME NEW c, Apart(c), NEW i \in 1 .. c.end - 1, NEW r, r = RunEnd(c.spaces, i)
  PROVE  /\ MatchEnd(<<Plus(c.spaces)>>, {}, i) = Cut(Spaces(c, i))
         /\ Once(Spaces(c, i)) /\ Once(SpacesBefore(c, i))
         /\ MatchEnd(<<Plus(c.spaces)>>, c.all \ c.spaces, i) =
              IF i \in c.spaces /\ r = c.end THEN Cut(Spaces(c, i)) ELSE Cut(SpacesBefore(c, i))
         /\ (i \in c.spaces /\ r = c.end) => SpacesBefore(c, i) = <<>>
         /\ i \in c.spaces => Spaces(c, i) # <<>>
         /\ (i \in c.spaces /\ r # c.end /\ SpacesBefore(c, i) = <<>>) => Spaces(c, i) = <<i + 1>>
<1> DEFINE S == c.spaces
           unless == c.all \ S
           g == Fin(unless)
           item == Plus(S)
<1>1. /\ c.end \in Nat \ {0} /\ i \in 1 .. c.end /\ i \in Nat
      /\ Within(c, S) /\ c.all = 1 .. c.end - 1
  BY Here, SetsAreWithin
<1>2. /\ r \in i .. c.end /\ (i .. r - 1) \subseteq S /\ r \notin S /\ (i \in S => r > i)
      /\ r - i <= Cardinality(S) /\ Cardinality(S) \in Nat
  BY <1>1, RunIs
<1>3. r \in Nat /\ r # 0 /\ i <= r /\ r <= c.end
  BY <1>1, <1>2
<1>4. r > i => i \in S
  <2> SUFFICES ASSUME r > i PROVE i \in S
    OBVIOUS
  <2>1. i \in i .. r - 1
    BY <1>1, <1>3
  <2> QED
    BY <1>2, <2>1
<1>5. Spaces(c, i) = IF i \in S THEN <<r>> ELSE <<>>
  BY DEF Spaces
<1>6. SpacesBefore(c, i) = IF r > i + 1 /\ r # c.end THEN <<r - 1>> ELSE <<>>
  BY DEF SpacesBefore
<1>7. /\ Once(<<r>>) /\ Cut(<<r>>) = r /\ Once(<<>>) /\ Cut(<<>>) = 0 /\ <<r>> # <<>>
  BY <1>3, OnceIs
<1>8. r > i + 1 => Once(<<r - 1>>) /\ Cut(<<r - 1>>) = r - 1 /\ <<r - 1>> # <<>>
  <2>1. r > i + 1 => r - 1 # 0
    BY <1>1, <1>3
  <2> QED
    BY <2>1, OnceIs
<1>9. MatchEnd(<<Plus(S)>>, {}, i) = IF i \in S THEN r ELSE 0
  BY <1>1, OneItemEnd, LastRun
<1>10. MatchEnd(<<Plus(S)>>, unless, i) = Step(item, g, i)
  BY <1>1, OneItemEnd
<1>11. \A l \in Nat : g[l] = IF l \in unless THEN 0 ELSE l
  BY FinIs
<1>12. item.set = S /\ item.min = 1 /\ item.max = Cardinality(S) /\ IsItem(c, item)
  BY <1>1, ItemsAre DEF Plus, Item
<1> HIDE DEF g, item
<1>13. RunEnd(item.set, i) = r
  BY <1>12
<1>14. CASE r = c.end
  <2>1. g[r] = r
    BY <1>1, <1>3, <1>11, <1>14
  <2>2. Step(item, g, i) = IF i \in S THEN g[r] ELSE 0
    <3>1. i \in S => g[RunEnd(S, i)] # 0
      BY <1>3, <2>1
    <3> QED
      BY <1>1, <3>1, PlusStep DEF item
  <2>3. Step(item, g, i) = IF i \in S THEN r ELSE 0
    BY <2>1, <2>2
  <2> QED
    BY <1>3, <1>4, <1>5, <1>6, <1>7, <1>9, <1>10, <1>14, <2>3
<1>15. CASE r # c.end /\ r > i + 1
  <2>1. g[r] = 0
    BY <1>1, <1>2, <1>3, <1>11, <1>15
  <2> DEFINE n == (r - 1) - i
  <2>2. n \in Nat /\ n >= 1 /\ i + n = r - 1 /\ n <= r - i /\ n <= Cardinality(S)
    BY <1>1, <1>2, <1>3, <1>15
  <2>3. r - 1 \in S /\ r - 1 \in Nat /\ r - 1 # 0
    <3>1. r - 1 \in i .. r - 1
      BY <1>1, <1>3, <1>15
    <3> QED
      BY <1>1, <1>2, <1>3, <1>15, <3>1
  <2>4. g[r - 1] = r - 1
    BY <1>11, <2>3
  <2>5. \A k \in Nat : (n < k /\ k <= item.max /\ k <= RunEnd(item.set, i) - i) => g[i + k] = 0
    <3> SUFFICES ASSUME NEW k \in Nat, n < k, k <= r - i PROVE g[i + k] = 0
      BY <1>13
    <3>1. i + k = r
      BY <1>1, <1>3
    <3> QED
      BY <2>1, <3>1
  <2> HIDE DEF n
  <2>6. item.min <= n /\ n <= item.max /\ n <= RunEnd(item.set, i) - i /\ g[i + n] # 0
    BY <1>12, <1>13, <2>2, <2>3, <2>4
  <2>7. Step(item, g, i) = g[i + n]
    BY <1>1, <1>12, <2>2, <2>5, <2>6, StepIs
  <2>8. Step(item, g, i) = r - 1
    BY <2>2, <2>4, <2>7
  <2> QED
    BY <1>3, <1>4, <1>5, <1>6, <1>7, <1>8, <1>9, <1>10, <1>15, <2>8
<1>16. CASE r # c.end /\ ~(r > i + 1)
  <2>1. \A k \in Nat : (item.min <= k /\ k <= item.max /\ k <= RunEnd(item.set, i) - i) => g[i + k] = 0
    <3> SUFFICES ASSUME NEW k \in Nat, 1 <= k, k <= r - i PROVE g[i + k] = 0
      BY <1>12, <1>13
    <3>1. i + k = r
      BY <1>1, <1>3, <1>16
    <3>2. r \in unless
      BY <1>1, <1>2, <1>3, <1>16
    <3> QED
      BY <1>3, <1>11, <3>1, <3>2
  <2>2. Step(item, g, i) = 0
    BY <1>1, <1>12, <2>1, StepIsNone
  <2>3. i \in S => r = i + 1
    BY <1>1, <1>2, <1>3, <1>16
  <2> QED
    BY <1>5, <1>6, <1>7, <1>9, <1>10, <1>16, <2>2, <2>3
<1> QED
  BY <1>14, <1>15, <1>16

\* A line, or the breaks between two.
LEMMA LinesEnd ==
  ASSUME NEW c, Apart(c), NEW i \in 1 .. c.end - 1
  PROVE  /\ Cut(Lines(c, i)) = IF i \in c.lines THEN MatchEnd(<<Plus(c.lines)>>, {}, i)
                               ELSE MatchEnd(<<Plus(c.all \ c.lines)>>, {}, i)
         /\ MatchEnd(<<Plus(c.lines)>>, {}, i) # 0 <=> i \in c.lines
         /\ MatchEnd(<<Plus(c.all \ c.lines)>>, {}, i) # 0 <=> i \notin c.lines
         /\ Once(Lines(c, i)) /\ Lines(c, i) # <<>>
<1>1. /\ c.end \in Nat \ {0} /\ i \in 1 .. c.end /\ i \in Nat /\ i \in c.all
      /\ Within(c, c.lines) /\ Within(c, c.all \ c.lines)
  BY Here, SetsAreWithin
<1> DEFINE P == c.lines
           Q == c.all \ c.lines
<1>2. i \in Q <=> i \notin P
  BY <1>1
<1>3. Lines(c, i) = <<IF i \in P THEN RunEnd(P, i) ELSE RunEnd(Q, i)>>
  BY DEF Lines
<1> HIDE DEF P, Q
<1>4. Within(c, P) /\ Within(c, Q)
  BY <1>1 DEF P, Q
<1>5. /\ MatchEnd(<<Plus(P)>>, {}, i) = (IF i \in P THEN RunEnd(P, i) ELSE 0)
      /\ MatchEnd(<<Plus(Q)>>, {}, i) = (IF i \in Q THEN RunEnd(Q, i) ELSE 0)
      /\ RunEnd(P, i) # 0 /\ RunEnd(Q, i) # 0
  BY <1>1, <1>4, OneItemEnd, LastRun
<1> DEFINE x == IF i \in P THEN RunEnd(P, i) ELSE RunEnd(Q, i)
<1>6. x # 0
  BY <1>5
<1>7. Once(<<x>>) /\ Cut(<<x>>) = x /\ <<x>> # <<>>
  BY <1>6, OnceIs
<1>8. Lines(c, i) = <<x>>
  BY <1>3
<1>9. x = IF i \in P THEN RunEnd(P, i) ELSE RunEnd(Q, i)
  OBVIOUS
<1> HIDE DEF x
<1> QED
  BY <1>2, <1>5, <1>7, <1>8, <1>9 DEF P, Q

-----------------------------------------------------------------------------
(* The first alternative that matches.                                      *)

\* Where it ends, 0 if none matches.
FirstEnd(alternatives, i) ==
  LET ends == [k \in DOMAIN alternatives |->
                 MatchEnd(alternatives[k].items, alternatives[k].unless, i)]
      matching == {k \in DOMAIN ends : ends[k] # 0}
  IN IF matching = {} THEN 0 ELSE ends[Min(matching)]

\* Where the k-th ends.
EndOf(alternatives, k, i) == MatchEnd(alternatives[k].items, alternatives[k].unless, i)

\* The alternatives before the first that matches match nothing.
LEMMA FirstEndIs ==
  ASSUME NEW alts, NEW n \in Nat, DOMAIN alts = 1 .. n, NEW i
  PROVE  /\ \A k \in 1 .. n : (/\ EndOf(alts, k, i) # 0
                               /\ \A j \in 1 .. n : j < k => EndOf(alts, j, i) = 0) =>
                                FirstEnd(alts, i) = EndOf(alts, k, i)
         /\ FirstEnd(alts, i) = 0 <=> \A k \in 1 .. n : EndOf(alts, k, i) = 0
         /\ FirstEnd(alts, i) # 0 => \E k \in 1 .. n :
              /\ EndOf(alts, k, i) # 0 /\ FirstEnd(alts, i) = EndOf(alts, k, i)
              /\ \A j \in 1 .. n : j < k => EndOf(alts, j, i) = 0
<1> DEFINE ends == [k \in DOMAIN alts |-> EndOf(alts, k, i)]
           matching == {k \in DOMAIN ends : ends[k] # 0}
<1>1. FirstEnd(alts, i) = IF matching = {} THEN 0 ELSE ends[Min(matching)]
  BY DEF FirstEnd, EndOf
<1>2. \A k : k \in matching <=> k \in 1 .. n /\ EndOf(alts, k, i) # 0
  OBVIOUS
<1>3. \A k \in 1 .. n : ends[k] = EndOf(alts, k, i)
  OBVIOUS
<1> HIDE DEF ends, matching
<1>4. matching \subseteq Nat
  BY <1>2
<1>5. matching # {} => Min(matching) \in matching /\ \A y \in matching : Min(matching) <= y
  BY <1>4, MinIs
<1> DEFINE q == Min(matching)
<1>6. matching # {} => q \in 1 .. n /\ EndOf(alts, q, i) # 0 /\ (\A y \in matching : q <= y)
                       /\ FirstEnd(alts, i) = EndOf(alts, q, i)
  BY <1>1, <1>2, <1>3, <1>5
<1> HIDE DEF q
<1>7. ASSUME NEW k \in 1 .. n, EndOf(alts, k, i) # 0,
             \A j \in 1 .. n : j < k => EndOf(alts, j, i) = 0
      PROVE  FirstEnd(alts, i) = EndOf(alts, k, i)
  <2>1. k \in matching
    BY <1>2, <1>7
  <2>2. q <= k /\ q \in 1 .. n /\ EndOf(alts, q, i) # 0
    BY <1>6, <2>1
  <2>3. q = k
    BY <1>7, <2>2
  <2> QED
    BY <1>6, <2>1, <2>3
<1>8. FirstEnd(alts, i) = 0 <=> \A k \in 1 .. n : EndOf(alts, k, i) = 0
  BY <1>1, <1>2, <1>6
<1>9. ASSUME FirstEnd(alts, i) # 0
      PROVE  \E k \in 1 .. n :
              /\ EndOf(alts, k, i) # 0 /\ FirstEnd(alts, i) = EndOf(alts, k, i)
              /\ \A j \in 1 .. n : j < k => EndOf(alts, j, i) = 0
  <2>1. matching # {}
    BY <1>1, <1>9
  <2>2. \A j \in 1 .. n : j < q => EndOf(alts, j, i) = 0
    BY <1>2, <1>6, <2>1
  <2> QED
    BY <1>6, <2>1, <2>2
<1> QED
  BY <1>7, <1>8, <1>9

\* It is the first that matches, and else the next position.
LEMMA FirstMatchIs ==
  ASSUME NEW alts, NEW n \in Nat, DOMAIN alts = 1 .. n, NEW i
  PROVE  FirstMatch(alts, i) = IF FirstEnd(alts, i) = 0 THEN i + 1 ELSE FirstEnd(alts, i)
<1> DEFINE ends == [k \in DOMAIN alts |-> MatchEnd(alts[k].items, alts[k].unless, i)]
           matching == {k \in DOMAIN ends : ends[k] # 0}
<1>1. FirstEnd(alts, i) = IF matching = {} THEN 0 ELSE ends[Min(matching)]
  BY DEF FirstEnd
<1>2. FirstMatch(alts, i) = IF matching = {} THEN i + 1 ELSE ends[Min(matching)]
  BY DEF FirstMatch
<1>3. matching # {} => ends[Min(matching)] # 0
  <2>1. matching \subseteq Nat
    OBVIOUS
  <2>2. \A k \in matching : ends[k] # 0
    OBVIOUS
  <2> HIDE DEF matching, ends
  <2>3. matching # {} => Min(matching) \in matching
    BY <2>1, MinIs
  <2> QED
    BY <2>2, <2>3
<1> HIDE DEF matching, ends
<1> QED
  BY <1>1, <1>2, <1>3

\* Of alternatives and others after them.
LEMMA FirstOfBoth ==
  ASSUME NEW X, NEW A \in Seq(X), NEW B \in Seq(X), NEW i
  PROVE  FirstEnd(A \o B, i) = IF FirstEnd(A, i) # 0 THEN FirstEnd(A, i) ELSE FirstEnd(B, i)
<1> DEFINE C == A \o B
           a == Len(A)
           b == Len(B)
<1>1. /\ a \in Nat /\ b \in Nat /\ DOMAIN A = 1 .. a /\ DOMAIN B = 1 .. b
      /\ DOMAIN C = 1 .. a + b
      /\ \A k \in 1 .. a + b : C[k] = IF k <= a THEN A[k] ELSE B[k - a]
  OBVIOUS
<1> HIDE DEF C, a, b
<1>2. \A k \in 1 .. a : EndOf(C, k, i) = EndOf(A, k, i)
  BY <1>1 DEF EndOf
<1>3. ASSUME NEW k \in 1 .. b, NEW l \in 1 .. a + b, l = a + k
      PROVE  EndOf(C, l, i) = EndOf(B, k, i)
  <2>1. ~(l <= a) /\ l - a = k
    BY <1>1, <1>3
  <2> QED
    BY <1>1, <2>1 DEF EndOf
<1>4. CASE FirstEnd(A, i) # 0
  <2>1. PICK k \in 1 .. a :
              /\ EndOf(A, k, i) # 0 /\ FirstEnd(A, i) = EndOf(A, k, i)
              /\ \A j \in 1 .. a : j < k => EndOf(A, j, i) = 0
    BY <1>1, <1>4, FirstEndIs
  <2>2. k \in 1 .. a + b /\ EndOf(C, k, i) # 0 /\ EndOf(C, k, i) = EndOf(A, k, i)
    BY <1>1, <1>2, <2>1
  <2>3. \A j \in 1 .. a + b : j < k => EndOf(C, j, i) = 0
    BY <1>1, <1>2, <2>1
  <2>4. a + b \in Nat
    BY <1>1
  <2>5. FirstEnd(C, i) = EndOf(C, k, i)
    BY <1>1, <2>2, <2>3, <2>4, FirstEndIs
  <2> QED
    BY <1>4, <2>1, <2>2, <2>5 DEF C
<1>5. CASE FirstEnd(A, i) = 0
  <2>1. \A k \in 1 .. a : EndOf(A, k, i) = 0
    BY <1>1, <1>5, FirstEndIs
  <2>2. \A k \in 1 .. a : EndOf(C, k, i) = 0
    BY <1>2, <2>1
  <2>3. a + b \in Nat
    BY <1>1
  <2>4. CASE FirstEnd(B, i) # 0
    <3>1. PICK k \in 1 .. b :
              /\ EndOf(B, k, i) # 0 /\ FirstEnd(B, i) = EndOf(B, k, i)
              /\ \A j \in 1 .. b : j < k => EndOf(B, j, i) = 0
      BY <1>1, <2>4, FirstEndIs
    <3> DEFINE l == a + k
    <3>2. l \in 1 .. a + b /\ l = a + k
      BY <1>1
    <3> HIDE DEF l
    <3>3. EndOf(C, l, i) = EndOf(B, k, i)
      BY <1>3, <3>2
    <3>4. ASSUME NEW j \in 1 .. a + b, j < l
          PROVE  EndOf(C, j, i) = 0
      <4>1. CASE j <= a
        BY <1>1, <2>2, <4>1
      <4>2. CASE ~(j <= a)
        <5> DEFINE m == j - a
        <5>1. m \in 1 .. b /\ j = a + m /\ m < k
          BY <1>1, <3>2, <3>4, <4>2
        <5> HIDE DEF m
        <5>2. EndOf(C, j, i) = EndOf(B, m, i)
          BY <1>3, <5>1
        <5> QED
          BY <3>1, <5>1, <5>2
      <4> QED
        BY <4>1, <4>2
    <3>5. FirstEnd(C, i) = EndOf(C, l, i)
      BY <1>1, <2>3, <3>1, <3>2, <3>3, <3>4, FirstEndIs
    <3> QED
      BY <1>5, <3>1, <3>3, <3>5 DEF C
  <2>5. CASE FirstEnd(B, i) = 0
    <3>1. \A k \in 1 .. b : EndOf(B, k, i) = 0
      BY <1>1, <2>5, FirstEndIs
    <3>2. ASSUME NEW j \in 1 .. a + b
          PROVE  EndOf(C, j, i) = 0
      <4>1. CASE j <= a
        BY <1>1, <2>2, <4>1
      <4>2. CASE ~(j <= a)
        <5> DEFINE m == j - a
        <5>1. m \in 1 .. b /\ j = a + m
          BY <1>1, <4>2
        <5> HIDE DEF m
        <5> QED
          BY <1>3, <3>1, <5>1
      <4> QED
        BY <4>1, <4>2
    <3>3. FirstEnd(C, i) = 0
      BY <1>1, <2>3, <3>2, FirstEndIs
    <3> QED
      BY <1>5, <2>5, <3>3 DEF C
  <2> QED
    BY <2>4, <2>5
<1> QED
  BY <1>4, <1>5

\* The alternatives of patterns that nothing must not follow.
LEMMA PatternsAre ==
  ASSUME NEW T, NEW R \in Seq(T), NEW i
  PROVE  /\ Patterns(R) \in Seq({[items |-> p, unless |-> {}] : p \in T})
         /\ Len(R) \in Nat /\ DOMAIN Patterns(R) = 1 .. Len(R)
         /\ \A k \in 1 .. Len(R) : EndOf(Patterns(R), k, i) = MatchEnd(R[k], {}, i)
<1> DEFINE n == Len(R)
           A == {[items |-> p, unless |-> {}] : p \in T}
           patterns == [k \in DOMAIN R |-> [items |-> R[k], unless |-> {}]]
<1>1. n \in Nat /\ DOMAIN R = 1 .. n /\ \A k \in 1 .. n : R[k] \in T
  OBVIOUS
<1>2. Patterns(R) = patterns
  BY DEF Patterns
<1> HIDE DEF n
<1>3. patterns = [k \in 1 .. n |-> patterns[k]] /\ \A k \in 1 .. n : patterns[k] \in A
  BY <1>1
<1>4. \A k \in 1 .. n : EndOf(patterns, k, i) = MatchEnd(R[k], {}, i)
  BY <1>1 DEF EndOf
<1> HIDE DEF A, patterns
<1>5. patterns \in Seq(A) /\ Len(patterns) = n
  BY <1>1, <1>3, FunctionIsSequence
<1>6. DOMAIN patterns = 1 .. n
  BY <1>3
<1> QED
  BY <1>1, <1>2, <1>4, <1>5, <1>6 DEF A, n

\* Alternatives written in two lists.
LEMMA PatternsJoin ==
  ASSUME NEW T, NEW R \in Seq(T), NEW Q \in Seq(T)
  PROVE  Patterns(R \o Q) = Patterns(R) \o Patterns(Q)
<1> DEFINE C == R \o Q
           a == Len(R)
           b == Len(Q)
           x == Patterns(R)
           y == Patterns(Q)
           z == Patterns(C)
<1>1. /\ a \in Nat /\ b \in Nat /\ DOMAIN R = 1 .. a /\ DOMAIN Q = 1 .. b
      /\ DOMAIN C = 1 .. a + b
      /\ \A k \in 1 .. a + b : C[k] = IF k <= a THEN R[k] ELSE Q[k - a]
  OBVIOUS
<1> HIDE DEF C, a, b
<1>2. /\ x = [k \in 1 .. a |-> [items |-> R[k], unless |-> {}]]
      /\ y = [k \in 1 .. b |-> [items |-> Q[k], unless |-> {}]]
      /\ z = [k \in 1 .. a + b |-> [items |-> C[k], unless |-> {}]]
  BY <1>1 DEF Patterns
<1> DEFINE A == {[items |-> p, unless |-> {}] : p \in T}
<1>3. x \in Seq(A) /\ y \in Seq(A) /\ DOMAIN x = 1 .. a /\ DOMAIN y = 1 .. b
  BY PatternsAre DEF a, b
<1> HIDE DEF A, x, y, z
<1>4. Len(x) = a /\ Len(y) = b
  BY <1>1, <1>3
<1>5. /\ x \o y \in Seq(A) /\ Len(x \o y) = a + b
      /\ \A k \in 1 .. a + b : (x \o y)[k] = IF k <= a THEN x[k] ELSE y[k - a]
  BY ONLY <1>3, <1>4, ConcatProperties
<1>6. \A k \in 1 .. a + b : (x \o y)[k] = [items |-> C[k], unless |-> {}]
  <2> SUFFICES ASSUME NEW k \in 1 .. a + b
               PROVE  (x \o y)[k] = [items |-> C[k], unless |-> {}]
    OBVIOUS
  <2>1. CASE k <= a
    <3>1. k \in 1 .. a
      BY <1>1, <2>1
    <3> QED
      BY <1>1, <1>2, <1>5, <2>1, <3>1
  <2>2. CASE ~(k <= a)
    <3>1. k - a \in 1 .. b
      BY <1>1, <2>2
    <3> QED
      BY <1>1, <1>2, <1>5, <2>2, <3>1
  <2> QED
    BY <2>1, <2>2
<1>7. z \in Seq(A) /\ Len(z) = a + b
  <2>1. R \o Q \in Seq(T) /\ Len(R \o Q) = a + b
    BY ConcatProperties DEF a, b
  <2>2. z \in Seq(A) /\ DOMAIN z = 1 .. a + b
    BY <2>1, PatternsAre DEF A, z, C
  <2> QED
    BY <1>1, <2>2
<1>8. x \o y = z
  <2>1. \A k \in 1 .. a + b : (x \o y)[k] = z[k]
    BY <1>2, <1>6
  <2> QED
    BY <1>5, <1>7, <2>1, SeqEqual
<1> QED
  BY <1>8 DEF x, y, z, C

\* The first of one pattern,
LEMMA OnePattern ==
  ASSUME NEW q1, NEW i
  PROVE  FirstEnd(Patterns(<<q1>>), i) = MatchEnd(q1, {}, i)
<1> DEFINE R == <<q1>>
           T == {q1}
           P == Patterns(R)
<1>1. R \in Seq(T) /\ Len(R) = 1 /\ R[1] = q1
  OBVIOUS
<1> HIDE DEF R, T
<1>2. DOMAIN P = 1 .. 1 /\ \A k \in 1 .. 1 : EndOf(P, k, i) = MatchEnd(R[k], {}, i)
  BY <1>1, PatternsAre
<1> HIDE DEF P
<1>3. EndOf(P, 1, i) = MatchEnd(q1, {}, i) /\ \A j \in 1 .. 1 : j = 1
  BY <1>1, <1>2
<1>4. /\ FirstEnd(P, i) = 0 <=> \A k \in 1 .. 1 : EndOf(P, k, i) = 0
      /\ FirstEnd(P, i) # 0 => \E k \in 1 .. 1 : FirstEnd(P, i) = EndOf(P, k, i)
  BY <1>2, FirstEndIs
<1>5. FirstEnd(P, i) = EndOf(P, 1, i)
  BY <1>3, <1>4
<1> QED
  BY <1>3, <1>5 DEF P, R

\* of three,
LEMMA ThreePatterns ==
  ASSUME NEW q1, NEW q2, NEW q3, NEW i
  PROVE  FirstEnd(Patterns(<<q1, q2, q3>>), i) =
           IF MatchEnd(q1, {}, i) # 0 THEN MatchEnd(q1, {}, i)
           ELSE IF MatchEnd(q2, {}, i) # 0 THEN MatchEnd(q2, {}, i)
           ELSE MatchEnd(q3, {}, i)
<1> DEFINE R == <<q1, q2, q3>>
           T == {q1, q2, q3}
           P == Patterns(R)
<1>1. R \in Seq(T) /\ Len(R) = 3 /\ R[1] = q1 /\ R[2] = q2 /\ R[3] = q3
  OBVIOUS
<1> HIDE DEF R, T
<1>0. DOMAIN P = 1 .. 3 /\ \A k \in 1 .. 3 : EndOf(P, k, i) = MatchEnd(R[k], {}, i)
  BY <1>1, PatternsAre
<1> HIDE DEF P
<1>2. /\ EndOf(P, 1, i) = MatchEnd(q1, {}, i) /\ EndOf(P, 2, i) = MatchEnd(q2, {}, i)
      /\ EndOf(P, 3, i) = MatchEnd(q3, {}, i)
  BY <1>0, <1>1
<1>3. /\ \A j \in 1 .. 3 : j = 1 \/ j = 2 \/ j = 3
      /\ \A k \in 1 .. 3 : (/\ EndOf(P, k, i) # 0
                            /\ \A j \in 1 .. 3 : j < k => EndOf(P, j, i) = 0) =>
                             FirstEnd(P, i) = EndOf(P, k, i)
      /\ FirstEnd(P, i) = 0 <=> \A k \in 1 .. 3 : EndOf(P, k, i) = 0
  <2>1. \A j \in 1 .. 3 : j = 1 \/ j = 2 \/ j = 3
    OBVIOUS
  <2>2. 3 \in Nat
    OBVIOUS
  <2> QED
    BY ONLY <1>0, <2>1, <2>2, FirstEndIs
<1>4. CASE EndOf(P, 1, i) # 0
  <2>1. FirstEnd(P, i) = EndOf(P, 1, i)
    BY <1>3, <1>4
  <2> QED
    BY <1>2, <1>4, <2>1 DEF P, R
<1>5. CASE EndOf(P, 1, i) = 0 /\ EndOf(P, 2, i) # 0
  <2>1. FirstEnd(P, i) = EndOf(P, 2, i)
    BY <1>3, <1>5
  <2> QED
    BY <1>2, <1>5, <2>1 DEF P, R
<1>6. CASE EndOf(P, 1, i) = 0 /\ EndOf(P, 2, i) = 0 /\ EndOf(P, 3, i) # 0
  <2>1. FirstEnd(P, i) = EndOf(P, 3, i)
    BY <1>3, <1>6
  <2> QED
    BY <1>2, <1>6, <2>1 DEF P, R
<1>7. CASE EndOf(P, 1, i) = 0 /\ EndOf(P, 2, i) = 0 /\ EndOf(P, 3, i) = 0
  <2>1. \A j \in 1 .. 3 : EndOf(P, j, i) = 0
    BY <1>3, <1>7
  <2>2. FirstEnd(P, i) = 0
    BY <1>3, <2>1
  <2> QED
    BY <1>2, <1>7, <2>2 DEF P, R
<1> QED
  BY <1>4, <1>5, <1>6, <1>7

\* of seven no two of which match.
LEMMA SevenPatterns ==
  ASSUME NEW q1, NEW q2, NEW q3, NEW q4, NEW q5, NEW q6, NEW q7, NEW i, NEW x,
         x = 0 => /\ MatchEnd(q1, {}, i) = 0 /\ MatchEnd(q2, {}, i) = 0
                  /\ MatchEnd(q3, {}, i) = 0 /\ MatchEnd(q4, {}, i) = 0
                  /\ MatchEnd(q5, {}, i) = 0 /\ MatchEnd(q6, {}, i) = 0
                  /\ MatchEnd(q7, {}, i) = 0,
         x # 0 => \/ MatchEnd(q1, {}, i) = x \/ MatchEnd(q2, {}, i) = x
                  \/ MatchEnd(q3, {}, i) = x \/ MatchEnd(q4, {}, i) = x
                  \/ MatchEnd(q5, {}, i) = x \/ MatchEnd(q6, {}, i) = x
                  \/ MatchEnd(q7, {}, i) = x,
         x # 0 => /\ MatchEnd(q1, {}, i) \in {0, x} /\ MatchEnd(q2, {}, i) \in {0, x}
                  /\ MatchEnd(q3, {}, i) \in {0, x} /\ MatchEnd(q4, {}, i) \in {0, x}
                  /\ MatchEnd(q5, {}, i) \in {0, x} /\ MatchEnd(q6, {}, i) \in {0, x}
                  /\ MatchEnd(q7, {}, i) \in {0, x}
  PROVE  FirstEnd(Patterns(<<q1, q2, q3, q4, q5, q6, q7>>), i) = x
<1> DEFINE R == <<q1, q2, q3, q4, q5, q6, q7>>
           T == {q1, q2, q3, q4, q5, q6, q7}
           P == Patterns(R)
<1>1. /\ R \in Seq(T) /\ Len(R) = 7 /\ R[1] = q1 /\ R[2] = q2 /\ R[3] = q3 /\ R[4] = q4
      /\ R[5] = q5 /\ R[6] = q6 /\ R[7] = q7
  OBVIOUS
<1> HIDE DEF R, T
<1>2. DOMAIN P = 1 .. 7 /\ \A k \in 1 .. 7 : EndOf(P, k, i) = MatchEnd(R[k], {}, i)
  BY <1>1, PatternsAre
<1>3. \A j \in 1 .. 7 : j = 1 \/ j = 2 \/ j = 3 \/ j = 4 \/ j = 5 \/ j = 6 \/ j = 7
  OBVIOUS
<1> HIDE DEF P
<1>4. CASE x = 0
  <2>1. \A k \in 1 .. 7 : EndOf(P, k, i) = 0
    BY <1>1, <1>2, <1>3, <1>4
  <2>2. FirstEnd(P, i) = 0
    BY <1>2, <2>1, FirstEndIs
  <2> QED
    BY <1>4, <2>2 DEF P, R
<1>5. CASE x # 0
  <2>1. \A k \in 1 .. 7 : EndOf(P, k, i) \in {0, x}
    BY <1>1, <1>2, <1>3, <1>5
  <2>2. \E k \in 1 .. 7 : EndOf(P, k, i) = x
    BY <1>1, <1>2, <1>5
  <2>3. FirstEnd(P, i) # 0
    BY <1>2, <1>5, <2>2, FirstEndIs
  <2>4. \E k \in 1 .. 7 : EndOf(P, k, i) # 0 /\ FirstEnd(P, i) = EndOf(P, k, i)
    BY <1>2, <2>3, FirstEndIs
  <2>5. FirstEnd(P, i) = x
    BY <2>1, <2>4
  <2> QED
    BY <2>5 DEF P, R
<1> QED
  BY <1>4, <1>5

\* Two characters, and three.
LEMMA TwoCharacters ==
  ASSUME NEW c, Apart(c), NEW i \in 1 .. c.end - 1,
         NEW Q, Within(c, Q), NEW A, Within(c, A)
  PROVE  MatchEnd(<<One(Q), One(A)>>, {}, i) = IF i \in Q /\ i + 1 \in A THEN i + 2 ELSE 0
<1> DEFINE g == Before1(One(A), Fin({}))
<1>1. c.end \in Nat \ {0} /\ i \in 1 .. c.end /\ i + 1 \in 1 .. c.end /\ i \in Nat /\ i + 1 \in Nat
  BY Here
<1>2. MatchEnd(<<One(Q), One(A)>>, {}, i) = Step(One(Q), g, i)
  BY <1>1, TwoItemsEnd
<1>3. g[i + 1] = IF i + 1 \in A THEN (i + 1) + 1 ELSE 0
  BY <1>1, LastOne, Before1Is
<1> HIDE DEF g
<1>4. Step(One(Q), g, i) = IF i \in Q THEN g[i + 1] ELSE 0
  BY <1>1, OneStep
<1> QED
  BY <1>1, <1>2, <1>3, <1>4

\* and three characters of their own.
LEMMA ThreeCharacters ==
  ASSUME NEW c, Apart(c), NEW i \in 1 .. c.end - 1,
         NEW Q, Within(c, Q), NEW A, Within(c, A), NEW B, Within(c, B)
  PROVE  MatchEnd(<<One(Q), One(A), One(B)>>, {}, i) =
           IF i \in Q /\ i + 1 \in A /\ i + 2 \in B THEN i + 3 ELSE 0
<1> DEFINE h == Before1(One(B), Fin({}))
           g == Before1(One(A), h)
<1>1. c.end \in Nat \ {0} /\ i \in 1 .. c.end /\ i + 1 \in 1 .. c.end /\ i \in Nat /\ i + 1 \in Nat
  BY Here
<1>2. MatchEnd(<<One(Q), One(A), One(B)>>, {}, i) = Step(One(Q), g, i)
  BY <1>1, ThreeItemsEnd
<1>3. i + 1 \in A => h[i + 2] = IF i + 2 \in B THEN (i + 2) + 1 ELSE 0
  <2> SUFFICES ASSUME i + 1 \in A PROVE h[i + 2] = IF i + 2 \in B THEN (i + 2) + 1 ELSE 0
    OBVIOUS
  <2>1. i + 2 \in 1 .. c.end /\ i + 2 \in Nat
    BY <1>1 DEF Within
  <2> QED
    BY <1>1, <2>1, LastOne, Before1Is
<1> HIDE DEF h
<1>4. Step(One(A), h, i + 1) = IF i + 1 \in A THEN h[(i + 1) + 1] ELSE 0
  BY <1>1, OneStep
<1>5. g[i + 1] = Step(One(A), h, i + 1)
  BY <1>1, Before1Is
<1> HIDE DEF g
<1>6. Step(One(Q), g, i) = IF i \in Q THEN g[i + 1] ELSE 0
  BY <1>1, OneStep
<1>7. (i + 1) + 1 = i + 2 /\ (i + 2) + 1 = i + 3
  BY <1>1
<1> QED
  BY <1>2, <1>3, <1>4, <1>5, <1>6, <1>7

\* The contractions.
LEMMA ContractionEnd ==
  ASSUME NEW c, Apart(c), NEW i \in 1 .. c.end - 1, NEW fold \in BOOLEAN
  PROVE  /\ FirstEnd(Patterns(Contracted(c, fold)), i) = Cut(Contraction(c, i, fold))
         /\ Once(Contraction(c, i, fold))
         /\ c.text[i] # Quote => Contraction(c, i, fold) = <<>>
<1> DEFINE letter(l) == Character(c, IF fold THEN {l, l - 32} ELSE {l})
           Q == Character(c, {Quote})
           at(k) == IF i + k \notin c.all THEN 0
                    ELSE IF fold THEN ToLower(c.text[i + k]) ELSE c.text[i + k]
           a1 == at(1)
           a2 == at(2)
           x == Cut(Contraction(c, i, fold))
<1>1. /\ c.end \in Nat \ {0} /\ i \in 1 .. c.end /\ i + 1 \in 1 .. c.end /\ i \in Nat /\ i + 1 \in Nat
      /\ i \in c.all /\ c.all = 1 .. c.end - 1
  BY Here, SetsAreWithin
<1>2. ASSUME NEW l \in SuffixLetters
      PROVE  /\ Within(c, letter(l))
             /\ i + 1 \in letter(l) <=> a1 = l
             /\ i + 2 \in letter(l) <=> a2 = l
  <2>1. l # 0
    BY DEF SuffixLetters
  <2>2. \A y : ToLower(y) = l <=> y \in {l, l - 32}
    BY ToLowerIs
  <2>3. \A k : k \in letter(l) <=> k \in c.all /\ (IF fold THEN ToLower(c.text[k]) = l ELSE c.text[k] = l)
    BY <2>2 DEF Character
  <2>4. letter(l) \subseteq c.all
    BY DEF Character
  <2> HIDE DEF letter
  <2> QED
    BY <1>1, <2>1, <2>3, <2>4 DEF Within
<1>3. Within(c, Q) /\ (i \in Q <=> c.text[i] = Quote)
  BY <1>1 DEF Character, Within
<1>4. /\ \h73 \in SuffixLetters /\ \h74 \in SuffixLetters /\ \h72 \in SuffixLetters /\ \h65 \in SuffixLetters
      /\ \h76 \in SuffixLetters /\ \h6D \in SuffixLetters /\ \h6C \in SuffixLetters /\ \h64 \in SuffixLetters
  BY DEF SuffixLetters
<1>5. Contraction(c, i, fold) =
        IF c.text[i] # Quote THEN <<>>
        ELSE IF a1 \in {\h73, \h74, \h6D, \h64} THEN <<i + 2>>
        ELSE IF <<a1, a2>> \in {<<\h72, \h65>>, <<\h76, \h65>>, <<\h6C, \h6C>>} THEN <<i + 3>>
        ELSE <<>>
  BY <1>1 DEF Contraction
<1>6. Contracted(c, fold) =
        << <<One(Q), One(letter(\h73))>>, <<One(Q), One(letter(\h74))>>,
           <<One(Q), One(letter(\h72)), One(letter(\h65))>>,
           <<One(Q), One(letter(\h76)), One(letter(\h65))>>, <<One(Q), One(letter(\h6D))>>,
           <<One(Q), One(letter(\h6C)), One(letter(\h6C))>>, <<One(Q), One(letter(\h64))>> >>
  BY DEF Contracted
<1> HIDE DEF letter, Q, a1, a2
<1>7. /\ MatchEnd(<<One(Q), One(letter(\h73))>>, {}, i) = (IF i \in Q /\ a1 = \h73 THEN i + 2 ELSE 0)
      /\ MatchEnd(<<One(Q), One(letter(\h74))>>, {}, i) = (IF i \in Q /\ a1 = \h74 THEN i + 2 ELSE 0)
      /\ MatchEnd(<<One(Q), One(letter(\h6D))>>, {}, i) = (IF i \in Q /\ a1 = \h6D THEN i + 2 ELSE 0)
      /\ MatchEnd(<<One(Q), One(letter(\h64))>>, {}, i) = (IF i \in Q /\ a1 = \h64 THEN i + 2 ELSE 0)
  <2>1. ASSUME NEW l \in SuffixLetters
        PROVE  MatchEnd(<<One(Q), One(letter(l))>>, {}, i) = IF i \in Q /\ a1 = l THEN i + 2 ELSE 0
    <3>1. MatchEnd(<<One(Q), One(letter(l))>>, {}, i) =
            IF i \in Q /\ i + 1 \in letter(l) THEN i + 2 ELSE 0
      BY <1>2, <1>3, TwoCharacters
    <3> QED
      BY <1>2, <3>1
  <2> QED
    BY <1>4, <2>1
<1>8. /\ MatchEnd(<<One(Q), One(letter(\h72)), One(letter(\h65))>>, {}, i) =
           (IF i \in Q /\ a1 = \h72 /\ a2 = \h65 THEN i + 3 ELSE 0)
      /\ MatchEnd(<<One(Q), One(letter(\h76)), One(letter(\h65))>>, {}, i) =
           (IF i \in Q /\ a1 = \h76 /\ a2 = \h65 THEN i + 3 ELSE 0)
      /\ MatchEnd(<<One(Q), One(letter(\h6C)), One(letter(\h6C))>>, {}, i) =
           (IF i \in Q /\ a1 = \h6C /\ a2 = \h6C THEN i + 3 ELSE 0)
  <2>1. ASSUME NEW l \in SuffixLetters, NEW m \in SuffixLetters
        PROVE  MatchEnd(<<One(Q), One(letter(l)), One(letter(m))>>, {}, i) =
                 IF i \in Q /\ a1 = l /\ a2 = m THEN i + 3 ELSE 0
    <3>1. MatchEnd(<<One(Q), One(letter(l)), One(letter(m))>>, {}, i) =
            IF i \in Q /\ i + 1 \in letter(l) /\ i + 2 \in letter(m) THEN i + 3 ELSE 0
      BY <1>2, <1>3, ThreeCharacters
    <3> QED
      BY <1>2, <3>1
  <2> QED
    BY <1>4, <2>1
<1>9. /\ i + 2 # 0 /\ i + 3 # 0
      /\ Once(<<i + 2>>) /\ Cut(<<i + 2>>) = i + 2 /\ Once(<<i + 3>>) /\ Cut(<<i + 3>>) = i + 3
      /\ Once(<<>>) /\ Cut(<<>>) = 0
  <2>1. i + 2 # 0 /\ i + 3 # 0
    BY <1>1
  <2> QED
    BY <2>1, OnceIs
<1>10. x = IF i \notin Q THEN 0
           ELSE IF a1 = \h73 \/ a1 = \h74 \/ a1 = \h6D \/ a1 = \h64 THEN i + 2
           ELSE IF \/ a1 = \h72 /\ a2 = \h65
                   \/ a1 = \h76 /\ a2 = \h65
                   \/ a1 = \h6C /\ a2 = \h6C THEN i + 3
           ELSE 0
  <2>1. <<a1, a2>> \in {<<\h72, \h65>>, <<\h76, \h65>>, <<\h6C, \h6C>>} <=>
          \/ a1 = \h72 /\ a2 = \h65
          \/ a1 = \h76 /\ a2 = \h65
          \/ a1 = \h6C /\ a2 = \h6C
    OBVIOUS
  <2> QED
    BY <1>3, <1>5, <1>9, <2>1
<1>11. Once(Contraction(c, i, fold)) /\ (c.text[i] # Quote => Contraction(c, i, fold) = <<>>)
  BY <1>5, <1>9
<1> HIDE DEF x
<1> DEFINE q1 == <<One(Q), One(letter(\h73))>>
           q2 == <<One(Q), One(letter(\h74))>>
           q3 == <<One(Q), One(letter(\h72)), One(letter(\h65))>>
           q4 == <<One(Q), One(letter(\h76)), One(letter(\h65))>>
           q5 == <<One(Q), One(letter(\h6D))>>
           q6 == <<One(Q), One(letter(\h6C)), One(letter(\h6C))>>
           q7 == <<One(Q), One(letter(\h64))>>
<1>12. /\ MatchEnd(q1, {}, i) = (IF i \in Q /\ a1 = \h73 THEN i + 2 ELSE 0)
       /\ MatchEnd(q2, {}, i) = (IF i \in Q /\ a1 = \h74 THEN i + 2 ELSE 0)
       /\ MatchEnd(q3, {}, i) = (IF i \in Q /\ a1 = \h72 /\ a2 = \h65 THEN i + 3 ELSE 0)
       /\ MatchEnd(q4, {}, i) = (IF i \in Q /\ a1 = \h76 /\ a2 = \h65 THEN i + 3 ELSE 0)
       /\ MatchEnd(q5, {}, i) = (IF i \in Q /\ a1 = \h6D THEN i + 2 ELSE 0)
       /\ MatchEnd(q6, {}, i) = (IF i \in Q /\ a1 = \h6C /\ a2 = \h6C THEN i + 3 ELSE 0)
       /\ MatchEnd(q7, {}, i) = (IF i \in Q /\ a1 = \h64 THEN i + 2 ELSE 0)
  BY <1>7, <1>8
<1>13. Contracted(c, fold) = <<q1, q2, q3, q4, q5, q6, q7>>
  BY <1>6
<1> HIDE DEF q1, q2, q3, q4, q5, q6, q7
<1>14. x = 0 => /\ MatchEnd(q1, {}, i) = 0 /\ MatchEnd(q2, {}, i) = 0
                /\ MatchEnd(q3, {}, i) = 0 /\ MatchEnd(q4, {}, i) = 0
                /\ MatchEnd(q5, {}, i) = 0 /\ MatchEnd(q6, {}, i) = 0
                /\ MatchEnd(q7, {}, i) = 0
  BY <1>9, <1>10, <1>12
<1>15. x # 0 => \/ MatchEnd(q1, {}, i) = x \/ MatchEnd(q2, {}, i) = x
                \/ MatchEnd(q3, {}, i) = x \/ MatchEnd(q4, {}, i) = x
                \/ MatchEnd(q5, {}, i) = x \/ MatchEnd(q6, {}, i) = x
                \/ MatchEnd(q7, {}, i) = x
  BY <1>9, <1>10, <1>12
<1>16. x # 0 => /\ MatchEnd(q1, {}, i) \in {0, x} /\ MatchEnd(q2, {}, i) \in {0, x}
                /\ MatchEnd(q3, {}, i) \in {0, x} /\ MatchEnd(q4, {}, i) \in {0, x}
                /\ MatchEnd(q5, {}, i) \in {0, x} /\ MatchEnd(q6, {}, i) \in {0, x}
                /\ MatchEnd(q7, {}, i) \in {0, x}
  BY <1>9, <1>10, <1>12
<1>17. FirstEnd(Patterns(<<q1, q2, q3, q4, q5, q6, q7>>), i) = x
  BY <1>14, <1>15, <1>16, SevenPatterns
<1> QED
  BY <1>11, <1>13, <1>17 DEF x

-----------------------------------------------------------------------------
(* The first rule that matches, and the alternatives of each expression.    *)

\* The cuts of the first rule that makes any, the next position else.
FirstRule(rules, i) ==
  LET matching == {k \in DOMAIN rules : rules[k] # <<>>}
  IN IF matching = {} THEN <<i + 1>> ELSE rules[Min(matching)]

\* The rules before the first that applies cut nothing.
LEMMA FirstRuleIs ==
  ASSUME NEW rules, NEW n \in Nat, DOMAIN rules = 1 .. n, NEW i
  PROVE  /\ \A k \in 1 .. n : (/\ rules[k] # <<>>
                               /\ \A j \in 1 .. n : j < k => rules[j] = <<>>) =>
                                FirstRule(rules, i) = rules[k]
         /\ (\A k \in 1 .. n : rules[k] = <<>>) => FirstRule(rules, i) = <<i + 1>>
<1> DEFINE matching == {k \in DOMAIN rules : rules[k] # <<>>}
<1>1. FirstRule(rules, i) = IF matching = {} THEN <<i + 1>> ELSE rules[Min(matching)]
  BY DEF FirstRule
<1>2. \A k : k \in matching <=> k \in 1 .. n /\ rules[k] # <<>>
  OBVIOUS
<1> HIDE DEF matching
<1>3. matching \subseteq Nat
  BY <1>2
<1>4. matching # {} => Min(matching) \in matching /\ \A y \in matching : Min(matching) <= y
  BY <1>3, MinIs
<1> DEFINE q == Min(matching)
<1>5. matching # {} => q \in 1 .. n /\ rules[q] # <<>> /\ (\A y \in matching : q <= y)
                       /\ FirstRule(rules, i) = rules[q]
  BY <1>1, <1>2, <1>4
<1> HIDE DEF q
<1>6. ASSUME NEW k \in 1 .. n, rules[k] # <<>>,
             \A j \in 1 .. n : j < k => rules[j] = <<>>
      PROVE  FirstRule(rules, i) = rules[k]
  <2>1. k \in matching
    BY <1>2, <1>6
  <2>2. q <= k /\ q \in 1 .. n /\ rules[q] # <<>>
    BY <1>5, <2>1
  <2>3. q = k
    BY <1>6, <2>2
  <2> QED
    BY <1>5, <2>1, <2>3
<1> QED
  BY <1>1, <1>2, <1>6

\* Of six rules, and of seven.
OfSix(a1, a2, a3, a4, a5, a6, i) ==
  IF a1 # <<>> THEN a1 ELSE IF a2 # <<>> THEN a2 ELSE IF a3 # <<>> THEN a3
  ELSE IF a4 # <<>> THEN a4 ELSE IF a5 # <<>> THEN a5 ELSE IF a6 # <<>> THEN a6
  ELSE <<i + 1>>

OfSeven(a1, a2, a3, a4, a5, a6, a7, i) ==
  IF a1 # <<>> THEN a1 ELSE IF a2 # <<>> THEN a2 ELSE IF a3 # <<>> THEN a3
  ELSE IF a4 # <<>> THEN a4 ELSE IF a5 # <<>> THEN a5 ELSE IF a6 # <<>> THEN a6
  ELSE IF a7 # <<>> THEN a7 ELSE <<i + 1>>

\* The first of six rules
LEMMA FirstOfSix ==
  ASSUME NEW i, NEW a1, NEW a2, NEW a3, NEW a4, NEW a5, NEW a6
  PROVE  FirstRule(<<a1, a2, a3, a4, a5, a6>>, i) = OfSix(a1, a2, a3, a4, a5, a6, i)
<1> DEFINE R == <<a1, a2, a3, a4, a5, a6>>
<1>1. /\ DOMAIN R = 1 .. 6 /\ R[1] = a1 /\ R[2] = a2 /\ R[3] = a3 /\ R[4] = a4 /\ R[5] = a5 /\ R[6] = a6
      /\ 6 \in Nat
  OBVIOUS
<1>2. \A j \in 1 .. 6 : j = 1 \/ j = 2 \/ j = 3 \/ j = 4 \/ j = 5 \/ j = 6
  OBVIOUS
<1> HIDE DEF R
<1>3. /\ \A k \in 1 .. 6 : (/\ R[k] # <<>>
                           /\ \A j \in 1 .. 6 : j < k => R[j] = <<>>) =>
                            FirstRule(R, i) = R[k]
      /\ (\A k \in 1 .. 6 : R[k] = <<>>) => FirstRule(R, i) = <<i + 1>>
  BY ONLY <1>1, FirstRuleIs
<1>4. CASE a1 # <<>>
  BY <1>1, <1>2, <1>3, <1>4 DEF R, OfSix
<1>5. CASE a1 = <<>> /\ a2 # <<>>
  BY <1>1, <1>2, <1>3, <1>5 DEF R, OfSix
<1>6. CASE a1 = <<>> /\ a2 = <<>> /\ a3 # <<>>
  BY <1>1, <1>2, <1>3, <1>6 DEF R, OfSix
<1>7. CASE a1 = <<>> /\ a2 = <<>> /\ a3 = <<>> /\ a4 # <<>>
  BY <1>1, <1>2, <1>3, <1>7 DEF R, OfSix
<1>8. CASE a1 = <<>> /\ a2 = <<>> /\ a3 = <<>> /\ a4 = <<>> /\ a5 # <<>>
  BY <1>1, <1>2, <1>3, <1>8 DEF R, OfSix
<1>9. CASE a1 = <<>> /\ a2 = <<>> /\ a3 = <<>> /\ a4 = <<>> /\ a5 = <<>> /\ a6 # <<>>
  BY <1>1, <1>2, <1>3, <1>9 DEF R, OfSix
<1>10. CASE a1 = <<>> /\ a2 = <<>> /\ a3 = <<>> /\ a4 = <<>> /\ a5 = <<>> /\ a6 = <<>>
  BY <1>1, <1>2, <1>3, <1>10 DEF R, OfSix
<1> QED
  BY <1>4, <1>5, <1>6, <1>7, <1>8, <1>9, <1>10

\* and of seven.
LEMMA FirstOfSeven ==
  ASSUME NEW i, NEW a1, NEW a2, NEW a3, NEW a4, NEW a5, NEW a6, NEW a7
  PROVE  FirstRule(<<a1, a2, a3, a4, a5, a6, a7>>, i) = OfSeven(a1, a2, a3, a4, a5, a6, a7, i)
<1> DEFINE R == <<a1, a2, a3, a4, a5, a6, a7>>
<1>1. /\ DOMAIN R = 1 .. 7 /\ R[1] = a1 /\ R[2] = a2 /\ R[3] = a3 /\ R[4] = a4 /\ R[5] = a5 /\ R[6] = a6
      /\ R[7] = a7 /\ 7 \in Nat
  OBVIOUS
<1>2. \A j \in 1 .. 7 : j = 1 \/ j = 2 \/ j = 3 \/ j = 4 \/ j = 5 \/ j = 6 \/ j = 7
  OBVIOUS
<1> HIDE DEF R
<1>3. /\ \A k \in 1 .. 7 : (/\ R[k] # <<>>
                           /\ \A j \in 1 .. 7 : j < k => R[j] = <<>>) =>
                            FirstRule(R, i) = R[k]
      /\ (\A k \in 1 .. 7 : R[k] = <<>>) => FirstRule(R, i) = <<i + 1>>
  BY ONLY <1>1, FirstRuleIs
<1>4. CASE a1 # <<>>
  BY <1>1, <1>2, <1>3, <1>4 DEF R, OfSeven
<1>5. CASE a1 = <<>> /\ a2 # <<>>
  BY <1>1, <1>2, <1>3, <1>5 DEF R, OfSeven
<1>6. CASE a1 = <<>> /\ a2 = <<>> /\ a3 # <<>>
  BY <1>1, <1>2, <1>3, <1>6 DEF R, OfSeven
<1>7. CASE a1 = <<>> /\ a2 = <<>> /\ a3 = <<>> /\ a4 # <<>>
  BY <1>1, <1>2, <1>3, <1>7 DEF R, OfSeven
<1>8. CASE a1 = <<>> /\ a2 = <<>> /\ a3 = <<>> /\ a4 = <<>> /\ a5 # <<>>
  BY <1>1, <1>2, <1>3, <1>8 DEF R, OfSeven
<1>9. CASE a1 = <<>> /\ a2 = <<>> /\ a3 = <<>> /\ a4 = <<>> /\ a5 = <<>> /\ a6 # <<>>
  BY <1>1, <1>2, <1>3, <1>9 DEF R, OfSeven
<1>10. CASE a1 = <<>> /\ a2 = <<>> /\ a3 = <<>> /\ a4 = <<>> /\ a5 = <<>> /\ a6 = <<>> /\ a7 # <<>>
  BY <1>1, <1>2, <1>3, <1>10 DEF R, OfSeven
<1>11. CASE a1 = <<>> /\ a2 = <<>> /\ a3 = <<>> /\ a4 = <<>> /\ a5 = <<>> /\ a6 = <<>> /\ a7 = <<>>
  BY <1>1, <1>2, <1>3, <1>11 DEF R, OfSeven
<1> QED
  BY <1>4, <1>5, <1>6, <1>7, <1>8, <1>9, <1>10, <1>11

\* The contractions are a sequence of patterns.
LEMMA ContractedIs ==
  ASSUME NEW c, NEW fold
  PROVE  \E T : Contracted(c, fold) \in Seq(T)
<1> DEFINE letter(l) == Character(c, IF fold THEN {l, l - 32} ELSE {l})
           Q == Character(c, {Quote})
           q1 == <<One(Q), One(letter(\h73))>>
           q2 == <<One(Q), One(letter(\h74))>>
           q3 == <<One(Q), One(letter(\h72)), One(letter(\h65))>>
           q4 == <<One(Q), One(letter(\h76)), One(letter(\h65))>>
           q5 == <<One(Q), One(letter(\h6D))>>
           q6 == <<One(Q), One(letter(\h6C)), One(letter(\h6C))>>
           q7 == <<One(Q), One(letter(\h64))>>
<1>1. Contracted(c, fold) = <<q1, q2, q3, q4, q5, q6, q7>>
  BY DEF Contracted
<1> HIDE DEF q1, q2, q3, q4, q5, q6, q7
<1>2. <<q1, q2, q3, q4, q5, q6, q7>> \in Seq({q1, q2, q3, q4, q5, q6, q7})
  OBVIOUS
<1> QED
  BY <1>1, <1>2

\* White space before a word as the last alternative,
LEMMA EndsWithOne ==
  ASSUME NEW T, NEW R \in Seq(T), NEW b, NEW i
  PROVE  FirstMatch(Patterns(R) \o <<b>>, i) =
           IF FirstEnd(Patterns(R), i) # 0 THEN FirstEnd(Patterns(R), i)
           ELSE IF MatchEnd(b.items, b.unless, i) # 0 THEN MatchEnd(b.items, b.unless, i)
           ELSE i + 1
<1> DEFINE A == {[items |-> p, unless |-> {}] : p \in T}
           X == A \cup {b}
           P == Patterns(R)
           W == <<b>>
<1>1. P \in Seq(A)
  BY PatternsAre
<1> HIDE DEF P
<1>2. P \in Seq(X) /\ W \in Seq(X)
  <2> HIDE DEF A
  <2>1. A \subseteq X /\ W \in Seq(X)
    OBVIOUS
  <2> HIDE DEF X, W
  <2> QED
    BY <1>1, <2>1, SeqMonotonic
<1> HIDE DEF X, A
<1>3. DOMAIN W = 1 .. 1 /\ EndOf(W, 1, i) = MatchEnd(b.items, b.unless, i)
  BY DEF EndOf
<1> HIDE DEF W
<1>4. FirstEnd(W, i) = EndOf(W, 1, i)
  <2>1. /\ FirstEnd(W, i) = 0 <=> \A k \in 1 .. 1 : EndOf(W, k, i) = 0
        /\ FirstEnd(W, i) # 0 => \E k \in 1 .. 1 : FirstEnd(W, i) = EndOf(W, k, i)
    BY <1>3, FirstEndIs
  <2>2. \A k \in 1 .. 1 : k = 1
    OBVIOUS
  <2> QED
    BY <2>1, <2>2
<1> DEFINE C == P \o W
           n == Len(C)
<1>5. FirstEnd(C, i) = IF FirstEnd(P, i) # 0 THEN FirstEnd(P, i) ELSE FirstEnd(W, i)
  BY <1>2, FirstOfBoth
<1>6. C \in Seq(X)
  BY ONLY <1>2, ConcatProperties
<1> HIDE DEF C
<1>7. n \in Nat /\ DOMAIN C = 1 .. n
  BY <1>6
<1> HIDE DEF n
<1>8. FirstMatch(C, i) = IF FirstEnd(C, i) = 0 THEN i + 1 ELSE FirstEnd(C, i)
  BY <1>7, FirstMatchIs
<1> QED
  BY <1>3, <1>4, <1>5, <1>8 DEF C, W, P

\* and the rest of the white space after it.
LEMMA EndsWithTwo ==
  ASSUME NEW T, NEW R \in Seq(T), NEW b, NEW d, NEW i
  PROVE  FirstMatch(Patterns(R) \o <<b, d>>, i) =
           IF FirstEnd(Patterns(R), i) # 0 THEN FirstEnd(Patterns(R), i)
           ELSE IF MatchEnd(b.items, b.unless, i) # 0 THEN MatchEnd(b.items, b.unless, i)
           ELSE IF MatchEnd(d.items, d.unless, i) # 0 THEN MatchEnd(d.items, d.unless, i)
           ELSE i + 1
<1> DEFINE A == {[items |-> p, unless |-> {}] : p \in T}
           X == A \cup {b, d}
           P == Patterns(R)
           W == <<b, d>>
<1>1. P \in Seq(A)
  BY PatternsAre
<1> HIDE DEF P
<1>2. P \in Seq(X) /\ W \in Seq(X)
  <2> HIDE DEF A
  <2>1. A \subseteq X /\ W \in Seq(X)
    OBVIOUS
  <2> HIDE DEF X, W
  <2> QED
    BY <1>1, <2>1, SeqMonotonic
<1> HIDE DEF X, A
<1>3. /\ DOMAIN W = 1 .. 2 /\ EndOf(W, 1, i) = MatchEnd(b.items, b.unless, i)
      /\ EndOf(W, 2, i) = MatchEnd(d.items, d.unless, i)
  BY DEF EndOf
<1> HIDE DEF W
<1>4. FirstEnd(W, i) = IF EndOf(W, 1, i) # 0 THEN EndOf(W, 1, i) ELSE EndOf(W, 2, i)
  <2>1. /\ FirstEnd(W, i) = 0 <=> \A k \in 1 .. 2 : EndOf(W, k, i) = 0
        /\ FirstEnd(W, i) # 0 => \E k \in 1 .. 2 : /\ FirstEnd(W, i) = EndOf(W, k, i)
                                                  /\ \A j \in 1 .. 2 : j < k => EndOf(W, j, i) = 0
    BY <1>3, FirstEndIs
  <2>2. \A k \in 1 .. 2 : k = 1 \/ k = 2
    OBVIOUS
  <2> QED
    BY <2>1, <2>2
<1> DEFINE C == P \o W
           n == Len(C)
<1>5. FirstEnd(C, i) = IF FirstEnd(P, i) # 0 THEN FirstEnd(P, i) ELSE FirstEnd(W, i)
  BY <1>2, FirstOfBoth
<1>6. C \in Seq(X)
  BY ONLY <1>2, ConcatProperties
<1> HIDE DEF C
<1>7. n \in Nat /\ DOMAIN C = 1 .. n
  BY <1>6
<1> HIDE DEF n
<1>8. FirstMatch(C, i) = IF FirstEnd(C, i) = 0 THEN i + 1 ELSE FirstEnd(C, i)
  BY <1>7, FirstMatchIs
<1> QED
  BY <1>3, <1>4, <1>5, <1>8 DEF C, W, P

\* Where the alternatives of the expression of "gpt2" end.
LEMMA Gpt2Match ==
  ASSUME NEW c, NEW i
  PROVE  LET k1 == FirstEnd(Patterns(Contracted(c, FALSE)), i)
             k2 == MatchEnd(<<Opt(c.blanks), Plus(c.letters)>>, {}, i)
             k3 == MatchEnd(<<Opt(c.blanks), Plus(c.numbers)>>, {}, i)
             k4 == MatchEnd(<<Opt(c.blanks), Plus(Others(c))>>, {}, i)
             b == MatchEnd(<<Plus(c.spaces)>>, c.all \ c.spaces, i)
         IN MatchAt(c, "gpt2", i) =
              IF k1 # 0 THEN k1 ELSE IF k2 # 0 THEN k2 ELSE IF k3 # 0 THEN k3
              ELSE IF k4 # 0 THEN k4 ELSE IF b # 0 THEN b ELSE i + 1
<1> DEFINE k1 == FirstEnd(Patterns(Contracted(c, FALSE)), i)
           k2 == MatchEnd(<<Opt(c.blanks), Plus(c.letters)>>, {}, i)
           k3 == MatchEnd(<<Opt(c.blanks), Plus(c.numbers)>>, {}, i)
           k4 == MatchEnd(<<Opt(c.blanks), Plus(Others(c))>>, {}, i)
           b == MatchEnd(<<Plus(c.spaces)>>, c.all \ c.spaces, i)
           C == Contracted(c, FALSE)
           q1 == <<Opt(c.blanks), Plus(c.letters)>>
           q2 == <<Opt(c.blanks), Plus(c.numbers)>>
           q3 == <<Opt(c.blanks), Plus(Others(c))>>
           M == <<q1, q2, q3>>
           R == C \o M
           spaces == [items |-> <<Plus(c.spaces)>>, unless |-> {}]
           before == [spaces EXCEPT !.unless = c.all \ c.spaces]
<1>1. Regex(c, "gpt2") = R
  BY Zenon DEF Regex
<1>2. Alternatives(c, "gpt2") = Patterns(Regex(c, "gpt2")) \o <<before>>
  <2>1. "gpt2" # "newlines" /\ ~("gpt2" \notin {"newlines", "gpt2"})
    OBVIOUS
  <2> QED
    BY <2>1, Zenon DEF Alternatives
<1>3. before.items = <<Plus(c.spaces)>> /\ before.unless = c.all \ c.spaces
  OBVIOUS
<1> SUFFICES MatchAt(c, "gpt2", i) =
              IF k1 # 0 THEN k1 ELSE IF k2 # 0 THEN k2 ELSE IF k3 # 0 THEN k3
              ELSE IF k4 # 0 THEN k4 ELSE IF b # 0 THEN b ELSE i + 1
  OBVIOUS
<1>4. PICK U : C \in Seq(U)
  BY ContractedIs
<1>5. FirstEnd(Patterns(M), i) = IF k2 # 0 THEN k2 ELSE IF k3 # 0 THEN k3 ELSE k4
  BY ThreePatterns
<1> HIDE DEF C, before, q1, q2, q3
<1> DEFINE V == {q1, q2, q3}
           T == U \cup V
           X == {[items |-> p, unless |-> {}] : p \in T}
<1>6. M \in Seq(V)
  OBVIOUS
<1> HIDE DEF M, V
<1>7. C \in Seq(T) /\ M \in Seq(T)
  BY <1>4, <1>6, SeqMonotonic
<1> HIDE DEF T
<1>8. Patterns(R) = Patterns(C) \o Patterns(M)
  BY <1>7, PatternsJoin
<1>9. Patterns(C) \in Seq(X) /\ Patterns(M) \in Seq(X)
  BY <1>7, PatternsAre
<1>10. R \in Seq(T)
  BY ONLY <1>7, ConcatProperties
<1> HIDE DEF X, R
<1>11. FirstEnd(Patterns(R), i) = IF k1 # 0 THEN k1 ELSE FirstEnd(Patterns(M), i)
  <2>1. FirstEnd(Patterns(C) \o Patterns(M), i) =
          IF FirstEnd(Patterns(C), i) # 0 THEN FirstEnd(Patterns(C), i) ELSE FirstEnd(Patterns(M), i)
    BY <1>9, FirstOfBoth
  <2> QED
    BY <1>8, <2>1 DEF C
<1>12. FirstMatch(Patterns(R) \o <<before>>, i) =
           IF FirstEnd(Patterns(R), i) # 0 THEN FirstEnd(Patterns(R), i)
           ELSE IF b # 0 THEN b ELSE i + 1
  <2>1. MatchEnd(before.items, before.unless, i) = b
    BY <1>3
  <2> QED
    BY <1>10, <2>1, EndsWithOne
<1>13. MatchAt(c, "gpt2", i) = FirstMatch(Patterns(R) \o <<before>>, i)
  BY <1>1, <1>2 DEF MatchAt
<1> QED
  BY <1>5, <1>11, <1>12, <1>13

\* The splitter of "gpt2" and its expression agree at every position.
LEMMA Gpt2Agrees ==
  ASSUME NEW c, Apart(c), NEW i \in 1 .. c.end - 1
  PROVE  CutsAt(c, i, "gpt2") = <<MatchAt(c, "gpt2", i)>>
<1> DEFINE a1 == Contraction(c, i, FALSE)
           a2 == SpacedRun(c, i, c.letters)
           a3 == SpacedRun(c, i, c.numbers)
           a4 == SpacedRun(c, i, Others(c))
           a5 == SpacesBefore(c, i)
           a6 == Spaces(c, i)
           k1 == FirstEnd(Patterns(Contracted(c, FALSE)), i)
           k2 == MatchEnd(<<Opt(c.blanks), Plus(c.letters)>>, {}, i)
           k3 == MatchEnd(<<Opt(c.blanks), Plus(c.numbers)>>, {}, i)
           k4 == MatchEnd(<<Opt(c.blanks), Plus(Others(c))>>, {}, i)
           b == MatchEnd(<<Plus(c.spaces)>>, c.all \ c.spaces, i)
           r == RunEnd(c.spaces, i)
           last == i \in c.spaces /\ r = c.end
<1>1. CutsAt(c, i, "gpt2") = FirstRule(<<a1, a2, a3, a4, a5, a6>>, i)
  <2>1. Rules(c, i, "gpt2") = Gpt2(c, i)
    BY Zenon DEF Rules
  <2>2. Gpt2(c, i) = <<a1, a2, a3, a4, a5, a6>>
    BY DEF Gpt2
  <2> QED
    BY <2>1, <2>2 DEF CutsAt, FirstRule
<1>2. k1 = Cut(a1) /\ Once(a1)
  BY ContractionEnd
<1>3. /\ c.letters \cap c.blanks = {} /\ c.numbers \cap c.blanks = {} /\ Others(c) \cap c.blanks = {}
  BY DEF Apart, Others
<1>4. IsClasses(c)
  BY DEF Apart
<1>5. k2 = Cut(a2) /\ Once(a2) /\ k3 = Cut(a3) /\ Once(a3) /\ k4 = Cut(a4) /\ Once(a4)
  BY <1>3, <1>4, SetsAreWithin, SpacedRunEnd
<1>6. /\ Once(a6) /\ Once(a5) /\ b = (IF last THEN Cut(a6) ELSE Cut(a5))
      /\ last => a5 = <<>> /\ a6 # <<>>
      /\ (i \in c.spaces /\ ~last /\ a5 = <<>>) => a6 = <<i + 1>>
      /\ i \notin c.spaces => a6 = <<>>
  <2>1. i \notin c.spaces => a6 = <<>>
    BY DEF Spaces
  <2> QED
    BY <2>1, SpacesEnd
<1>7. MatchAt(c, "gpt2", i) =
           IF k1 # 0 THEN k1 ELSE IF k2 # 0 THEN k2 ELSE IF k3 # 0 THEN k3
           ELSE IF k4 # 0 THEN k4 ELSE IF b # 0 THEN b ELSE i + 1
  BY Gpt2Match
<1> HIDE DEF a1, a2, a3, a4, a5, a6, k1, k2, k3, k4, b, last
<1>8. CutsAt(c, i, "gpt2") =
           IF a1 # <<>> THEN a1 ELSE IF a2 # <<>> THEN a2 ELSE IF a3 # <<>> THEN a3
           ELSE IF a4 # <<>> THEN a4 ELSE IF a5 # <<>> THEN a5 ELSE IF a6 # <<>> THEN a6
           ELSE <<i + 1>>
  <2>1. FirstRule(<<a1, a2, a3, a4, a5, a6>>, i) = OfSix(a1, a2, a3, a4, a5, a6, i)
    BY FirstOfSix
  <2> QED
    BY <1>1, <2>1, Zenon DEF OfSix
<1>9. \A a : Once(a) => /\ Cut(a) = 0 <=> a = <<>>
                        /\ a # <<>> => a = <<Cut(a)>>
  BY DEF Once, Cut
<1> QED
  <2>1. CASE a1 # <<>> \/ a2 # <<>> \/ a3 # <<>> \/ a4 # <<>>
    BY <1>2, <1>5, <1>7, <1>8, <1>9, <2>1
  <2>2. CASE a1 = <<>> /\ a2 = <<>> /\ a3 = <<>> /\ a4 = <<>>
    <3>1. /\ MatchAt(c, "gpt2", i) = (IF b # 0 THEN b ELSE i + 1)
          /\ CutsAt(c, i, "gpt2") = IF a5 # <<>> THEN a5 ELSE IF a6 # <<>> THEN a6 ELSE <<i + 1>>
      BY <1>2, <1>5, <1>7, <1>8, <1>9, <2>2
    <3>2. CASE last
      BY <1>6, <1>9, <3>1, <3>2
    <3>3. CASE ~last
      BY <1>6, <1>9, <3>1, <3>3
    <3> QED
      BY <3>2, <3>3
  <2> QED
    BY <2>1, <2>2

\* A text cut in lines.
LEMMA NewlinesAgree ==
  ASSUME NEW c, Apart(c), NEW i \in 1 .. c.end - 1
  PROVE  CutsAt(c, i, "newlines") = <<MatchAt(c, "newlines", i)>>
<1> DEFINE a == Lines(c, i)
           p == <<Plus(c.all \ c.lines)>>
           q == <<Plus(c.lines)>>
           R == << p, q >>
           P == Patterns(R)
           k1 == MatchEnd(p, {}, i)
           k2 == MatchEnd(q, {}, i)
<1>1. CutsAt(c, i, "newlines") = FirstRule(<<a>>, i)
  <2>1. Rules(c, i, "newlines") = <<Lines(c, i)>>
    BY Zenon DEF Rules
  <2> QED
    BY <2>1 DEF CutsAt, FirstRule
<1>2. /\ Cut(a) = (IF i \in c.lines THEN k2 ELSE k1) /\ (k2 # 0 <=> i \in c.lines)
      /\ (k1 # 0 <=> i \notin c.lines) /\ Once(a) /\ a # <<>>
  BY LinesEnd
<1>3. MatchAt(c, "newlines", i) = FirstMatch(P, i)
  <2>1. Regex(c, "newlines") = R
    BY Zenon DEF Regex
  <2>2. Alternatives(c, "newlines") = Patterns(Regex(c, "newlines")) \o <<>>
    <3>1. "newlines" # "gpt2" /\ ~("newlines" \notin {"newlines", "gpt2"})
      OBVIOUS
    <3> QED
      BY <3>1, Zenon DEF Alternatives
  <2> HIDE DEF p, q
  <2> DEFINE T == {p, q}
             X == {[items |-> x, unless |-> {}] : x \in T}
  <2>3. R \in Seq(T)
    OBVIOUS
  <2> HIDE DEF R, T
  <2>4. P \in Seq(X)
    BY <2>3, PatternsAre
  <2> HIDE DEF P, X
  <2>5. P \o <<>> = P
    BY ONLY <2>4, ConcatEmptySeq
  <2> QED
    BY <2>1, <2>2, <2>5 DEF MatchAt, P
<1> HIDE DEF a, p, q, k1, k2
<1>4. /\ DOMAIN P = 1 .. 2 /\ EndOf(P, 1, i) = k1 /\ EndOf(P, 2, i) = k2
  <2> DEFINE T == {p, q}
  <2>1. R \in Seq(T) /\ Len(R) = 2 /\ R[1] = p /\ R[2] = q
    OBVIOUS
  <2> HIDE DEF R, T
  <2>2. DOMAIN P = 1 .. 2 /\ \A k \in 1 .. 2 : EndOf(P, k, i) = MatchEnd(R[k], {}, i)
    BY <2>1, PatternsAre
  <2> HIDE DEF P
  <2> QED
    BY <2>1, <2>2 DEF k1, k2
<1> HIDE DEF P
<1>5. /\ FirstEnd(P, i) = 0 <=> \A k \in 1 .. 2 : EndOf(P, k, i) = 0
      /\ FirstEnd(P, i) # 0 => \E k \in 1 .. 2 : /\ FirstEnd(P, i) = EndOf(P, k, i)
                                                /\ EndOf(P, k, i) # 0
      /\ FirstMatch(P, i) = IF FirstEnd(P, i) = 0 THEN i + 1 ELSE FirstEnd(P, i)
  <2>1. 2 \in Nat /\ DOMAIN P = 1 .. 2
    BY <1>4
  <2>2. FirstMatch(P, i) = IF FirstEnd(P, i) = 0 THEN i + 1 ELSE FirstEnd(P, i)
    BY ONLY <2>1, FirstMatchIs
  <2>3. /\ FirstEnd(P, i) = 0 <=> \A k \in 1 .. 2 : EndOf(P, k, i) = 0
        /\ FirstEnd(P, i) # 0 => \E k \in 1 .. 2 : /\ FirstEnd(P, i) = EndOf(P, k, i)
                                                  /\ EndOf(P, k, i) # 0
    BY ONLY <2>1, FirstEndIs
  <2> QED
    BY <2>2, <2>3
<1>6. FirstMatch(P, i) = IF i \in c.lines THEN k2 ELSE k1
  <2>1. \A k \in 1 .. 2 : k = 1 \/ k = 2
    OBVIOUS
  <2> QED
    BY <1>2, <1>4, <1>5, <2>1
<1>7. FirstRule(<<a>>, i) = a
  <2> DEFINE S == <<a>>
  <2>1. DOMAIN S = 1 .. 1 /\ S[1] = a /\ \A k \in 1 .. 1 : k = 1
    OBVIOUS
  <2> HIDE DEF S
  <2>2. \A k \in 1 .. 1 : (/\ S[k] # <<>> /\ \A j \in 1 .. 1 : j < k => S[j] = <<>>) =>
                                FirstRule(S, i) = S[k]
    BY <2>1, FirstRuleIs
  <2> QED
    BY <1>2, <2>1, <2>2 DEF S
<1>8. a = <<Cut(a)>>
  BY <1>2 DEF Once, Cut
<1> QED
  BY <1>1, <1>2, <1>3, <1>6, <1>7, <1>8

\* Of seven ends of a match, the first that there is.
EndOfSeven(k1, k2, k3, k4, k5, b, d, i) ==
  IF k1 # 0 THEN k1 ELSE IF k2 # 0 THEN k2 ELSE IF k3 # 0 THEN k3 ELSE IF k4 # 0 THEN k4
  ELSE IF k5 # 0 THEN k5 ELSE IF b # 0 THEN b ELSE IF d # 0 THEN d ELSE i + 1

\* Where the alternatives of the expressions of "llama3", "qwen2" and "qwen35" end.
LEMMA LlamaMatch ==
  ASSUME NEW c, NEW i, NEW name, name \in {"llama3", "qwen2", "qwen35"}
  PROVE  LET own == IF name = "qwen35" THEN c.letters \cup c.marks ELSE c.letters
             digits == IF name = "llama3" THEN Item(c.numbers, 1, 3) ELSE One(c.numbers)
             before == c.all \ (c.breaks \cup c.letters \cup c.numbers)
             others == Others(c) \ (own \cap c.marks)
         IN MatchAt(c, name, i) =
              EndOfSeven(FirstEnd(Patterns(Contracted(c, TRUE)), i),
                         MatchEnd(<<Opt(before), Plus(own)>>, {}, i),
                         MatchEnd(<<digits>>, {}, i),
                         MatchEnd(<<Opt(c.blanks), Plus(others), Star(c.breaks)>>, {}, i),
                         MatchEnd(<<Star(c.spaces), Plus(c.breaks)>>, {}, i),
                         MatchEnd(<<Plus(c.spaces)>>, c.all \ c.spaces, i),
                         MatchEnd(<<Plus(c.spaces)>>, {}, i), i)
<1> DEFINE wordSet == IF name = "qwen35" THEN c.letters \cup c.marks ELSE c.letters
           digits == IF name = "llama3" THEN Item(c.numbers, 1, 3) ELSE One(c.numbers)
           lead == c.all \ (c.breaks \cup c.letters \cup c.numbers)
           others == Others(c) \ (wordSet \cap c.marks)
           C == Contracted(c, TRUE)
           q1 == <<Opt(lead), Plus(wordSet)>>
           q2 == <<digits>>
           q3 == <<Opt(c.blanks), Plus(others), Star(c.breaks)>>
           q4 == <<Star(c.spaces), Plus(c.breaks)>>
           M == <<q1, q2, q3>>
           W == <<q4>>
           R == C \o M \o W
           spaces == [items |-> <<Plus(c.spaces)>>, unless |-> {}]
           before == [spaces EXCEPT !.unless = c.all \ c.spaces]
           k1 == FirstEnd(Patterns(C), i)
           k2 == MatchEnd(q1, {}, i)
           k3 == MatchEnd(q2, {}, i)
           k4 == MatchEnd(q3, {}, i)
           k5 == MatchEnd(q4, {}, i)
           b == MatchEnd(<<Plus(c.spaces)>>, c.all \ c.spaces, i)
           d == MatchEnd(<<Plus(c.spaces)>>, {}, i)
<1>1. Regex(c, name) = R
  <2>1. name # "gpt2" /\ name # "tekken" /\ name # "newlines"
    OBVIOUS
  <2> QED
    BY <2>1, Zenon DEF Regex
<1>2. Alternatives(c, name) = Patterns(Regex(c, name)) \o <<before, spaces>>
  <2>1. name # "gpt2" /\ name # "newlines" /\ name \notin {"newlines", "gpt2"}
    OBVIOUS
  <2> QED
    BY <2>1, Zenon DEF Alternatives
<1>3. /\ before.items = <<Plus(c.spaces)>> /\ before.unless = c.all \ c.spaces
      /\ spaces.items = <<Plus(c.spaces)>> /\ spaces.unless = {}
  OBVIOUS
<1> HIDE DEF wordSet, digits, lead, others
<1> SUFFICES MatchAt(c, name, i) = EndOfSeven(k1, k2, k3, k4, k5, b, d, i)
  BY Zenon DEF wordSet, digits, lead, others
<1>4. PICK U : C \in Seq(U)
  BY ContractedIs
<1>5. FirstEnd(Patterns(M), i) = IF k2 # 0 THEN k2 ELSE IF k3 # 0 THEN k3 ELSE k4
  BY ThreePatterns
<1>6. FirstEnd(Patterns(W), i) = k5
  BY OnePattern
<1> HIDE DEF C, before, spaces, q1, q2, q3, q4
<1> DEFINE V == {q1, q2, q3, q4}
           T == U \cup V
           X == {[items |-> p, unless |-> {}] : p \in T}
<1>7. M \in Seq(V) /\ W \in Seq(V)
  OBVIOUS
<1> HIDE DEF M, W, V
<1>8. C \in Seq(T) /\ M \in Seq(T) /\ W \in Seq(T)
  BY <1>4, <1>7, SeqMonotonic
<1> HIDE DEF T
<1>9. C \o M \in Seq(T)
  BY ONLY <1>8, ConcatProperties
<1>10. R \in Seq(T)
  BY ONLY <1>8, <1>9, ConcatProperties
<1>11. Patterns(R) = Patterns(C \o M) \o Patterns(W) /\ Patterns(C \o M) = Patterns(C) \o Patterns(M)
  BY <1>8, <1>9, PatternsJoin
<1>12. /\ Patterns(C) \in Seq(X) /\ Patterns(M) \in Seq(X) /\ Patterns(W) \in Seq(X)
       /\ Patterns(C \o M) \in Seq(X)
  BY <1>8, <1>9, PatternsAre
<1> HIDE DEF X, R
<1> DEFINE CM == Patterns(C \o M)
<1>13. FirstEnd(CM, i) = IF k1 # 0 THEN k1 ELSE FirstEnd(Patterns(M), i)
  <2>1. FirstEnd(Patterns(C) \o Patterns(M), i) =
          IF FirstEnd(Patterns(C), i) # 0 THEN FirstEnd(Patterns(C), i) ELSE FirstEnd(Patterns(M), i)
    BY <1>12, FirstOfBoth
  <2> QED
    BY <1>11, <2>1
<1>14. FirstEnd(Patterns(R), i) = IF FirstEnd(CM, i) # 0 THEN FirstEnd(CM, i) ELSE k5
  <2>1. FirstEnd(Patterns(C \o M) \o Patterns(W), i) =
          IF FirstEnd(CM, i) # 0 THEN FirstEnd(CM, i) ELSE FirstEnd(Patterns(W), i)
    BY <1>12, FirstOfBoth
  <2> QED
    BY <1>6, <1>11, <2>1
<1>15. FirstMatch(Patterns(R) \o <<before, spaces>>, i) =
           IF FirstEnd(Patterns(R), i) # 0 THEN FirstEnd(Patterns(R), i)
           ELSE IF b # 0 THEN b ELSE IF d # 0 THEN d ELSE i + 1
  <2>1. MatchEnd(before.items, before.unless, i) = b /\ MatchEnd(spaces.items, spaces.unless, i) = d
    BY <1>3
  <2> HIDE DEF b, d
  <2> QED
    BY <1>10, <2>1, EndsWithTwo
<1>16. MatchAt(c, name, i) = FirstMatch(Patterns(R) \o <<before, spaces>>, i)
  BY <1>1, <1>2 DEF MatchAt
<1> HIDE DEF k1, k2, k3, k4, k5, b, d, CM
<1> QED
  BY <1>5, <1>13, <1>14, <1>15, <1>16 DEF EndOfSeven

\* The rules of these splitters, in one form.
LEMMA LlamaRules ==
  ASSUME NEW c, Apart(c), NEW i, NEW name, name \in {"llama3", "qwen2", "qwen35"}
  PROVE  LET P == IF name = "qwen35" THEN c.letters \cup c.marks ELSE c.letters
             Q == Others(c) \ (P \cap c.marks)
             digits == IF name = "llama3" THEN DigitsOfThree(c, i) ELSE Digit(c, i)
         IN CutsAt(c, i, name) =
              FirstRule(<<Contraction(c, i, TRUE), PrefixedRun(c, i, P), digits,
                          SymbolsAndBreaks(c, i, Q), Breaks(c, i), SpacesBefore(c, i),
                          Spaces(c, i)>>, i)
<1> DEFINE P == IF name = "qwen35" THEN c.letters \cup c.marks ELSE c.letters
           Q == Others(c) \ (P \cap c.marks)
           digits == IF name = "llama3" THEN DigitsOfThree(c, i) ELSE Digit(c, i)
           R == <<Contraction(c, i, TRUE), PrefixedRun(c, i, P), digits,
                  SymbolsAndBreaks(c, i, Q), Breaks(c, i), SpacesBefore(c, i), Spaces(c, i)>>
<1> HIDE DEF P, Q, digits
<1> SUFFICES CutsAt(c, i, name) = FirstRule(R, i)
  BY Zenon DEF P, Q, digits
<1>1. CASE name = "llama3"
  <2>1. P = c.letters /\ Q = Others(c) /\ digits = DigitsOfThree(c, i)
    <3>1. c.letters \cap c.marks = {}
      BY DEF Apart
    <3>2. P = c.letters
      BY <1>1 DEF P
    <3> QED
      BY <1>1, <3>1, <3>2 DEF Q, digits
  <2>2. Llama3(c, i) = R
    BY <2>1 DEF Llama3
  <2>3. Rules(c, i, name) = Llama3(c, i)
    BY <1>1, Zenon DEF Rules
  <2> HIDE DEF R
  <2> QED
    BY <2>2, <2>3 DEF CutsAt, FirstRule
<1>2. CASE name = "qwen2"
  <2>1. P = c.letters /\ Q = Others(c) /\ digits = Digit(c, i)
    <3>1. c.letters \cap c.marks = {}
      BY DEF Apart
    <3>2. P = c.letters
      BY <1>2 DEF P
    <3> QED
      BY <1>2, <3>1, <3>2 DEF Q, digits
  <2>2. Qwen2(c, i) = R
    BY <2>1 DEF Qwen2
  <2>3. Rules(c, i, name) = Qwen2(c, i)
    BY <1>2, Zenon DEF Rules
  <2> HIDE DEF R
  <2> QED
    BY <2>2, <2>3 DEF CutsAt, FirstRule
<1>3. CASE name = "qwen35"
  <2>1. P = c.letters \cup c.marks /\ Q = Others(c) \ c.marks /\ digits = Digit(c, i)
    <3>1. P = c.letters \cup c.marks
      BY <1>3 DEF P
    <3> QED
      BY <1>3, <3>1 DEF Q, digits
  <2>2. Qwen35(c, i) = R
    BY <2>1 DEF Qwen35
  <2>3. Rules(c, i, name) = Qwen35(c, i)
    BY <1>3, Zenon DEF Rules
  <2> HIDE DEF R
  <2> QED
    BY <2>2, <2>3 DEF CutsAt, FirstRule
<1> QED
  BY <1>1, <1>2, <1>3

\* A blank at the end of the text is a word by either: no line break is in its run.
LEMMA BlankAtTheEnd ==
  ASSUME NEW c, Apart(c), NEW i \in 1 .. c.end - 1, Skip(c, i) = c.end
  PROVE  /\ i \in c.spaces /\ RunEnd(c.spaces, i) = c.end
         /\ Breaks(c, i) = <<>> /\ Spaces(c, i) = <<c.end>>
<1>1. /\ IsClasses(c) /\ c.end \in Nat \ {0} /\ i \in 1 .. c.end /\ i \in Nat
      /\ Within(c, c.spaces)
  BY Here, SetsAreWithin
<1>2. c.end = i + 1 /\ i \in c.blanks
  BY <1>1 DEF Skip
<1>3. i \in c.spaces /\ i \notin c.breaks
  BY <1>2 DEF Apart
<1>4. RunEnd(c.spaces, i) = c.end
  <2> DEFINE r == i + 1
  <2>1. r \in Int /\ r >= i /\ (i .. r - 1) \subseteq c.spaces /\ r \notin c.spaces
    <3>1. \A k \in i .. r - 1 : k = i
      BY <1>1
    <3>2. r \notin c.spaces
      BY <1>1, <1>2 DEF Within
    <3> QED
      BY <1>1, <1>3, <3>1, <3>2
  <2> HIDE DEF r
  <2>2. RunEnd(c.spaces, i) = r
    BY <1>1, <2>1, RunIsOne
  <2> QED
    BY <1>2, <2>2 DEF r
<1>5. c.breaks \cap (i .. RunEnd(c.spaces, i) - 1) = {}
  BY <1>1, <1>2, <1>3, <1>4
<1> QED
  BY <1>3, <1>4, <1>5 DEF Breaks, Spaces

\* These splitters and their expressions agree, but where "llama3" cuts a run of digits.
LEMMA LlamaAgrees ==
  ASSUME NEW c, Apart(c), NEW i \in 1 .. c.end - 1,
         NEW name, name \in {"llama3", "qwen2", "qwen35"}, name = "llama3" => i \notin c.numbers
  PROVE  CutsAt(c, i, name) = <<MatchAt(c, name, i)>>
<1> DEFINE P == IF name = "qwen35" THEN c.letters \cup c.marks ELSE c.letters
           Q == Others(c) \ (P \cap c.marks)
           lead == c.all \ (c.breaks \cup c.letters \cup c.numbers)
           digits == IF name = "llama3" THEN Item(c.numbers, 1, 3) ELSE One(c.numbers)
           a1 == Contraction(c, i, TRUE)
           a2 == PrefixedRun(c, i, P)
           a3 == IF name = "llama3" THEN DigitsOfThree(c, i) ELSE Digit(c, i)
           a4 == SymbolsAndBreaks(c, i, Q)
           a5 == Breaks(c, i)
           a6 == SpacesBefore(c, i)
           a7 == Spaces(c, i)
           k1 == FirstEnd(Patterns(Contracted(c, TRUE)), i)
           k2 == MatchEnd(<<Opt(lead), Plus(P)>>, {}, i)
           k3 == MatchEnd(<<digits>>, {}, i)
           k4 == MatchEnd(<<Opt(c.blanks), Plus(Q), Star(c.breaks)>>, {}, i)
           k5 == MatchEnd(<<Star(c.spaces), Plus(c.breaks)>>, {}, i)
           b == MatchEnd(<<Plus(c.spaces)>>, c.all \ c.spaces, i)
           d == MatchEnd(<<Plus(c.spaces)>>, {}, i)
           r == RunEnd(c.spaces, i)
           last == i \in c.spaces /\ r = c.end
           s == Skip(c, i)
<1>0. /\ IsClasses(c) /\ c.end \in Nat \ {0} /\ i \in 1 .. c.end /\ i \in Nat
      /\ Within(c, c.letters) /\ Within(c, c.marks) /\ Within(c, Others(c))
  BY Here, SetsAreWithin
<1>1. CutsAt(c, i, name) = FirstRule(<<a1, a2, a3, a4, a5, a6, a7>>, i)
  BY LlamaRules
<1>2. k1 = Cut(a1) /\ Once(a1)
  BY ContractionEnd
<1>3. k2 = Cut(a2) /\ Once(a2)
  <2>1. Within(c, P) /\ c.letters \subseteq P /\ P \cap (c.breaks \cup c.numbers) = {}
    BY <1>0 DEF Apart, Within
  <2> HIDE DEF P, lead
  <2>2. lead = c.all \ (c.breaks \cup c.letters \cup c.numbers)
    BY DEF lead
  <2> QED
    BY <2>1, <2>2, PrefixedRunEnd
<1>4. k3 = Cut(a3) /\ Once(a3)
  <2>1. CASE name = "llama3"
    <3>1. i \notin c.numbers
      BY <2>1
    <3>2. MatchEnd(<<Item(c.numbers, 1, 3)>>, {}, i) = 0
      BY <3>1, ThreeDigitsEnd
    <3>3. a3 = <<>>
      <4>1. DigitsOfThree(c, i) = <<>>
        <5> DEFINE n == RunEnd(c.numbers, i)
                   m == (n - i + 2) \div 3
        <5>1. n = i
          <6>1. Within(c, c.numbers)
            BY <1>0, SetsAreWithin
          <6>2. i \in Int /\ i >= i /\ (i .. i - 1) \subseteq c.numbers
            BY <1>0
          <6> QED
            BY <1>0, <3>1, <6>1, <6>2, RunIsOne
        <5>2. m = 0
          BY <1>0, <5>1
        <5>3. DigitsOfThree(c, i) = [k \in 1 .. m |-> IF i + 3 * k <= n THEN i + 3 * k ELSE n]
          BY DEF DigitsOfThree
        <5> HIDE DEF m, n
        <5>4. 1 .. m = {}
          BY <5>2
        <5> QED
          BY <5>3, <5>4
      <4> QED
        BY <2>1, <4>1
    <3>4. digits = Item(c.numbers, 1, 3)
      BY <2>1
    <3> QED
      BY <3>2, <3>3, <3>4 DEF Cut, Once
  <2>2. CASE name # "llama3"
    BY <2>2, DigitEnd
  <2> QED
    BY <2>1, <2>2
<1>5. /\ k4 = (IF s \in Q THEN Cut(a4) ELSE 0) /\ Once(a4)
      /\ s \notin Q => a4 = IF s = c.end THEN <<c.end>> ELSE <<>>
  <2>1. Within(c, Q) /\ Q \cap c.blanks = {}
    BY <1>0 DEF Apart, Within, Others
  <2> HIDE DEF Q
  <2> QED
    BY <2>1, SymbolsEnd
<1>6. k5 = Cut(a5) /\ Once(a5)
  BY BreaksEnd
<1>7. /\ Once(a6) /\ Once(a7) /\ b = (IF last THEN Cut(a7) ELSE Cut(a6)) /\ d = Cut(a7)
      /\ last => a6 = <<>> /\ a7 # <<>>
  BY SpacesEnd
<1>8. s = c.end => last /\ a5 = <<>> /\ a7 = <<c.end>>
  BY BlankAtTheEnd
<1>9. MatchAt(c, name, i) = EndOfSeven(k1, k2, k3, k4, k5, b, d, i)
  BY LlamaMatch
<1> HIDE DEF a1, a2, a3, a4, a5, a6, a7, k1, k2, k3, k4, k5, b, d, last, s, Q
<1>10. CutsAt(c, i, name) = OfSeven(a1, a2, a3, a4, a5, a6, a7, i)
  <2>1. FirstRule(<<a1, a2, a3, a4, a5, a6, a7>>, i) = OfSeven(a1, a2, a3, a4, a5, a6, a7, i)
    BY FirstOfSeven
  <2> QED
    BY <1>1, <2>1, Zenon
<1>11. \A a : Once(a) => /\ Cut(a) = 0 <=> a = <<>>
                         /\ a # <<>> => a = <<Cut(a)>>
  BY DEF Once, Cut
<1>12. CASE a1 # <<>> \/ a2 # <<>> \/ a3 # <<>>
  BY <1>2, <1>3, <1>4, <1>9, <1>10, <1>11, <1>12 DEF EndOfSeven, OfSeven
<1>13. CASE a1 = <<>> /\ a2 = <<>> /\ a3 = <<>>
  <2>1. /\ MatchAt(c, name, i) = (IF k4 # 0 THEN k4 ELSE IF k5 # 0 THEN k5
                                  ELSE IF b # 0 THEN b ELSE IF d # 0 THEN d ELSE i + 1)
        /\ CutsAt(c, i, name) = (IF a4 # <<>> THEN a4 ELSE IF a5 # <<>> THEN a5
                                 ELSE IF a6 # <<>> THEN a6 ELSE IF a7 # <<>> THEN a7
                                 ELSE <<i + 1>>)
    BY <1>2, <1>3, <1>4, <1>9, <1>10, <1>11, <1>13 DEF EndOfSeven, OfSeven
  <2>2. CASE s \in Q /\ a4 # <<>>
    BY <1>5, <1>11, <2>1, <2>2
  <2>3. CASE s \notin Q /\ a4 # <<>>
    <3>1. s = c.end /\ k4 = 0 /\ a4 = <<c.end>>
      BY <1>5, <2>3
    <3>2. k5 = 0 /\ b = c.end /\ c.end # 0
      <4>1. Cut(<<c.end>>) = c.end /\ Cut(<<>>) = 0
        BY DEF Cut
      <4> QED
        BY <1>0, <1>6, <1>7, <1>8, <3>1, <4>1
    <3> QED
      BY <2>1, <2>3, <3>1, <3>2
  <2>4. CASE a4 = <<>>
    <3>1. k4 = 0
      BY <1>5, <2>4 DEF Cut
    <3> QED
      BY <1>6, <1>7, <1>11, <2>1, <2>4, <3>1
  <2> QED
    BY <2>2, <2>3, <2>4
<1> QED
  BY <1>12, <1>13

\* The match of "llama3" at a digit takes three at most,
LEMMA DigitsMatch ==
  ASSUME NEW c, Apart(c), NEW i \in 1 .. c.end - 1, i \in c.numbers
  PROVE  /\ CutsAt(c, i, "llama3") = DigitsOfThree(c, i)
         /\ MatchAt(c, "llama3", i) =
              IF i + 3 <= RunEnd(c.numbers, i) THEN i + 3 ELSE RunEnd(c.numbers, i)
<1> DEFINE lead == c.all \ (c.breaks \cup c.letters \cup c.numbers)
           a1 == Contraction(c, i, TRUE)
           a2 == PrefixedRun(c, i, c.letters)
           a3 == DigitsOfThree(c, i)
           a4 == SymbolsAndBreaks(c, i, Others(c))
           a5 == Breaks(c, i)
           a6 == SpacesBefore(c, i)
           a7 == Spaces(c, i)
           k1 == FirstEnd(Patterns(Contracted(c, TRUE)), i)
           k2 == MatchEnd(<<Opt(lead), Plus(c.letters)>>, {}, i)
           k3 == MatchEnd(<<Item(c.numbers, 1, 3)>>, {}, i)
           r == RunEnd(c.numbers, i)
<1>1. /\ IsClasses(c) /\ c.end \in Nat \ {0} /\ i \in 1 .. c.end /\ i \in Nat
      /\ Within(c, c.letters) /\ Within(c, c.numbers)
  BY Here, SetsAreWithin
<1>2. r \in Int /\ r > i
  BY <1>1, RunIs
<1>3. k1 = Cut(a1) /\ a1 = <<>>
  <2>1. c.text[i] # Quote
    BY <1>1, Here DEF Apart
  <2> QED
    BY <2>1, ContractionEnd
<1>4. k2 = Cut(a2) /\ a2 = <<>>
  <2>1. a2 = <<>>
    BY DEF PrefixedRun
  <2>2. c.letters \subseteq c.letters /\ c.letters \cap (c.breaks \cup c.numbers) = {}
    BY DEF Apart
  <2> HIDE DEF lead
  <2>3. lead = c.all \ (c.breaks \cup c.letters \cup c.numbers)
    BY DEF lead
  <2>4. k2 = Cut(a2)
    BY <1>1, <2>2, <2>3, PrefixedRunEnd
  <2> QED
    BY <2>1, <2>4
<1>5. k3 = (IF i + 3 <= r THEN i + 3 ELSE r) /\ k3 # 0
  <2>1. k3 = (IF i + 3 <= r THEN i + 3 ELSE r)
    BY ThreeDigitsEnd
  <2> QED
    BY <1>1, <1>2, <2>1
<1>6. a3 # <<>>
  <2> DEFINE n == (r - i + 2) \div 3
             threes == [k \in 1 .. n |-> IF i + 3 * k <= r THEN i + 3 * k ELSE r]
  <2>1. n \in Nat /\ n >= 1
    BY <1>1, <1>2
  <2>2. a3 = threes
    BY DEF DigitsOfThree
  <2> HIDE DEF n
  <2>3. 1 \in DOMAIN threes
    BY <2>1
  <2> HIDE DEF threes
  <2> QED
    BY <2>2, <2>3
<1>7. "llama3" \in {"llama3", "qwen2", "qwen35"} /\ "llama3" # "qwen35"
  OBVIOUS
<1>8. Others(c) \ (c.letters \cap c.marks) = Others(c)
  BY DEF Apart
<1> DEFINE k4 == MatchEnd(<<Opt(c.blanks), Plus(Others(c)), Star(c.breaks)>>, {}, i)
           k5 == MatchEnd(<<Star(c.spaces), Plus(c.breaks)>>, {}, i)
           b == MatchEnd(<<Plus(c.spaces)>>, c.all \ c.spaces, i)
           d == MatchEnd(<<Plus(c.spaces)>>, {}, i)
<1>9. MatchAt(c, "llama3", i) = EndOfSeven(k1, k2, k3, k4, k5, b, d, i)
  BY <1>7, <1>8, LlamaMatch, Zenon
<1>10. CutsAt(c, i, "llama3") = FirstRule(<<a1, a2, a3, a4, a5, a6, a7>>, i)
  BY <1>7, <1>8, LlamaRules, Zenon
<1> HIDE DEF a1, a2, a3, a4, a5, a6, a7, k1, k2, k3, k4, k5, b, d, r
<1>11. CutsAt(c, i, "llama3") = OfSeven(a1, a2, a3, a4, a5, a6, a7, i)
  <2>1. FirstRule(<<a1, a2, a3, a4, a5, a6, a7>>, i) = OfSeven(a1, a2, a3, a4, a5, a6, a7, i)
    BY FirstOfSeven
  <2> QED
    BY <1>10, <2>1, Zenon
<1>12. CutsAt(c, i, "llama3") = a3
  BY <1>3, <1>4, <1>6, <1>11 DEF OfSeven
<1>13. MatchAt(c, "llama3", i) = k3
  <2>1. k1 = 0 /\ k2 = 0
    BY <1>3, <1>4 DEF Cut
  <2> QED
    BY <1>5, <1>9, <2>1 DEF EndOfSeven
<1> QED
  BY <1>5, <1>12, <1>13 DEF a3, r

\* and its rule cuts there and again from there on.
LEMMA DigitsStep ==
  ASSUME NEW c, Apart(c), NEW i \in 1 .. c.end - 1, i \in c.numbers,
         NEW r, r = RunEnd(c.numbers, i)
  PROVE  /\ r \in Int /\ r > i /\ r <= c.end
         /\ r <= i + 3 => DigitsOfThree(c, i) = <<r>>
         /\ r > i + 3 => /\ i + 3 \in 1 .. c.end - 1 /\ i + 3 \in c.numbers
                         /\ DigitsOfThree(c, i) = <<i + 3>> \o DigitsOfThree(c, i + 3)
                         /\ DigitsOfThree(c, i + 3) \in Seq(Int)
                         /\ DigitsOfThree(c, i + 3) # <<>>
<1>1. /\ IsClasses(c) /\ c.end \in Nat \ {0} /\ i \in 1 .. c.end /\ i \in Nat
      /\ Within(c, c.numbers)
  BY Here, SetsAreWithin
<1>2. /\ r \in i .. c.end /\ r > i
      /\ (i .. r - 1) \subseteq c.numbers /\ r \notin c.numbers
  BY <1>1, RunIs
<1>3. r \in Int /\ r <= c.end
  BY <1>1, <1>2
<1> DEFINE n == (r - i + 2) \div 3
           at(k) == IF i + 3 * k <= r THEN i + 3 * k ELSE r
           s == [k \in 1 .. n |-> at(k)]
<1>4. DigitsOfThree(c, i) = s
  BY DEF DigitsOfThree
<1>5. n \in Nat /\ 3 * n <= r - i + 2 /\ r - i <= 3 * n /\ n >= 1
  BY <1>1, <1>2, <1>3
<1> HIDE DEF n
<1>6. \A k \in 1 .. n : at(k) \in Int
  BY <1>1, <1>3, <1>5
<1>7. s \in Seq(Int) /\ Len(s) = n /\ \A k \in 1 .. n : s[k] = at(k)
  <2> HIDE DEF at
  <2> QED
    BY <1>5, <1>6
<1>8. ASSUME r <= i + 3
      PROVE  s = <<r>>
  <2>1. n = 1 /\ at(1) = r
    BY <1>1, <1>3, <1>5, <1>8
  <2>2. Len(<<r>>) = 1 /\ <<r>>[1] = r /\ <<r>> \in Seq(Int)
    BY <1>3
  <2> HIDE DEF s, at
  <2>3. \A k \in 1 .. 1 : k = 1
    OBVIOUS
  <2>4. \A k \in 1 .. 1 : s[k] = <<r>>[k]
    BY <1>7, <2>1, <2>2, <2>3
  <2>5. Len(s) = 1
    BY <1>7, <2>1
  <2> QED
    BY <1>7, <2>2, <2>4, <2>5, SeqEqual
<1>9. ASSUME r > i + 3
      PROVE  /\ i + 3 \in 1 .. c.end - 1 /\ i + 3 \in c.numbers
             /\ s = <<i + 3>> \o DigitsOfThree(c, i + 3)
             /\ DigitsOfThree(c, i + 3) \in Seq(Int)
             /\ DigitsOfThree(c, i + 3) # <<>>
  <2> DEFINE j == i + 3
             m == (r - j + 2) \div 3
             from(k) == IF j + 3 * k <= r THEN j + 3 * k ELSE r
             t == [k \in 1 .. m |-> from(k)]
             u == <<j>>
  <2>1. j \in 1 .. c.end - 1 /\ j \in c.numbers /\ j \in 1 .. c.end /\ j \in Int
    <3>1. j \in i .. r - 1
      BY <1>1, <1>3, <1>9
    <3>2. j \in 1 .. c.end - 1 /\ j \in 1 .. c.end /\ j \in Int
      BY <1>1, <1>3, <1>9
    <3> QED
      BY <1>2, <3>1, <3>2
  <2>2. RunEnd(c.numbers, j) = r
    <3>1. r >= j /\ (j .. r - 1) \subseteq i .. r - 1
      BY <1>1, <1>3, <1>9
    <3> HIDE DEF j
    <3> QED
      BY <1>1, <1>2, <1>3, <2>1, <3>1, RunIsOne
  <2>3. DigitsOfThree(c, j) = t
    BY <2>2 DEF DigitsOfThree
  <2>4. m = n - 1 /\ m \in Nat /\ m >= 1
    <3>1. m \in Int /\ 3 * m <= r - j + 2 /\ r - j <= 3 * m
      BY <1>1, <1>3
    <3> HIDE DEF m
    <3> QED
      BY <1>1, <1>3, <1>5, <1>9, <3>1
  <2> HIDE DEF m
  <2>5. \A k \in 1 .. m : from(k) \in Int /\ from(k) = at(k + 1)
    BY <1>1, <1>3, <2>4
  <2>6. at(1) = j
    BY <1>1, <1>3, <1>9
  <2> HIDE DEF j, at, from
  <2>7. t \in Seq(Int) /\ Len(t) = m /\ \A k \in 1 .. m : t[k] = from(k)
    BY <2>4, <2>5
  <2>8. u \in Seq(Int) /\ Len(u) = 1 /\ u[1] = j
    BY <2>1
  <2> HIDE DEF s, t, u
  <2>9. /\ u \o t \in Seq(Int) /\ Len(u \o t) = Len(u) + Len(t)
        /\ \A k \in 1 .. Len(u) + Len(t) :
             (u \o t)[k] = IF k <= Len(u) THEN u[k] ELSE t[k - Len(u)]
    BY ONLY <2>7, <2>8, ConcatProperties
  <2>10. ASSUME NEW k \in 1 .. n
         PROVE  s[k] = (u \o t)[k]
    <3>1. s[k] = at(k) /\ (u \o t)[k] = IF k <= 1 THEN u[k] ELSE t[k - 1]
      <4>1. k \in 1 .. Len(u) + Len(t)
        BY <1>5, <2>4, <2>7, <2>8
      <4>2. (u \o t)[k] = IF k <= Len(u) THEN u[k] ELSE t[k - Len(u)]
        BY <2>9, <4>1
      <4> QED
        BY <1>7, <2>8, <4>2
    <3>2. CASE k = 1
      BY <2>6, <2>8, <3>1, <3>2
    <3>3. CASE k # 1
      <4>1. k - 1 \in 1 .. m /\ (k - 1) + 1 = k /\ ~(k <= 1)
        BY <1>5, <2>4, <3>3
      <4> QED
        BY <2>5, <2>7, <3>1, <4>1
    <3> QED
      BY <3>2, <3>3
  <2>11. s = u \o t
    <3>1. Len(u \o t) = n
      BY <1>5, <2>4, <2>7, <2>8, <2>9
    <3> QED
      BY <1>7, <2>9, <2>10, <3>1, SeqEqual
  <2>12. t # <<>>
    BY <2>4, <2>7
  <2> QED
    BY <2>1, <2>3, <2>7, <2>11, <2>12 DEF j, u
<1> QED
  BY <1>2, <1>3, <1>4, <1>8, <1>9

-----------------------------------------------------------------------------
(* The two walks through a text.                                            *)

\* The splitters that have a regular expression of which std::regex makes the same words.
Twofold == {"gpt2", "llama3", "qwen2", "qwen35", "newlines"}

\* The hand-written splitter walks through the text by its cuts.
LEMMA SplitWalks ==
  ASSUME NEW c, IsClasses(c), c.end > 1, NEW name \in Splitters
  PROVE  \E f : /\ Split(c, name) = f[1] /\ f[c.end] = <<>>
                /\ \A i \in 1 .. c.end : f[i] \in Seq(Int)
                /\ \A i \in 1 .. c.end - 1 :
                     f[i] = CutsAt(c, i, name) \o f[Last(CutsAt(c, i, name))]
<1> DEFINE h == [i \in 1 .. c.end |-> CutsAt(c, i, name)]
           next == [i \in 1 .. c.end |-> Last(CutsAt(c, i, name))]
           F(g) == [i \in 1 .. c.end |->
                     LET cutting == CutsAt(c, i, name)
                     IN IF i = c.end THEN <<>> ELSE cutting \o g[Last(cutting)]]
           f == CHOOSE g : g = F(g)
<1>1. c.end \in Nat \ {0}
  BY DEF IsClasses
<1>2. \A i \in 1 .. c.end - 1 : Cutting(c, i, h[i]) /\ h[i] # <<>>
  BY <1>1, CutsAtCuts
<1>3. \A i \in 1 .. c.end - 1 : next[i] = h[i][Len(h[i])]
  BY <1>1 DEF Last
<1>4. Split(c, name) = f[1]
  BY DEF Split
<1>5. \A g : Walk(g, 1 .. c.end, {c.end}, h, next) <=> g = F(g)
  BY DEF Walk
<1>6. \E g : Walk(g, 1 .. c.end, {c.end}, h, next)
  <2> HIDE DEF h, next
  <2> QED
    BY <1>1, <1>2, <1>3, WalkCuts
<1> HIDE DEF h, next, F
<1>7. f = F(f)
  BY <1>5, <1>6
<1> HIDE DEF f
<1>8. Walk(f, 1 .. c.end, {c.end}, h, next)
  BY <1>5, <1>7
<1>9. \A i \in 1 .. c.end - 1 : CutsToEnd(c, i, f[i])
  BY <1>1, <1>2, <1>3, <1>8, WalkCuts
<1>10. c.end \in 1 .. c.end
  BY <1>1
<1>11. f[c.end] = <<>>
  BY <1>8, <1>10 DEF Walk
<1>12. ASSUME NEW i \in 1 .. c.end - 1
       PROVE  f[i] = CutsAt(c, i, name) \o f[Last(CutsAt(c, i, name))]
  <2>1. i \in 1 .. c.end /\ i # c.end
    BY <1>1
  <2>2. f[i] = h[i] \o f[next[i]]
    BY <1>8, <2>1 DEF Walk
  <2>3. h[i] = CutsAt(c, i, name) /\ next[i] = Last(CutsAt(c, i, name))
    BY <2>1 DEF h, next
  <2> QED
    BY <2>2, <2>3
<1>13. ASSUME NEW i \in 1 .. c.end
       PROVE  f[i] \in Seq(Int)
  <2>1. CASE i = c.end
    <3>1. <<>> \in Seq(Int)
      OBVIOUS
    <3> QED
      BY <1>11, <2>1, <3>1
  <2>2. CASE i # c.end
    <3>1. i \in 1 .. c.end - 1
      BY <1>1, <2>2
    <3> QED
      BY <1>9, <3>1 DEF CutsToEnd, Cutting
  <2> QED
    BY <2>1, <2>2
<1> QED
  BY <1>4, <1>11, <1>12, <1>13

\* What puts each match before what it gives after the match is what the expression gives.
LEMMA RegexWalkIsOne ==
  ASSUME NEW c, c.end \in Nat \ {0}, NEW name, NEW f, f[c.end] = <<>>,
         \A i \in 1 .. c.end - 1 : /\ Past(c, i, MatchAt(c, name, i))
                                   /\ f[i] = <<MatchAt(c, name, i)>> \o f[MatchAt(c, name, i)]
  PROVE  RegexSplit(c, name) = f[1]
<1> DEFINE M(i) == MatchAt(c, name, i)
           S == 1 .. c.end
           F(g) == [i \in S |-> LET e == M(i) IN IF i = c.end THEN <<>> ELSE <<e>> \o g[e]]
           q == CHOOSE g : g = F(g)
           p == [i \in S |-> f[i]]
           rank == [i \in S |-> c.end - i]
<1>1. RegexSplit(c, name) = q[1]
  BY DEF RegexSplit
<1>2. \A i \in 1 .. c.end - 1 : M(i) \in S /\ M(i) > i /\ i \in S /\ M(i) \in Int
  <2> SUFFICES ASSUME NEW i \in 1 .. c.end - 1
               PROVE  M(i) \in S /\ M(i) > i /\ i \in S /\ M(i) \in Int
    OBVIOUS
  <2>1. Past(c, i, M(i))
    OBVIOUS
  <2> HIDE DEF M
  <2> QED
    BY <2>1 DEF Past
<1>3. \A i \in S : i = c.end \/ i \in 1 .. c.end - 1
  OBVIOUS
<1>4. \A g : g = F(g) <=> /\ g = [i \in S |-> g[i]]
                          /\ \A i \in S : g[i] = IF i = c.end THEN <<>> ELSE <<M(i)>> \o g[M(i)]
  <2> HIDE DEF M, S
  <2> QED
    OBVIOUS
<1>5. p = F(p)
  <2>1. p = [i \in S |-> p[i]]
    OBVIOUS
  <2>2. \A i \in S : p[i] = f[i]
    OBVIOUS
  <2>3. \A i \in S : p[i] = IF i = c.end THEN <<>> ELSE <<M(i)>> \o p[M(i)]
    <3> HIDE DEF p, S, M
    <3> SUFFICES ASSUME NEW i \in S
                 PROVE  p[i] = IF i = c.end THEN <<>> ELSE <<M(i)>> \o p[M(i)]
      OBVIOUS
    <3>1. CASE i = c.end
      BY <2>2, <3>1
    <3>2. CASE i # c.end
      <4>1. i \in 1 .. c.end - 1
        BY <1>3, <3>2
      <4>2. p[i] = f[i] /\ p[M(i)] = f[M(i)] /\ f[i] = <<M(i)>> \o f[M(i)]
        BY <1>2, <2>2, <4>1 DEF M
      <4> QED
        BY <3>2, <4>2
    <3> QED
      BY <3>1, <3>2
  <2> HIDE DEF p, F
  <2> QED
    BY <1>4, <2>1, <2>3
<1> HIDE DEF F
<1>6. q = F(q)
  BY <1>5
<1> HIDE DEF q
<1> DEFINE P == {i \in S : q[i] = p[i]}
<1>7. ASSUME NEW i \in S, \A j \in S : rank[j] < rank[i] => j \in P
      PROVE  i \in P
  <2>1. q[i] = (IF i = c.end THEN <<>> ELSE <<M(i)>> \o q[M(i)])
    BY <1>4, <1>6
  <2>2. p[i] = (IF i = c.end THEN <<>> ELSE <<M(i)>> \o p[M(i)])
    <3> HIDE DEF p
    <3> QED
      BY <1>4, <1>5
  <2>3. CASE i = c.end
    BY <2>1, <2>2, <2>3
  <2>4. CASE i # c.end
    <3>1. M(i) \in S /\ M(i) > i /\ M(i) \in Int
      BY <1>2, <1>3, <2>4
    <3>2. rank[M(i)] < rank[i]
      BY <3>1
    <3>3. q[M(i)] = p[M(i)]
      BY <1>7, <3>1, <3>2
    <3> HIDE DEF p, M
    <3> QED
      BY <2>1, <2>2, <2>4, <3>3
  <2> QED
    BY <2>3, <2>4
<1>8. \A i \in S : rank[i] \in Nat
  OBVIOUS
<1>9. 1 \in S
  OBVIOUS
<1> HIDE DEF P, rank
<1>10. S \subseteq P
  <2>1. \A i \in S : (\A j \in S : rank[j] < rank[i] => j \in P) => i \in P
    BY <1>7
  <2> HIDE DEF S
  <2> QED
    BY ONLY <1>8, <2>1, Descending
<1>11. q[1] = p[1]
  BY <1>9, <1>10 DEF P
<1> QED
  BY <1>1, <1>9, <1>11

\* Outside a run of digits of "llama3" the splitter cuts where the expression matches.
LEMMA OneCutAgrees ==
  ASSUME NEW c, Apart(c), NEW i \in 1 .. c.end - 1, NEW name \in Twofold,
         name = "llama3" => i \notin c.numbers
  PROVE  /\ CutsAt(c, i, name) = <<MatchAt(c, name, i)>>
         /\ Past(c, i, MatchAt(c, name, i))
         /\ Last(CutsAt(c, i, name)) = MatchAt(c, name, i)
<1> DEFINE m == MatchAt(c, name, i)
<1>1. CutsAt(c, i, name) = <<m>>
  <2>1. CASE name = "gpt2"
    BY <2>1, Gpt2Agrees
  <2>2. CASE name = "newlines"
    BY <2>2, NewlinesAgree
  <2>3. CASE name \in {"llama3", "qwen2", "qwen35"}
    BY <2>3, LlamaAgrees
  <2> QED
    BY <2>1, <2>2, <2>3 DEF Twofold
<1>2. Cutting(c, i, CutsAt(c, i, name))
  <2>1. name \in Splitters /\ IsClasses(c)
    BY DEF Twofold, Splitters, Apart
  <2> QED
    BY <2>1, CutsAtCuts
<1> HIDE DEF m
<1>3. Len(<<m>>) = 1 /\ <<m>>[1] = m /\ <<m>> # <<>>
  OBVIOUS
<1>4. Past(c, i, m)
  <2> DEFINE s == <<m>>
  <2>1. Cutting(c, i, s) /\ Len(s) = 1 /\ s[1] = m /\ s # <<>>
    BY <1>1, <1>2, <1>3
  <2> HIDE DEF s
  <2>2. s \in Seq(Int) /\ s[1] > i /\ s[Len(s)] <= c.end
    BY <2>1 DEF Cutting
  <2>3. s[1] \in Int
    BY <2>1, <2>2
  <2> QED
    BY <2>1, <2>2, <2>3 DEF Past
<1>5. Last(<<m>>) = m
  BY <1>3 DEF Last
<1> QED
  BY <1>1, <1>4, <1>5 DEF m

\* Three sequences joined.
LEMMA JoinTwice ==
  ASSUME NEW r \in Seq(Int), NEW s \in Seq(Int), NEW t \in Seq(Int)
  PROVE  (r \o s) \o t = r \o (s \o t)
BY ConcatAssociative

\* What the walk of a splitter gives at a position is the match there and what it gives after it.
LEMMA WalksAgree ==
  ASSUME NEW c, Apart(c), NEW name \in Twofold, NEW f,
         \A i \in 1 .. c.end : f[i] \in Seq(Int),
         \A i \in 1 .. c.end - 1 : f[i] = CutsAt(c, i, name) \o f[Last(CutsAt(c, i, name))],
         NEW i \in 1 .. c.end - 1
  PROVE  /\ Past(c, i, MatchAt(c, name, i))
         /\ f[i] = <<MatchAt(c, name, i)>> \o f[MatchAt(c, name, i)]
<1>1. CASE name = "llama3" => i \notin c.numbers
  <2>1. /\ CutsAt(c, i, name) = <<MatchAt(c, name, i)>>
        /\ Past(c, i, MatchAt(c, name, i))
        /\ Last(CutsAt(c, i, name)) = MatchAt(c, name, i)
    BY <1>1, OneCutAgrees
  <2>2. f[i] = CutsAt(c, i, name) \o f[Last(CutsAt(c, i, name))]
    OBVIOUS
  <2> QED
    BY <2>1, <2>2, Zenon
<1>2. CASE name = "llama3" /\ i \in c.numbers
  <2> DEFINE r == RunEnd(c.numbers, i)
             D(k) == DigitsOfThree(c, k)
             m == MatchAt(c, name, i)
  <2>1. CutsAt(c, i, name) = D(i) /\ m = (IF i + 3 <= r THEN i + 3 ELSE r)
    BY <1>2, DigitsMatch
  <2>2. /\ r \in Int /\ r > i /\ r <= c.end
        /\ r <= i + 3 => D(i) = <<r>>
        /\ r > i + 3 => /\ i + 3 \in 1 .. c.end - 1 /\ i + 3 \in c.numbers
                        /\ D(i) = <<i + 3>> \o D(i + 3)
                        /\ D(i + 3) \in Seq(Int) /\ D(i + 3) # <<>>
    BY <1>2, DigitsStep
  <2>3. i \in Int /\ c.end \in Nat
    BY Here
  <2>4. f[i] = D(i) \o f[Last(D(i))]
    BY <2>1
  <2> HIDE DEF r, m, D
  <2>5. Past(c, i, m)
    BY <2>1, <2>2, <2>3 DEF Past
  <2>6. CASE r <= i + 3
    <3>1. m = r /\ D(i) = <<m>>
      BY <2>1, <2>2, <2>3, <2>6
    <3>2. Last(<<m>>) = m
      BY DEF Last
    <3>3. f[i] = <<m>> \o f[m]
      BY <2>4, <3>1, <3>2
    <3> QED
      BY <2>5, <3>3 DEF m
  <2>7. CASE r > i + 3
    <3> DEFINE j == i + 3
               t == D(j)
               e == Last(t)
               u == <<j>>
    <3>1. m = j
      BY <2>1, <2>2, <2>3, <2>7
    <3>2. /\ j \in 1 .. c.end - 1 /\ j \in c.numbers /\ D(i) = u \o t /\ t \in Seq(Int) /\ t # <<>>
      BY <2>2, <2>7
    <3>3. CutsAt(c, j, name) = t
      BY <1>2, <3>2, DigitsMatch DEF D
    <3> HIDE DEF j, t
    <3>4. e \in 1 .. c.end
      <4>1. name \in Splitters /\ IsClasses(c) /\ c.end \in Nat
        BY <2>3 DEF Twofold, Splitters, Apart
      <4>2. Cutting(c, j, t)
        BY <3>2, <3>3, <4>1, CutsAtCuts
      <4>3. j \in Int /\ j >= 1
        BY <2>3, <3>2, <4>1
      <4>4. Len(t) \in Nat \ {0} /\ e = t[Len(t)]
        BY <3>2 DEF Last
      <4>5. t[Len(t)] \in Int
        BY <3>2, <4>4
      <4>6. t[Len(t)] > j
        BY <3>2, <4>2, <4>3, LastIsPast
      <4>7. t[Len(t)] <= c.end
        BY <3>2, <4>2 DEF Cutting
      <4> QED
        BY <4>1, <4>3, <4>4, <4>5, <4>6, <4>7
    <3>5. f[j] = t \o f[e] /\ f[e] \in Seq(Int)
      BY <3>2, <3>3, <3>4
    <3>6. u \in Seq(Int) /\ Len(u) = 1
      BY <2>3, <3>2
    <3> HIDE DEF u
    <3>7. Last(u \o t) = e
      <4>1. Len(t) \in Nat \ {0}
        BY <3>2
      <4>2. /\ Len(u \o t) = Len(u) + Len(t)
            /\ \A k \in 1 .. Len(u) + Len(t) :
                 (u \o t)[k] = IF k <= Len(u) THEN u[k] ELSE t[k - Len(u)]
        BY ONLY <3>2, <3>6, ConcatProperties
      <4> DEFINE n == Len(t)
                 v == u \o t
      <4>3. n + 1 \in 1 .. 1 + n /\ ~(n + 1 <= 1) /\ (n + 1) - 1 = n
        BY <4>1
      <4>4. Len(v) = n + 1
        BY <3>6, <4>1, <4>2
      <4>5. v[n + 1] = t[n]
        BY <3>6, <4>2, <4>3
      <4> HIDE DEF v, n
      <4>6. Last(v) = v[n + 1]
        BY <4>4 DEF Last
      <4> QED
        BY <4>5, <4>6 DEF Last, n, v
    <3>8. (u \o t) \o f[e] = u \o (t \o f[e])
      <4> DEFINE w == f[e]
      <4>1. u \in Seq(Int) /\ t \in Seq(Int) /\ w \in Seq(Int)
        BY <3>2, <3>5, <3>6
      <4> HIDE DEF w
      <4>2. (u \o t) \o w = u \o (t \o w)
        BY <4>1, JoinTwice
      <4> QED
        BY <4>2 DEF w
    <3>9. f[i] = u \o f[j]
      BY <2>4, <3>2, <3>5, <3>7, <3>8
    <3> QED
      BY <2>5, <3>1, <3>9 DEF m, u
  <2> QED
    BY <2>2, <2>3, <2>6, <2>7
<1> QED
  BY <1>1, <1>2

\* The splitter and the expression cut a text alike.
LEMMA SplitsAgree ==
  ASSUME NEW c, Apart(c), c.end > 1, NEW name \in Twofold
  PROVE  Split(c, name) = RegexSplit(c, name)
<1>1. name \in Splitters /\ IsClasses(c)
  BY DEF Twofold, Splitters, Apart
<1>2. c.end \in Nat \ {0}
  BY <1>1 DEF IsClasses
<1>3. PICK f : /\ Split(c, name) = f[1] /\ f[c.end] = <<>>
               /\ \A i \in 1 .. c.end : f[i] \in Seq(Int)
               /\ \A i \in 1 .. c.end - 1 :
                    f[i] = CutsAt(c, i, name) \o f[Last(CutsAt(c, i, name))]
  BY <1>1, SplitWalks
<1>4. \A i \in 1 .. c.end - 1 : /\ Past(c, i, MatchAt(c, name, i))
                                /\ f[i] = <<MatchAt(c, name, i)>> \o f[MatchAt(c, name, i)]
  BY <1>3, WalksAgree
<1>5. RegexSplit(c, name) = f[1]
  <2>1. f[c.end] = <<>>
    BY <1>3
  <2> QED
    BY ONLY <1>2, <1>4, <2>1, RegexWalkIsOne
<1> QED
  BY <1>3, <1>5

-----------------------------------------------------------------------------
(* The invariant: the cuts are those of the splitter.                       *)

\* The splitter of a name and its regular expression cut any text alike.
LEMMA TextIsCutAlike ==
  ASSUME NEW s \in Seq(Byte), s # <<>>, NEW name \in Twofold
  PROVE  Split(Classes(CptsFromUtf8(s)), name) = RegexSplit(Classes(CptsFromUtf8(s)), name)
<1> DEFINE cpts == CptsFromUtf8(s)
           T == {CptAt(s, i) : i \in 1 .. Len(s)}
           c == Classes(cpts)
<1>1. cpts \in Seq(T) /\ cpts # <<>>
  BY CptsAre
<1>2. \A x \in T : x \in Nat
  BY CptAtIs, SMT DEF IsCpt
<1> HIDE DEF T, cpts
<1>3. \A i \in 1 .. Len(cpts) : cpts[i] \in Nat
  BY <1>1, <1>2
<1>4. cpts \in Seq(Nat)
  BY <1>1, <1>3, ElementsAre
<1>5. Len(cpts) \in Nat /\ Len(cpts) # 0
  BY <1>1
<1>6. c.end = Len(cpts) + 1
  BY <1>1, ClassesAre
<1>7. Apart(c)
  BY <1>4, ClassesApart
<1> HIDE DEF c
<1>8. c.end > 1
  BY <1>5, <1>6
<1>9. Split(c, name) = RegexSplit(c, name)
  BY <1>7, <1>8, SplitsAgree
<1> QED
  BY <1>9 DEF c, cpts

\* A text that is cut is not empty, its splitter is known and made the cuts.
CutBySplitter ==
  phase \in {"cut", "split"} =>
    /\ text # <<>> /\ pre # "none"
    /\ cuts = IF pre = "tekken" THEN RegexSplit(Classes(CptsFromUtf8(text)), pre)
              ELSE Split(Classes(CptsFromUtf8(text)), pre)

\* Every step keeps it: Pretokenize and SplitSpare are the only ones that cut.
LEMMA NextCutBySplitter ==
  ASSUME CutBySplitter, [Next]_vars
  PROVE  CutBySplitter'
<1> USE DEF CutBySplitter
<1>1. CASE SplitSpare
  <2>1. PICK name \in Spare :
          pre' = name /\ cuts' = Split(Classes(CptsFromUtf8(text)), name)
    BY <1>1 DEF SplitSpare
  <2>2. name # "none" /\ name # "tekken"
    BY SpareSplitters
  <2>3. text # <<>> /\ text' = text
    BY <1>1 DEF SplitSpare
  <2> QED
    BY <2>1, <2>2, <2>3
<1>2. CASE Pretokenize
  <2>1. text # <<>> /\ pre # "none" /\ text' = text /\ pre' = pre
    BY <1>2 DEF Pretokenize
  <2>2. CASE Unencodable(CptsFromUtf8(text))
    <3>1. phase' = "threw"
      BY <1>2, <2>2 DEF Pretokenize
    <3> QED
      BY <3>1
  <2>3. CASE ~Unencodable(CptsFromUtf8(text))
    <3>1. cuts' = IF pre = "tekken" THEN RegexSplit(Classes(CptsFromUtf8(text)), pre)
                  ELSE Split(Classes(CptsFromUtf8(text)), pre)
      BY <1>2, <2>3 DEF Pretokenize
    <3> QED
      BY <2>1, <3>1
  <2> QED
    BY <2>2, <2>3
<1>3. CASE Load
  BY <1>3 DEF Load
<1>4. CASE OneWord \/ Normalize \/ BeginWords
  BY <1>4 DEF OneWord, Normalize, BeginWords
<1>5. CASE NextWord
  BY <1>5 DEF NextWord
<1>6. CASE Pop
  BY <1>6 DEF Pop
<1>7. CASE EmitWord
  BY <1>7 DEF EmitWord
<1>8. CASE Finish
  BY <1>8 DEF Finish
<1>9. CASE Done \/ UNCHANGED vars
  BY <1>9 DEF Done, vars
<1> QED
  BY <1>1, <1>2, <1>3, <1>4, <1>5, <1>6, <1>7, <1>8, <1>9 DEF Next

\* A text that is cut was cut by its splitter alone.
THEOREM CutBySplitterHolds == Spec => []CutBySplitter
<1>1. Init => CutBySplitter
  BY DEF Init, CutBySplitter
<1>2. CutBySplitter /\ [Next]_vars => CutBySplitter'
  BY NextCutBySplitter
<1> QED
  BY <1>1, <1>2, PTL DEF Spec

\* The splitters written by hand cut every text where the regular expression above
\* each of them does (unicode.cpp, "regex:" comments).
THEOREM SplitIsRegexHolds == Spec => []SplitIsRegex
<1>1. Prompted /\ CutBySplitter => SplitIsRegex
  <2> SUFFICES ASSUME Prompted, CutBySplitter, phase \in {"cut", "split"},
                      pre \notin {"kimi_k2", "afmoe"}
               PROVE  cuts = RegexSplit(Classes(CptsFromUtf8(text)), pre)
    BY DEF SplitIsRegex
  <2>1. /\ text \in Seq(Byte) /\ text # <<>> /\ pre \in Pres /\ pre # "none"
        /\ cuts = IF pre = "tekken" THEN RegexSplit(Classes(CptsFromUtf8(text)), pre)
                  ELSE Split(Classes(CptsFromUtf8(text)), pre)
    BY DEF Prompted, CutBySplitter
  <2>2. CASE pre = "tekken"
    BY <2>1, <2>2
  <2>3. CASE pre # "tekken"
    <3>1. pre \in Twofold
      BY <2>1, <2>3 DEF Pres, Splitters, Twofold
    <3>2. Split(Classes(CptsFromUtf8(text)), pre) = RegexSplit(Classes(CptsFromUtf8(text)), pre)
      BY <2>1, <3>1, TextIsCutAlike
    <3> QED
      BY <2>1, <2>3, <3>2
  <2> QED
    BY <2>2, <2>3
<1> QED
  BY <1>1, PromptedHolds, CutBySplitterHolds, PTL

-----------------------------------------------------------------------------
(* The splitter of "kimi_k2" and Han letters.                               *)

\* Cuts with no Han letter between i and the last of them.
NoHan(c, i, r) == r # <<>> => (i .. Last(r) - 1) \cap c.letters \cap c.han = {}

\* A rule that cuts once, or not.
LEMMA NoHanBefore ==
  ASSUME NEW c, NEW i \in Int, NEW e \in Int, (i .. e - 1) \cap c.letters \cap c.han = {}
  PROVE  NoHan(c, i, <<e>>) /\ NoHan(c, i, <<>>)
<1>1. Last(<<e>>) = e
  BY DEF Last
<1> QED
  BY <1>1 DEF NoHan

\* No character of a contraction is a Han character.
LatinHan(c) == \A k \in c.han : k \in c.all /\ c.text[k] \notin {Quote} \cup 1 .. 255

\* So a contraction has no Han character.
LEMMA ContractionNoHan ==
  ASSUME NEW c, Apart(c), LatinHan(c), NEW i \in 1 .. c.end
  PROVE  LET r == Contraction(c, i, TRUE)
         IN r # <<>> => Last(r) \in Int /\ (i .. Last(r) - 1) \cap c.han = {}
<1> DEFINE at(k) == IF i + k \notin c.all THEN 0 ELSE ToLower(c.text[i + k])
           a1 == at(1)
           a2 == at(2)
           r == Contraction(c, i, TRUE)
<1>1. i \in Int /\ \A k \in c.all : k \in Int
  BY DEF Apart, IsClasses
<1>2. r = IF i \notin c.all \/ c.text[i] # Quote THEN <<>>
          ELSE IF a1 \in {\h73, \h74, \h6D, \h64} THEN <<i + 2>>
          ELSE IF <<a1, a2>> \in {<<\h72, \h65>>, <<\h76, \h65>>, <<\h6C, \h6C>>} THEN <<i + 3>>
          ELSE <<>>
  BY DEF Contraction
<1>3. ASSUME NEW k \in {1, 2}, at(k) \in SuffixLetters
      PROVE  i + k \notin c.han
  <2>1. i + k \in c.all /\ ToLower(c.text[i + k]) = at(k)
    <3>1. 0 \notin SuffixLetters
      BY DEF SuffixLetters
    <3> QED
      BY <1>3, <3>1
  <2> DEFINE l == at(k)
  <2>2. l \in SuffixLetters
    BY <1>3
  <2> HIDE DEF l
  <2>3. c.text[i + k] \in {l, l - 32}
    BY <2>1, <2>2, ToLowerIs DEF l
  <2>4. l \in 1 .. 255 /\ l - 32 \in 1 .. 255
    BY <2>2, SMT DEF SuffixLetters
  <2> QED
    BY <2>3, <2>4 DEF LatinHan
<1>4. (i \in c.all /\ c.text[i] = Quote) => i \notin c.han
  BY DEF LatinHan
<1> HIDE DEF at, a1, a2
<1> DEFINE Q == i \in c.all /\ c.text[i] = Quote
           One1 == a1 \in {\h73, \h74, \h6D, \h64}
           Two1 == <<a1, a2>> \in {<<\h72, \h65>>, <<\h76, \h65>>, <<\h6C, \h6C>>}
<1>5. /\ (Q /\ One1) => r = <<i + 2>>
      /\ (Q /\ ~One1 /\ Two1) => r = <<i + 3>>
      /\ (~Q \/ (~One1 /\ ~Two1)) => r = <<>>
  <2> HIDE DEF r
  <2> QED
    BY <1>2, Zenon
<1>6. /\ One1 => a1 \in SuffixLetters
      /\ Two1 => a1 \in SuffixLetters /\ a2 \in SuffixLetters
  <2>1. \A u, v : <<a1, a2>> = <<u, v>> => a1 = u /\ a2 = v
    OBVIOUS
  <2> QED
    BY <2>1 DEF SuffixLetters
<1>7. \A k \in {1, 2} : at(k) \in SuffixLetters => i + k \notin c.han
  BY <1>3
<1>8. /\ a1 \in SuffixLetters => i + 1 \notin c.han
      /\ a2 \in SuffixLetters => i + 2 \notin c.han
  BY <1>7 DEF a1, a2
<1> HIDE DEF One1, Two1, r
<1>9. CASE Q /\ One1
  <2>1. r = <<i + 2>> /\ i \notin c.han /\ i + 1 \notin c.han
    BY <1>4, <1>5, <1>6, <1>8, <1>9
  <2>2. Last(<<i + 2>>) = i + 2
    BY DEF Last
  <2>3. \A k \in i .. (i + 2) - 1 : k = i \/ k = i + 1
    BY <1>1
  <2>4. Last(r) = i + 2
    BY <2>1, <2>2
  <2>5. r # <<>> => Last(r) \in Int /\ (i .. Last(r) - 1) \cap c.han = {}
    BY <1>1, <2>1, <2>3, <2>4
  <2> QED
    BY <2>5 DEF r
<1>10. CASE Q /\ ~One1 /\ Two1
  <2>1. r = <<i + 3>> /\ i \notin c.han /\ i + 1 \notin c.han /\ i + 2 \notin c.han
    BY <1>4, <1>5, <1>6, <1>8, <1>10
  <2>2. Last(<<i + 3>>) = i + 3
    BY DEF Last
  <2>3. \A k \in i .. (i + 3) - 1 : k = i \/ k = i + 1 \/ k = i + 2
    BY <1>1
  <2>4. Last(r) = i + 3
    BY <2>1, <2>2
  <2>5. r # <<>> => Last(r) \in Int /\ (i .. Last(r) - 1) \cap c.han = {}
    BY <1>1, <2>1, <2>3, <2>4
  <2> QED
    BY <2>5 DEF r
<1>11. CASE ~Q \/ (~One1 /\ ~Two1)
  BY <1>5, <1>11 DEF r
<1> QED
  BY <1>9, <1>10, <1>11

\* Letters that are not Han, with one character before them and a contraction after.
LEMMA KimiWordNoHan ==
  ASSUME NEW c, Apart(c), LatinHan(c), NEW i \in 1 .. c.end - 1
  PROVE  NoHan(c, i, KimiWord(c, i))
<1> DEFINE P == c.letters \ c.han
           leads == i \notin c.breaks \cup c.letters \cup c.numbers /\ i + 1 \in P
           s == IF leads THEN i + 1 ELSE i
           e == RunEnd(P, s)
           suffix == Contraction(c, e, TRUE)
           r == KimiWord(c, i)
<1>1. /\ IsClasses(c) /\ c.end \in Nat \ {0} /\ i \in 1 .. c.end /\ i + 1 \in 1 .. c.end /\ i \in Nat
      /\ Within(c, P)
  BY Here, SetsAreWithin
<1>2. r = IF ~leads /\ i \notin P THEN <<>> ELSE IF suffix = <<>> THEN <<e>> ELSE suffix
  BY DEF KimiWord
<1>3. CASE ~leads /\ i \notin P
  BY <1>2, <1>3 DEF NoHan
<1>4. CASE leads \/ i \in P
  <2>1. s \in 1 .. c.end /\ s \in Int /\ (s = i \/ (s = i + 1 /\ i \notin c.letters))
    BY <1>1
  <2> HIDE DEF s, leads
  <2>2. e \in s .. c.end /\ (s .. e - 1) \subseteq P
    BY <1>1, <2>1, RunIs
  <2>3. e \in Int /\ e \in 1 .. c.end
    BY <1>1, <2>1, <2>2
  <2>4. P \cap c.han = {}
    OBVIOUS
  <2> HIDE DEF e, P
  <2>5. ASSUME NEW k \in i .. e - 1, k \in c.letters, k \in c.han
        PROVE  FALSE
    <3>1. k \in s .. e - 1
      BY <1>1, <2>1, <2>3, <2>5
    <3> QED
      BY <2>2, <2>4, <2>5, <3>1
  <2>6. (i .. e - 1) \cap c.letters \cap c.han = {}
    BY <2>5
  <2>7. CASE suffix = <<>>
    <3>1. r = <<e>>
      BY <1>2, <1>4, <2>7
    <3> QED
      BY <1>1, <2>3, <2>6, <3>1, NoHanBefore
  <2>8. CASE suffix # <<>>
    <3>1. r = suffix
      BY <1>2, <1>4, <2>8
    <3>2. Last(suffix) \in Int /\ (e .. Last(suffix) - 1) \cap c.han = {}
      BY <2>3, <2>8, ContractionNoHan
    <3> HIDE DEF suffix
    <3> DEFINE l == Last(suffix)
    <3> HIDE DEF l
    <3>3. l \in Int /\ (e .. l - 1) \cap c.han = {}
      BY <3>2 DEF l
    <3>4. ASSUME NEW k \in i .. l - 1, k \in c.letters, k \in c.han
          PROVE  FALSE
      <4>1. k \in i .. e - 1 \/ k \in e .. l - 1
        BY <1>1, <2>3, <3>3
      <4> QED
        BY <2>5, <3>3, <3>4, <4>1
    <3>5. (i .. l - 1) \cap c.letters \cap c.han = {}
      BY <3>4
    <3>6. (i .. Last(suffix) - 1) \cap c.letters \cap c.han = {}
      BY <3>5 DEF l
    <3> HIDE DEF r
    <3> QED
      BY <3>1, <3>6 DEF NoHan, r
  <2> QED
    BY <2>7, <2>8
<1> QED
  BY <1>3, <1>4

\* Digits,
LEMMA DigitsNoHan ==
  ASSUME NEW c, Apart(c), NEW i \in 1 .. c.end - 1
  PROVE  NoHan(c, i, DigitsOfThree(c, i))
<1> DEFINE e == RunEnd(c.numbers, i)
           n == (e - i + 2) \div 3
           at(k) == IF i + 3 * k <= e THEN i + 3 * k ELSE e
           r == [k \in 1 .. n |-> at(k)]
<1>1. /\ IsClasses(c) /\ c.end \in Nat \ {0} /\ i \in 1 .. c.end /\ i \in Nat
      /\ Within(c, c.numbers)
  BY Here, SetsAreWithin
<1>2. e \in i .. c.end /\ (i .. e - 1) \subseteq c.numbers
  BY <1>1, RunIs
<1>3. DigitsOfThree(c, i) = r
  BY DEF DigitsOfThree
<1> HIDE DEF e
<1>4. e \in Int
  BY <1>1, <1>2
<1>5. n \in Nat
  BY <1>1, <1>2, <1>4
<1> HIDE DEF n
<1> SUFFICES ASSUME r # <<>>
             PROVE  (i .. Last(r) - 1) \cap c.letters \cap c.han = {}
  BY <1>3 DEF NoHan
<1>6. \A k \in 1 .. n : at(k) \in Int /\ at(k) <= e
  BY <1>1, <1>4, <1>5
<1> HIDE DEF at
<1>7. r \in Seq(Int) /\ Len(r) = n /\ \A k \in 1 .. n : r[k] = at(k)
  BY <1>5, <1>6
<1> HIDE DEF r
<1>8. n # 0
  BY <1>7
<1> DEFINE l == Last(r)
<1>9. l \in Int /\ l <= e
  BY <1>5, <1>6, <1>7, <1>8 DEF Last
<1> HIDE DEF l
<1>10. (i .. l - 1) \subseteq (i .. e - 1)
  BY <1>1, <1>4, <1>9
<1>11. c.numbers \cap c.letters = {}
  BY DEF Apart
<1>12. (i .. l - 1) \cap c.letters \cap c.han = {}
  BY <1>2, <1>10, <1>11
<1> QED
  BY <1>12 DEF l

\* symbols,
LEMMA SymbolsNoHan ==
  ASSUME NEW c, Apart(c), NEW i \in 1 .. c.end - 1
  PROVE  NoHan(c, i, SymbolsAndBreaks(c, i, Others(c)))
<1> DEFINE s == Skip(c, i)
           P == Others(c)
           d == RunEnd(P, s)
           e == RunEnd(c.breaks, d)
<1>1. /\ IsClasses(c) /\ c.end \in Nat \ {0} /\ i \in 1 .. c.end /\ i + 1 \in 1 .. c.end /\ i \in Nat
      /\ Within(c, P) /\ Within(c, c.breaks)
  BY Here, SetsAreWithin
<1>2. s \in 1 .. c.end /\ s \in Int /\ (s = i \/ (s = i + 1 /\ i \notin c.letters))
  <2>1. c.blanks \cap c.letters = {}
    BY DEF Apart
  <2> QED
    BY <1>1, <2>1 DEF Skip
<1>3. P \cap c.letters = {} /\ c.breaks \cap c.letters = {}
  BY DEF Apart, Others
<1>4. SymbolsAndBreaks(c, i, P) = IF s \in P \cup {c.end} THEN <<e>> ELSE <<>>
  BY DEF SymbolsAndBreaks
<1> HIDE DEF s, P
<1>5. d \in s .. c.end /\ (s .. d - 1) \subseteq P
  BY <1>1, <1>2, RunIs
<1>6. d \in Int /\ d \in 1 .. c.end
  BY <1>1, <1>2, <1>5
<1> HIDE DEF d
<1>7. e \in d .. c.end /\ (d .. e - 1) \subseteq c.breaks
  BY <1>1, <1>6, RunIs
<1>8. e \in Int
  BY <1>6, <1>7
<1> HIDE DEF e
<1>9. ASSUME NEW k \in i .. e - 1, k \in c.letters
      PROVE  FALSE
  <2>1. k \in s .. d - 1 \/ k \in d .. e - 1 \/ (k = i /\ s = i + 1)
    BY <1>1, <1>2, <1>5, <1>6, <1>7, <1>8, <1>9
  <2> QED
    BY <1>2, <1>3, <1>5, <1>7, <1>9, <2>1
<1>10. (i .. e - 1) \cap c.letters \cap c.han = {}
  BY <1>9
<1>11. NoHan(c, i, <<e>>) /\ NoHan(c, i, <<>>)
  BY <1>1, <1>8, <1>10, NoHanBefore
<1> QED
  BY <1>4, <1>11 DEF P

\* and white space have no Han letter.
LEMMA SpacesNoHan ==
  ASSUME NEW c, Apart(c), NEW i \in 1 .. c.end - 1
  PROVE  NoHan(c, i, Breaks(c, i)) /\ NoHan(c, i, SpacesBefore(c, i)) /\ NoHan(c, i, Spaces(c, i))
<1> DEFINE e == RunEnd(c.spaces, i)
           inRun == c.breaks \cap (i .. e - 1)
           m == Max(inRun)
<1>1. /\ IsClasses(c) /\ c.end \in Nat \ {0} /\ i \in 1 .. c.end /\ i \in Nat
      /\ Within(c, c.spaces)
  BY Here, SetsAreWithin
<1>2. e \in i .. c.end /\ (i .. e - 1) \subseteq c.spaces
  BY <1>1, RunIs
<1>3. c.spaces \cap c.letters = {}
  BY DEF Apart
<1>4. Breaks(c, i) = IF inRun = {} THEN <<>> ELSE <<m + 1>>
  BY DEF Breaks
<1>5. SpacesBefore(c, i) = IF e > i + 1 /\ e # c.end THEN <<e - 1>> ELSE <<>>
  BY DEF SpacesBefore
<1>6. Spaces(c, i) = IF i \in c.spaces THEN <<e>> ELSE <<>>
  BY DEF Spaces
<1> HIDE DEF e
<1>7. e \in Int
  BY <1>1, <1>2
<1>8. ASSUME NEW l \in Int, l <= e
      PROVE  NoHan(c, i, <<l>>) /\ NoHan(c, i, <<>>)
  <2>1. (i .. l - 1) \subseteq (i .. e - 1)
    BY <1>1, <1>7, <1>8
  <2>2. (i .. l - 1) \cap c.letters \cap c.han = {}
    BY <1>2, <1>3, <2>1
  <2> QED
    BY <1>1, <2>2, NoHanBefore
<1>9. NoHan(c, i, <<e>>) /\ NoHan(c, i, <<>>)
  BY <1>7, <1>8
<1>10. NoHan(c, i, <<e - 1>>)
  BY <1>7, <1>8
<1>11. inRun # {} => NoHan(c, i, <<m + 1>>)
  <2> SUFFICES ASSUME inRun # {} PROVE NoHan(c, i, <<m + 1>>)
    OBVIOUS
  <2>1. m \in inRun
    <3>1. inRun \subseteq i .. e - 1 /\ i \in Int /\ e - 1 \in Int
      BY <1>1, <1>7
    <3> HIDE DEF inRun
    <3> QED
      BY <3>1, MaxIs
  <2>2. m \in i .. e - 1
    BY <2>1
  <2> HIDE DEF m, inRun
  <2>3. m + 1 \in Int /\ m + 1 <= e
    BY <1>1, <1>7, <2>2
  <2> QED
    BY <1>8, <2>3
<1> QED
  BY <1>4, <1>5, <1>6, <1>9, <1>10, <1>11

\* Between two cuts are Han characters only, or no Han letter.
LEMMA KimiCuts ==
  ASSUME NEW c, Apart(c), LatinHan(c), NEW i \in 1 .. c.end - 1
  PROVE  LET e == Last(CutsAt(c, i, "kimi_k2"))
         IN (i .. e - 1) \subseteq c.han \/ (i .. e - 1) \cap c.letters \cap c.han = {}
<1> DEFINE a1 == Han(c, i)
           a2 == KimiWord(c, i)
           a3 == DigitsOfThree(c, i)
           a4 == IF Skip(c, i) \in Others(c) THEN SymbolsAndBreaks(c, i, Others(c)) ELSE <<>>
           a5 == Breaks(c, i)
           a6 == SpacesBefore(c, i)
           a7 == Spaces(c, i)
           r == CutsAt(c, i, "kimi_k2")
<1>1. /\ IsClasses(c) /\ c.end \in Nat \ {0} /\ i \in 1 .. c.end /\ i \in Nat
      /\ Within(c, c.han)
  BY Here, SetsAreWithin
<1>2. r = OfSeven(a1, a2, a3, a4, a5, a6, a7, i)
  <2>1. Rules(c, i, "kimi_k2") = KimiK2(c, i)
    BY Zenon DEF Rules
  <2>2. KimiK2(c, i) = <<a1, a2, a3, a4, a5, a6, a7>>
    BY DEF KimiK2
  <2>3. r = FirstRule(<<a1, a2, a3, a4, a5, a6, a7>>, i)
    BY <2>1, <2>2 DEF CutsAt, FirstRule
  <2> HIDE DEF a1, a2, a3, a4, a5, a6, a7, r
  <2>4. FirstRule(<<a1, a2, a3, a4, a5, a6, a7>>, i) = OfSeven(a1, a2, a3, a4, a5, a6, a7, i)
    BY FirstOfSeven
  <2> QED
    BY <2>3, <2>4, Zenon
<1>3. a1 = (IF i \in c.han THEN <<RunEnd(c.han, i)>> ELSE <<>>)
  BY DEF Han
<1>4. NoHan(c, i, a2) /\ NoHan(c, i, a3) /\ NoHan(c, i, a5) /\ NoHan(c, i, a6) /\ NoHan(c, i, a7)
  BY KimiWordNoHan, DigitsNoHan, SpacesNoHan
<1>5. NoHan(c, i, a4)
  <2>1. NoHan(c, i, SymbolsAndBreaks(c, i, Others(c)))
    BY SymbolsNoHan
  <2>2. NoHan(c, i, <<>>)
    BY DEF NoHan
  <2> QED
    BY <2>1, <2>2
<1> HIDE DEF a1, a2, a3, a4, a5, a6, a7, r
<1>6. CASE i \in c.han
  <2> DEFINE e == RunEnd(c.han, i)
  <2>1. (i .. e - 1) \subseteq c.han
    BY <1>1, RunIs
  <2> HIDE DEF e
  <2>2. a1 = <<e>> /\ <<e>> # <<>>
    BY <1>3, <1>6 DEF e
  <2>3. r = <<e>>
    BY <1>2, <2>2 DEF OfSeven
  <2>4. Last(<<e>>) = e
    BY DEF Last
  <2>5. Last(r) = e
    BY <2>3, <2>4
  <2> QED
    BY <2>1, <2>5 DEF r
<1>7. CASE i \notin c.han
  <2>1. a1 = <<>>
    BY <1>3, <1>7
  <2>2. NoHan(c, i, <<i + 1>>)
    <3>1. \A k \in i .. (i + 1) - 1 : k = i
      BY <1>1
    <3>2. (i .. (i + 1) - 1) \cap c.letters \cap c.han = {}
      BY <1>7, <3>1
    <3> QED
      BY <1>1, <3>2, NoHanBefore
  <2>3. r # <<>> /\ NoHan(c, i, r)
    <3>1. <<i + 1>> # <<>>
      OBVIOUS
    <3> QED
      BY <1>2, <1>4, <1>5, <2>1, <2>2, <3>1 DEF OfSeven
  <2>4. (i .. Last(r) - 1) \cap c.letters \cap c.han = {}
    BY <2>3 DEF NoHan
  <2> QED
    BY <2>4 DEF r
<1> QED
  BY <1>6, <1>7

\* A Han letter at b or before it, and there no Han character on the other side.
Border(c, b) ==
  /\ b \in 2 .. c.end - 1
  /\ (b \in c.han) # (b - 1 \in c.han)
  /\ b \in c.han => b \in c.letters
  /\ b - 1 \in c.han => b - 1 \in c.letters

\* The splitter cuts at every such place.
LEMMA KimiSplitCuts ==
  ASSUME NEW c, Apart(c), LatinHan(c), c.end > 1, NEW b, Border(c, b)
  PROVE  \E k \in DOMAIN Split(c, "kimi_k2") : Split(c, "kimi_k2")[k] = b
<1>1. "kimi_k2" \in Splitters /\ IsClasses(c) /\ c.end \in Nat \ {0}
  BY DEF Splitters, Apart, IsClasses
<1>2. PICK f : /\ Split(c, "kimi_k2") = f[1] /\ f[c.end] = <<>>
               /\ \A i \in 1 .. c.end : f[i] \in Seq(Int)
               /\ \A i \in 1 .. c.end - 1 :
                    f[i] = CutsAt(c, i, "kimi_k2") \o f[Last(CutsAt(c, i, "kimi_k2"))]
  BY <1>1, SplitWalks
<1> DEFINE S == 1 .. c.end
           rank == [i \in S |-> c.end - i]
           P == {i \in S : i < b => \E k \in DOMAIN f[i] : f[i][k] = b}
<1>3. b \in Int /\ b - 1 \in Int /\ b <= c.end - 1 /\ 1 < b
  BY <1>1 DEF Border
<1>4. ASSUME NEW i \in S, \A j \in S : rank[j] < rank[i] => j \in P
      PROVE  i \in P
  <2> SUFFICES ASSUME i < b PROVE \E k \in DOMAIN f[i] : f[i][k] = b
    OBVIOUS
  <2>1. i \in 1 .. c.end - 1 /\ i \in Int
    BY <1>1, <1>3
  <2> DEFINE r == CutsAt(c, i, "kimi_k2")
             e == Last(r)
             t == f[e]
  <2>2. Cutting(c, i, r) /\ r # <<>>
    BY <1>1, <2>1, CutsAtCuts
  <2>3. (i .. e - 1) \subseteq c.han \/ (i .. e - 1) \cap c.letters \cap c.han = {}
    BY <2>1, KimiCuts
  <2>4. f[i] = r \o t
    BY <1>2, <2>1
  <2> HIDE DEF r
  <2>5. r \in Seq(Int) /\ Len(r) \in Nat \ {0} /\ e = r[Len(r)] /\ e \in Int
    <3>1. r \in Seq(Int)
      BY <2>2 DEF Cutting
    <3>2. Len(r) \in Nat \ {0}
      BY <2>2, <3>1
    <3> QED
      BY <3>1, <3>2 DEF Last
  <2>6. e > i /\ e <= c.end
    <3>1. r[Len(r)] > i
      BY <2>1, <2>2, LastIsPast
    <3>2. r[Len(r)] <= c.end
      BY <2>2 DEF Cutting
    <3> QED
      BY <2>5, <3>1, <3>2
  <2> HIDE DEF e
  <2>7. e \in S
    BY <1>1, <2>1, <2>5, <2>6
  <2>8. t \in Seq(Int) /\ Len(t) \in Nat
    <3>1. t \in Seq(Int)
      BY <1>2, <2>7
    <3> HIDE DEF t
    <3> QED
      BY <3>1
  <2>9. rank[e] < rank[i]
    BY <1>1, <2>1, <2>5, <2>6, <2>7
  <2>10. e < b => \E k \in DOMAIN t : t[k] = b
    BY <1>4, <2>7, <2>9
  <2> HIDE DEF t
  <2> DEFINE w == r \o t
  <2>11. /\ Len(w) = Len(r) + Len(t) /\ w \in Seq(Int)
         /\ \A k \in 1 .. Len(r) + Len(t) : w[k] = IF k <= Len(r) THEN r[k] ELSE t[k - Len(r)]
    BY ONLY <2>5, <2>8, ConcatProperties
  <2> HIDE DEF w
  <2>12. DOMAIN w = 1 .. Len(r) + Len(t)
    BY <2>11
  <2>13. ~(b < e)
    <3> SUFFICES ASSUME b < e PROVE FALSE
      OBVIOUS
    <3>1. b \in i .. e - 1 /\ b - 1 \in i .. e - 1
      BY <1>3, <2>1, <2>5
    <3> QED
      BY <2>3, <3>1 DEF Border
  <2>14. CASE b = e
    <3>1. Len(r) \in 1 .. Len(r) + Len(t) /\ w[Len(r)] = r[Len(r)]
      <4>1. Len(r) \in 1 .. Len(r) + Len(t)
        BY <2>5, <2>8
      <4> QED
        BY <2>5, <2>11, <4>1
    <3> QED
      BY <2>4, <2>5, <2>12, <2>14, <3>1 DEF w
  <2>15. CASE e < b
    <3>1. PICK k \in DOMAIN t : t[k] = b
      BY <2>10, <2>15
    <3>2. k \in 1 .. Len(t)
      BY <2>8
    <3> DEFINE m == Len(r) + k
    <3>3. m \in 1 .. Len(r) + Len(t) /\ ~(m <= Len(r)) /\ m - Len(r) = k
      BY <2>5, <2>8, <3>2
    <3> HIDE DEF m
    <3>4. w[m] = t[k]
      BY <2>11, <3>3
    <3> QED
      BY <2>4, <2>12, <3>1, <3>3, <3>4 DEF w
  <2> QED
    BY <1>3, <2>5, <2>13, <2>14, <2>15
<1>5. \A i \in S : rank[i] \in Nat
  BY <1>1
<1>6. 1 \in S
  BY <1>1
<1> HIDE DEF P, rank
<1>7. S \subseteq P
  <2> HIDE DEF S
  <2> QED
    BY <1>4, <1>5, Descending
<1>8. \E k \in DOMAIN f[1] : f[1][k] = b
  BY <1>3, <1>6, <1>7 DEF P
<1> QED
  BY <1>2, <1>8

\* A Han character is no quote and no Latin one, and "IsHan" is a formula, true
\* or false of anything.
LEMMA HanIsHigh ==
  /\ \A x : IsHan(x) => x # 39 /\ x \notin 1 .. 255
  /\ \A x : IsHan(x) = TRUE \/ IsHan(x) = FALSE
<1> DEFINE R == {<<\h4E00, \h9FFF>>, <<\h3400, \h4DBF>>, <<\h20000, \h2A6DF>>,
                <<\h2A700, \h2EBEF>>, <<\hF900, \hFAFF>>, <<\h2F800, \h2FA1F>>}
<1>1. \A r \in R : r[1] \in Int /\ r[2] \in Int /\ r[1] > 255
  BY SMT
<1>2. \A x : IsHan(x) <=> \E r \in R : x \in r[1] .. r[2]
  BY DEF IsHan
<1> HIDE DEF R
<1>3. ASSUME NEW x, NEW r \in R, x \in r[1] .. r[2]
      PROVE  x \in Int /\ x > 255
  BY <1>1, <1>3
<1>4. ASSUME NEW x, IsHan(x)
      PROVE  x # 39 /\ x \notin 1 .. 255
  <2>1. x \in Int /\ x > 255
    BY <1>2, <1>3, <1>4
  <2> QED
    BY <2>1
<1>5. \A x : IsHan(x) = TRUE \/ IsHan(x) = FALSE
  BY DEF IsHan
<1> QED
  BY <1>4, <1>5

\* The text "s" is cut around its Han letters.
LEMMA HanIsCut ==
  ASSUME NEW s \in Seq(Byte), s # <<>>,
         NEW i \in 2 .. Len(CptsFromUtf8(s)),
         IsHan(CptsFromUtf8(s)[i - 1]) # IsHan(CptsFromUtf8(s)[i]),
         IsHan(CptsFromUtf8(s)[i]) => "L" \in CptFlags(CptsFromUtf8(s)[i]),
         IsHan(CptsFromUtf8(s)[i - 1]) => "L" \in CptFlags(CptsFromUtf8(s)[i - 1])
  PROVE  \E k \in DOMAIN Split(Classes(CptsFromUtf8(s)), "kimi_k2") :
           Split(Classes(CptsFromUtf8(s)), "kimi_k2")[k] = i
<1> DEFINE cpts == CptsFromUtf8(s)
           T == {CptAt(s, j) : j \in 1 .. Len(s)}
           c == Classes(cpts)
<1>1. cpts \in Seq(T) /\ cpts # <<>>
  BY CptsAre
<1>2. \A x \in T : x \in Nat
  BY CptAtIs, SMT DEF IsCpt
<1> HIDE DEF T, cpts
<1>3. \A j \in 1 .. Len(cpts) : cpts[j] \in Nat
  BY <1>1, <1>2
<1>4. cpts \in Seq(Nat)
  BY <1>1, <1>3, ElementsAre
<1>5. Len(cpts) \in Nat /\ Len(cpts) # 0 /\ DOMAIN cpts = 1 .. Len(cpts)
  BY <1>1
<1>6. c.end = Len(cpts) + 1
  BY <1>1, ClassesAre
<1>7. Apart(c)
  BY <1>4, ClassesApart
<1>8. /\ c.text = cpts /\ c.all = DOMAIN cpts
      /\ c.han = {j \in DOMAIN cpts : IsHan(cpts[j])}
      /\ c.letters = {j \in DOMAIN cpts : "L" \in CptFlags(cpts[j])}
  <2> DEFINE flagged == [j \in DOMAIN cpts |-> CptFlags(cpts[j])]
  <2>1. /\ c.text = cpts /\ c.all = DOMAIN cpts
        /\ c.han = {j \in DOMAIN cpts : IsHan(cpts[j])}
        /\ c.letters = {j \in DOMAIN cpts : "L" \in flagged[j]}
    BY DEF Classes
  <2> HIDE DEF c
  <2> QED
    BY <2>1
<1> HIDE DEF c
<1>9. LatinHan(c)
  <2>1. \A x : IsHan(x) => x \notin {Quote} \cup 1 .. 255
    BY HanIsHigh DEF Quote
  <2> QED
    BY <1>8, <2>1 DEF LatinHan
<1>10. Border(c, i)
  <2>1. /\ i \in 2 .. Len(cpts)
        /\ IsHan(cpts[i - 1]) # IsHan(cpts[i])
        /\ IsHan(cpts[i]) => "L" \in CptFlags(cpts[i])
        /\ IsHan(cpts[i - 1]) => "L" \in CptFlags(cpts[i - 1])
    BY DEF cpts
  <2>2. i \in DOMAIN cpts /\ i - 1 \in DOMAIN cpts /\ i \in 2 .. c.end - 1
    BY <1>5, <1>6, <2>1
  <2>3. /\ i \in c.han <=> IsHan(cpts[i])
        /\ i - 1 \in c.han <=> IsHan(cpts[i - 1])
        /\ i \in c.letters <=> "L" \in CptFlags(cpts[i])
        /\ i - 1 \in c.letters <=> "L" \in CptFlags(cpts[i - 1])
    BY <1>8, <2>2
  <2>4. (i \in c.han) # (i - 1 \in c.han)
    <3>0. /\ IsHan(cpts[i]) = TRUE \/ IsHan(cpts[i]) = FALSE
          /\ IsHan(cpts[i - 1]) = TRUE \/ IsHan(cpts[i - 1]) = FALSE
      BY HanIsHigh, Zenon
    <3>1. CASE IsHan(cpts[i])
      <4>1. ~ IsHan(cpts[i - 1])
        BY <2>1, <3>1, Zenon
      <4> QED
        BY <2>3, <3>1, <4>1
    <3>2. CASE ~ IsHan(cpts[i])
      <4>1. IsHan(cpts[i - 1])
        BY <2>1, <3>2, <3>0, Zenon
      <4> QED
        BY <2>3, <3>2, <4>1
    <3> QED
      BY <3>1, <3>2
  <2>5. /\ i \in c.han => i \in c.letters
        /\ i - 1 \in c.han => i - 1 \in c.letters
    BY <2>1, <2>3
  <2> QED
    BY <2>2, <2>4, <2>5 DEF Border
<1>11. c.end > 1
  BY <1>5, <1>6
<1>12. \E k \in DOMAIN Split(c, "kimi_k2") : Split(c, "kimi_k2")[k] = i
  BY <1>7, <1>9, <1>10, <1>11, KimiSplitCuts
<1> QED
  BY <1>12 DEF c, cpts

\* The splitter of "kimi_k2" cuts every text at each border of its Han letters.
THEOREM HanApartHolds == Spec => []HanApart
<1>1. Prompted /\ CutBySplitter => HanApart
  <2> SUFFICES ASSUME Prompted, CutBySplitter, phase = "split", pre = "kimi_k2",
                      NEW i \in 2 .. Len(CptsFromUtf8(text)),
                      IsHan(CptsFromUtf8(text)[i - 1]) # IsHan(CptsFromUtf8(text)[i]),
                      IsHan(CptsFromUtf8(text)[i]) => "L" \in CptFlags(CptsFromUtf8(text)[i]),
                      IsHan(CptsFromUtf8(text)[i - 1]) => "L" \in CptFlags(CptsFromUtf8(text)[i - 1])
               PROVE  i \in Range(cuts)
    BY DEF HanApart
  <2>1. text \in Seq(Byte) /\ text # <<>> /\ cuts = Split(Classes(CptsFromUtf8(text)), "kimi_k2")
    BY DEF Prompted, CutBySplitter
  <2>2. \E k \in DOMAIN Split(Classes(CptsFromUtf8(text)), "kimi_k2") :
          Split(Classes(CptsFromUtf8(text)), "kimi_k2")[k] = i
    BY <2>1, HanIsCut
  <2>3. \E k \in DOMAIN cuts : cuts[k] = i
    BY <2>1, <2>2
  <2> QED
    BY <2>3 DEF Range
<1> QED
  BY <1>1, PromptedHolds, CutBySplitterHolds, PTL

===============================================================================
