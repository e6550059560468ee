------------------------- MODULE HybridForward_proofs -------------------------
(***************************************************************************)
(* Proofs about the forward passes of gemma4, lfm2, qwen35 and qwen35moe,   *)
(* for every model, prompt, chunk and context size: feeding a text token by *)
(* token, or in blocks, from what each layer remembers gives the rows that  *)
(* the formulas of the whole text give, and leaves the memories of exactly  *)
(* the text fed.                                                            *)
(*                                                                          *)
(* The reference is a recursion over layers.  Rows are shown to depend on   *)
(* the rows below and on the tokens up to their own only, so that appending *)
(* a token changes none of them; then each kind of layer is shown to turn   *)
(* memories of n tokens into memories of one more (or of a block more) while*)
(* it computes the row of the reference.  The inductive invariant says so   *)
(* of a block half way through the layers, where the layers that have run   *)
(* are ahead of those that have not: a gemma4 layer that borrows keys finds *)
(* those of the whole block because the layer it borrows from is below it.  *)
(***************************************************************************)
EXTENDS HybridForward, SequenceTheorems, FiniteSetTheorems, WellFoundedInduction, TLAPS

-----------------------------------------------------------------------------
(* Division with remainder, for the heads that share a key.                 *)

\* Quotients and remainders of natural numbers.
LEMMA DivMod ==
  ASSUME NEW a \in Nat, NEW b \in Nat \ {0}
  PROVE  a \div b \in Nat /\ a % b \in 0 .. b - 1 /\ a = b * (a \div b) + (a % b)
<1>1. a \div b \in Int /\ a % b \in 0 .. b - 1 /\ a = b * (a \div b) + (a % b)
  OBVIOUS
<1> DEFINE q == a \div b
           r == a % b
<1> HIDE DEF q, r
<1>2. q >= 0
  <2> SUFFICES ASSUME q <= -1 PROVE FALSE
    BY <1>1 DEF q
  <2>1. PICK z \in Nat : q = -1 - z
    <3>1. -1 - q \in Nat /\ q = -1 - (-1 - q)
      BY <1>1 DEF q
    <3> QED
      BY <3>1
  <2>2. b * q = -b - b * z /\ b * z \in Nat
    BY <2>1
  <2> QED
    BY <1>1, <2>2 DEF q, r
<1> QED
  BY <1>1, <1>2 DEF q

\* A multiple of a smaller number is a whole factor below one of a larger.
LEMMA ProductsCompare ==
  ASSUME NEW x \in Nat, NEW y \in Nat, NEW b \in Nat, x < y
  PROVE  b * x + b <= b * y
<1>1. PICK z \in Nat : y = x + 1 + z
  <2>1. y - x - 1 \in Nat /\ y = x + 1 + (y - x - 1)
    OBVIOUS
  <2> QED
    BY <2>1
<1>2. b * y = b * x + b + b * z
  BY <1>1
<1>3. b * z \in Nat /\ b * x \in Nat
  OBVIOUS
<1> QED
  BY <1>2, <1>3

LEMMA DivUnique ==
  ASSUME NEW b \in Nat \ {0}, NEW q1 \in Nat, NEW q2 \in Nat, NEW r1 \in 0 .. b - 1, NEW r2 \in 0 .. b - 1,
         b * q1 + r1 = b * q2 + r2
  PROVE  q1 = q2 /\ r1 = r2
<1>0. b * q1 \in Nat /\ b * q2 \in Nat
  OBVIOUS
<1>1. ~(q1 < q2)
  <2> SUFFICES ASSUME q1 < q2 PROVE FALSE
    OBVIOUS
  <2>1. b * q1 + b <= b * q2
    BY ProductsCompare
  <2> QED
    BY <1>0, <2>1
<1>2. ~(q2 < q1)
  <2> SUFFICES ASSUME q2 < q1 PROVE FALSE
    OBVIOUS
  <2>1. b * q2 + b <= b * q1
    BY ProductsCompare
  <2> QED
    BY <1>0, <2>1
<1> QED
  BY <1>0, <1>1, <1>2

LEMMA DivOf ==
  ASSUME NEW b \in Nat \ {0}, NEW q \in Nat, NEW r \in 0 .. b - 1, NEW a \in Nat, a = b * q + r
  PROVE  a \div b = q /\ a % b = r
<1>1. a \div b \in Nat /\ a % b \in 0 .. b - 1 /\ a = b * (a \div b) + (a % b)
  BY DivMod
<1> QED
  BY <1>1, DivUnique

-----------------------------------------------------------------------------
(* Tiles of size t over 0 .. n - 1; the last may be short.                  *)

-----------------------------------------------------------------------------
(* Induction, which the library has with an operator as its parameter: here  *)
(* the statement is the set of the numbers it holds of.                      *)

\* A nonempty set of numbers has a smallest one, which stands in for induction.
LEMMA Smallest ==
  ASSUME NEW T, T \subseteq Nat, T # {}
  PROVE  \E n \in T : \A k \in T : n <= k
<1> DEFINE R == {ss \in Nat \X Nat : ss[1] < ss[2]}
<1>1. R = OpToRel(<, Nat)
  BY Zenon DEF OpToRel
<1>2. IsWellFoundedOn(OpToRel(<, Nat), Nat)
  BY NatLessThanWellFounded
<1>3. PICK n \in T : \A k \in T : ~(<<k, n>> \in R)
  <2> HIDE DEF R
  <2>1. IsWellFoundedOn(R, Nat)
    BY ONLY <1>1, <1>2
  <2> QED
    BY <2>1, WFMin
<1>4. ASSUME NEW k \in T
      PROVE  n <= k
  <2>1. n \in Nat /\ k \in Nat
    OBVIOUS
  <2>2. ~(<<k, n>> \in R)
    BY <1>3
  <2>3. <<k, n>> \in Nat \X Nat
    BY <2>1
  <2>4. ~(k < n)
    BY ONLY <2>2, <2>3
  <2> QED
    BY <2>1, <2>4
<1> QED
  BY <1>4

\* What holds of 0 and is handed from each number to the next holds of all.
LEMMA Counting ==
  ASSUME NEW T, 0 \in T, \A n \in Nat : n \in T => n + 1 \in T
  PROVE  Nat \subseteq T
<1> SUFFICES ASSUME Nat \ T # {}
             PROVE  FALSE
  OBVIOUS
<1>1. PICK n \in Nat \ T : \A k \in Nat \ T : n <= k
  BY Smallest
<1>2. n # 0 /\ n - 1 \in Nat
  BY <1>1
<1>3. n - 1 \in T
  BY <1>1, <1>2
<1> QED
  BY <1>1, <1>2, <1>3

(***************************************************************************)
(* The two recursive functions: what each layer gives, and where each layer *)
(* of gemma4 takes its keys from.                                           *)

\* The numbers of a model.
LEMMA ModelTypes ==
  ASSUME NEW m \in Models
  PROVE  /\ NLayers(m) \in Nat /\ LayersRun(m) \in Nat /\ LayersRun(m) <= NLayers(m)
         /\ Len(m.swa) \in Nat /\ m.window \in Nat /\ m.taps \in Nat /\ m.taps >= 2
         /\ m.heads \in Nat \ {0} /\ m.kvHeads \in Nat \ {0}
         /\ m.keyHeads \in Nat \ {0} /\ m.valueHeads \in Nat \ {0}
         /\ m.heads % m.kvHeads = 0
<1>1. /\ NLayers(m) \in Nat /\ Len(m.swa) \in Nat /\ m.nextn \in 0 .. NLayers(m)
      /\ m.window \in Nat /\ m.taps \in Nat /\ m.taps >= 2 /\ m.heads % m.kvHeads = 0
      /\ {m.heads, m.kvHeads, m.keyHeads, m.valueHeads} \subseteq Nat \ {0}
  BY ModelsAssumption
<1>2. MaxLayers \in Nat
  BY HybridAssumption
<1>3. LayersRun(m) \in Nat /\ LayersRun(m) <= NLayers(m)
  BY <1>1, <1>2 DEF LayersRun
<1> QED
  BY <1>1, <1>3

\* The layer that lends its keys and values, unlike any other.
Lends(m, L, K) ==
  /\ "attn_k" \in m.tensors[K] /\ IsSwa(m, K) = IsSwa(m, L)
  /\ \A J \in K + 1 .. L : IsSwa(m, J) = IsSwa(m, L) => "attn_k" \notin m.tensors[J]

\* A gemma4 layer has a layer to take keys from, and Lender is one.
LEMMA LenderLends ==
  ASSUME NEW m \in Models, IsGemma(m), NEW L \in 1 .. LayersRun(m)
  PROVE  Lender(m, L) \in 1 .. L /\ Lends(m, L, Lender(m, L))
<1> DEFINE T == {n \in Nat : n < L /\ "attn_k" \in m.tensors[L - n] /\ IsSwa(m, L - n) = IsSwa(m, L)}
<1>0. L \in Nat /\ L >= 1
  BY ModelTypes
<1>1. T # {}
  <2>1. PICK K \in 1 .. L : "attn_k" \in m.tensors[K] /\ IsSwa(m, K) = IsSwa(m, L)
    BY ModelsAssumption
  <2>2. L - K \in Nat /\ L - K < L /\ L - (L - K) = K
    BY <1>0
  <2> QED
    BY <2>1, <2>2
<1>2. PICK n \in T : \A k \in T : n <= k
  BY <1>1, Smallest
<1>3. L - n \in 1 .. L /\ Lends(m, L, L - n)
  <2>1. L - n \in 1 .. L
    BY <1>0, <1>2
  <2>2. ASSUME NEW J \in L - n + 1 .. L, IsSwa(m, J) = IsSwa(m, L), "attn_k" \in m.tensors[J]
        PROVE  FALSE
    <3>1. L - J \in Nat /\ L - J < L /\ L - (L - J) = J /\ L - J < n
      BY <1>0, <2>1
    <3>2. L - J \in T
      BY <2>2, <3>1
    <3> QED
      BY <1>2, <3>1, <3>2
  <2> QED
    BY <1>2, <2>1, <2>2 DEF Lends
<1>4. \E K \in 1 .. L : Lends(m, L, K)
  BY <1>3
<1> QED
  BY <1>4, Zenon DEF Lender, Lends

\* What each kind of layer mixes.
LEMMA MixedIs ==
  ASSUME NEW m, NEW L, NEW rows, NEW p
  PROVE  /\ IsConv(m, L) => Mixed(m, L, rows, p) = ShortConvMixed(m, L, rows[L - 1], p)
         /\ IsDelta(m, L) => Mixed(m, L, rows, p) = DeltaNetMixed(m, L, rows[L - 1], p)
         /\ IsGemma(m) =>
              Mixed(m, L, rows, p) = GemmaMixed(m, L, rows[L - 1], rows[Lender(m, L) - 1], p)
         /\ ~IsConv(m, L) /\ ~IsDelta(m, L) /\ ~IsGemma(m) =>
              Mixed(m, L, rows, p) = AttentionMixed(m, L, rows[L - 1], p)
<1>1. (IsConv(m, L) => ~IsDelta(m, L) /\ ~IsGemma(m)) /\ (IsDelta(m, L) => ~IsGemma(m))
  BY DEF IsConv, IsDelta, IsGemma, IsLfm2, IsQwen35
<1> QED
  BY <1>1, Zenon DEF Mixed

\* The mixing of a layer reads the rows of the layers below it only.
LEMMA MixedReadsBelow ==
  ASSUME NEW m \in Models, NEW L \in 1 .. LayersRun(m), NEW f, NEW g,
         \A K \in 0 .. L - 1 : f[K] = g[K], NEW p
  PROVE  Mixed(m, L, f, p) = Mixed(m, L, g, p)
<1>1. f[L - 1] = g[L - 1]
  BY ModelTypes
<1>2. CASE IsConv(m, L)
  BY <1>1, <1>2, MixedIs
<1>3. CASE IsDelta(m, L)
  BY <1>1, <1>3, MixedIs
<1>4. CASE IsGemma(m)
  <2>1. f[Lender(m, L) - 1] = g[Lender(m, L) - 1]
    BY <1>4, LenderLends, ModelTypes
  <2> QED
    BY <1>1, <1>4, <2>1, MixedIs
<1>5. CASE ~IsGemma(m) /\ ~IsConv(m, L) /\ ~IsDelta(m, L)
  BY <1>1, <1>5, MixedIs
<1> QED
  BY <1>2, <1>3, <1>4, <1>5

\* One layer of the reference, given the layers below it.
WholeRow(m, toks, rows, L) ==
  IF L = 0 THEN [p \in DOMAIN toks |-> Embedded(toks[p])]
  ELSE [p \in DOMAIN toks |->
          Row(L, rows[L - 1][p], Mixed(m, L, rows, p), Fed(m, L, toks[p]))]

\* A layer's rows are given by those of the layers below.
LEMMA WholeRowReadsBelow ==
  ASSUME NEW m \in Models, NEW toks, NEW L \in 0 .. LayersRun(m), NEW f, NEW g,
         \A K \in 0 .. L - 1 : f[K] = g[K]
  PROVE  WholeRow(m, toks, f, L) = WholeRow(m, toks, g, L)
<1>1. CASE L = 0
  BY <1>1 DEF WholeRow
<1>2. CASE L # 0
  <2>1. L \in 1 .. LayersRun(m) /\ L - 1 \in 0 .. L - 1
    BY <1>2, ModelTypes
  <2>2. \A p : Mixed(m, L, f, p) = Mixed(m, L, g, p)
    BY <2>1, MixedReadsBelow
  <2>3. f[L - 1] = g[L - 1]
    BY <2>1
  <2> QED
    BY <1>2, <2>2, <2>3, Zenon DEF WholeRow
<1> QED
  BY <1>1, <1>2

\* So there is a function that is defined that way,
LEMMA WholeRowsExist ==
  ASSUME NEW m \in Models, NEW toks
  PROVE  \E g : g = [L \in 0 .. LayersRun(m) |-> WholeRow(m, toks, g, L)]
<1> DEFINE Upto(n) == \E g : g = [L \in 0 .. n |-> WholeRow(m, toks, g, L)]
           T == {n \in Nat : n <= LayersRun(m) => Upto(n)}
<1>0. LayersRun(m) \in Nat
  BY ModelTypes
<1>1. 0 \in T
  <2> DEFINE g == [L \in 0 .. 0 |-> WholeRow(m, toks, [K \in {} |-> 0], L)]
  <2>1. \A L \in 0 .. 0 : WholeRow(m, toks, [K \in {} |-> 0], L) = WholeRow(m, toks, g, L)
    BY DEF WholeRow
  <2>2. g = [L \in 0 .. 0 |-> WholeRow(m, toks, g, L)]
    BY <2>1, Zenon
  <2> HIDE DEF g
  <2>3. Upto(0)
    BY <2>2, Zenon
  <2> HIDE DEF Upto
  <2> QED
    BY <2>3
<1>2. ASSUME NEW n \in Nat, n \in T
      PROVE  n + 1 \in T
  <2>1. SUFFICES ASSUME n + 1 <= LayersRun(m)
                 PROVE  Upto(n + 1)
    <3> HIDE DEF Upto
    <3> QED
      OBVIOUS
  <2>2. Upto(n)
    <3> HIDE DEF Upto
    <3> QED
      BY <1>0, <1>2, <2>1
  <2>3. PICK g : g = [L \in 0 .. n |-> WholeRow(m, toks, g, L)]
    BY <2>2
  <2> DEFINE h == [L \in 0 .. n + 1 |-> IF L = n + 1 THEN WholeRow(m, toks, g, L) ELSE g[L]]
  <2>4. \A K \in 0 .. n : g[K] = h[K] /\ K \in 0 .. n + 1
    OBVIOUS
  <2>5. ASSUME NEW L \in 0 .. n + 1
        PROVE  h[L] = WholeRow(m, toks, h, L)
    <3>1. \A K \in 0 .. L - 1 : g[K] = h[K]
      BY <2>4
    <3>2. L \in 0 .. LayersRun(m)
      BY <1>0, <2>1
    <3> HIDE DEF h
    <3>3. WholeRow(m, toks, g, L) = WholeRow(m, toks, h, L)
      BY <3>1, <3>2, WholeRowReadsBelow
    <3>4. h[L] = WholeRow(m, toks, g, L)
      <4>1. CASE L = n + 1
        BY <4>1 DEF h
      <4>2. CASE L # n + 1
        <5>1. L \in 0 .. n
          BY <4>2
        <5>2. h[L] = g[L]
          BY <2>4, <5>1
        <5>3. g[L] = WholeRow(m, toks, g, L)
          BY <2>3, <5>1, Zenon
        <5> QED
          BY <5>2, <5>3
      <4> QED
        BY <4>1, <4>2
    <3> QED
      BY <3>3, <3>4
  <2>6. h = [L \in 0 .. n + 1 |-> WholeRow(m, toks, h, L)]
    <3>1. h = [L \in 0 .. n + 1 |-> h[L]]
      OBVIOUS
    <3> HIDE DEF h
    <3> QED
      BY <2>5, <3>1, Zenon
  <2> HIDE DEF h
  <2> QED
    BY <2>6
<1>3. LayersRun(m) \in T
  <2> HIDE DEF T
  <2> QED
    BY <1>0, <1>1, <1>2, Counting
<1> HIDE DEF Upto
<1>4. Upto(LayersRun(m))
  BY <1>0, <1>3
<1> QED
  BY <1>4 DEF Upto

\* and WholeRows is it.
LEMMA WholeRowsAre ==
  ASSUME NEW m \in Models, NEW toks
  PROVE  /\ WholeRows(m, toks)[0] = [p \in DOMAIN toks |-> Embedded(toks[p])]
         /\ \A L \in 1 .. LayersRun(m) :
              WholeRows(m, toks)[L] =
                [p \in DOMAIN toks |->
                   Row(L, WholeRows(m, toks)[L - 1][p], Mixed(m, L, WholeRows(m, toks), p),
                       Fed(m, L, toks[p]))]
<1> DEFINE g == WholeRows(m, toks)
<1>1. g = [L \in 0 .. LayersRun(m) |-> WholeRow(m, toks, g, L)]
  <2>1. \E h : h = [L \in 0 .. LayersRun(m) |-> WholeRow(m, toks, h, L)]
    BY WholeRowsExist
  <2> QED
    BY <2>1, Zenon DEF WholeRow, WholeRows
<1> HIDE DEF g
<1>2. \A L \in 0 .. LayersRun(m) : g[L] = WholeRow(m, toks, g, L)
  BY <1>1, Zenon
<1>3. LayersRun(m) \in Nat
  BY ModelTypes
<1>4. g[0] = [p \in DOMAIN toks |-> Embedded(toks[p])]
  <2>1. g[0] = WholeRow(m, toks, g, 0)
    BY <1>2, <1>3
  <2> QED
    BY <2>1, Zenon DEF WholeRow
<1>5. ASSUME NEW L \in 1 .. LayersRun(m)
      PROVE  g[L] = [p \in DOMAIN toks |->
                       Row(L, g[L - 1][p], Mixed(m, L, g, p), Fed(m, L, toks[p]))]
  <2>1. L \in 0 .. LayersRun(m) /\ L # 0
    BY <1>3
  <2> QED
    BY <1>2, <2>1, Zenon DEF WholeRow
<1> QED
  BY <1>4, <1>5 DEF g

\* One layer of gplan, given the one before.
Plan(m, plan, L) ==
  IF L = 0 THEN [kv_src |-> 0, local |-> 0, global |-> 0]
  ELSE LET before == plan[L - 1]
       IN  IF "attn_k" \in m.tensors[L]
           THEN IF IsSwa(m, L) THEN [before EXCEPT !.kv_src = L, !.local = L]
                               ELSE [before EXCEPT !.kv_src = L, !.global = L]
           ELSE [before EXCEPT !.kv_src = IF IsSwa(m, L) THEN before.local ELSE before.global]

\* The same for the plan of a gemma4 model:
LEMMA PlanExists ==
  ASSUME NEW m \in Models
  PROVE  \E g : g = [L \in 0 .. NLayers(m) |-> Plan(m, g, L)]
<1> DEFINE Upto(n) == \E g : g = [L \in 0 .. n |-> Plan(m, g, L)]
           T == {n \in Nat : Upto(n)}
<1>0. NLayers(m) \in Nat
  BY ModelTypes
<1>1. 0 \in T
  <2> DEFINE g == [L \in 0 .. 0 |-> Plan(m, [K \in {} |-> 0], L)]
  <2>1. \A L \in 0 .. 0 : Plan(m, [K \in {} |-> 0], L) = Plan(m, g, L)
    BY DEF Plan
  <2>2. g = [L \in 0 .. 0 |-> Plan(m, g, L)]
    BY <2>1, Zenon
  <2> HIDE DEF g
  <2>3. Upto(0)
    BY <2>2, Zenon
  <2> HIDE DEF Upto
  <2> QED
    BY <2>3
<1>2. ASSUME NEW n \in Nat, n \in T
      PROVE  n + 1 \in T
  <2>1. PICK g : g = [L \in 0 .. n |-> Plan(m, g, L)]
    BY <1>2
  <2> DEFINE h == [L \in 0 .. n + 1 |-> IF L = n + 1 THEN Plan(m, g, L) ELSE g[L]]
  <2>2. ASSUME NEW L \in 0 .. n + 1
        PROVE  h[L] = Plan(m, h, L)
    <3>1. L # 0 => g[L - 1] = h[L - 1]
      OBVIOUS
    <3> HIDE DEF h
    <3>2. Plan(m, g, L) = Plan(m, h, L)
      BY <3>1, Zenon DEF Plan
    <3>3. h[L] = Plan(m, g, L)
      <4>1. CASE L = n + 1
        BY <4>1 DEF h
      <4>2. CASE L # n + 1
        <5>1. L \in 0 .. n
          BY <4>2
        <5>2. h[L] = g[L]
          BY <5>1, <4>2 DEF h
        <5>3. g[L] = Plan(m, g, L)
          BY <2>1, <5>1, Zenon
        <5> QED
          BY <5>2, <5>3
      <4> QED
        BY <4>1, <4>2
    <3> QED
      BY <3>2, <3>3
  <2>3. h = [L \in 0 .. n + 1 |-> Plan(m, h, L)]
    <3>1. h = [L \in 0 .. n + 1 |-> h[L]]
      OBVIOUS
    <3> HIDE DEF h
    <3> QED
      BY <2>2, <3>1, Zenon
  <2> HIDE DEF h
  <2>4. Upto(n + 1)
    BY <2>3
  <2> HIDE DEF Upto
  <2> QED
    BY <2>4
<1>3. NLayers(m) \in T
  <2> HIDE DEF T
  <2> QED
    BY <1>0, <1>1, <1>2, Counting
<1> HIDE DEF Upto
<1>4. Upto(NLayers(m))
  BY <1>3
<1> QED
  BY <1>4 DEF Upto

\* GemmaPlan is what its recursion says.
LEMMA PlanIs ==
  ASSUME NEW m \in Models
  PROVE  /\ GemmaPlan(m)[0] = [kv_src |-> 0, local |-> 0, global |-> 0]
         /\ \A L \in 1 .. NLayers(m) : GemmaPlan(m)[L] = Plan(m, GemmaPlan(m), L)
<1> DEFINE g == GemmaPlan(m)
<1>1. g = [L \in 0 .. NLayers(m) |-> Plan(m, g, L)]
  <2>1. \E h : h = [L \in 0 .. NLayers(m) |-> Plan(m, h, L)]
    BY PlanExists
  <2> QED
    BY <2>1, Zenon DEF Plan, GemmaPlan
<1> HIDE DEF g
<1>2. \A L \in 0 .. NLayers(m) : g[L] = Plan(m, g, L)
  BY <1>1, Zenon
<1>3. NLayers(m) \in Nat
  BY ModelTypes
<1>4. g[0] = [kv_src |-> 0, local |-> 0, global |-> 0]
  <2>1. g[0] = Plan(m, g, 0)
    BY <1>2, <1>3
  <2> QED
    BY <2>1, Zenon DEF Plan
<1>5. \A L \in 1 .. NLayers(m) : g[L] = Plan(m, g, L)
  BY <1>2, <1>3
<1> QED
  BY <1>4, <1>5 DEF g

\* K is the last layer up to L that owns keys of the range swa, or 0.
LastOwner(m, L, swa, K) ==
  /\ K \in 0 .. L
  /\ K # 0 => "attn_k" \in m.tensors[K] /\ IsSwa(m, K) = swa
  /\ \A J \in K + 1 .. L : IsSwa(m, J) = swa => "attn_k" \notin m.tensors[J]

\* The plan remembers the last owner of either kind.
LEMMA PlanRemembers ==
  ASSUME NEW m \in Models, NEW L \in 0 .. NLayers(m)
  PROVE  /\ GemmaPlan(m)[L] \in [kv_src : Nat, local : Nat, global : Nat]
         /\ LastOwner(m, L, TRUE, GemmaPlan(m)[L].local)
         /\ LastOwner(m, L, FALSE, GemmaPlan(m)[L].global)
<1> DEFINE g == GemmaPlan(m)
           Good(n) == /\ g[n] \in [kv_src : Nat, local : Nat, global : Nat]
                      /\ LastOwner(m, n, TRUE, g[n].local) /\ LastOwner(m, n, FALSE, g[n].global)
           T == {n \in Nat : n <= NLayers(m) => Good(n)}
<1>0. NLayers(m) \in Nat
  BY ModelTypes
<1>1. 0 \in T
  <2>1. g[0] = [kv_src |-> 0, local |-> 0, global |-> 0]
    BY PlanIs
  <2> HIDE DEF g
  <2> QED
    BY <2>1 DEF LastOwner
<1>2. ASSUME NEW n \in Nat, n \in T
      PROVE  n + 1 \in T
  <2>1. SUFFICES ASSUME n + 1 <= NLayers(m)
                 PROVE  Good(n + 1)
    <3> HIDE DEF Good
    <3> QED
      OBVIOUS
  <2>2. Good(n)
    <3> HIDE DEF Good
    <3> QED
      BY <1>0, <1>2, <2>1
  <2>3. n + 1 \in 1 .. NLayers(m) /\ n + 1 # 0 /\ (n + 1) - 1 = n
    BY <1>0, <2>1
  <2>4. g[n + 1] = Plan(m, g, n + 1)
    BY <2>3, PlanIs
  <2> HIDE DEF g
  <2>5. g[n + 1] = IF "attn_k" \in m.tensors[n + 1]
                   THEN IF IsSwa(m, n + 1) THEN [g[n] EXCEPT !.kv_src = n + 1, !.local = n + 1]
                                           ELSE [g[n] EXCEPT !.kv_src = n + 1, !.global = n + 1]
                   ELSE [g[n] EXCEPT !.kv_src = IF IsSwa(m, n + 1) THEN g[n].local ELSE g[n].global]
    BY <2>3, <2>4 DEF Plan
  <2>6. g[n + 1] \in [kv_src : Nat, local : Nat, global : Nat]
    <3>1. PICK r \in [kv_src : Nat, local : Nat, global : Nat] : g[n] = r
      BY <2>2
    <3>2. r.local \in Nat /\ r.global \in Nat /\ n + 1 \in Nat
      OBVIOUS
    <3> QED
      BY <2>5, <3>1, <3>2
  <2>7. IsSwa(m, n + 1) \in BOOLEAN
    BY DEF IsSwa
  <2>8. ASSUME NEW swa \in BOOLEAN, NEW K, LastOwner(m, n, swa, K)
        PROVE  /\ "attn_k" \in m.tensors[n + 1] /\ IsSwa(m, n + 1) = swa => LastOwner(m, n + 1, swa, n + 1)
               /\ ~("attn_k" \in m.tensors[n + 1] /\ IsSwa(m, n + 1) = swa) => LastOwner(m, n + 1, swa, K)
    BY <2>8 DEF LastOwner
  <2>9. CASE "attn_k" \in m.tensors[n + 1] /\ IsSwa(m, n + 1)
    <3>1. g[n + 1].local = n + 1 /\ g[n + 1].global = g[n].global
      BY <2>2, <2>5, <2>9
    <3> QED
      BY <2>2, <2>6, <2>7, <2>8, <2>9, <3>1
  <2>10. CASE "attn_k" \in m.tensors[n + 1] /\ ~IsSwa(m, n + 1)
    <3>1. g[n + 1].local = g[n].local /\ g[n + 1].global = n + 1
      BY <2>2, <2>5, <2>10
    <3> QED
      BY <2>2, <2>6, <2>7, <2>8, <2>10, <3>1
  <2>11. CASE "attn_k" \notin m.tensors[n + 1]
    <3>1. g[n + 1].local = g[n].local /\ g[n + 1].global = g[n].global
      BY <2>2, <2>5, <2>11
    <3> QED
      BY <2>2, <2>6, <2>7, <2>8, <2>11, <3>1
  <2> QED
    BY <2>9, <2>10, <2>11
<1>3. L \in T
  <2>1. L \in Nat
    BY <1>0
  <2> HIDE DEF T
  <2> QED
    BY <2>1, <1>1, <1>2, Counting
<1> HIDE DEF Good
<1>4. Good(L)
  BY <1>0, <1>3
<1> QED
  BY <1>4 DEF Good

\* A layer of gemma4 takes its keys where the reference does.
LEMMA PlanLends ==
  ASSUME NEW m \in Models, IsGemma(m), NEW L \in 1 .. LayersRun(m)
  PROVE  GemmaPlan(m)[L].kv_src = Lender(m, L)
<1> DEFINE src == GemmaPlan(m)[L].kv_src
<1>0. L \in Nat /\ L >= 1 /\ L \in 1 .. NLayers(m) /\ L - 1 \in 0 .. NLayers(m)
  BY ModelTypes
<1>1. GemmaPlan(m)[L] = Plan(m, GemmaPlan(m), L)
  BY <1>0, PlanIs
<1>2. /\ GemmaPlan(m)[L - 1] \in [kv_src : Nat, local : Nat, global : Nat]
      /\ LastOwner(m, L - 1, TRUE, GemmaPlan(m)[L - 1].local)
      /\ LastOwner(m, L - 1, FALSE, GemmaPlan(m)[L - 1].global)
  BY <1>0, PlanRemembers
<1>3. IsSwa(m, L) \in BOOLEAN
  BY DEF IsSwa
<1>4. Lender(m, L) \in 1 .. L /\ Lends(m, L, Lender(m, L))
  BY LenderLends
<1>5. src \in 1 .. L /\ Lends(m, L, src)
  <2>1. CASE "attn_k" \in m.tensors[L]
    <3>1. src = L
      BY <1>0, <1>1, <1>2, <2>1 DEF Plan
    <3> QED
      BY <1>0, <2>1, <3>1 DEF Lends
  <2>2. CASE "attn_k" \notin m.tensors[L]
    <3>1. src = IF IsSwa(m, L) THEN GemmaPlan(m)[L - 1].local ELSE GemmaPlan(m)[L - 1].global
      BY <1>0, <1>1, <1>2, <2>2 DEF Plan
    <3>2. LastOwner(m, L - 1, IsSwa(m, L), src)
      BY <1>2, <1>3, <3>1
    <3> HIDE DEF src
    <3>3. src # 0
      <4>1. Lender(m, L) # L
        BY <1>4, <2>2 DEF Lends
      <4>2. Lender(m, L) \in 1 .. L - 1
        BY <1>0, <1>4, <4>1
      <4> QED
        BY <1>4, <3>2, <4>2 DEF LastOwner, Lends
    <3>4. src \in 1 .. L - 1
      BY <1>0, <3>2, <3>3 DEF LastOwner
    <3>5. ASSUME NEW J \in src + 1 .. L, IsSwa(m, J) = IsSwa(m, L)
          PROVE  "attn_k" \notin m.tensors[J]
      <4>1. CASE J = L
        BY <2>2, <4>1
      <4>2. CASE J # L
        <5>1. J \in src + 1 .. L - 1
          BY <1>0, <3>4, <4>2
        <5> QED
          BY <3>2, <3>5, <5>1 DEF LastOwner
      <4> QED
        BY <4>1, <4>2
    <3> QED
      BY <1>0, <3>2, <3>3, <3>4, <3>5 DEF LastOwner, Lends
  <2> QED
    BY <2>1, <2>2
<1> HIDE DEF src
<1>6. ASSUME NEW J \in 1 .. L, NEW K \in 1 .. L, Lends(m, L, J), Lends(m, L, K)
      PROVE  ~(J < K)
  <2> SUFFICES ASSUME J < K
               PROVE  FALSE
    OBVIOUS
  <2>1. K \in J + 1 .. L
    BY <1>0
  <2> QED
    BY <1>6, <2>1 DEF Lends
<1>7. ~(src < Lender(m, L)) /\ ~(Lender(m, L) < src)
  BY <1>4, <1>5, <1>6
<1> QED
  BY <1>0, <1>4, <1>5, <1>7 DEF src

-----------------------------------------------------------------------------
(* Sequences, and what the appends, shifts and slices of the layers make.    *)

OfLength(s, n) == s = [i \in 1 .. n |-> s[i]]

\* A function on 1 .. n is a sequence.
LEMMA OfLengthIs ==
  ASSUME NEW s, NEW n \in Nat, OfLength(s, n)
  PROVE  s \in Seq({s[i] : i \in 1 .. n}) /\ Len(s) = n /\ DOMAIN s = 1 .. n
<1> DEFINE S == {s[i] : i \in 1 .. n}
<1>1. s = [i \in 1 .. n |-> s[i]]
  BY DEF OfLength
<1>2. DOMAIN s = 1 .. n /\ \A i \in 1 .. n : s[i] \in S
  BY <1>1
<1>3. s \in [1 .. n -> S]
  BY <1>1, <1>2
<1> HIDE DEF S
<1>4. s \in Seq(S) /\ Len(s) = n
  BY <1>3
<1> QED
  BY <1>2, <1>4 DEF S

\* And a sequence is such a function.
LEMMA SeqIsFunction ==
  ASSUME NEW S, NEW s \in Seq(S)
  PROVE  s = [i \in 1 .. Len(s) |-> s[i]]
<1>1. PICK n \in Nat : s \in [1 .. n -> S]
  BY SeqDef
<1>2. s = [i \in DOMAIN s |-> s[i]] /\ DOMAIN s = 1 .. n
  BY <1>1
<1>3. Len(s) = n
  BY <1>1
<1> QED
  BY <1>2, <1>3

\* Concatenation, appending and cutting, as functions.
LEMMA ConcatIs ==
  ASSUME NEW s, NEW n \in Nat, OfLength(s, n), NEW t, NEW k \in Nat, OfLength(t, k)
  PROVE  s \o t = [i \in 1 .. n + k |-> IF i <= n THEN s[i] ELSE t[i - n]]
<1> DEFINE S == {s[i] : i \in 1 .. n} \cup {t[i] : i \in 1 .. k}
<1>1. s \in Seq(S) /\ t \in Seq(S) /\ Len(s) = n /\ Len(t) = k
  <2>1. s \in Seq({s[i] : i \in 1 .. n}) /\ t \in Seq({t[i] : i \in 1 .. k}) /\ Len(s) = n /\ Len(t) = k
    BY OfLengthIs
  <2>2. \A A, B, q : q \in Seq(A) /\ A \subseteq B => q \in Seq(B)
    OBVIOUS
  <2> QED
    BY <2>1, <2>2
<1> HIDE DEF S
<1>2. /\ s \o t \in Seq(S) /\ Len(s \o t) = n + k
      /\ \A i \in 1 .. n + k : (s \o t)[i] = IF i <= n THEN s[i] ELSE t[i - n]
  BY <1>1, ConcatProperties
<1>3. s \o t = [i \in 1 .. n + k |-> (s \o t)[i]]
  BY <1>2, SeqIsFunction
<1> QED
  BY <1>2, <1>3

\* Appending one element.
LEMMA AppendIs ==
  ASSUME NEW s, NEW n \in Nat, OfLength(s, n), NEW x
  PROVE  Append(s, x) = [i \in 1 .. n + 1 |-> IF i <= n THEN s[i] ELSE x]
<1> DEFINE S == {s[i] : i \in 1 .. n} \cup {x}
<1>1. s \in Seq(S) /\ x \in S /\ Len(s) = n
  <2>1. s \in Seq({s[i] : i \in 1 .. n}) /\ Len(s) = n
    BY OfLengthIs
  <2>2. \A A, B, q : q \in Seq(A) /\ A \subseteq B => q \in Seq(B)
    OBVIOUS
  <2> QED
    BY <2>1, <2>2
<1> HIDE DEF S
<1>2. /\ Append(s, x) \in Seq(S) /\ Len(Append(s, x)) = n + 1
      /\ \A i \in 1 .. n + 1 : Append(s, x)[i] = IF i <= n THEN s[i] ELSE x
  BY <1>1
<1>3. Append(s, x) = [i \in 1 .. n + 1 |-> Append(s, x)[i]]
  BY <1>2, SeqIsFunction
<1> QED
  BY <1>2, <1>3

\* Cutting out a slice.
LEMMA SubSeqIs ==
  ASSUME NEW s, NEW n \in Nat, OfLength(s, n), NEW a \in Nat, NEW b \in Nat, a <= b, b <= n
  PROVE  SubSeq(s, a + 1, b) = [i \in 1 .. b - a |-> s[a + i]]
<1> DEFINE S == {s[i] : i \in 1 .. n}
<1>1. s \in Seq(S) /\ Len(s) = n
  BY OfLengthIs
<1> HIDE DEF S
<1>2. b - a \in Nat /\ a + 1 \in 1 .. Len(s) + 1 /\ b \in a .. Len(s) /\ b - (a + 1) + 1 = b - a
  BY <1>1
<1>3. SubSeq(s, a + 1, b) = [i \in 1 .. b - (a + 1) + 1 |-> s[i + (a + 1) - 1]]
  BY <1>1, <1>2
<1>4. \A i \in 1 .. b - a : i + (a + 1) - 1 = a + i
  OBVIOUS
<1> QED
  BY <1>2, <1>3, <1>4

\* A function built over 1 .. n is of length n.
LEMMA BuiltIs ==
  ASSUME NEW n \in Nat, NEW f, f = [i \in 1 .. n |-> f[i]]
  PROVE  OfLength(f, n)
  BY DEF OfLength

(***************************************************************************)
(* Convolutions.                                                            *)

\* Appending the newest input to the state gives the inputs of the convolution;
\* rolling the state gives the next state.
LEMMA ConvGrows ==
  ASSUME NEW n \in Nat, n >= 2, NEW in, NEW p \in Nat
  PROVE  /\ OfLength(LastInputs(n - 1, in, p), n - 1)
         /\ Append(LastInputs(n - 1, in, p), in[p + 1]) = LastInputs(n, in, p + 1)
         /\ Rolled(LastInputs(n - 1, in, p), in[p + 1]) = LastInputs(n - 1, in, p + 1)
<1> DEFINE st == LastInputs(n - 1, in, p)
<1>0. n - 1 \in Nat /\ (n - 1) + 1 = n
  OBVIOUS
<1>1. st = [i \in 1 .. n - 1 |-> IF p - (n - 1) + i >= 1 THEN in[p - (n - 1) + i] ELSE Zero]
  BY DEF LastInputs
<1>2. OfLength(st, n - 1)
  BY <1>1 DEF OfLength
<1>3. Len(st) = n - 1
  BY <1>0, <1>2, OfLengthIs
<1>4. \A i \in 1 .. n - 1 : st[i] = IF p - (n - 1) + i >= 1 THEN in[p - (n - 1) + i] ELSE Zero
  BY <1>1
<1> HIDE DEF st
<1>5. Append(st, in[p + 1]) = [i \in 1 .. n |-> IF i <= n - 1 THEN st[i] ELSE in[p + 1]]
  BY <1>0, <1>2, AppendIs
<1>6. \A i \in 1 .. n : (IF i <= n - 1 THEN st[i] ELSE in[p + 1])
                      = IF p + 1 - n + i >= 1 THEN in[p + 1 - n + i] ELSE Zero
  <2> TAKE i \in 1 .. n
  <2>1. CASE i <= n - 1
    <3>1. i \in 1 .. n - 1 /\ p - (n - 1) + i = p + 1 - n + i
      BY <2>1
    <3> QED
      BY <2>1, <3>1, <1>4
  <2>2. CASE ~(i <= n - 1)
    <3>1. i = n /\ p + 1 - n + i = p + 1 /\ p + 1 >= 1
      BY <2>2
    <3> QED
      BY <2>2, <3>1
  <2> QED
    BY <2>1, <2>2
<1>7. Append(st, in[p + 1]) = LastInputs(n, in, p + 1)
  BY <1>5, <1>6 DEF LastInputs
<1>8. Rolled(st, in[p + 1]) = [k \in 1 .. n - 1 |-> IF k < n - 1 THEN st[k + 1] ELSE in[p + 1]]
  BY <1>3, Zenon DEF Rolled
<1>9. \A i \in 1 .. n - 1 : (IF i < n - 1 THEN st[i + 1] ELSE in[p + 1])
                          = IF p + 1 - (n - 1) + i >= 1 THEN in[p + 1 - (n - 1) + i] ELSE Zero
  <2> TAKE i \in 1 .. n - 1
  <2>1. CASE i < n - 1
    <3>1. i + 1 \in 1 .. n - 1 /\ p - (n - 1) + (i + 1) = p + 1 - (n - 1) + i
      BY <2>1
    <3>2. st[i + 1] = IF p - (n - 1) + (i + 1) >= 1 THEN in[p - (n - 1) + (i + 1)] ELSE Zero
      BY <1>4, <3>1
    <3> QED
      BY <2>1, <3>1, <3>2
  <2>2. CASE ~(i < n - 1)
    <3>1. i = n - 1 /\ p + 1 - (n - 1) + i = p + 1 /\ p + 1 >= 1
      BY <2>2
    <3> QED
      BY <2>2, <3>1
  <2> QED
    BY <2>1, <2>2
<1>10. Rolled(st, in[p + 1]) = LastInputs(n - 1, in, p + 1)
  BY <1>8, <1>9 DEF LastInputs
<1> QED
  BY <1>2, <1>7, <1>10 DEF st

\* A rolled state keeps its length, whatever it holds.
LEMMA RolledLength ==
  ASSUME NEW n \in Nat, NEW s, OfLength(s, n), NEW x
  PROVE  OfLength(Rolled(s, x), n)
<1>1. Len(s) = n
  BY OfLengthIs
<1> QED
  BY <1>1 DEF Rolled, OfLength

(***************************************************************************)
(* Heads.                                                                   *)

\* The repeated key head of a value head is the remainder the code takes.
LEMMA TiledHeadIs ==
  ASSUME NEW m \in Models, NEW h \in Nat
  PROVE  TiledHead(m, h) = KeyHead(m, h)
<1> DEFINE b == m.keyHeads
           Is(k) == \E n \in 0 .. h : h = n * b + k
<1>0. b \in Nat \ {0}
  BY ModelTypes
<1>1. h \div b \in Nat /\ h % b \in 0 .. b - 1 /\ h = b * (h \div b) + (h % b)
  BY <1>0, DivMod
<1>2. h \div b \in 0 .. h
  <2> DEFINE q == h \div b
  <2>1. q \in Nat /\ b \in Nat \ {0} /\ h % b \in Nat /\ h = b * q + (h % b)
    BY <1>0, <1>1
  <2> HIDE DEF q, b
  <2>2. b * q \in Nat /\ b * q >= q
    BY <2>1
  <2>3. q \in 0 .. h
    BY <2>1, <2>2
  <2> QED
    BY <2>3 DEF q
<1> HIDE DEF b
<1>3. Is(h % b)
  <2>1. b * (h \div b) = (h \div b) * b
    BY <1>0, <1>1
  <2> QED
    BY <1>1, <1>2, <2>1
<1>4. ASSUME NEW k \in 0 .. b - 1, Is(k)
      PROVE  k = h % b
  <2>1. PICK n \in 0 .. h : h = n * b + k
    BY <1>4
  <2>2. n \in Nat /\ n * b = b * n
    BY <1>0
  <2>3. b * n + k = b * (h \div b) + (h % b)
    BY <1>1, <2>1, <2>2
  <2> QED
    BY <1>0, <1>1, <2>2, <2>3, DivUnique
<1> HIDE DEF Is
<1>5. (CHOOSE k \in 0 .. b - 1 : Is(k)) = h % b
  BY <1>1, <1>3, <1>4
<1> QED
  BY <1>5 DEF TiledHead, KeyHead, Is, b

\* Query heads are divided among the key-value heads without remainder.
LEMMA GroupIs ==
  ASSUME NEW m \in Models
  PROVE  m.heads \div m.kvHeads \in Nat \ {0} /\ m.heads = m.kvHeads * (m.heads \div m.kvHeads)
<1> DEFINE g == m.heads \div m.kvHeads
           kv == m.kvHeads
           hd == m.heads
<1>1. hd \in Nat \ {0} /\ kv \in Nat \ {0} /\ hd % kv = 0
  BY ModelTypes
<1>2. g \in Nat /\ hd = kv * g + (hd % kv)
  BY <1>1, DivMod
<1> HIDE DEF g, kv, hd
<1>3. kv * g \in Nat
  BY <1>1, <1>2
<1>4. hd = kv * g
  BY <1>1, <1>2, <1>3
<1>5. g # 0
  BY <1>1, <1>4
<1> QED
  BY <1>2, <1>4, <1>5 DEF g, kv, hd

\* The shared key-value head of a query head is the quotient the code takes.
LEMMA SharedHeadIs ==
  ASSUME NEW m \in Models, NEW h \in 0 .. m.heads - 1
  PROVE  /\ SharedHead(m, h) = h \div (m.heads \div m.kvHeads)
         /\ h \div (m.heads \div m.kvHeads) \in 0 .. m.kvHeads - 1
<1> DEFINE g == m.heads \div m.kvHeads
           kv == m.kvHeads
           q == h \div g
           Is(k) == k * g <= h /\ h < (k + 1) * g
<1>0. g \in Nat \ {0} /\ m.heads = kv * g /\ kv \in Nat \ {0} /\ h \in Nat /\ h < m.heads
  BY GroupIs, ModelTypes
<1> HIDE DEF g, kv
<1>1. q \in Nat /\ h % g \in 0 .. g - 1 /\ h = g * q + (h % g)
  BY <1>0, DivMod
<1> HIDE DEF q
<1>2. g * q = q * g /\ kv * g = g * kv /\ q * g \in Nat /\ g * kv \in Nat
  BY <1>0, <1>1
<1>3. q \in 0 .. kv - 1
  <2>1. ~(kv < q)
    <3> SUFFICES ASSUME kv < q PROVE FALSE
      OBVIOUS
    <3>1. g * kv + g <= g * q
      BY <1>0, <1>1, ProductsCompare
    <3> QED
      BY <1>0, <1>1, <1>2, <3>1
  <2>2. q # kv
    BY <1>0, <1>1, <1>2
  <2> QED
    BY <1>0, <1>1, <2>1, <2>2
<1>4. Is(q)
  <2>1. (q + 1) * g = q * g + g
    BY <1>0, <1>1
  <2> QED
    BY <1>0, <1>1, <1>2, <2>1
<1>5. ASSUME NEW k \in 0 .. kv - 1, Is(k)
      PROVE  k = q
  <2>1. k \in Nat /\ k * g \in Nat /\ g * k = k * g /\ (k + 1) * g = k * g + g
    BY <1>0
  <2>2. h - k * g \in 0 .. g - 1
    BY <1>0, <1>5, <2>1
  <2>3. g * k + (h - k * g) = g * q + (h % g)
    BY <1>0, <1>1, <1>2, <2>1
  <2> QED
    BY <1>0, <1>1, <2>1, <2>2, <2>3, DivUnique
<1> HIDE DEF Is
<1>6. (CHOOSE k \in 0 .. kv - 1 : Is(k)) = q
  BY <1>3, <1>4, <1>5
<1> QED
  BY <1>3, <1>6 DEF SharedHead, Is, g, kv, q

(***************************************************************************)
(* Windows.                                                                 *)

\* The positions visible in a window are those from its start on.
LEMMA VisibleIs ==
  ASSUME NEW m \in Models, NEW L, NEW p \in Nat \ {0}
  PROVE  /\ WindowStart(m, L, p - 1) \in 0 .. p - 1
         /\ Visible(m, L, p) = WindowStart(m, L, p - 1) + 1 .. p
<1>1. m.window \in Nat /\ IsSwa(m, L) \in BOOLEAN
  BY ModelTypes DEF IsSwa
<1>2. CASE IsSwa(m, L) /\ m.window > 0
  <2>1. WindowStart(m, L, p - 1) = IF p > m.window THEN p - m.window ELSE 0
    BY <1>1, <1>2 DEF WindowStart
  <2>2. Visible(m, L, p) = {j \in 1 .. p : p - j < m.window}
    BY <1>2 DEF Visible
  <2> QED
    BY <1>1, <1>2, <2>1, <2>2
<1>3. CASE ~(IsSwa(m, L) /\ m.window > 0)
  <2>1. WindowStart(m, L, p - 1) = 0
    BY <1>3 DEF WindowStart
  <2>2. Visible(m, L, p) = 1 .. p
    BY <1>3 DEF Visible
  <2> QED
    BY <2>1, <2>2
<1> QED
  BY <1>2, <1>3

\* What the heads of a gemma4 layer attend to, counted from the window's start.
Attended(m, L, below, lent, p) ==
  [h \in 0 .. m.heads - 1 |->
    <<<<"query", h, RopeBase(IsSwa(m, L)), p - 1, below[p]>>,
      [i \in 1 .. p - WindowStart(m, L, p - 1) |->
         KeyValue(Lender(m, L), 0, RopeBase(IsSwa(m, L)), WindowStart(m, L, p - 1) + i - 1,
                  lent[WindowStart(m, L, p - 1) + i])]>>]

\* What a row of a gemma4 layer attends to, as the slice of keys the code cuts.
LEMMA GemmaMixedIs ==
  ASSUME NEW m \in Models, NEW L, NEW below, NEW lent, NEW p \in Nat \ {0}
  PROVE  GemmaMixed(m, L, below, lent, p) = Attended(m, L, below, lent, p)
<1> DEFINE a == WindowStart(m, L, p - 1)
           base == RopeBase(IsSwa(m, L))
           src == Lender(m, L)
           S == Visible(m, L, p)
           first == CHOOSE j \in S : \A i \in S : j <= i
<1>1. a \in 0 .. p - 1 /\ S = a + 1 .. p
  BY VisibleIs
<1> HIDE DEF a, base, src, S
<1>2. first = a + 1
  <2>1. a + 1 \in S /\ \A i \in S : a + 1 <= i
    BY <1>1
  <2>2. \A j \in S : (\A i \in S : j <= i) => j = a + 1
    BY <1>1
  <2> QED
    BY <2>1, <2>2
<1>3. Cardinality(S) = p - a
  <2>1. a + 1 \in Int /\ p \in Int /\ a + 1 <= p /\ p - (a + 1) + 1 = p - a
    BY <1>1
  <2> QED
    BY <1>1, <2>1, FS_Interval
<1>4. GemmaMixed(m, L, below, lent, p) =
        [h \in 0 .. m.heads - 1 |->
          <<<<"query", h, base, p - 1, below[p]>>,
            [i \in 1 .. Cardinality(S) |->
               KeyValue(src, 0, base, (first + i - 1) - 1, lent[first + i - 1])]>>]
  BY Zenon DEF GemmaMixed, InOrder, base, S, src
<1> HIDE DEF first
<1>5. \A i \in 1 .. p - a : first + i - 1 = a + i
  BY <1>1, <1>2
<1>6. [i \in 1 .. Cardinality(S) |-> KeyValue(src, 0, base, (first + i - 1) - 1, lent[first + i - 1])]
      = [i \in 1 .. p - a |-> KeyValue(src, 0, base, a + i - 1, lent[a + i])]
  <2>1. \A i \in 1 .. p - a : KeyValue(src, 0, base, (first + i - 1) - 1, lent[first + i - 1])
                            = KeyValue(src, 0, base, a + i - 1, lent[a + i])
    <3> TAKE i \in 1 .. p - a
    <3>1. first + i - 1 = a + i /\ (first + i - 1) - 1 = a + i - 1
      BY <1>1, <1>2
    <3> QED
      BY <3>1, Zenon
  <2> QED
    BY <1>3, <2>1
<1>7. GemmaMixed(m, L, below, lent, p) =
        [h \in 0 .. m.heads - 1 |->
          <<<<"query", h, base, p - 1, below[p]>>,
            [i \in 1 .. p - a |-> KeyValue(src, 0, base, a + i - 1, lent[a + i])]>>]
  BY <1>4, <1>6, Zenon
<1> QED
  BY <1>7, Zenon DEF Attended, a, base, src

(***************************************************************************)
(* Experts.                                                                 *)

\* A nonempty set of experts has one with the highest logit.
LEMMA Highest ==
  ASSUME NEW n \in Nat, NEW r, \A e \in 1 .. n : r[e] \in Int, NEW X, X \subseteq 1 .. n, X # {}
  PROVE  \E e \in X : \A f \in X : r[e] >= r[f]
<1> DEFINE Upto(k) == \E e \in X \cap (1 .. k) : \A f \in X \cap (1 .. k) : r[e] >= r[f]
           T == {k \in Nat : X \cap (1 .. k) # {} => Upto(k)}
<1>1. 0 \in T
  <2>1. X \cap (1 .. 0) = {}
    OBVIOUS
  <2> HIDE DEF Upto
  <2> QED
    BY <2>1
<1>2. ASSUME NEW k \in Nat, k \in T
      PROVE  k + 1 \in T
  <2>0. SUFFICES ASSUME X \cap (1 .. k + 1) # {}
                 PROVE  Upto(k + 1)
    <3> HIDE DEF Upto
    <3> QED
      BY <2>0
  <2>1. CASE k + 1 \notin X
    <3>1. X \cap (1 .. k + 1) = X \cap (1 .. k)
      BY <2>1
    <3>2. Upto(k)
      <4> HIDE DEF Upto
      <4> QED
        BY <1>2, <2>0, <3>1
    <3> QED
      BY <3>1, <3>2
  <2>2. CASE k + 1 \in X
    <3>0. X \cap (1 .. k + 1) = (X \cap (1 .. k)) \cup {k + 1} /\ r[k + 1] \in Int
      BY <2>2
    <3>1. CASE X \cap (1 .. k) = {}
      BY <3>0, <3>1
    <3>2. CASE X \cap (1 .. k) # {}
      <4>0. Upto(k)
        <5> HIDE DEF Upto
        <5> QED
          BY <1>2, <3>2
      <4>1. PICK e \in X \cap (1 .. k) : \A f \in X \cap (1 .. k) : r[e] >= r[f]
        BY <4>0
      <4>2. r[e] \in Int /\ \A f \in X : r[f] \in Int
        OBVIOUS
      <4>3. CASE r[e] >= r[k + 1]
        BY <3>0, <4>1, <4>3
      <4>4. CASE ~(r[e] >= r[k + 1])
        <5>1. \A f \in X \cap (1 .. k + 1) : r[k + 1] >= r[f]
          BY <3>0, <4>1, <4>2, <4>4
        <5> QED
          BY <3>0, <5>1
      <4> QED
        BY <4>3, <4>4
    <3> QED
      BY <3>1, <3>2
  <2> QED
    BY <2>1, <2>2
<1>3. n \in T
  <2> HIDE DEF T
  <2> QED
    BY <1>1, <1>2, Counting
<1>4. X \cap (1 .. n) = X
  OBVIOUS
<1>5. Upto(n)
  <2> HIDE DEF Upto
  <2> QED
    BY <1>3, <1>4
<1> QED
  BY <1>4, <1>5

\* u of the n indices, none of the others with more.
TopSet(n, r, u, S) ==
  S \subseteq 1 .. n /\ Cardinality(S) = u /\ \A e \in S, f \in (1 .. n) \ S : r[e] >= r[f]

\* There are u experts above all others.
LEMMA TopSetExists ==
  ASSUME NEW n \in Nat, NEW r, \A e \in 1 .. n : r[e] \in Int, NEW u \in 0 .. n
  PROVE  \E S : TopSet(n, r, u, S)
<1> DEFINE T == {k \in Nat : k <= n => \E S : TopSet(n, r, k, S)}
<1>0. IsFiniteSet(1 .. n) /\ Cardinality(1 .. n) = n
  <2>1. Cardinality(1 .. n) = IF 1 <= n THEN n - 1 + 1 ELSE 0
    BY FS_Interval
  <2> QED
    BY <2>1, FS_Interval
<1>1. 0 \in T
  <2>1. TopSet(n, r, 0, {})
    BY FS_EmptySet DEF TopSet
  <2> QED
    BY <2>1
<1>2. ASSUME NEW k \in Nat, k \in T
      PROVE  k + 1 \in T
  <2> SUFFICES ASSUME k + 1 <= n
               PROVE  \E S : TopSet(n, r, k + 1, S)
    OBVIOUS
  <2>1. PICK S : TopSet(n, r, k, S)
    BY <1>2
  <2>2. S \subseteq 1 .. n /\ Cardinality(S) = k /\ IsFiniteSet(S)
    BY <1>0, <2>1, FS_Subset DEF TopSet
  <2>3. (1 .. n) \ S # {}
    <3> SUFFICES ASSUME (1 .. n) \ S = {} PROVE FALSE
      OBVIOUS
    <3>1. S = 1 .. n
      BY <2>2
    <3> QED
      BY <1>0, <2>2, <3>1
  <2>4. PICK e \in (1 .. n) \ S : \A f \in (1 .. n) \ S : r[e] >= r[f]
    BY <2>3, Highest
  <2>5. Cardinality(S \cup {e}) = k + 1
    BY <2>2, <2>4, FS_AddElement
  <2>6. TopSet(n, r, k + 1, S \cup {e})
    BY <2>1, <2>2, <2>4, <2>5 DEF TopSet
  <2> QED
    BY <2>6
<1>3. u \in T
  <2> HIDE DEF T
  <2> QED
    BY <1>1, <1>2, Counting
<1> QED
  BY <1>3

\* Without ties there is one: the indices with fewer than u above them.
LEMMA TopSetIs ==
  ASSUME NEW n \in Nat, NEW r, \A e \in 1 .. n : r[e] \in Int,
         \A e, f \in 1 .. n : e # f => r[e] # r[f], NEW u \in Nat, NEW S, TopSet(n, r, u, S)
  PROVE  S = {e \in 1 .. n : Cardinality({f \in 1 .. n : r[f] > r[e]}) < u}
<1> DEFINE Above(e) == {f \in 1 .. n : r[f] > r[e]}
<1>0. IsFiniteSet(1 .. n) /\ S \subseteq 1 .. n /\ Cardinality(S) = u /\ IsFiniteSet(S)
  <2>1. IsFiniteSet(1 .. n)
    BY FS_Interval
  <2>2. S \in SUBSET (1 .. n) /\ Cardinality(S) = u
    BY DEF TopSet
  <2> QED
    BY <2>1, <2>2, FS_Subset
<1>1. ASSUME NEW e \in S
      PROVE  Cardinality(Above(e)) < u
  <2>1. Above(e) \subseteq S \ {e}
    BY <1>0 DEF TopSet
  <2>2. Cardinality(S \ {e}) = u - 1 /\ IsFiniteSet(S \ {e})
    BY <1>0, FS_RemoveElement
  <2> HIDE DEF Above
  <2>3. Cardinality(Above(e)) <= u - 1 /\ Cardinality(Above(e)) \in Nat
    BY <2>1, <2>2, FS_Subset, FS_CardinalityType
  <2> QED
    BY <2>3
<1>2. ASSUME NEW e \in (1 .. n) \ S
      PROVE  ~(Cardinality(Above(e)) < u)
  <2>1. S \subseteq Above(e)
    <3> SUFFICES ASSUME NEW f \in S PROVE r[f] > r[e]
      BY <1>0
    <3>1. r[f] >= r[e] /\ r[f] # r[e] /\ r[f] \in Int /\ r[e] \in Int
      BY <1>0 DEF TopSet
    <3> QED
      BY <3>1
  <2>2. IsFiniteSet(Above(e))
    BY <1>0, FS_Subset
  <2> HIDE DEF Above
  <2>3. u <= Cardinality(Above(e)) /\ Cardinality(Above(e)) \in Nat
    BY <1>0, <2>1, <2>2, FS_Subset, FS_CardinalityType
  <2> QED
    BY <2>3
<1> QED
  BY <1>0, <1>1, <1>2

\* partial_sort takes the experts with fewer than used others above them.
LEMMA ExpertsAreBest ==
  ASSUME NEW m \in Models, m.arch = "qwen35moe", NEW tok \in Tokens
  PROVE  Experts(m, tok) = BestExperts(m, tok)
<1> DEFINE r == m.router[tok]
           n == Len(r)
           u == m.used
           Top(S) == Cardinality(S) = u /\ \A e \in S, f \in DOMAIN r \ S : r[e] >= r[f]
           best == {e \in DOMAIN r : Cardinality({f \in DOMAIN r : r[f] > r[e]}) < u}
<1>1. r \in Seq(Int) /\ u \in 0 .. n /\ \A e, f \in DOMAIN r : e # f => r[e] # r[f]
  BY ModelsAssumption
<1> HIDE DEF r, u
<1>2. n \in Nat /\ DOMAIN r = 1 .. n /\ \A e \in 1 .. n : r[e] \in Int
  BY <1>1
<1> HIDE DEF n
<1>3. \A S \in SUBSET DOMAIN r : Top(S) <=> TopSet(n, r, u, S)
  BY <1>2 DEF TopSet
<1>4. \E S \in SUBSET DOMAIN r : Top(S)
  <2>1. PICK S : TopSet(n, r, u, S)
    BY <1>1, <1>2, TopSetExists
  <2>2. S \in SUBSET DOMAIN r
    BY <1>2, <2>1 DEF TopSet
  <2> HIDE DEF Top
  <2> QED
    BY <1>3, <2>1, <2>2
<1>5. \A S \in SUBSET DOMAIN r : Top(S) => S = best
  <2> SUFFICES ASSUME NEW S \in SUBSET DOMAIN r, Top(S)
               PROVE  S = best
    OBVIOUS
  <2>1. TopSet(n, r, u, S)
    BY <1>3
  <2> HIDE DEF Top
  <2>2. u \in Nat
    BY <1>1, <1>2
  <2>3. S = {e \in 1 .. n : Cardinality({f \in 1 .. n : r[f] > r[e]}) < u}
    <3>1. \A e, f \in 1 .. n : e # f => r[e] # r[f]
      BY <1>1, <1>2
    <3>2. \A e \in 1 .. n : r[e] \in Int
      BY <1>2
    <3> QED
      BY <1>2, <2>1, <2>2, <3>1, <3>2, TopSetIs
  <2> QED
    BY <1>2, <2>3, Zenon
<1> HIDE DEF best, Top
<1>6. (CHOOSE S \in SUBSET DOMAIN r : Top(S)) = best
  BY <1>4, <1>5
<1>7. Experts(m, tok) = {<<e, best>> : e \in best}
  BY <1>6, Zenon DEF Experts, Top, r, u
<1> QED
  BY <1>7, Zenon DEF BestExperts, best, r, u

(***************************************************************************)
(* A row depends on the text up to it only.                                 *)

\* There is a row for each token.
LEMMA WholeDomain ==
  ASSUME NEW m \in Models, NEW toks, NEW L \in 0 .. LayersRun(m)
  PROVE  DOMAIN WholeRows(m, toks)[L] = DOMAIN toks
<1>1. LayersRun(m) \in Nat
  BY ModelTypes
<1>2. CASE L = 0
  <2>1. WholeRows(m, toks)[0] = [p \in DOMAIN toks |-> Embedded(toks[p])]
    BY WholeRowsAre
  <2>2. DOMAIN WholeRows(m, toks)[0] = DOMAIN toks
    BY <2>1
  <2> QED
    BY <1>2, <2>2
<1>3. CASE L # 0
  <2>1. L \in 1 .. LayersRun(m)
    BY <1>1, <1>3
  <2>2. WholeRows(m, toks)[L] =
          [p \in DOMAIN toks |->
             Row(L, WholeRows(m, toks)[L - 1][p], Mixed(m, L, WholeRows(m, toks), p),
                 Fed(m, L, toks[p]))]
    BY <2>1, WholeRowsAre
  <2> QED
    BY <2>2
<1> QED
  BY <1>2, <1>3

\* f and g have the same rows up to p.
Agree(f, g, p) == 1 .. p \subseteq DOMAIN f /\ 1 .. p \subseteq DOMAIN g /\ \A j \in 1 .. p : f[j] = g[j]

\* What a layer mixes for a position depends on the rows up to it: convolutions,
LEMMA InputsAgree ==
  ASSUME NEW m, NEW L, NEW b, NEW c, NEW p \in Nat, Agree(b, c, p), NEW n \in Nat, NEW q \in 0 .. p
  PROVE  LastInputs(n, ConvInputs(m, L, b), q) = LastInputs(n, ConvInputs(m, L, c), q)
<1>1. \A j \in 1 .. p : ConvInputs(m, L, b)[j] = ConvInputs(m, L, c)[j]
  <2> TAKE j \in 1 .. p
  <2>1. j \in DOMAIN b /\ j \in DOMAIN c /\ b[j] = c[j]
    BY DEF Agree
  <2> QED
    BY <2>1 DEF ConvInputs
<1> DEFINE f == ConvInputs(m, L, b)
           g == ConvInputs(m, L, c)
<1> HIDE DEF f, g
<1>2. \A i \in 1 .. n : (IF q - n + i >= 1 THEN f[q - n + i] ELSE Zero)
                      = (IF q - n + i >= 1 THEN g[q - n + i] ELSE Zero)
  <2> TAKE i \in 1 .. n
  <2>1. CASE q - n + i >= 1
    <3>1. q - n + i \in 1 .. p
      BY <2>1
    <3> QED
      BY <1>1, <3>1 DEF f, g
  <2>2. CASE ~(q - n + i >= 1)
    BY <2>2
  <2> QED
    BY <2>1, <2>2
<1>3. LastInputs(n, f, q) = LastInputs(n, g, q)
  BY <1>2 DEF LastInputs
<1> QED
  BY <1>3 DEF f, g

ConvAt(m, L, b, i) == <<"silu", LastInputs(m.taps, ConvInputs(m, L, b), i)>>
KeyAt(m, L, h, b, i) == <<"l2norm", KBlock(m, TiledHead(m, h)), ConvAt(m, L, b, i)>>
GainAt(m, L, h, b, i) ==
  <<"delta", <<"beta", h, b[i]>>, <<"value", VBlock(m, h), ConvAt(m, L, b, i)>>,
    <<"pred", 2 * i - 1, KeyAt(m, L, h, b, i)>>>>
UpdateAt(m, L, h, b, n) ==
  IF n % 2 = 1 THEN <<"decay", h, b[(n + 1) \div 2]>>
  ELSE <<"add", KeyAt(m, L, h, b, (n + 1) \div 2), GainAt(m, L, h, b, (n + 1) \div 2)>>

\* the matrices of the delta rule,
LEMMA MatrixIs ==
  ASSUME NEW m, NEW L, NEW h, NEW b, NEW p
  PROVE  MatrixAfter(m, L, h, b, p) = [n \in 1 .. 2 * p |-> UpdateAt(m, L, h, b, n)]
  BY Zenon DEF MatrixAfter, UpdateAt, GainAt, KeyAt, ConvAt

\* which depend on the rows up to theirs,
LEMMA MatrixAgrees ==
  ASSUME NEW m \in Models, NEW L, NEW h, NEW b, NEW c, NEW p \in Nat, Agree(b, c, p)
  PROVE  MatrixAfter(m, L, h, b, p) = MatrixAfter(m, L, h, c, p)
<1>1. ASSUME NEW n \in 1 .. 2 * p
      PROVE  UpdateAt(m, L, h, b, n) = UpdateAt(m, L, h, c, n)
  <2> DEFINE i == (n + 1) \div 2
  <2>1. i \in 1 .. p
    OBVIOUS
  <2> HIDE DEF i
  <2>2. b[i] = c[i]
    BY <2>1 DEF Agree
  <2>3. ConvAt(m, L, b, i) = ConvAt(m, L, c, i)
    <3>1. i \in 0 .. p /\ m.taps \in Nat
      BY <2>1, ModelTypes
    <3>2. LastInputs(m.taps, ConvInputs(m, L, b), i) = LastInputs(m.taps, ConvInputs(m, L, c), i)
      BY <3>1, InputsAgree
    <3> QED
      BY <3>2 DEF ConvAt
  <2>4. KeyAt(m, L, h, b, i) = KeyAt(m, L, h, c, i)
    BY <2>3 DEF KeyAt
  <2>5. GainAt(m, L, h, b, i) = GainAt(m, L, h, c, i)
    BY <2>2, <2>3, <2>4 DEF GainAt
  <2> QED
    BY <2>2, <2>4, <2>5, Zenon DEF UpdateAt, i
<1> QED
  BY <1>1, MatrixIs, Zenon

\* and every kind of layer.
LEMMA MixedAgrees ==
  ASSUME NEW m \in Models, NEW L \in 1 .. LayersRun(m), NEW f, NEW g, NEW p \in Nat \ {0},
         \A K \in 0 .. L - 1 : Agree(f[K], g[K], p)
  PROVE  Mixed(m, L, f, p) = Mixed(m, L, g, p)
<1> DEFINE b == f[L - 1]
           c == g[L - 1]
<1>0. L \in Nat /\ p \in Nat /\ p \in 1 .. p /\ p \in 0 .. p /\ m.taps \in Nat
  BY ModelTypes
<1>1. Agree(b, c, p) /\ b[p] = c[p]
  BY <1>0 DEF Agree
<1>2. LastInputs(m.taps, ConvInputs(m, L, b), p) = LastInputs(m.taps, ConvInputs(m, L, c), p)
  BY <1>0, <1>1, InputsAgree
<1> HIDE DEF b, c
<1>3. CASE IsConv(m, L)
  <2>1. ShortConvMixed(m, L, b, p) = ShortConvMixed(m, L, c, p)
    BY <1>2, Zenon DEF ShortConvMixed
  <2> QED
    BY <1>3, <2>1, MixedIs DEF b, c
<1>4. CASE IsDelta(m, L)
  <2>1. \A h : MatrixAfter(m, L, h, b, p) = MatrixAfter(m, L, h, c, p)
    BY <1>0, <1>1, MatrixAgrees
  <2>2. DeltaNetMixed(m, L, b, p) = DeltaNetMixed(m, L, c, p)
    BY <1>1, <1>2, <2>1, Zenon DEF DeltaNetMixed
  <2> QED
    BY <1>4, <2>2, MixedIs DEF b, c
<1>5. CASE IsGemma(m)
  <2> DEFINE k == Lender(m, L) - 1
             a == WindowStart(m, L, p - 1)
  <2>1. k \in 0 .. L - 1
    BY <1>0, <1>5, LenderLends
  <2>2. Agree(f[k], g[k], p)
    BY <2>1
  <2>3. a \in 0 .. p - 1
    BY VisibleIs
  <2>4. ASSUME NEW i \in 1 .. p - a
        PROVE  f[k][a + i] = g[k][a + i]
    <3> HIDE DEF a, k
    <3>1. a + i \in 1 .. p
      BY <2>3
    <3> QED
      BY <2>2, <3>1 DEF Agree
  <2>5. GemmaMixed(m, L, b, f[k], p) =
               [h \in 0 .. m.heads - 1 |->
                 <<<<"query", h, RopeBase(IsSwa(m, L)), p - 1, b[p]>>,
                   [i \in 1 .. p - a |->
                      KeyValue(Lender(m, L), 0, RopeBase(IsSwa(m, L)), a + i - 1, f[k][a + i])]>>]
    <3>1. GemmaMixed(m, L, b, f[k], p) = Attended(m, L, b, f[k], p)
      BY GemmaMixedIs
    <3> QED
      BY <3>1, Zenon DEF Attended
  <2>6. GemmaMixed(m, L, c, g[k], p) =
               [h \in 0 .. m.heads - 1 |->
                 <<<<"query", h, RopeBase(IsSwa(m, L)), p - 1, c[p]>>,
                   [i \in 1 .. p - a |->
                      KeyValue(Lender(m, L), 0, RopeBase(IsSwa(m, L)), a + i - 1, g[k][a + i])]>>]
    <3>1. GemmaMixed(m, L, c, g[k], p) = Attended(m, L, c, g[k], p)
      BY GemmaMixedIs
    <3> QED
      BY <3>1, Zenon DEF Attended
  <2> HIDE DEF a
  <2>7. [i \in 1 .. p - a |->
            KeyValue(Lender(m, L), 0, RopeBase(IsSwa(m, L)), a + i - 1, f[k][a + i])]
      = [i \in 1 .. p - a |->
            KeyValue(Lender(m, L), 0, RopeBase(IsSwa(m, L)), a + i - 1, g[k][a + i])]
    BY <2>4, Zenon
  <2>8. GemmaMixed(m, L, b, f[k], p) = GemmaMixed(m, L, c, g[k], p)
    BY <1>1, <2>5, <2>6, <2>7, Zenon
  <2> QED
    BY <1>5, <2>8, MixedIs DEF b, c, k
<1>6. CASE ~IsGemma(m) /\ ~IsConv(m, L) /\ ~IsDelta(m, L)
  <2>1. \A j \in 1 .. p : b[j] = c[j]
    BY <1>1 DEF Agree
  <2>2. \A h : [j \in 1 .. p |-> KeyValue(L, SharedHead(m, h), "freq_base", j - 1, b[j])]
             = [j \in 1 .. p |-> KeyValue(L, SharedHead(m, h), "freq_base", j - 1, c[j])]
    BY <2>1, Zenon
  <2>3. AttentionMixed(m, L, b, p) = AttentionMixed(m, L, c, p)
    BY <1>1, <2>2, Zenon DEF AttentionMixed
  <2> QED
    BY <1>6, <2>3, MixedIs DEF b, c
<1> QED
  BY <1>3, <1>4, <1>5, <1>6

\* The rows of a text's beginning are those of the text.
LEMMA RowsOfPrefix ==
  ASSUME NEW m \in Models, NEW s, NEW t, NEW n \in Nat, Agree(s, t, n)
  PROVE  \A L \in 0 .. LayersRun(m) : Agree(WholeRows(m, s)[L], WholeRows(m, t)[L], n)
<1> DEFINE f == WholeRows(m, s)
           g == WholeRows(m, t)
           T == {k \in Nat : \A L \in 0 .. LayersRun(m) : L <= k => Agree(f[L], g[L], n)}
<1>0. LayersRun(m) \in Nat
  BY ModelTypes
<1>1. \A L \in 0 .. LayersRun(m) : 1 .. n \subseteq DOMAIN f[L] /\ 1 .. n \subseteq DOMAIN g[L]
  BY WholeDomain DEF Agree
<1>2. \A j \in 1 .. n : s[j] = t[j] /\ j \in DOMAIN s /\ j \in DOMAIN t
  BY DEF Agree
<1>3. 0 \in T
  <2>1. f[0] = [p \in DOMAIN s |-> Embedded(s[p])] /\ g[0] = [p \in DOMAIN t |-> Embedded(t[p])]
    BY WholeRowsAre
  <2> HIDE DEF f, g
  <2>2. \A j \in 1 .. n : f[0][j] = g[0][j]
    BY <1>2, <2>1
  <2>3. Agree(f[0], g[0], n)
    BY <1>0, <1>1, <2>2 DEF Agree
  <2> QED
    BY <1>0, <2>3
<1>4. ASSUME NEW k \in Nat, k \in T
      PROVE  k + 1 \in T
  <2> SUFFICES ASSUME k + 1 \in 0 .. LayersRun(m)
               PROVE  Agree(f[k + 1], g[k + 1], n)
    BY <1>4
  <2>1. k + 1 \in 1 .. LayersRun(m) /\ (k + 1) - 1 = k
    BY <1>0
  <2>2. /\ f[k + 1] = [p \in DOMAIN s |-> Row(k + 1, f[(k + 1) - 1][p], Mixed(m, k + 1, f, p), Fed(m, k + 1, s[p]))]
        /\ g[k + 1] = [p \in DOMAIN t |-> Row(k + 1, g[(k + 1) - 1][p], Mixed(m, k + 1, g, p), Fed(m, k + 1, t[p]))]
    BY <2>1, WholeRowsAre
  <2> HIDE DEF f, g
  <2>3. \A L \in 0 .. k : Agree(f[L], g[L], n)
    BY <1>0, <1>4, <2>1
  <2>4. ASSUME NEW p \in 1 .. n
        PROVE  f[k + 1][p] = g[k + 1][p]
    <3>1. \A L \in 0 .. (k + 1) - 1 : Agree(f[L], g[L], p)
      <4> TAKE L \in 0 .. (k + 1) - 1
      <4>1. Agree(f[L], g[L], n)
        BY <2>3
      <4> QED
        BY <4>1 DEF Agree
    <3>2. Mixed(m, k + 1, f, p) = Mixed(m, k + 1, g, p)
      BY <2>1, <3>1, MixedAgrees
    <3>3. f[(k + 1) - 1][p] = g[(k + 1) - 1][p]
      <4>1. Agree(f[k], g[k], n)
        BY <2>3
      <4> QED
        BY <2>1, <4>1 DEF Agree
    <3>4. s[p] = t[p] /\ p \in DOMAIN s /\ p \in DOMAIN t
      BY <1>2
    <3>5. f[k + 1][p] = Row(k + 1, f[(k + 1) - 1][p], Mixed(m, k + 1, f, p), Fed(m, k + 1, s[p]))
      BY <2>2, <3>4
    <3>6. g[k + 1][p] = Row(k + 1, g[(k + 1) - 1][p], Mixed(m, k + 1, g, p), Fed(m, k + 1, t[p]))
      BY <2>2, <3>4
    <3> QED
      BY <3>2, <3>3, <3>4, <3>5, <3>6, Zenon
  <2> QED
    BY <1>1, <2>4 DEF Agree
<1>5. LayersRun(m) \in T
  <2> HIDE DEF T
  <2> QED
    BY <1>0, <1>3, <1>4, Counting
<1> QED
  BY <1>0, <1>5

\* So do a layer's memories after p tokens.
LEMMA MemoriesAgree ==
  ASSUME NEW m \in Models, NEW L, NEW b, NEW c, NEW p \in Nat, Agree(b, c, p)
  PROVE  /\ ConvMemory(m, L, b, p) = ConvMemory(m, L, c, p)
         /\ MatrixMemory(m, L, b, p) = MatrixMemory(m, L, c, p)
         /\ KeyMemory(m, L, b, p) = KeyMemory(m, L, c, p)
<1>0. m.taps - 1 \in Nat /\ p \in 0 .. p /\ m.kvHeads \in Nat \ {0}
  BY ModelTypes
<1>1. ConvMemory(m, L, b, p) = ConvMemory(m, L, c, p)
  <2>1. LastInputs(m.taps - 1, ConvInputs(m, L, b), p) = LastInputs(m.taps - 1, ConvInputs(m, L, c), p)
    BY <1>0, InputsAgree
  <2> QED
    BY <2>1, Zenon DEF ConvMemory
<1>2. MatrixMemory(m, L, b, p) = MatrixMemory(m, L, c, p)
  <2>1. \A h : MatrixAfter(m, L, h, b, p) = MatrixAfter(m, L, h, c, p)
    BY MatrixAgrees
  <2> QED
    BY <2>1, Zenon DEF MatrixMemory
<1>3. KeyMemory(m, L, b, p) = KeyMemory(m, L, c, p)
  <2> DEFINE kvh == IF IsGemma(m) THEN 1 ELSE m.kvHeads
             base == RopeBase(IsGemma(m) /\ IsSwa(m, L))
  <2>1. kvh \in Nat \ {0}
    BY <1>0
  <2>2. ASSUME NEW i \in 1 .. p * kvh
        PROVE  b[(i - 1) \div kvh + 1] = c[(i - 1) \div kvh + 1]
    <3> HIDE DEF kvh
    <3>0. p * kvh \in Nat /\ p * kvh = kvh * p
      BY <2>1
    <3>1. i - 1 \in Nat /\ i - 1 < kvh * p
      BY <3>0
    <3> DEFINE q == (i - 1) \div kvh
               r == (i - 1) % kvh
    <3>2. q \in Nat /\ r \in 0 .. kvh - 1 /\ i - 1 = kvh * q + r
      BY <2>1, <3>1, DivMod
    <3> HIDE DEF q, r
    <3>3. kvh * q \in Nat /\ kvh * p \in Nat
      BY <2>1, <3>2
    <3>4. ~(p < q)
      <4> SUFFICES ASSUME p < q PROVE FALSE
        OBVIOUS
      <4>1. kvh * p + kvh <= kvh * q
        BY <2>1, <3>2, ProductsCompare
      <4> QED
        BY <2>1, <3>1, <3>2, <3>3, <4>1
    <3>5. p # q
      BY <2>1, <3>1, <3>2, <3>3
    <3>6. q + 1 \in 1 .. p
      BY <3>2, <3>4, <3>5
    <3> QED
      BY <3>6 DEF Agree, q
  <2>3. [i \in 1 .. p * kvh |->
            KeyValue(L, (i - 1) % kvh, base, (i - 1) \div kvh, b[(i - 1) \div kvh + 1])]
      = [i \in 1 .. p * kvh |->
            KeyValue(L, (i - 1) % kvh, base, (i - 1) \div kvh, c[(i - 1) \div kvh + 1])]
    <3> HIDE DEF kvh, base
    <3> QED
      BY <2>2, Zenon
  <2> QED
    BY <2>3, Zenon DEF KeyMemory
<1> QED
  BY <1>1, <1>2, <1>3

(***************************************************************************)
(* What each kind of layer does to its memories and its row.                *)

\* The feed-forward networks of the code are those of the whole.
LEMMA FedIs ==
  ASSUME NEW m \in Models, NEW L, NEW tok \in Tokens
  PROVE  /\ ~IsGemma(m) => FeedForward(m, tok) = Fed(m, L, tok)
         /\ IsGemma(m) => PerLayerEmbedding(m, L, tok) = Fed(m, L, tok)
<1>1. ~(IsGemma(m) /\ m.arch = "qwen35moe")
  BY DEF IsGemma
<1>2. CASE IsGemma(m)
  BY <1>1, <1>2, Zenon DEF Fed
<1>3. CASE m.arch = "qwen35moe"
  <2>1. Experts(m, tok) = BestExperts(m, tok)
    BY <1>3, ExpertsAreBest
  <2> QED
    BY <1>1, <1>3, <2>1, Zenon DEF Fed, FeedForward
<1>4. CASE ~IsGemma(m) /\ m.arch # "qwen35moe"
  BY <1>4, Zenon DEF Fed, FeedForward
<1> QED
  BY <1>2, <1>3, <1>4

\* A layer is of one kind.
LEMMA KindsDiffer ==
  ASSUME NEW m \in Models, NEW L
  PROVE  /\ IsConv(m, L) => IsLfm2(m) /\ ~IsDelta(m, L) /\ ~IsGemma(m)
         /\ IsDelta(m, L) => ~IsLfm2(m) /\ ~IsConv(m, L) /\ ~IsGemma(m)
         /\ IsGemma(m) => ~IsLfm2(m) /\ ~IsConv(m, L) /\ ~IsDelta(m, L)
         /\ IsGemma(m) \/ IsLfm2(m) \/ IsQwen35(m)
  BY ModelsAssumption DEF IsConv, IsDelta, IsGemma, IsLfm2, IsQwen35

KeyCount(m, L) == IF KeyOwner(m, L) THEN (IF IsGemma(m) THEN 1 ELSE m.kvHeads) ELSE 0

\* The sizes of a layer's memories after n tokens.
Sized(m, L, conv, rec, kv, n) ==
  /\ OfLength(conv, IF IsConv(m, L) \/ IsDelta(m, L) THEN m.taps - 1 ELSE 0)
  /\ OfLength(kv, n * KeyCount(m, L))
  /\ IsDelta(m, L) => /\ rec = [h \in 0 .. m.valueHeads - 1 |-> rec[h]]
                      /\ \A h \in 0 .. m.valueHeads - 1 : OfLength(rec[h], 2 * n)

\* Their contents.
Holds(m, L, below, conv, rec, kv, n) ==
  /\ conv = ConvMemory(m, L, below, n)
  /\ rec = MatrixMemory(m, L, below, n)
  /\ kv = KeyMemory(m, L, below, n)

\* r is row q of layer L.
IsRowOf(r, m, L, toks, q) == r = WholeRows(m, toks)[L][q]

\* Row q of a layer, from the layer below.
LEMMA RowIs ==
  ASSUME NEW m \in Models, NEW L \in 1 .. LayersRun(m), NEW toks, NEW q \in DOMAIN toks
  PROVE  WholeRows(m, toks)[L][q] =
           Row(L, WholeRows(m, toks)[L - 1][q], Mixed(m, L, WholeRows(m, toks), q), Fed(m, L, toks[q]))
<1>1. WholeRows(m, toks)[L] =
        [p \in DOMAIN toks |->
           Row(L, WholeRows(m, toks)[L - 1][p], Mixed(m, L, WholeRows(m, toks), p), Fed(m, L, toks[p]))]
  BY WholeRowsAre
<1> QED
  BY <1>1, Zenon

\* A convolution layer, its memory that of n tokens, computes row n + 1 and remembers n + 1.
LEMMA ShortConvStep ==
  ASSUME NEW m \in Models, NEW L \in 1 .. LayersRun(m), IsConv(m, L),
         NEW toks, NEW n \in Nat, n + 1 \in DOMAIN toks, toks[n + 1] \in Tokens,
         NEW below, below = WholeRows(m, toks)[L - 1],
         NEW conv, NEW rec, NEW kv, Holds(m, L, below, conv, rec, kv, n),
         NEW bx, bx = <<"bx", L, below[n + 1]>>
  PROVE  /\ Holds(m, L, below, Rolled(conv, bx), rec, kv, n + 1)
         /\ IsRowOf(Row(L, below[n + 1], <<"conv", Append(conv, bx)>>, FeedForward(m, toks[n + 1])),
                    m, L, toks, n + 1)
<1> DEFINE in == ConvInputs(m, L, below)
<1>0. IsLfm2(m) /\ ~IsDelta(m, L) /\ ~IsGemma(m) /\ m.taps \in Nat /\ m.taps >= 2
  BY KindsDiffer, ModelTypes
<1>1. DOMAIN below = DOMAIN toks
  <2>1. L - 1 \in 0 .. LayersRun(m)
    BY ModelTypes
  <2> QED
    BY <2>1, WholeDomain
<1>2. in[n + 1] = bx
  BY <1>0, <1>1 DEF ConvInputs
<1>3. conv = LastInputs(m.taps - 1, in, n)
  BY Zenon DEF Holds, ConvMemory
<1> HIDE DEF in
<1>4. /\ Append(conv, bx) = LastInputs(m.taps, in, n + 1)
      /\ Rolled(conv, bx) = LastInputs(m.taps - 1, in, n + 1)
  <2>1. /\ Append(LastInputs(m.taps - 1, in, n), in[n + 1]) = LastInputs(m.taps, in, n + 1)
        /\ Rolled(LastInputs(m.taps - 1, in, n), in[n + 1]) = LastInputs(m.taps - 1, in, n + 1)
    BY <1>0, ConvGrows
  <2> QED
    BY <1>2, <1>3, <2>1, Zenon
<1>5. Holds(m, L, below, Rolled(conv, bx), rec, kv, n + 1)
  <2>1. Rolled(conv, bx) = ConvMemory(m, L, below, n + 1)
    BY <1>4, Zenon DEF ConvMemory, in
  <2>2. rec = MatrixMemory(m, L, below, n + 1)
    BY <1>0, Zenon DEF Holds, MatrixMemory
  <2>3. kv = KeyMemory(m, L, below, n + 1)
    <3>1. ~KeyOwner(m, L)
      BY <1>0, Zenon DEF KeyOwner
    <3> QED
      BY <3>1, Zenon DEF Holds, KeyMemory
  <2> QED
    BY <2>1, <2>2, <2>3 DEF Holds
<1>6. Mixed(m, L, WholeRows(m, toks), n + 1) = <<"conv", Append(conv, bx)>>
  <2>1. Mixed(m, L, WholeRows(m, toks), n + 1) = ShortConvMixed(m, L, below, n + 1)
    BY MixedIs
  <2> QED
    BY <1>4, <2>1, Zenon DEF ShortConvMixed, in
<1>7. FeedForward(m, toks[n + 1]) = Fed(m, L, toks[n + 1])
  BY <1>0, FedIs
<1>8. WholeRows(m, toks)[L][n + 1] =
        Row(L, WholeRows(m, toks)[L - 1][n + 1], Mixed(m, L, WholeRows(m, toks), n + 1),
            Fed(m, L, toks[n + 1]))
  BY RowIs
<1> QED
  BY <1>5, <1>6, <1>7, <1>8, Zenon DEF IsRowOf

(***************************************************************************)
(* The delta rule.                                                          *)

KeyOf(m, h, conv) == <<"l2norm", KBlock(m, KeyHead(m, h)), conv>>

\* The matrix S of n updates with one more token's, and what is read from a matrix.
Written(m, h, n, S, conv, x) ==
  [i \in 1 .. n + 2 |->
     IF i <= n THEN S[i]
     ELSE IF i = n + 1 THEN <<"decay", h, x>>
     ELSE <<"add", KeyOf(m, h, conv),
            <<"delta", <<"beta", h, x>>, <<"value", VBlock(m, h), conv>>,
              <<"pred", n + 1, KeyOf(m, h, conv)>>>>>>]

\* The updates of the value heads, and the matrices and outputs they give.
Updates(m, rec, conv, x) == [h \in 0 .. m.valueHeads - 1 |-> DeltaUpdate(m, h, rec[h], conv, x)]
Matrices(upd) == [h \in DOMAIN upd |-> upd[h].S]
Outputs(upd) == [h \in DOMAIN upd |-> upd[h].o]

ReadFrom(m, h, S, conv, x) ==
  <<"gated", <<"read", S, <<"l2norm", QBlock(m, KeyHead(m, h)), conv>>>>, <<"z", h, x>>>>

\* One update of the delta rule, spelled out.
LEMMA DeltaUpdateIs ==
  ASSUME NEW m, NEW h, NEW n \in Nat, NEW S, OfLength(S, n), NEW conv, NEW x
  PROVE  /\ DeltaUpdate(m, h, S, conv, x).S = Written(m, h, n, S, conv, x)
         /\ DeltaUpdate(m, h, S, conv, x).o = ReadFrom(m, h, Written(m, h, n, S, conv, x), conv, x)
<1> DEFINE k == KeyOf(m, h, conv)
           D == <<"decay", h, x>>
           decayed == Append(S, D)
           A(l) == <<"add", k, <<"delta", <<"beta", h, x>>, <<"value", VBlock(m, h), conv>>, <<"pred", l, k>>>>>>
           written == Append(decayed, A(Len(decayed)))
           o == <<"gated", <<"read", written, <<"l2norm", QBlock(m, KeyHead(m, h)), conv>>>>, <<"z", h, x>>>>
<1>1. DeltaUpdate(m, h, S, conv, x) = [S |-> written, o |-> o]
  BY Zenon DEF DeltaUpdate, KeyOf
<1> HIDE DEF D, A, k
<1>2. decayed = [i \in 1 .. n + 1 |-> IF i <= n THEN S[i] ELSE D]
  BY AppendIs
<1>3. OfLength(decayed, n + 1)
  BY <1>2 DEF OfLength
<1> HIDE DEF decayed
<1>4. Len(decayed) = n + 1
  <2>1. n + 1 \in Nat
    OBVIOUS
  <2> QED
    BY <1>3, <2>1, OfLengthIs
<1>5. written = [i \in 1 .. (n + 1) + 1 |-> IF i <= n + 1 THEN decayed[i] ELSE A(n + 1)]
  BY <1>3, <1>4, AppendIs
<1>6. written = [i \in 1 .. n + 2 |-> IF i <= n THEN S[i] ELSE IF i = n + 1 THEN D ELSE A(n + 1)]
  <2>1. \A i \in 1 .. n + 2 : (IF i <= n + 1 THEN decayed[i] ELSE A(n + 1))
                            = (IF i <= n THEN S[i] ELSE IF i = n + 1 THEN D ELSE A(n + 1))
    BY <1>2
  <2>2. (n + 1) + 1 = n + 2
    OBVIOUS
  <2> HIDE DEF written
  <2> QED
    BY <1>5, <2>1, <2>2
<1> HIDE DEF written, o
<1>7. DeltaUpdate(m, h, S, conv, x).S = written /\ DeltaUpdate(m, h, S, conv, x).o = o
  BY <1>1
<1>8. written = Written(m, h, n, S, conv, x)
  BY <1>6, Zenon DEF Written, A, D, k
<1>9. o = ReadFrom(m, h, written, conv, x)
  BY Zenon DEF ReadFrom, o
<1> QED
  BY <1>7, <1>8, <1>9, Zenon

\* What a value head gives of a token.
ReadAt(m, L, h, b, i) ==
  <<"gated", <<"read", MatrixAfter(m, L, h, b, i),
               <<"l2norm", QBlock(m, TiledHead(m, h)), ConvAt(m, L, b, i)>>>>, <<"z", h, b[i]>>>>

\* One token's update of the matrix, and what the head reads from it.
LEMMA MatrixGrows ==
  ASSUME NEW m \in Models, NEW L, NEW h \in Nat, NEW b, NEW p \in Nat
  PROVE  /\ DeltaUpdate(m, h, MatrixAfter(m, L, h, b, p), ConvAt(m, L, b, p + 1), b[p + 1]).S
            = MatrixAfter(m, L, h, b, p + 1)
         /\ DeltaUpdate(m, h, MatrixAfter(m, L, h, b, p), ConvAt(m, L, b, p + 1), b[p + 1]).o
            = ReadAt(m, L, h, b, p + 1)
<1> DEFINE S == MatrixAfter(m, L, h, b, p)
           c == ConvAt(m, L, b, p + 1)
           x == b[p + 1]
           n == 2 * p
           D == <<"decay", h, x>>
           A == <<"add", KeyOf(m, h, c),
                        <<"delta", <<"beta", h, x>>, <<"value", VBlock(m, h), c>>,
                          <<"pred", n + 1, KeyOf(m, h, c)>>>>>>
<1>1. S = [i \in 1 .. n |-> UpdateAt(m, L, h, b, i)]
  BY MatrixIs
<1>2. OfLength(S, n) /\ n \in Nat /\ n = 2 * p
  BY <1>1 DEF OfLength
<1> HIDE DEF S, c, x, n
<1>0. /\ DeltaUpdate(m, h, S, c, x).S = Written(m, h, n, S, c, x)
      /\ DeltaUpdate(m, h, S, c, x).o = ReadFrom(m, h, Written(m, h, n, S, c, x), c, x)
  BY <1>2, DeltaUpdateIs
<1>3. DeltaUpdate(m, h, S, c, x).S =
        [i \in 1 .. n + 2 |-> IF i <= n THEN S[i] ELSE IF i = n + 1 THEN D ELSE A]
  BY <1>0, Zenon DEF Written
<1>4. TiledHead(m, h) = KeyHead(m, h)
  BY TiledHeadIs
<1>5. UpdateAt(m, L, h, b, n + 1) = D
  <2>1. (n + 1) % 2 = 1 /\ ((n + 1) + 1) \div 2 = p + 1
    BY <1>2
  <2> QED
    BY <2>1, Zenon DEF UpdateAt, x
<1>6. UpdateAt(m, L, h, b, n + 2) = A
  <2>1. ~((n + 2) % 2 = 1) /\ ((n + 2) + 1) \div 2 = p + 1 /\ 2 * (p + 1) - 1 = n + 1
    BY <1>2
  <2>2. KeyAt(m, L, h, b, p + 1) = KeyOf(m, h, c)
    BY <1>4, Zenon DEF KeyAt, KeyOf, c
  <2>3. GainAt(m, L, h, b, p + 1) = <<"delta", <<"beta", h, x>>, <<"value", VBlock(m, h), c>>,
                          <<"pred", n + 1, KeyOf(m, h, c)>>>>
    <3> QED
      BY <2>1, <2>2, Zenon DEF GainAt, c, x
  <2> QED
    BY <2>1, <2>2, <2>3, Zenon DEF UpdateAt
<1> HIDE DEF D, A
<1>7. \A i \in 1 .. n + 2 : (IF i <= n THEN S[i] ELSE IF i = n + 1 THEN D ELSE A) = UpdateAt(m, L, h, b, i)
  <2> TAKE i \in 1 .. n + 2
  <2>1. CASE i <= n
    <3>1. i \in 1 .. n
      BY <1>2, <2>1
    <3> QED
      BY <1>1, <2>1, <3>1
  <2>2. CASE i = n + 1
    BY <1>2, <1>5, <2>2
  <2>3. CASE i = n + 2
    BY <1>2, <1>6, <2>3
  <2> QED
    BY <1>2, <2>1, <2>2, <2>3
<1>8. DeltaUpdate(m, h, S, c, x).S = MatrixAfter(m, L, h, b, p + 1)
  <2>1. MatrixAfter(m, L, h, b, p + 1) = [i \in 1 .. 2 * (p + 1) |-> UpdateAt(m, L, h, b, i)]
    BY MatrixIs
  <2>2. 2 * (p + 1) = n + 2
    BY <1>2
  <2> QED
    BY <1>3, <1>7, <2>1, <2>2
<1>9. DeltaUpdate(m, h, S, c, x).o = ReadFrom(m, h, DeltaUpdate(m, h, S, c, x).S, c, x)
  BY <1>0, Zenon
<1> QED
  BY <1>4, <1>8, <1>9, Zenon DEF ReadFrom, ReadAt, S, c, x

\* A delta-rule layer, its memories those of n tokens, computes row n + 1 and remembers n + 1.
LEMMA DeltaNetStep ==
  ASSUME NEW m \in Models, NEW L \in 1 .. LayersRun(m), IsDelta(m, L),
         NEW toks, NEW n \in Nat, n + 1 \in DOMAIN toks, toks[n + 1] \in Tokens,
         NEW below, below = WholeRows(m, toks)[L - 1],
         NEW conv, NEW rec, NEW kv, Holds(m, L, below, conv, rec, kv, n),
         NEW x, x = below[n + 1], NEW mixed, mixed = <<"qkv", L, x>>,
         NEW upd, upd = Updates(m, rec, <<"silu", Append(conv, mixed)>>, x)
  PROVE  /\ Holds(m, L, below, Rolled(conv, mixed), Matrices(upd), kv, n + 1)
         /\ IsRowOf(Row(L, x, Outputs(upd), FeedForward(m, toks[n + 1])), m, L, toks, n + 1)
<1> DEFINE in == ConvInputs(m, L, below)
           H == 0 .. m.valueHeads - 1
           c == ConvAt(m, L, below, n + 1)
<1>0. ~IsLfm2(m) /\ ~IsConv(m, L) /\ ~IsGemma(m) /\ m.taps \in Nat /\ m.taps >= 2 /\ H \subseteq Nat
  BY KindsDiffer, ModelTypes
<1>1. DOMAIN below = DOMAIN toks
  <2>1. L - 1 \in 0 .. LayersRun(m)
    BY ModelTypes
  <2> QED
    BY <2>1, WholeDomain
<1>2. in[n + 1] = mixed
  BY <1>0, <1>1 DEF ConvInputs
<1>3. conv = LastInputs(m.taps - 1, in, n)
  BY Zenon DEF Holds, ConvMemory
<1> HIDE DEF in
<1>4. /\ Append(conv, mixed) = LastInputs(m.taps, in, n + 1)
      /\ Rolled(conv, mixed) = LastInputs(m.taps - 1, in, n + 1)
  <2>1. /\ Append(LastInputs(m.taps - 1, in, n), in[n + 1]) = LastInputs(m.taps, in, n + 1)
        /\ Rolled(LastInputs(m.taps - 1, in, n), in[n + 1]) = LastInputs(m.taps - 1, in, n + 1)
    BY <1>0, ConvGrows
  <2> QED
    BY <1>2, <1>3, <2>1, Zenon
<1>5. <<"silu", Append(conv, mixed)>> = c
  BY <1>4, Zenon DEF ConvAt, in
<1> HIDE DEF H, c
<1>6. rec = [h \in H |-> MatrixAfter(m, L, h, below, n)]
  BY Zenon DEF Holds, MatrixMemory, H
<1>7. DOMAIN upd = H /\ \A h \in H : upd[h] = DeltaUpdate(m, h, MatrixAfter(m, L, h, below, n), c, x)
  BY <1>5, <1>6, Zenon DEF H, Updates
<1>8. ASSUME NEW h \in H
      PROVE  /\ upd[h].S = MatrixAfter(m, L, h, below, n + 1)
             /\ upd[h].o = ReadAt(m, L, h, below, n + 1)
  <2>1. h \in Nat
    BY <1>0 DEF H
  <2>2. /\ DeltaUpdate(m, h, MatrixAfter(m, L, h, below, n), ConvAt(m, L, below, n + 1), below[n + 1]).S
            = MatrixAfter(m, L, h, below, n + 1)
        /\ DeltaUpdate(m, h, MatrixAfter(m, L, h, below, n), ConvAt(m, L, below, n + 1), below[n + 1]).o
            = ReadAt(m, L, h, below, n + 1)
    BY <2>1, MatrixGrows
  <2>3. upd[h] = DeltaUpdate(m, h, MatrixAfter(m, L, h, below, n), ConvAt(m, L, below, n + 1), below[n + 1])
    BY <1>7, Zenon DEF c
  <2> QED
    BY <2>2, <2>3, Zenon
<1>9. [h \in DOMAIN upd |-> upd[h].S] = [h \in H |-> MatrixAfter(m, L, h, below, n + 1)]
  BY <1>7, <1>8, Zenon
<1>10. [h \in DOMAIN upd |-> upd[h].o] = [h \in H |-> ReadAt(m, L, h, below, n + 1)]
  BY <1>7, <1>8, Zenon
<1>11. Holds(m, L, below, Rolled(conv, mixed), [h \in DOMAIN upd |-> upd[h].S], kv, n + 1)
  <2>1. Rolled(conv, mixed) = ConvMemory(m, L, below, n + 1)
    BY <1>4, Zenon DEF ConvMemory, in
  <2>2. [h \in DOMAIN upd |-> upd[h].S] = MatrixMemory(m, L, below, n + 1)
    BY <1>9, Zenon DEF MatrixMemory, H
  <2>3. kv = KeyMemory(m, L, below, n + 1)
    <3>1. ~KeyOwner(m, L)
      BY <1>0, Zenon DEF KeyOwner
    <3> QED
      BY <3>1, Zenon DEF Holds, KeyMemory
  <2> QED
    BY <2>1, <2>2, <2>3, Zenon DEF Holds
<1>12. Mixed(m, L, WholeRows(m, toks), n + 1) = [h \in DOMAIN upd |-> upd[h].o]
  <2>1. Mixed(m, L, WholeRows(m, toks), n + 1) = DeltaNetMixed(m, L, below, n + 1)
    BY MixedIs
  <2> QED
    BY <1>10, <2>1, Zenon DEF DeltaNetMixed, ReadAt, ConvAt, H
<1>13. FeedForward(m, toks[n + 1]) = Fed(m, L, toks[n + 1])
  BY <1>0, FedIs
<1>14. WholeRows(m, toks)[L][n + 1] =
        Row(L, WholeRows(m, toks)[L - 1][n + 1], Mixed(m, L, WholeRows(m, toks), n + 1),
            Fed(m, L, toks[n + 1]))
  BY RowIs
<1> QED
  BY <1>11, <1>12, <1>13, <1>14, Zenon DEF IsRowOf, Matrices, Outputs

(***************************************************************************)
(* Keys and values: k heads for each of p tokens.                           *)

Keys(L, k, base, b, p) ==
  [i \in 1 .. p * k |-> KeyValue(L, (i - 1) % k, base, (i - 1) \div k, b[(i - 1) \div k + 1])]

\* Those of token p, those of the n tokens after p, and those of one head.
TokenKeys(L, k, base, x, p) == [i \in 1 .. k |-> KeyValue(L, i - 1, base, p, x)]
BlockKeys(L, base, x, p, n) == [i \in 1 .. n |-> KeyValue(L, 0, base, p + i - 1, x[i])]
HeadKeys(L, h, base, b, p) == [j \in 1 .. p |-> KeyValue(L, h, base, j - 1, b[j])]

\* The keys an owner remembers.
LEMMA KeysAre ==
  ASSUME NEW m \in Models, NEW L, KeyOwner(m, L), NEW b, NEW p
  PROVE  /\ KeyCount(m, L) \in Nat \ {0}
         /\ KeyMemory(m, L, b, p) =
              Keys(L, KeyCount(m, L), RopeBase(IsGemma(m) /\ IsSwa(m, L)), b, p)
<1>1. KeyCount(m, L) = IF IsGemma(m) THEN 1 ELSE m.kvHeads
  BY Zenon DEF KeyCount
<1>2. KeyCount(m, L) \in Nat \ {0}
  BY <1>1, ModelTypes
<1>3. KeyMemory(m, L, b, p) =
        Keys(L, IF IsGemma(m) THEN 1 ELSE m.kvHeads, RopeBase(IsGemma(m) /\ IsSwa(m, L)), b, p)
  BY Zenon DEF KeyMemory, Keys
<1> QED
  BY <1>1, <1>2, <1>3

\* One more token's keys,
LEMMA KeysGrow ==
  ASSUME NEW L, NEW k \in Nat \ {0}, NEW base, NEW b, NEW p \in Nat
  PROVE  Keys(L, k, base, b, p) \o TokenKeys(L, k, base, b[p + 1], p) = Keys(L, k, base, b, p + 1)
<1> DEFINE n == p * k
           At(i) == KeyValue(L, (i - 1) % k, base, (i - 1) \div k, b[(i - 1) \div k + 1])
           own == [i \in 1 .. k |-> KeyValue(L, i - 1, base, p, b[p + 1])]
           old == Keys(L, k, base, b, p)
<1>1. n \in Nat /\ n = k * p /\ (p + 1) * k = n + k
  OBVIOUS
<1>2. old = [i \in 1 .. n |-> At(i)]
  BY Zenon DEF Keys
<1>3. Keys(L, k, base, b, p + 1) = [i \in 1 .. (p + 1) * k |-> At(i)]
  BY Zenon DEF Keys
<1> HIDE DEF n, old
<1>4. ASSUME NEW i \in 1 .. k
      PROVE  At(n + i) = own[i]
  <2>1. (n + i) - 1 \in Nat /\ i - 1 \in 0 .. k - 1 /\ (n + i) - 1 = k * p + (i - 1)
    BY <1>1
  <2>2. ((n + i) - 1) \div k = p /\ ((n + i) - 1) % k = i - 1
    <3> DEFINE a == (n + i) - 1
               r == i - 1
    <3>1. a \in Nat /\ r \in 0 .. k - 1 /\ a = k * p + r
      BY <2>1
    <3> HIDE DEF a, r
    <3>2. a \div k = p /\ a % k = r
      BY <3>1, DivOf
    <3> QED
      BY <3>2 DEF a, r
  <2>3. At(n + i) = KeyValue(L, i - 1, base, p, b[p + 1])
    BY <2>2, Zenon
  <2> QED
    BY <2>3
<1> HIDE DEF At
<1>5. OfLength(old, n)
  BY <1>2 DEF OfLength
<1>6. OfLength(own, k)
  BY DEF OfLength
<1> HIDE DEF own
<1>7. old \o own = [i \in 1 .. n + k |-> IF i <= n THEN old[i] ELSE own[i - n]]
  BY <1>1, <1>5, <1>6, ConcatIs
<1>8. \A i \in 1 .. n + k : (IF i <= n THEN old[i] ELSE own[i - n]) = At(i)
  <2> TAKE i \in 1 .. n + k
  <2>1. CASE i <= n
    BY <1>1, <1>2, <2>1
  <2>2. CASE ~(i <= n)
    <3>1. i - n \in 1 .. k /\ n + (i - n) = i
      BY <1>1, <2>2
    <3>2. own[i - n] = At(n + (i - n))
      BY <1>4, <3>1
    <3> QED
      BY <2>2, <3>1, <3>2
  <2> QED
    BY <2>1, <2>2
<1>9. old \o own = Keys(L, k, base, b, p + 1)
  BY <1>1, <1>3, <1>7, <1>8
<1> QED
  BY <1>1, <1>5, <1>9, Zenon DEF n, old, own, TokenKeys

\* One head: the keys of a block of rows.
LEMMA KeysOfOne ==
  ASSUME NEW L, NEW base, NEW b, NEW p \in Nat
  PROVE  Keys(L, 1, base, b, p) = HeadKeys(L, 0, base, b, p)
<1>1. \A i \in 1 .. p : (i - 1) % 1 = 0 /\ (i - 1) \div 1 = i - 1 /\ (i - 1) + 1 = i
  <2> TAKE i \in 1 .. p
  <2>1. i - 1 \in Nat /\ 1 \in Nat \ {0} /\ 0 \in 0 .. 1 - 1 /\ i - 1 = 1 * (i - 1) + 0
    OBVIOUS
  <2>2. (i - 1) \div 1 = i - 1 /\ (i - 1) % 1 = 0
    BY <2>1, DivOf
  <2> QED
    BY <2>2
<1>2. \A i \in 1 .. p : KeyValue(L, (i - 1) % 1, base, (i - 1) \div 1, b[(i - 1) \div 1 + 1])
                      = KeyValue(L, 0, base, i - 1, b[i])
  BY <1>1, Zenon
<1>3. p * 1 = p
  OBVIOUS
<1>4. Keys(L, 1, base, b, p) = [i \in 1 .. p * 1 |->
         KeyValue(L, (i - 1) % 1, base, (i - 1) \div 1, b[(i - 1) \div 1 + 1])]
  BY Zenon DEF Keys
<1> QED
  BY <1>2, <1>3, <1>4, Zenon DEF HeadKeys

\* and those of a block of n tokens.
LEMMA BlockGrows ==
  ASSUME NEW L, NEW base, NEW b, NEW p \in Nat, NEW n \in Nat, NEW x, \A i \in 1 .. n : x[i] = b[p + i]
  PROVE  Keys(L, 1, base, b, p) \o BlockKeys(L, base, x, p, n) = Keys(L, 1, base, b, p + n)
<1> DEFINE old == Keys(L, 1, base, b, p)
           own == [i \in 1 .. n |-> KeyValue(L, 0, base, p + i - 1, x[i])]
           At(i) == KeyValue(L, 0, base, i - 1, b[i])
<1>1. old = [i \in 1 .. p |-> At(i)] /\ Keys(L, 1, base, b, p + n) = [i \in 1 .. p + n |-> At(i)]
  <2>1. Keys(L, 1, base, b, p) = HeadKeys(L, 0, base, b, p)
    BY KeysOfOne
  <2>2. Keys(L, 1, base, b, p + n) = HeadKeys(L, 0, base, b, p + n)
    <3>1. p + n \in Nat
      OBVIOUS
    <3> QED
      BY <3>1, KeysOfOne
  <2> QED
    BY <2>1, <2>2, Zenon DEF HeadKeys
<1> HIDE DEF old
<1>2. \A i \in 1 .. n : own[i] = At(p + i)
  <2> TAKE i \in 1 .. n
  <2>1. own[i] = KeyValue(L, 0, base, p + i - 1, x[i]) /\ x[i] = b[p + i]
    OBVIOUS
  <2>2. p + i - 1 = (p + i) - 1
    OBVIOUS
  <2> HIDE DEF own
  <2> QED
    BY <2>1, <2>2
<1>3. OfLength(old, p) /\ OfLength(own, n)
  BY <1>1 DEF OfLength
<1> HIDE DEF own, At
<1>4. old \o own = [i \in 1 .. p + n |-> IF i <= p THEN old[i] ELSE own[i - p]]
  BY <1>3, ConcatIs
<1>5. \A i \in 1 .. p + n : (IF i <= p THEN old[i] ELSE own[i - p]) = At(i)
  <2> TAKE i \in 1 .. p + n
  <2>1. CASE i <= p
    BY <1>1, <2>1
  <2>2. CASE ~(i <= p)
    <3>1. i - p \in 1 .. n /\ p + (i - p) = i
      BY <2>2
    <3>2. own[i - p] = At(p + (i - p))
      BY <1>2, <3>1
    <3> QED
      BY <2>2, <3>1, <3>2
  <2> QED
    BY <2>1, <2>2
<1> QED
  <2>1. old \o own = Keys(L, 1, base, b, p + n)
    BY <1>1, <1>4, <1>5
  <2> QED
    BY <2>1, Zenon DEF old, own, BlockKeys

\* Query head h of a layer reads the keys and values of its own group of heads.
LEMMA ExpandedIs ==
  ASSUME NEW m \in Models, NEW h \in 0 .. m.heads - 1, NEW L, NEW base, NEW b, NEW p \in Nat
  PROVE  Expanded(m, Keys(L, m.kvHeads, base, b, p), h, p)
         = HeadKeys(L, SharedHead(m, h), base, b, p)
<1> DEFINE k == m.kvHeads
           r == h \div (m.heads \div m.kvHeads)
           At(i) == KeyValue(L, (i - 1) % k, base, (i - 1) \div k, b[(i - 1) \div k + 1])
           store == Keys(L, k, base, b, p)
<1>1. k \in Nat \ {0} /\ SharedHead(m, h) = r /\ r \in 0 .. k - 1
  BY ModelTypes, SharedHeadIs
<1>2. store = [i \in 1 .. p * k |-> At(i)]
  BY Zenon DEF Keys
<1>3. Expanded(m, store, h, p) = [j \in 1 .. p |-> store[(j - 1) * k + r + 1]]
  BY Zenon DEF Expanded
<1> HIDE DEF k, r, store
<1>4. ASSUME NEW j \in 1 .. p
      PROVE  store[(j - 1) * k + r + 1] = KeyValue(L, r, base, j - 1, b[j])
  <2> DEFINE a == (j - 1) * k + r
             q == j - 1
  <2>1. q \in Nat /\ q < p /\ q * k \in Nat /\ q * k = k * q /\ p * k = k * p /\ q + 1 = j
        /\ k * p \in Nat
    BY <1>1
  <2>2. k * q + k <= k * p
    BY <1>1, <2>1, ProductsCompare
  <2>3. a \in Nat /\ a = k * q + r /\ a + 1 \in 1 .. p * k /\ (a + 1) - 1 = a
    BY <1>1, <2>1, <2>2
  <2> HIDE DEF a, q
  <2>4. a \div k = q /\ a % k = r
    BY <1>1, <2>1, <2>3, DivOf
  <2>5. store[a + 1] = At(a + 1)
    BY <1>2, <2>3
  <2>6. At(a + 1) = KeyValue(L, r, base, q, b[j])
    BY <2>1, <2>3, <2>4, Zenon
  <2>7. store[a + 1] = KeyValue(L, r, base, q, b[j])
    BY <2>5, <2>6, Zenon
  <2> QED
    BY <2>7 DEF a, q
<1> HIDE DEF At
<1>5. Expanded(m, store, h, p) = [j \in 1 .. p |-> KeyValue(L, r, base, j - 1, b[j])]
  BY <1>3, <1>4, Zenon
<1> QED
  BY <1>1, <1>5, Zenon DEF store, k, HeadKeys

\* What the heads read for position n of an attention layer, and for row q of a
\* gemma4 layer.
HeadsRead(m, L, n, x, store) ==
  [h \in 0 .. m.heads - 1 |-> <<Query(m, L, h, n, x), Expanded(m, store, h, n + 1)>>]
WindowRead(m, L, q, x, store) ==
  [h \in 0 .. m.heads - 1 |->
     <<<<"query", h, RopeBase(IsSwa(m, L)), q - 1, x>>,
       SubSeq(store, WindowStart(m, L, q - 1) + 1, q)>>]

IsKeyMemory(s, m, L, b, p) == s = KeyMemory(m, L, b, p)

\* An attention layer, its keys those of n tokens, computes row n + 1 and remembers n + 1.
LEMMA AttentionStep ==
  ASSUME NEW m \in Models, NEW L \in 1 .. LayersRun(m),
         ~IsGemma(m), ~IsConv(m, L), ~IsDelta(m, L),
         NEW toks, NEW n \in Nat, n + 1 \in DOMAIN toks, toks[n + 1] \in Tokens,
         NEW below, below = WholeRows(m, toks)[L - 1],
         NEW conv, NEW rec, NEW kv, Holds(m, L, below, conv, rec, kv, n),
         NEW x, x = below[n + 1],
         NEW store,
         store = kv \o TokenKeys(L, m.kvHeads, "freq_base", x, n)
  PROVE  /\ Holds(m, L, below, conv, rec, store, n + 1)
         /\ IsRowOf(Row(L, x, HeadsRead(m, L, n, x, store), FeedForward(m, toks[n + 1])),
                    m, L, toks, n + 1)
<1> DEFINE k == m.kvHeads
<1>1. KeyOwner(m, L) /\ RopeBase(IsGemma(m) /\ IsSwa(m, L)) = "freq_base"
  BY DEF KeyOwner, RopeBase
<1>2. KeyCount(m, L) = k /\ k \in Nat \ {0}
  BY <1>1, ModelTypes DEF KeyCount
<1>3. \A p : KeyMemory(m, L, below, p) = Keys(L, k, "freq_base", below, p)
  BY <1>1, <1>2, KeysAre
<1> HIDE DEF k
<1>4. kv = Keys(L, k, "freq_base", below, n)
  BY <1>3, Zenon DEF Holds
<1>5. store = Keys(L, k, "freq_base", below, n + 1)
  <2>1. Keys(L, k, "freq_base", below, n) \o TokenKeys(L, k, "freq_base", below[n + 1], n)
        = Keys(L, k, "freq_base", below, n + 1)
    <3> DEFINE base == "freq_base"
    <3>1. k \in Nat \ {0} /\ n \in Nat
      BY <1>2
    <3> HIDE DEF base
    <3>2. Keys(L, k, base, below, n) \o TokenKeys(L, k, base, below[n + 1], n)
          = Keys(L, k, base, below, n + 1)
      BY ONLY <3>1, KeysGrow
    <3> QED
      BY <3>2, Zenon DEF base
  <2> QED
    BY <1>4, <2>1, Zenon DEF k
<1>6. Holds(m, L, below, conv, rec, store, n + 1)
  BY <1>3, <1>5, Zenon DEF Holds, ConvMemory, MatrixMemory
<1>7. (n + 1) - 1 = n /\ n + 1 \in Nat
  OBVIOUS
<1>8. ASSUME NEW h \in 0 .. m.heads - 1
      PROVE  <<Query(m, L, h, n, x), Expanded(m, store, h, n + 1)>>
             = <<Query(m, L, h, (n + 1) - 1, below[n + 1]),
                 [j \in 1 .. n + 1 |-> KeyValue(L, SharedHead(m, h), "freq_base", j - 1, below[j])]>>
  <2>1. Expanded(m, Keys(L, m.kvHeads, "freq_base", below, n + 1), h, n + 1)
        = HeadKeys(L, SharedHead(m, h), "freq_base", below, n + 1)
    BY <1>7, ExpandedIs
  <2> QED
    BY <1>5, <1>7, <2>1, Zenon DEF k, HeadKeys
<1>9. Mixed(m, L, WholeRows(m, toks), n + 1)
      = [h \in 0 .. m.heads - 1 |-> <<Query(m, L, h, n, x), Expanded(m, store, h, n + 1)>>]
  <2>1. Mixed(m, L, WholeRows(m, toks), n + 1) = AttentionMixed(m, L, below, n + 1)
    BY MixedIs
  <2>2. AttentionMixed(m, L, below, n + 1)
        = [h \in 0 .. m.heads - 1 |->
             <<Query(m, L, h, (n + 1) - 1, below[n + 1]),
               [j \in 1 .. n + 1 |-> KeyValue(L, SharedHead(m, h), "freq_base", j - 1, below[j])]>>]
    BY Zenon DEF AttentionMixed
  <2> QED
    BY <1>8, <2>1, <2>2, Zenon
<1>10. FeedForward(m, toks[n + 1]) = Fed(m, L, toks[n + 1])
  BY FedIs
<1>11. WholeRows(m, toks)[L][n + 1] =
        Row(L, WholeRows(m, toks)[L - 1][n + 1], Mixed(m, L, WholeRows(m, toks), n + 1),
            Fed(m, L, toks[n + 1]))
  BY RowIs
<1> QED
  BY <1>6, <1>9, <1>10, <1>11, Zenon DEF IsRowOf, HeadsRead

\* One row of a gemma4 layer, from the keys of the layer that lends them, which has
\* been through the whole block.
LEMMA GemmaRowStep ==
  ASSUME NEW m \in Models, NEW L \in 1 .. LayersRun(m), IsGemma(m),
         NEW toks, NEW n \in Nat, NEW q \in 1 .. n, q \in DOMAIN toks, toks[q] \in Tokens,
         NEW src, src = GemmaPlan(m)[L].kv_src,
         NEW store, store = KeyMemory(m, src, WholeRows(m, toks)[src - 1], n),
         NEW x, x = WholeRows(m, toks)[L - 1][q]
  PROVE  IsRowOf(Row(L, x, WindowRead(m, L, q, x, store), PerLayerEmbedding(m, L, toks[q])),
                 m, L, toks, q)
<1> DEFINE a == WindowStart(m, L, q - 1)
           lent == WholeRows(m, toks)[src - 1]
           base == RopeBase(IsSwa(m, L))
<1>0. n \in Nat /\ q \in Nat \ {0}
  OBVIOUS
<1>1. src = Lender(m, L) /\ Lends(m, L, src)
  BY PlanLends, LenderLends
<1>2. KeyOwner(m, src) /\ RopeBase(IsGemma(m) /\ IsSwa(m, src)) = base /\ KeyCount(m, src) = 1
  <2>1. "attn_k" \in m.tensors[src] /\ IsSwa(m, src) = IsSwa(m, L)
    BY <1>1 DEF Lends
  <2>2. KeyOwner(m, src)
    BY <2>1 DEF KeyOwner
  <2>3. (IsGemma(m) /\ IsSwa(m, src)) = IsSwa(m, L)
    BY <2>1 DEF IsSwa
  <2>4. RopeBase(IsGemma(m) /\ IsSwa(m, src)) = base
    BY <2>3
  <2> QED
    BY <2>2, <2>4 DEF KeyCount
<1> HIDE DEF base, lent
<1>3. store = [i \in 1 .. n |-> KeyValue(src, 0, base, i - 1, lent[i])]
  <2>1. KeyMemory(m, src, lent, n) = Keys(src, KeyCount(m, src), RopeBase(IsGemma(m) /\ IsSwa(m, src)), lent, n)
    BY <1>2, KeysAre
  <2>2. store = Keys(src, 1, base, lent, n)
    BY <1>2, <2>1 DEF lent
  <2>3. Keys(src, 1, base, lent, n) = HeadKeys(src, 0, base, lent, n)
    BY <1>0, KeysOfOne
  <2> QED
    BY <2>2, <2>3, Zenon DEF HeadKeys
<1>4. a \in 0 .. q - 1 /\ q \in Nat \ {0}
  BY <1>0, VisibleIs
<1> HIDE DEF a
<1>5. SubSeq(store, a + 1, q) = [i \in 1 .. q - a |-> KeyValue(src, 0, base, a + i - 1, lent[a + i])]
  <2>1. OfLength(store, n)
    BY <1>3 DEF OfLength
  <2>2. SubSeq(store, a + 1, q) = [i \in 1 .. q - a |-> store[a + i]]
    BY <1>4, <2>1, SubSeqIs
  <2>3. \A i \in 1 .. q - a : store[a + i] = KeyValue(src, 0, base, a + i - 1, lent[a + i])
    <3> TAKE i \in 1 .. q - a
    <3>1. a + i \in 1 .. n /\ (a + i) - 1 = a + i - 1
      BY <1>4
    <3>2. store[a + i] = KeyValue(src, 0, base, (a + i) - 1, lent[a + i])
      BY <1>3, <3>1
    <3> QED
      BY <3>1, <3>2
  <2> QED
    BY <2>2, <2>3, Zenon
<1>6. Mixed(m, L, WholeRows(m, toks), q)
      = [h \in 0 .. m.heads - 1 |-> <<<<"query", h, base, q - 1, x>>, SubSeq(store, a + 1, q)>>]
  <2>1. Mixed(m, L, WholeRows(m, toks), q) = GemmaMixed(m, L, WholeRows(m, toks)[L - 1], lent, q)
    BY <1>1, MixedIs DEF lent
  <2>2. GemmaMixed(m, L, WholeRows(m, toks)[L - 1], lent, q) = Attended(m, L, WholeRows(m, toks)[L - 1], lent, q)
    BY <1>4, GemmaMixedIs
  <2>3. Attended(m, L, WholeRows(m, toks)[L - 1], lent, q)
        = [h \in 0 .. m.heads - 1 |->
             <<<<"query", h, base, q - 1, x>>,
               [i \in 1 .. q - a |-> KeyValue(src, 0, base, a + i - 1, lent[a + i])]>>]
    BY <1>1, Zenon DEF Attended, base, a
  <2> QED
    BY <1>5, <2>1, <2>2, <2>3, Zenon
<1>7. PerLayerEmbedding(m, L, toks[q]) = Fed(m, L, toks[q])
  BY FedIs
<1>8. WholeRows(m, toks)[L][q] =
        Row(L, WholeRows(m, toks)[L - 1][q], Mixed(m, L, WholeRows(m, toks), q), Fed(m, L, toks[q]))
  BY RowIs
<1> QED
  BY <1>6, <1>7, <1>8, Zenon DEF base, a, IsRowOf, WindowRead

\* The keys an owner appends.
LEMMA GemmaKeysStep ==
  ASSUME NEW m \in Models, NEW L, IsGemma(m), KeyOwner(m, L), NEW below,
         NEW n \in Nat, NEW b \in Nat, NEW x, \A i \in 1 .. b : x[i] = below[n + i]
  PROVE  IsKeyMemory(KeyMemory(m, L, below, n) \o BlockKeys(L, RopeBase(IsSwa(m, L)), x, n, b),
                     m, L, below, n + b)
<1> DEFINE base == RopeBase(IsSwa(m, L))
<1>1. RopeBase(IsGemma(m) /\ IsSwa(m, L)) = base /\ KeyCount(m, L) = 1
  BY DEF KeyCount, RopeBase
<1> HIDE DEF base
<1>2. \A p : KeyMemory(m, L, below, p) = Keys(L, 1, base, below, p)
  BY <1>1, KeysAre
<1>3. Keys(L, 1, base, below, n) \o BlockKeys(L, base, x, n, b) = Keys(L, 1, base, below, n + b)
  BY BlockGrows
<1> QED
  BY <1>2, <1>3, Zenon DEF base, IsKeyMemory

(***************************************************************************)
(* Sizes, whatever the values.                                              *)

\* The same steps keep the sizes, whatever the values.
LEMMA ConcatSize ==
  ASSUME NEW s, NEW n \in Nat, OfLength(s, n), NEW t, NEW k \in Nat, OfLength(t, k)
  PROVE  OfLength(s \o t, n + k)
<1>1. s \o t = [i \in 1 .. n + k |-> IF i <= n THEN s[i] ELSE t[i - n]]
  BY ConcatIs
<1> QED
  BY <1>1 DEF OfLength

\* Keys per token, by the kind of layer.
LEMMA KindSizes ==
  ASSUME NEW m \in Models, NEW L
  PROVE  /\ KeyCount(m, L) \in Nat
         /\ IsConv(m, L) \/ IsDelta(m, L) => ~KeyOwner(m, L) /\ KeyCount(m, L) = 0
         /\ ~IsGemma(m) /\ ~IsConv(m, L) /\ ~IsDelta(m, L) => KeyCount(m, L) = m.kvHeads
         /\ IsGemma(m) => KeyCount(m, L) = IF "attn_k" \in m.tensors[L] THEN 1 ELSE 0
  BY ModelTypes, KindsDiffer DEF KeyCount, KeyOwner

\* A convolution layer.
LEMMA ShortConvSized ==
  ASSUME NEW m \in Models, NEW L, IsConv(m, L), NEW n \in Nat,
         NEW conv, NEW rec, NEW kv, Sized(m, L, conv, rec, kv, n), NEW x
  PROVE  Sized(m, L, Rolled(conv, x), rec, kv, n + 1)
<1>1. m.taps - 1 \in Nat /\ ~IsDelta(m, L) /\ KeyCount(m, L) = 0 /\ n * 0 = 0 /\ (n + 1) * 0 = 0
  BY ModelTypes, KindsDiffer, KindSizes
<1>2. OfLength(conv, m.taps - 1) /\ OfLength(kv, 0)
  BY <1>1 DEF Sized
<1>3. OfLength(Rolled(conv, x), m.taps - 1)
  BY <1>1, <1>2, RolledLength
<1> QED
  BY <1>1, <1>2, <1>3 DEF Sized

\* An update adds two entries to a matrix's history.
LEMMA WrittenSize ==
  ASSUME NEW m, NEW h, NEW n \in Nat, NEW S, OfLength(S, n), NEW conv, NEW x
  PROVE  OfLength(DeltaUpdate(m, h, S, conv, x).S, n + 2)
<1>1. DeltaUpdate(m, h, S, conv, x).S = Written(m, h, n, S, conv, x)
  BY DeltaUpdateIs
<1>2. OfLength(Written(m, h, n, S, conv, x), n + 2)
  BY Zenon DEF Written, OfLength
<1> QED
  BY <1>1, <1>2

\* A delta-rule layer.
LEMMA DeltaNetSized ==
  ASSUME NEW m \in Models, NEW L, IsDelta(m, L), NEW n \in Nat,
         NEW conv, NEW rec, NEW kv, Sized(m, L, conv, rec, kv, n), NEW x, NEW c, NEW in,
         NEW upd, upd = Updates(m, rec, c, in)
  PROVE  Sized(m, L, Rolled(conv, x), Matrices(upd), kv, n + 1)
<1> DEFINE H == 0 .. m.valueHeads - 1
           new == Matrices(upd)
<1>1. m.taps - 1 \in Nat /\ ~IsConv(m, L) /\ KeyCount(m, L) = 0 /\ n * 0 = 0 /\ (n + 1) * 0 = 0
      /\ 2 * n \in Nat /\ 2 * n + 2 = 2 * (n + 1)
  BY ModelTypes, KindsDiffer, KindSizes
<1> HIDE DEF H
<1>2. OfLength(conv, m.taps - 1) /\ OfLength(kv, 0) /\ \A h \in H : OfLength(rec[h], 2 * n)
  BY <1>1 DEF Sized, H
<1>3. OfLength(Rolled(conv, x), m.taps - 1)
  BY <1>1, <1>2, RolledLength
<1>4. DOMAIN upd = H /\ \A h \in H : upd[h] = DeltaUpdate(m, h, rec[h], c, in)
  BY Zenon DEF H, Updates
<1>5. new = [h \in H |-> new[h]] /\ \A h \in H : new[h] = upd[h].S
  BY <1>4, Zenon DEF Matrices
<1> HIDE DEF new
<1>6. ASSUME NEW h \in H
      PROVE  OfLength(new[h], 2 * (n + 1))
  <2>1. OfLength(rec[h], 2 * n)
    BY <1>2
  <2>2. OfLength(DeltaUpdate(m, h, rec[h], c, in).S, 2 * n + 2)
    BY <1>1, <2>1, WrittenSize
  <2>3. new[h] = DeltaUpdate(m, h, rec[h], c, in).S
    BY <1>4, <1>5, Zenon
  <2> QED
    BY <1>1, <2>2, <2>3, Zenon
<1> QED
  BY <1>1, <1>2, <1>3, <1>5, <1>6 DEF Sized, H, new

\* An attention layer.
LEMMA AttentionSized ==
  ASSUME NEW m \in Models, NEW L, ~IsGemma(m), ~IsConv(m, L), ~IsDelta(m, L), NEW n \in Nat,
         NEW conv, NEW rec, NEW kv, Sized(m, L, conv, rec, kv, n),
         NEW own, OfLength(own, m.kvHeads)
  PROVE  Sized(m, L, conv, rec, kv \o own, n + 1)
<1> DEFINE k == m.kvHeads
<1>1. k \in Nat /\ KeyCount(m, L) = k
  BY ModelTypes, KindSizes
<1> HIDE DEF k
<1>2. n * k \in Nat /\ n * k + k = (n + 1) * k
  BY <1>1
<1>3. OfLength(kv, n * k) /\ OfLength(own, k)
  BY <1>1 DEF Sized, k
<1>4. OfLength(kv \o own, n * k + k)
  BY <1>1, <1>2, <1>3, ConcatSize
<1> QED
  BY <1>1, <1>2, <1>4 DEF Sized

\* A gemma4 layer, fed b tokens.
LEMMA GemmaSized ==
  ASSUME NEW m \in Models, NEW L, IsGemma(m), NEW n \in Nat, NEW b \in Nat,
         NEW conv, NEW rec, NEW kv, Sized(m, L, conv, rec, kv, n), NEW own, OfLength(own, b)
  PROVE  Sized(m, L, conv, rec, IF "attn_k" \in m.tensors[L] THEN kv \o own ELSE kv, n + b)
<1>1. ~IsDelta(m, L) /\ KeyCount(m, L) = IF "attn_k" \in m.tensors[L] THEN 1 ELSE 0
  BY KindsDiffer, KindSizes
<1>2. CASE "attn_k" \in m.tensors[L]
  <2>1. KeyCount(m, L) = 1 /\ n * 1 = n /\ (n + b) * 1 = n + b
    BY <1>1, <1>2
  <2>2. OfLength(kv, n)
    BY <2>1 DEF Sized
  <2>3. OfLength(kv \o own, n + b)
    BY <2>2, ConcatSize
  <2> QED
    BY <1>1, <1>2, <2>1, <2>3 DEF Sized
<1>3. CASE "attn_k" \notin m.tensors[L]
  <2>1. KeyCount(m, L) = 0 /\ n * 0 = 0 /\ (n + b) * 0 = 0
    BY <1>1, <1>3
  <2> QED
    BY <1>1, <1>3, <2>1 DEF Sized
<1> QED
  BY <1>2, <1>3

\* A gemma4 layer takes its own keys if and only if it has some.
LEMMA OwnerIs ==
  ASSUME NEW m \in Models, IsGemma(m), NEW L \in 1 .. LayersRun(m)
  PROVE  /\ GemmaPlan(m)[L].kv_src = L <=> "attn_k" \in m.tensors[L]
         /\ GemmaPlan(m)[L].kv_src \in 1 .. L
<1>1. GemmaPlan(m)[L].kv_src = Lender(m, L) /\ Lender(m, L) \in 1 .. L /\ Lends(m, L, Lender(m, L))
  BY PlanLends, LenderLends
<1>2. L \in Nat
  BY ModelTypes
<1>3. ASSUME "attn_k" \in m.tensors[L], Lender(m, L) # L
      PROVE  FALSE
  <2>1. L \in Lender(m, L) + 1 .. L
    BY <1>1, <1>2, <1>3
  <2> QED
    BY <1>1, <1>3, <2>1 DEF Lends
<1> QED
  BY <1>1, <1>3 DEF Lends

(***************************************************************************)
(* The inductive invariant. In the layers of a block the memories of the layers
   already run are ahead of those to come by the block.                      *)

Rows == WholeRows(model, seq)

FedAt(L) == IF stage = "layers" /\ L < layer THEN pos + Len(batch_toks) ELSE pos

Types ==
  /\ model \in Models /\ prompt \in Prompts /\ seq \in Seq(Tokens)
  /\ prompt_idx \in 0 .. Len(prompt) /\ pos \in 0 .. Len(seq)
  /\ lost \in BOOLEAN /\ do_sample \in BOOLEAN
  /\ DOMAIN conv_state = 1 .. NLayers(model) /\ DOMAIN rec_state = 1 .. NLayers(model)
  /\ DOMAIN kv_store = 1 .. NLayers(model)

\* The next token to feed is of the prompt, or the last one sampled.
AtHead ==
  stage = "head" =>
    \/ prompt_idx < Len(prompt) /\ pos = prompt_idx /\ seq = prompt
    \/ prompt_idx = Len(prompt) /\ pos + 1 = Len(seq) /\ last_sampled = seq[Len(seq)]

\* The block is the text after pos; it is sampled from when it ends the text.
InBlock ==
  stage = "layers" =>
    /\ batch_toks \in Seq(Tokens) /\ Len(batch_toks) >= 1
    /\ ~IsGemma(model) => Len(batch_toks) = 1
    /\ pos + Len(batch_toks) <= Len(seq)
    /\ \A i \in 1 .. Len(batch_toks) : batch_toks[i] = seq[pos + i]
    /\ layer \in 1 .. LayersRun(model) + 1
    /\ DOMAIN inp_embd = 1 .. Len(batch_toks)
    /\ do_sample => prompt_idx = Len(prompt) /\ pos + Len(batch_toks) = Len(seq)
    /\ ~do_sample => /\ prompt_idx < Len(prompt) /\ pos + Len(batch_toks) = prompt_idx
                     /\ seq = prompt

Sizes ==
  stage # "failed" => \A L \in 1 .. LayersRun(model) :
    Sized(model, L, conv_state[L], rec_state[L], kv_store[L], FedAt(L))

Contents ==
  stage # "failed" /\ ~lost => \A L \in 1 .. LayersRun(model) :
    Holds(model, L, Rows[L - 1], conv_state[L], rec_state[L], kv_store[L], FedAt(L))

RowsUnderWay ==
  stage = "layers" /\ ~lost =>
    \A i \in 1 .. Len(batch_toks) : inp_embd[i] = Rows[layer - 1][pos + i]

LastOutput ==
  stage # "failed" /\ ~lost /\ pos > 0 => inp_norm = <<"norm", Rows[LayersRun(model)][pos]>>

Inv == Types /\ AtHead /\ InBlock /\ Sizes /\ Contents /\ RowsUnderWay /\ LastOutput

\* Empty memories are those of no tokens.
LEMMA InitInv == Init => Inv
<1> SUFFICES ASSUME Init
             PROVE  Inv
  OBVIOUS
<1>0. /\ model \in Models /\ prompt \in Prompts /\ stage = "head" /\ prompt_idx = 0 /\ seq = prompt
      /\ pos = 0 /\ do_sample = FALSE /\ lost = FALSE
  BY Zenon DEF Init
<1>1. prompt \in Seq(Tokens) /\ Len(prompt) \in Nat \ {0}
  <2>1. prompt \in Seq(Tokens) /\ prompt # <<>>
    BY <1>0, HybridAssumption
  <2> QED
    BY <2>1
<1>2. /\ LayersRun(model) \in Nat /\ LayersRun(model) <= NLayers(model) /\ NLayers(model) \in Nat
      /\ model.taps - 1 \in Nat
  BY <1>0, ModelTypes
<1>3. /\ conv_state = [L \in 1 .. NLayers(model) |->
           IF IsConv(model, L) \/ IsDelta(model, L) THEN Zeros(model.taps - 1) ELSE <<>>]
      /\ rec_state = [L \in 1 .. NLayers(model) |->
           IF IsDelta(model, L) THEN [h \in 0 .. model.valueHeads - 1 |-> <<>>] ELSE <<>>]
      /\ kv_store = [L \in 1 .. NLayers(model) |-> <<>>]
  BY Zenon DEF Init
<1>4. Types
  <2>1. /\ DOMAIN conv_state = 1 .. NLayers(model) /\ DOMAIN rec_state = 1 .. NLayers(model)
        /\ DOMAIN kv_store = 1 .. NLayers(model)
    BY <1>3, Zenon
  <2>2. lost \in BOOLEAN /\ do_sample \in BOOLEAN
    BY <1>0, Zenon
  <2>3. prompt_idx \in 0 .. Len(prompt) /\ pos \in 0 .. Len(seq)
    BY <1>0, <1>1
  <2> QED
    BY <1>0, <1>1, <2>1, <2>2, <2>3, Zenon DEF Types
<1>5. AtHead /\ InBlock /\ RowsUnderWay /\ LastOutput
  BY <1>0, <1>1 DEF AtHead, InBlock, RowsUnderWay, LastOutput
<1>6. \A L : FedAt(L) = 0
  BY <1>0 DEF FedAt
<1>7. ASSUME NEW L \in 1 .. LayersRun(model), NEW below
      PROVE  /\ Sized(model, L, conv_state[L], rec_state[L], kv_store[L], 0)
             /\ Holds(model, L, below, conv_state[L], rec_state[L], kv_store[L], 0)
  <2>1. L \in 1 .. NLayers(model)
    BY <1>2
  <2>2. /\ conv_state[L] = IF IsConv(model, L) \/ IsDelta(model, L) THEN Zeros(model.taps - 1) ELSE <<>>
        /\ rec_state[L] = IF IsDelta(model, L) THEN [h \in 0 .. model.valueHeads - 1 |-> <<>>] ELSE <<>>
        /\ kv_store[L] = <<>>
    BY <1>3, <2>1, Zenon
  <2> DEFINE H == 0 .. model.valueHeads - 1
             n == model.taps - 1
  <2>3. Zeros(n) = LastInputs(n, ConvInputs(model, L, below), 0)
    <3>1. \A in : \A i \in 1 .. n : Zero = IF 0 - n + i >= 1 THEN in[0 - n + i] ELSE Zero
      BY <1>2
    <3> QED
      BY <3>1, Zenon DEF Zeros, LastInputs
  <2>4. conv_state[L] = ConvMemory(model, L, below, 0)
    BY <2>2, <2>3, Zenon DEF ConvMemory
  <2>5. \A h : MatrixAfter(model, L, h, below, 0) = <<>>
    <3> TAKE h
    <3>1. MatrixAfter(model, L, h, below, 0) = [i \in 1 .. 2 * 0 |-> UpdateAt(model, L, h, below, i)]
      BY MatrixIs
    <3>2. 1 .. 2 * 0 = {}
      OBVIOUS
    <3>3. \A f : DOMAIN f = {} /\ f = [i \in DOMAIN f |-> f[i]] => f = <<>>
      OBVIOUS
    <3> QED
      BY <3>1, <3>2
  <2>6. rec_state[L] = MatrixMemory(model, L, below, 0)
    BY <2>2, <2>5, Zenon DEF MatrixMemory
  <2>7. kv_store[L] = KeyMemory(model, L, below, 0)
    <3> DEFINE k == KeyCount(model, L)
               base == RopeBase(IsGemma(model) /\ IsSwa(model, L))
               At(i) == KeyValue(L, (i - 1) % k, base, (i - 1) \div k, below[(i - 1) \div k + 1])
    <3>1. CASE KeyOwner(model, L)
      <4>1. k \in Nat \ {0} /\ KeyMemory(model, L, below, 0) = Keys(L, k, base, below, 0)
        BY <1>0, <3>1, KeysAre
      <4>2. Keys(L, k, base, below, 0) = [i \in 1 .. 0 * k |-> At(i)]
        BY Zenon DEF Keys
      <4> HIDE DEF At, k
      <4>3. 1 .. 0 * k = {}
        BY <4>1
      <4> QED
        BY <2>2, <4>1, <4>2, <4>3
    <3>2. CASE ~KeyOwner(model, L)
      BY <2>2, <3>2, Zenon DEF KeyMemory
    <3> QED
      BY <3>1, <3>2
  <2>8. OfLength(conv_state[L], IF IsConv(model, L) \/ IsDelta(model, L) THEN n ELSE 0)
    <3>1. OfLength(Zeros(n), n)
      BY Zenon DEF Zeros, OfLength
    <3>2. OfLength(<<>>, 0)
      BY DEF OfLength
    <3> QED
      BY <2>2, <3>1, <3>2
  <2>9. OfLength(kv_store[L], 0 * KeyCount(model, L))
    <3>1. 0 * KeyCount(model, L) = 0
      BY <1>0, KindSizes
    <3> QED
      BY <2>2, <3>1 DEF OfLength
  <2>10. IsDelta(model, L) => /\ rec_state[L] = [h \in H |-> rec_state[L][h]]
                              /\ \A h \in H : OfLength(rec_state[L][h], 2 * 0)
    BY <2>2 DEF OfLength
  <2> QED
    BY <2>4, <2>6, <2>7, <2>8, <2>9, <2>10 DEF Sized, Holds
<1> QED
  BY <1>4, <1>5, <1>6, <1>7 DEF Inv, Sizes, Contents

(***************************************************************************)
(* Steps outside the layers.                                                *)

\* Nothing is fed and the text at most grows.
LEMMA MemoriesStay ==
  ASSUME Inv, stage # "failed", model' = model,
         UNCHANGED <<conv_state, rec_state, kv_store, lost>>,
         seq' \in Seq(Tokens), Agree(seq, seq', Len(seq)),
         \A L \in 1 .. LayersRun(model) : FedAt(L)' = FedAt(L)
  PROVE  /\ Sizes' /\ Contents'
         /\ \A L \in 0 .. LayersRun(model) : Agree(Rows[L], Rows'[L], Len(seq))
<1> DEFINE n == Len(seq)
<1>1. model \in Models /\ seq \in Seq(Tokens) /\ n \in Nat
  BY DEF Inv, Types
<1>2. \A L \in 0 .. LayersRun(model) :
         Agree(WholeRows(model, seq)[L], WholeRows(model, seq')[L], n)
  BY <1>1, RowsOfPrefix
<1>3. \A L \in 0 .. LayersRun(model) : Agree(Rows[L], Rows'[L], n)
  BY <1>2 DEF Rows
<1>4. LayersRun(model) \in Nat
  BY <1>1, ModelTypes
<1>5. Sizes'
  <2>1. \A L \in 1 .. LayersRun(model) :
          Sized(model, L, conv_state[L], rec_state[L], kv_store[L], FedAt(L))
    BY DEF Inv, Sizes
  <2>2. \A L \in 1 .. LayersRun(model) :
          Sized(model, L, conv_state[L], rec_state[L], kv_store[L], FedAt(L)')
    BY <2>1
  <2> QED
    BY <2>2 DEF Sizes
<1>6. ASSUME ~lost, NEW L \in 1 .. LayersRun(model)
      PROVE  Holds(model, L, Rows'[L - 1], conv_state[L], rec_state[L], kv_store[L], FedAt(L)')
  <2>1. Holds(model, L, Rows[L - 1], conv_state[L], rec_state[L], kv_store[L], FedAt(L))
    BY <1>6 DEF Inv, Contents
  <2>2. FedAt(L) \in 0 .. n
    BY <1>1, <1>4 DEF Inv, Types, InBlock, FedAt
  <2>3. L - 1 \in 0 .. LayersRun(model)
    BY <1>4
  <2>4. Agree(Rows[L - 1], Rows'[L - 1], n)
    BY <1>3, <2>3
  <2>5. Agree(Rows[L - 1], Rows'[L - 1], FedAt(L))
    BY <1>1, <2>2, <2>4 DEF Agree
  <2> DEFINE b == Rows[L - 1]
             c == Rows'[L - 1]
             p == FedAt(L)
  <2>6. p \in Nat
    BY <2>2
  <2> HIDE DEF b, c, p
  <2>7. /\ ConvMemory(model, L, b, p) = ConvMemory(model, L, c, p)
        /\ MatrixMemory(model, L, b, p) = MatrixMemory(model, L, c, p)
        /\ KeyMemory(model, L, b, p) = KeyMemory(model, L, c, p)
    BY <1>1, <2>5, <2>6, MemoriesAgree DEF b, c, p
  <2>8. Holds(model, L, c, conv_state[L], rec_state[L], kv_store[L], p)
    BY <2>1, <2>7, Zenon DEF Holds, b, p
  <2>9. FedAt(L)' = p
    BY DEF p
  <2> QED
    BY <2>8, <2>9, Zenon DEF c
<1>7. Contents'
  BY <1>6 DEF Contents
<1> QED
  BY <1>3, <1>5, <1>7

\* The same, when the text stays too.
LEMMA TextStays ==
  ASSUME Inv, stage # "failed",
         UNCHANGED <<model, prompt, prompt_idx, seq, pos, conv_state, rec_state, kv_store, lost, inp_norm>>,
         \A L \in 1 .. LayersRun(model) : FedAt(L)' = FedAt(L)
  PROVE  Sizes' /\ Contents' /\ LastOutput'
<1>1. Agree(seq, seq', Len(seq)) /\ seq' \in Seq(Tokens)
  BY DEF Inv, Types, Agree
<1>2. Sizes' /\ Contents'
  BY <1>1, MemoriesStay
<1>3. LastOutput'
  BY DEF Inv, LastOutput, Rows
<1> QED
  BY <1>2, <1>3

\* Leaving the loop changes nothing else.
LEMMA ExitLoopInv == Inv /\ ExitLoop => Inv'
<1> SUFFICES ASSUME Inv, ExitLoop
             PROVE  Inv'
  OBVIOUS
<1>1. /\ stage = "head" /\ stage' = "done"
      /\ UNCHANGED <<model, prompt, prompt_idx, last_sampled, generated, seq, pos,
                 batch_toks, do_sample, layer, inp_embd, conv_state, rec_state,
                 kv_store, inp_norm, lost>>
  BY DEF ExitLoop
<1>2. \A L \in 1 .. LayersRun(model) : FedAt(L)' = FedAt(L)
  BY <1>1 DEF FedAt
<1>3. Sizes' /\ Contents' /\ LastOutput'
  BY <1>1, <1>2, TextStays
<1>4. Types'
  BY <1>1 DEF Inv, Types
<1>5. AtHead' /\ InBlock' /\ RowsUnderWay'
  BY <1>1 DEF AtHead, InBlock, RowsUnderWay
<1> QED
  BY <1>3, <1>4, <1>5 DEF Inv

\* A failed program claims nothing.
LEMMA LayerFailsInv == Inv /\ LayerFails => Inv'
<1> SUFFICES ASSUME Inv, LayerFails
             PROVE  Inv'
  OBVIOUS
<1>1. /\ stage' = "failed"
      /\ UNCHANGED <<model, prompt, prompt_idx, last_sampled, generated, seq, pos,
                 batch_toks, do_sample, layer, inp_embd, conv_state, rec_state,
                 kv_store, inp_norm, lost>>
  BY DEF LayerFails
<1>2. Types'
  BY <1>1 DEF Inv, Types
<1>3. AtHead' /\ InBlock' /\ RowsUnderWay' /\ Sizes' /\ Contents' /\ LastOutput'
  BY <1>1 DEF AtHead, InBlock, RowsUnderWay, Sizes, Contents, LastOutput
<1> QED
  BY <1>2, <1>3 DEF Inv

\* A block of the text after pos begins.
LEMMA StartBlockInv ==
  ASSUME Inv, stage = "head", NEW toks, StartBlock(toks), toks \in Seq(Tokens), Len(toks) >= 1,
         ~IsGemma(model) => Len(toks) = 1, pos + Len(toks) <= Len(seq),
         \A i \in 1 .. Len(toks) : toks[i] = seq[pos + i],
         prompt_idx' \in 0 .. Len(prompt), do_sample' \in BOOLEAN,
         do_sample' => prompt_idx' = Len(prompt) /\ pos + Len(toks) = Len(seq),
         ~do_sample' => /\ prompt_idx' < Len(prompt) /\ pos + Len(toks) = prompt_idx'
                        /\ seq = prompt
  PROVE  Inv'
<1>1. /\ stage' = "layers" /\ layer' = 1 /\ batch_toks' = toks
      /\ inp_embd' = [i \in DOMAIN toks |-> Embedded(toks[i])]
      /\ UNCHANGED <<model, prompt, last_sampled, generated, seq, pos, conv_state,
                 rec_state, kv_store, inp_norm, lost>>
  BY DEF StartBlock
<1>2. model \in Models /\ seq \in Seq(Tokens) /\ LayersRun(model) \in Nat /\ pos \in Nat
      /\ DOMAIN toks = 1 .. Len(toks) /\ DOMAIN seq = 1 .. Len(seq)
  BY ModelTypes DEF Inv, Types
<1>3. \A L \in 1 .. LayersRun(model) : FedAt(L)' = FedAt(L)
  <2> TAKE L \in 1 .. LayersRun(model)
  <2>1. ~(L < layer') /\ pos' = pos
    BY <1>1, <1>2
  <2> QED
    BY <2>1 DEF FedAt
<1>4. Sizes' /\ Contents'
  <2>1. Agree(seq, seq', Len(seq)) /\ seq' \in Seq(Tokens)
    BY <1>1, <1>2 DEF Agree
  <2> QED
    BY <1>1, <1>3, <2>1, MemoriesStay
<1>5. LastOutput'
  BY <1>1 DEF Inv, LastOutput, Rows
<1>6. Types'
  BY <1>1 DEF Inv, Types
<1>7. InBlock'
  <2>1. DOMAIN inp_embd' = 1 .. Len(toks)
    <3>1. inp_embd' = [i \in DOMAIN toks |-> Embedded(toks[i])] /\ DOMAIN toks = 1 .. Len(toks)
      BY <1>1, <1>2
    <3> QED
      BY ONLY <3>1
  <2>2. layer' \in 1 .. LayersRun(model) + 1
    <3>1. layer' = 1 /\ LayersRun(model) \in Nat
      BY <1>1, <1>2
    <3> QED
      BY ONLY <3>1
  <2>3. /\ prompt' = prompt /\ seq' = seq /\ pos' = pos /\ batch_toks' = toks /\ model' = model
    BY <1>1
  <2>4. /\ batch_toks' \in Seq(Tokens) /\ Len(batch_toks') >= 1
        /\ ~IsGemma(model') => Len(batch_toks') = 1
        /\ pos' + Len(batch_toks') <= Len(seq')
        /\ \A i \in 1 .. Len(batch_toks') : batch_toks'[i] = seq'[pos' + i]
        /\ layer' \in 1 .. LayersRun(model') + 1
        /\ DOMAIN inp_embd' = 1 .. Len(batch_toks')
    BY <2>1, <2>2, <2>3
  <2>5. /\ do_sample' => prompt_idx' = Len(prompt') /\ pos' + Len(batch_toks') = Len(seq')
        /\ ~do_sample' => /\ prompt_idx' < Len(prompt') /\ pos' + Len(batch_toks') = prompt_idx'
                          /\ seq' = prompt'
    BY <2>3, Zenon
  <2> QED
    BY <2>4, <2>5, Zenon DEF InBlock
<1>8. RowsUnderWay'
  <2>1. Rows[0] = [p \in DOMAIN seq |-> Embedded(seq[p])] /\ Rows' = Rows
    BY <1>1, <1>2, WholeRowsAre DEF Rows
  <2>2. ASSUME NEW i \in 1 .. Len(toks)
        PROVE  inp_embd'[i] = Rows[0][pos + i]
    <3>1. pos + i \in DOMAIN seq /\ i \in DOMAIN toks /\ toks[i] = seq[pos + i]
      BY <1>2
    <3>2. Rows[0][pos + i] = Embedded(seq[pos + i])
      BY <2>1, <3>1
    <3>3. inp_embd'[i] = Embedded(toks[i])
      BY <1>1, <3>1
    <3> QED
      BY <3>1, <3>2, <3>3
  <2>3. layer' - 1 = 0
    BY <1>1
  <2> QED
    BY <1>1, <2>1, <2>2, <2>3 DEF RowsUnderWay
<1>9. AtHead'
  BY <1>1 DEF AtHead
<1> QED
  BY <1>4, <1>5, <1>6, <1>7, <1>8, <1>9 DEF Inv

\* The next chunk of the prompt.
LEMMA BeginPrefillInv == Inv /\ BeginPrefill => Inv'
<1> SUFFICES ASSUME Inv, BeginPrefill
             PROVE  Inv'
  OBVIOUS
<1> DEFINE remaining == Len(prompt) - prompt_idx
           chunk     == IF ~BatchesPrefill(model) THEN 1
                      ELSE IF remaining < PrefillChunk THEN remaining ELSE PrefillChunk
           toks == SubSeq(prompt, prompt_idx + 1, prompt_idx + chunk)
<1>1. /\ stage = "head" /\ prompt_idx < Len(prompt) /\ prompt_idx' = prompt_idx + chunk
      /\ do_sample' = (prompt_idx + chunk >= Len(prompt)) /\ StartBlock(toks)
  BY DEF BeginPrefill
<1>2. /\ model \in Models /\ prompt \in Seq(Tokens) /\ prompt_idx \in Nat /\ Len(prompt) \in Nat
      /\ PrefillChunk \in Nat \ {0}
  BY HybridAssumption DEF Inv, Types
<1>3. pos = prompt_idx /\ seq = prompt
  BY <1>1, <1>2 DEF Inv, AtHead
<1>4. chunk \in Nat /\ chunk >= 1 /\ prompt_idx + chunk <= Len(prompt)
  BY <1>1, <1>2
<1>5. ~IsGemma(model) => chunk = 1
  BY <1>2, KindsDiffer DEF BatchesPrefill
<1> HIDE DEF chunk
<1>6. toks \in Seq(Tokens) /\ Len(toks) = chunk /\ \A i \in 1 .. chunk : toks[i] = seq[pos + i]
  <2> DEFINE a == prompt_idx
             b == prompt_idx + chunk
             n == Len(prompt)
  <2>1. a \in Nat /\ b \in Nat /\ n \in Nat /\ a <= b /\ b <= n /\ b - a = chunk
    BY <1>2, <1>4
  <2>2. OfLength(prompt, n)
    BY <1>2, SeqIsFunction DEF OfLength
  <2> HIDE DEF a, b, n
  <2>3. SubSeq(prompt, a + 1, b) = [i \in 1 .. b - a |-> prompt[a + i]]
    BY <2>1, <2>2, SubSeqIs
  <2>4. toks = [i \in 1 .. chunk |-> prompt[prompt_idx + i]]
    BY <2>1, <2>3, Zenon DEF a, b
  <2> HIDE DEF toks
  <2>5. \A i \in 1 .. chunk : prompt[prompt_idx + i] \in Tokens
    BY <1>2, <1>4
  <2>6. toks \in [1 .. chunk -> Tokens]
    BY <2>4, <2>5
  <2>7. toks \in Seq(Tokens) /\ Len(toks) = chunk
    BY <1>4, <2>6
  <2> QED
    BY <1>3, <2>4, <2>7
<1> HIDE DEF toks
<1>7. /\ prompt_idx' \in 0 .. Len(prompt) /\ do_sample' \in BOOLEAN
      /\ do_sample' => prompt_idx' = Len(prompt) /\ pos + Len(toks) = Len(seq)
      /\ ~do_sample' => /\ prompt_idx' < Len(prompt) /\ pos + Len(toks) = prompt_idx'
                        /\ seq = prompt
  <2> DEFINE last == prompt_idx + chunk >= Len(prompt)
  <2>0. do_sample' = last /\ (last <=> prompt_idx + chunk >= Len(prompt))
    BY <1>1
  <2>1. last \in BOOLEAN
    OBVIOUS
  <2> HIDE DEF last
  <2>2. prompt_idx' \in 0 .. Len(prompt)
    BY <1>1, <1>2, <1>4
  <2>3. CASE last
    <3>1. do_sample' = TRUE
      BY <2>0, <2>1, <2>3, Zenon
    <3>2. prompt_idx' = Len(prompt) /\ pos + Len(toks) = Len(seq)
      BY <1>1, <1>2, <1>3, <1>4, <1>6, <2>0, <2>3
    <3> QED
      BY <2>2, <3>1, <3>2, Zenon
  <2>4. CASE ~last
    <3>1. do_sample' = FALSE
      BY <2>0, <2>1, <2>4, Zenon
    <3>2. prompt_idx' < Len(prompt) /\ pos + Len(toks) = prompt_idx' /\ seq = prompt
      BY <1>1, <1>2, <1>3, <1>4, <1>6, <2>0, <2>4
    <3> QED
      BY <2>2, <3>1, <3>2, Zenon
  <2> QED
    BY <2>3, <2>4
<1> QED
  <2>1. Len(toks) >= 1 /\ pos + Len(toks) <= Len(seq)
    BY <1>3, <1>4, <1>6
  <2> QED
    BY <1>1, <1>5, <1>6, <1>7, <2>1, StartBlockInv, Zenon

\* The token sampled last.
LEMMA BeginDecodeInv == Inv /\ BeginDecode => Inv'
<1> SUFFICES ASSUME Inv, BeginDecode
             PROVE  Inv'
  OBVIOUS
<1> DEFINE toks == <<last_sampled>>
<1>1. /\ stage = "head" /\ prompt_idx >= Len(prompt) /\ prompt_idx' = prompt_idx
      /\ do_sample' = TRUE /\ StartBlock(toks)
  BY DEF BeginDecode
<1>2. /\ model \in Models /\ seq \in Seq(Tokens) /\ pos \in Nat /\ Len(seq) \in Nat
      /\ prompt_idx \in 0 .. Len(prompt) /\ prompt \in Seq(Tokens)
  BY HybridAssumption DEF Inv, Types
<1>3. prompt_idx = Len(prompt) /\ pos + 1 = Len(seq) /\ last_sampled = seq[Len(seq)]
  BY <1>1, <1>2 DEF Inv, AtHead
<1>4. toks \in Seq(Tokens) /\ Len(toks) = 1 /\ \A i \in 1 .. Len(toks) : toks[i] = seq[pos + i]
  BY <1>2, <1>3
<1> HIDE DEF toks
<1>5. /\ do_sample' \in BOOLEAN /\ prompt_idx' \in 0 .. Len(prompt)
      /\ do_sample' => prompt_idx' = Len(prompt) /\ pos + Len(toks) = Len(seq)
      /\ ~do_sample' => /\ prompt_idx' < Len(prompt) /\ pos + Len(toks) = prompt_idx'
                        /\ seq = prompt
  <2>1. pos + Len(toks) = Len(seq)
    BY <1>3, <1>4
  <2> QED
    BY <1>1, <1>2, <1>3, <2>1, Zenon
<1>6. Len(toks) >= 1 /\ pos + Len(toks) <= Len(seq)
  BY <1>2, <1>3, <1>4
<1> QED
  BY <1>1, <1>4, <1>5, <1>6, StartBlockInv, Zenon

\* The end of an iteration: the whole block has been through every layer.
LEMMA ForwardDoneFacts ==
  ASSUME Inv, ForwardDone, stage' # "layers"
  PROVE  /\ stage = "layers" /\ layer = LayersRun(model) + 1 /\ pos' = pos + Len(batch_toks)
         /\ pos' \in 1 .. Len(seq)
         /\ \A L \in 1 .. LayersRun(model) : FedAt(L)' = FedAt(L)
         /\ ~lost => inp_norm' = <<"norm", Rows[LayersRun(model)][pos']>>
<1>1. /\ stage = "layers" /\ layer > LayersRun(model) /\ inp_norm' = LastRow
      /\ pos' = pos + Len(batch_toks)
  BY DEF ForwardDone
<1>2. /\ model \in Models /\ seq \in Seq(Tokens) /\ LayersRun(model) \in Nat /\ pos \in Nat
      /\ Len(seq) \in Nat
  BY ModelTypes DEF Inv, Types
<1>3. /\ Len(batch_toks) \in Nat \ {0} /\ pos + Len(batch_toks) <= Len(seq)
      /\ layer \in 1 .. LayersRun(model) + 1
      /\ ~IsGemma(model) => Len(batch_toks) = 1
  <2>1. /\ batch_toks \in Seq(Tokens) /\ Len(batch_toks) >= 1
        /\ ~IsGemma(model) => Len(batch_toks) = 1
        /\ pos + Len(batch_toks) <= Len(seq) /\ layer \in 1 .. LayersRun(model) + 1
    BY <1>1, Zenon DEF Inv, InBlock
  <2>2. Len(batch_toks) \in Nat
    BY <2>1
  <2>3. Len(batch_toks) \in Nat \ {0}
    BY <2>1, <2>2
  <2> QED
    BY <2>1, <2>3, Zenon
<1>4. layer = LayersRun(model) + 1 /\ pos' \in 1 .. Len(seq)
  BY <1>1, <1>2, <1>3
<1>5. ASSUME NEW L \in 1 .. LayersRun(model)
      PROVE  FedAt(L)' = FedAt(L)
  <2>1. L < layer
    BY <1>2, <1>4
  <2> QED
    BY <1>1, <2>1 DEF FedAt
<1>6. ASSUME ~lost
      PROVE  inp_norm' = <<"norm", Rows[LayersRun(model)][pos']>>
  <2> DEFINE n == Len(batch_toks)
  <2>1. LastRow = <<"norm", inp_embd[n]>>
    <3>1. ~(IsLfm2(model) /\ n > 1)
      <4>1. IsGemma(model) => ~IsLfm2(model)
        BY DEF IsGemma, IsLfm2
      <4>2. n = 1 => ~(n > 1)
        OBVIOUS
      <4> QED
        BY <1>3, <4>1, <4>2, Zenon
    <3> HIDE DEF n
    <3> QED
      BY <3>1, Zenon DEF LastRow, n
  <2>2. \A i \in 1 .. n : inp_embd[i] = Rows[layer - 1][pos + i]
    BY <1>1, <1>6 DEF Inv, RowsUnderWay
  <2>3. inp_embd[n] = Rows[layer - 1][pos + n] /\ layer - 1 = LayersRun(model)
    BY <1>2, <1>3, <1>4, <2>2
  <2> QED
    BY <1>1, <2>1, <2>3
<1> QED
  BY <1>1, <1>4, <1>5, <1>6

\* A chunk that does not end the prompt.
LEMMA FinishPrefillChunkInv == Inv /\ FinishPrefillChunk => Inv'
<1> SUFFICES ASSUME Inv, FinishPrefillChunk
             PROVE  Inv'
  OBVIOUS
<1>1. /\ ForwardDone /\ ~do_sample /\ stage' = "head"
      /\ UNCHANGED <<last_sampled, generated, seq>>
      /\ UNCHANGED <<model, prompt, prompt_idx, batch_toks, do_sample, layer, inp_embd,
                 conv_state, rec_state, kv_store, lost>>
  BY DEF FinishPrefillChunk, ForwardDone
<1>2. /\ stage = "layers" /\ pos' = pos + Len(batch_toks) /\ pos' \in 1 .. Len(seq)
      /\ \A L \in 1 .. LayersRun(model) : FedAt(L)' = FedAt(L)
      /\ ~lost => inp_norm' = <<"norm", Rows[LayersRun(model)][pos']>>
  BY <1>1, ForwardDoneFacts
<1>3. Sizes' /\ Contents'
  <2>1. Agree(seq, seq', Len(seq)) /\ seq' \in Seq(Tokens) /\ stage # "failed"
    BY <1>1, <1>2 DEF Agree, Inv, Types
  <2> QED
    BY <1>1, <1>2, <2>1, MemoriesStay
<1>4. LastOutput'
  BY <1>1, <1>2 DEF LastOutput, Rows
<1>5. Types'
  BY <1>1, <1>2 DEF Inv, Types
<1>6. AtHead'
  <2>1. prompt_idx < Len(prompt) /\ pos + Len(batch_toks) = prompt_idx /\ seq = prompt
    BY <1>1, <1>2 DEF Inv, InBlock
  <2> QED
    BY <1>1, <1>2, <2>1 DEF AtHead
<1>7. InBlock' /\ RowsUnderWay'
  BY <1>1 DEF InBlock, RowsUnderWay
<1> QED
  BY <1>3, <1>4, <1>5, <1>6, <1>7 DEF Inv

\* The next token is appended to the text.
LEMMA SampleNextInv == Inv /\ SampleNext => Inv'
<1> SUFFICES ASSUME Inv, SampleNext
             PROVE  Inv'
  OBVIOUS
<1>1. PICK next \in Tokens :
        /\ last_sampled' = next /\ seq' = Append(seq, next)
        /\ stage' = IF next = Eos \/ pos' >= NCtx THEN "done" ELSE "head"
  BY DEF SampleNext
<1>2. /\ ForwardDone /\ do_sample /\ stage' \in {"done", "head"}
      /\ UNCHANGED <<model, prompt, prompt_idx, batch_toks, do_sample, layer, inp_embd,
                 conv_state, rec_state, kv_store, lost>>
  BY <1>1 DEF SampleNext, ForwardDone
<1>3. /\ stage = "layers" /\ pos' = pos + Len(batch_toks) /\ pos' \in 1 .. Len(seq)
      /\ \A L \in 1 .. LayersRun(model) : FedAt(L)' = FedAt(L)
      /\ ~lost => inp_norm' = <<"norm", Rows[LayersRun(model)][pos']>>
  BY <1>2, ForwardDoneFacts
<1>4. model \in Models /\ seq \in Seq(Tokens) /\ Len(seq) \in Nat /\ LayersRun(model) \in Nat
  BY ModelTypes DEF Inv, Types
<1>5. /\ seq' \in Seq(Tokens) /\ Len(seq') = Len(seq) + 1 /\ seq'[Len(seq')] = next
      /\ Agree(seq, seq', Len(seq))
  <2>1. seq' \in Seq(Tokens) /\ Len(seq') = Len(seq) + 1 /\ seq'[Len(seq')] = next
    BY <1>1, <1>4
  <2>2. DOMAIN seq = 1 .. Len(seq) /\ DOMAIN seq' = 1 .. Len(seq) + 1
    BY <1>4, <2>1
  <2>3. \A i \in 1 .. Len(seq) : seq[i] = seq'[i]
    BY <1>1, <1>4
  <2> QED
    BY <1>4, <2>1, <2>2, <2>3 DEF Agree
<1>6. /\ Sizes' /\ Contents'
      /\ \A L \in 0 .. LayersRun(model) : Agree(Rows[L], Rows'[L], Len(seq))
  BY <1>2, <1>3, <1>5, MemoriesStay
<1>7. LastOutput'
  <2>1. Agree(Rows[LayersRun(model)], Rows'[LayersRun(model)], Len(seq))
    BY <1>4, <1>6
  <2>2. Rows[LayersRun(model)][pos'] = Rows'[LayersRun(model)][pos']
    BY <1>3, <2>1 DEF Agree
  <2> QED
    BY <1>2, <1>3, <2>2 DEF LastOutput
<1>8. prompt_idx = Len(prompt) /\ pos + Len(batch_toks) = Len(seq)
  BY <1>2, <1>3 DEF Inv, InBlock
<1>9. Types'
  <2>1. pos' \in 0 .. Len(seq')
    BY <1>3, <1>4, <1>5
  <2> QED
    BY <1>2, <1>5, <2>1 DEF Inv, Types
<1>10. AtHead'
  BY <1>1, <1>2, <1>3, <1>4, <1>5, <1>8 DEF AtHead
<1>11. InBlock' /\ RowsUnderWay'
  BY <1>2 DEF InBlock, RowsUnderWay
<1> QED
  BY <1>6, <1>7, <1>9, <1>10, <1>11 DEF Inv

(***************************************************************************)
(* Steps of the layers.                                                     *)

\* What a layer finds.
LEMMA AtLayerFacts ==
  ASSUME Inv, AtLayer
  PROVE  /\ stage = "layers" /\ model \in Models
         /\ layer \in 1 .. LayersRun(model) /\ layer \in 1 .. NLayers(model)
         /\ pos \in Nat /\ Len(batch_toks) \in Nat \ {0}
         /\ ~IsGemma(model) => Len(batch_toks) = 1
         /\ DOMAIN inp_embd = 1 .. Len(batch_toks)
         /\ \A i \in 1 .. Len(batch_toks) :
              pos + i \in DOMAIN seq /\ batch_toks[i] = seq[pos + i] /\ seq[pos + i] \in Tokens
         /\ Sized(model, layer, conv_state[layer], rec_state[layer], kv_store[layer], pos)
         /\ ~lost => Holds(model, layer, Rows[layer - 1], conv_state[layer], rec_state[layer],
                           kv_store[layer], pos)
         /\ ~lost => \A i \in 1 .. Len(batch_toks) : inp_embd[i] = Rows[layer - 1][pos + i]
<1>1. stage = "layers" /\ layer <= LayersRun(model)
  BY DEF AtLayer
<1>2. /\ model \in Models /\ seq \in Seq(Tokens) /\ LayersRun(model) \in Nat /\ pos \in Nat
      /\ Len(seq) \in Nat /\ LayersRun(model) <= NLayers(model) /\ NLayers(model) \in Nat
  BY ModelTypes DEF Inv, Types
<1>3. /\ batch_toks \in Seq(Tokens) /\ Len(batch_toks) >= 1
      /\ ~IsGemma(model) => Len(batch_toks) = 1
      /\ pos + Len(batch_toks) <= Len(seq) /\ layer \in 1 .. LayersRun(model) + 1
      /\ DOMAIN inp_embd = 1 .. Len(batch_toks)
      /\ \A i \in 1 .. Len(batch_toks) : batch_toks[i] = seq[pos + i]
  BY <1>1, Zenon DEF Inv, InBlock
<1>4. Len(batch_toks) \in Nat \ {0}
  <2>1. Len(batch_toks) \in Nat
    BY <1>3
  <2> QED
    BY <1>3, <2>1
<1>5. layer \in 1 .. LayersRun(model) /\ layer \in 1 .. NLayers(model)
  BY <1>1, <1>2, <1>3
<1>6. FedAt(layer) = pos
  BY <1>5 DEF FedAt
<1>7. Sized(model, layer, conv_state[layer], rec_state[layer], kv_store[layer], pos)
  <2>1. \A L \in 1 .. LayersRun(model) :
          Sized(model, L, conv_state[L], rec_state[L], kv_store[L], FedAt(L))
    BY <1>1 DEF Inv, Sizes
  <2> QED
    BY <1>5, <1>6, <2>1
<1>8. ASSUME ~lost
      PROVE  /\ Holds(model, layer, Rows[layer - 1], conv_state[layer], rec_state[layer], kv_store[layer], pos)
             /\ \A i \in 1 .. Len(batch_toks) : inp_embd[i] = Rows[layer - 1][pos + i]
  <2>1. \A L \in 1 .. LayersRun(model) :
          Holds(model, L, Rows[L - 1], conv_state[L], rec_state[L], kv_store[L], FedAt(L))
    BY <1>1, <1>8 DEF Inv, Contents
  <2>2. \A i \in 1 .. Len(batch_toks) : inp_embd[i] = Rows[layer - 1][pos + i]
    BY <1>1, <1>8 DEF Inv, RowsUnderWay
  <2> QED
    BY <1>5, <1>6, <2>1, <2>2
<1>9. ASSUME NEW i \in 1 .. Len(batch_toks)
      PROVE  pos + i \in DOMAIN seq /\ batch_toks[i] = seq[pos + i] /\ seq[pos + i] \in Tokens
  <2>1. pos + i \in 1 .. Len(seq)
    BY <1>2, <1>3, <1>4
  <2> QED
    BY <1>2, <1>3, <2>1
<1> QED
  BY <1>1, <1>2, <1>3, <1>4, <1>5, <1>7, <1>8, <1>9

\* A layer that takes its own memories and the block's rows one layer further.
LEMMA LayerStep ==
  ASSUME Inv, AtLayer, NEW loss \in Losses, LayerDone(loss),
         DOMAIN inp_embd' = DOMAIN inp_embd, DOMAIN conv_state' = DOMAIN conv_state,
         DOMAIN rec_state' = DOMAIN rec_state, DOMAIN kv_store' = DOMAIN kv_store,
         \A K \in 1 .. NLayers(model) : K # layer =>
           conv_state'[K] = conv_state[K] /\ rec_state'[K] = rec_state[K] /\ kv_store'[K] = kv_store[K],
         Sized(model, layer, conv_state'[layer], rec_state'[layer], kv_store'[layer],
               pos + Len(batch_toks)),
         ~lost /\ loss = "none" =>
           /\ Holds(model, layer, Rows[layer - 1], conv_state'[layer], rec_state'[layer],
                    kv_store'[layer], pos + Len(batch_toks))
           /\ \A i \in 1 .. Len(batch_toks) : inp_embd'[i] = Rows[layer][pos + i]
  PROVE  Inv'
<1>1. /\ layer' = layer + 1 /\ lost' = (lost \/ loss # "none")
      /\ UNCHANGED <<model, stage, prompt, prompt_idx, last_sampled, generated, seq, pos,
                 batch_toks, do_sample, inp_norm>>
  BY DEF LayerDone
<1>2. /\ stage = "layers" /\ model \in Models
      /\ layer \in 1 .. LayersRun(model) /\ layer \in 1 .. NLayers(model)
      /\ DOMAIN inp_embd = 1 .. Len(batch_toks)
  BY AtLayerFacts
<1>3. LayersRun(model) \in Nat /\ LayersRun(model) <= NLayers(model) /\ NLayers(model) \in Nat
  BY <1>2, ModelTypes
<1>4. lost' \in BOOLEAN /\ (~lost' => ~lost /\ loss = "none")
  <2>1. lost \in BOOLEAN
    BY DEF Inv, Types
  <2> QED
    BY <1>1, <2>1, Zenon
<1>5. Types'
  <2>1. /\ model \in Models /\ prompt \in Prompts /\ seq \in Seq(Tokens)
        /\ prompt_idx \in 0 .. Len(prompt) /\ pos \in 0 .. Len(seq) /\ do_sample \in BOOLEAN
        /\ DOMAIN conv_state = 1 .. NLayers(model) /\ DOMAIN rec_state = 1 .. NLayers(model)
        /\ DOMAIN kv_store = 1 .. NLayers(model)
    BY DEF Inv, Types
  <2> QED
    BY <1>1, <1>4, <2>1, Zenon DEF Types
<1>6. AtHead' /\ LastOutput'
  <2>1. AtHead'
    BY <1>1, <1>2 DEF AtHead
  <2>2. ASSUME ~lost', pos' > 0
        PROVE  inp_norm' = <<"norm", Rows'[LayersRun(model)'][pos']>>
    <3>1. ~lost /\ stage # "failed" /\ pos > 0
      BY <1>1, <1>2, <1>4, <2>2
    <3>2. inp_norm = <<"norm", Rows[LayersRun(model)][pos]>>
      BY <3>1 DEF Inv, LastOutput
    <3> QED
      BY <1>1, <3>2 DEF Rows
  <2> QED
    BY <2>1, <2>2 DEF LastOutput
<1>7. InBlock'
  <2>1. layer + 1 \in 1 .. LayersRun(model) + 1
    BY <1>2, <1>3
  <2>2. /\ stage' = stage /\ batch_toks' = batch_toks /\ model' = model /\ seq' = seq /\ pos' = pos
        /\ do_sample' = do_sample /\ prompt' = prompt /\ prompt_idx' = prompt_idx
        /\ layer' \in 1 .. LayersRun(model) + 1 /\ DOMAIN inp_embd' = 1 .. Len(batch_toks)
    BY <1>1, <1>2, <2>1
  <2> QED
    BY <2>2, Zenon DEF Inv, InBlock
<1>8. RowsUnderWay'
  <2>1. ASSUME ~lost'
        PROVE  \A i \in 1 .. Len(batch_toks) : inp_embd'[i] = Rows[layer][pos + i]
    BY <1>4, <2>1
  <2>2. layer' - 1 = layer /\ Rows' = Rows /\ pos' = pos /\ batch_toks' = batch_toks
    BY <1>1, <1>2, <1>3 DEF Rows
  <2> QED
    BY <2>1, <2>2 DEF RowsUnderWay
<1>9. ASSUME NEW L \in 1 .. LayersRun(model)
      PROVE  /\ Sized(model, L, conv_state'[L], rec_state'[L], kv_store'[L], FedAt(L)')
             /\ ~lost' => Holds(model, L, Rows[L - 1], conv_state'[L], rec_state'[L], kv_store'[L], FedAt(L)')
  <2>1. CASE L = layer
    <3>1. FedAt(L)' = pos + Len(batch_toks)
      BY <1>1, <1>2, <2>1 DEF FedAt
    <3> QED
      BY <1>4, <2>1, <3>1
  <2>2. CASE L # layer
    <3>1. FedAt(L)' = FedAt(L)
      BY <1>1, <1>2, <1>3, <2>2 DEF FedAt
    <3>2. L \in 1 .. NLayers(model)
      BY <1>3
    <3>3. Sized(model, L, conv_state[L], rec_state[L], kv_store[L], FedAt(L))
      BY <1>2 DEF Inv, Sizes
    <3>4. ~lost' => Holds(model, L, Rows[L - 1], conv_state[L], rec_state[L], kv_store[L], FedAt(L))
      BY <1>2, <1>4 DEF Inv, Contents
    <3> QED
      BY <2>2, <3>1, <3>2, <3>3, <3>4
  <2> QED
    BY <2>1, <2>2
<1>10. Sizes' /\ Contents'
  <2>1. Rows' = Rows /\ model' = model
    BY <1>1 DEF Rows
  <2> QED
    BY <1>9, <2>1 DEF Sizes, Contents
<1> QED
  BY <1>5, <1>6, <1>7, <1>8, <1>10 DEF Inv

\* A convolution layer runs.
LEMMA ShortConvLayerInv == Inv /\ ShortConvLayer => Inv'
<1> SUFFICES ASSUME Inv, ShortConvLayer
             PROVE  Inv'
  OBVIOUS
<1> DEFINE x  == inp_embd[1]
           bx(loss) == Kept(loss, <<"bx", layer, x>>)
           st == conv_state[layer]
           row(loss) == Row(layer, x, <<"conv", Append(st, bx(loss))>>, FeedForward(model, batch_toks[1]))
<1>1. AtLayer /\ IsConv(model, layer) /\ UNCHANGED <<rec_state, kv_store>>
  BY DEF ShortConvLayer
<1>2. PICK loss \in Losses :
        /\ inp_embd' = [inp_embd EXCEPT ![1] = Through(loss, row(loss))]
        /\ conv_state' = [conv_state EXCEPT ![layer] = Rolled(st, bx(loss))]
        /\ LayerDone(loss)
  BY Zenon DEF ShortConvLayer
<1>3. /\ model \in Models /\ layer \in 1 .. LayersRun(model) /\ layer \in 1 .. NLayers(model)
      /\ pos \in Nat
      /\ ~IsGemma(model) => Len(batch_toks) = 1
      /\ DOMAIN inp_embd = 1 .. Len(batch_toks)
      /\ \A i \in 1 .. Len(batch_toks) :
           pos + i \in DOMAIN seq /\ batch_toks[i] = seq[pos + i] /\ seq[pos + i] \in Tokens
      /\ Sized(model, layer, st, rec_state[layer], kv_store[layer], pos)
      /\ ~lost => Holds(model, layer, Rows[layer - 1], st, rec_state[layer], kv_store[layer], pos)
      /\ ~lost => \A i \in 1 .. Len(batch_toks) : inp_embd[i] = Rows[layer - 1][pos + i]
  BY <1>1, AtLayerFacts
<1>4. Len(batch_toks) = 1 /\ 1 \in 1 .. Len(batch_toks)
  <2>1. ~IsGemma(model)
    BY <1>1, <1>3, KindsDiffer, Zenon
  <2>2. Len(batch_toks) = 1
    BY <1>3, <2>1, Zenon
  <2> QED
    BY <2>2
<1>5. DOMAIN conv_state = 1 .. NLayers(model)
  BY DEF Inv, Types
<1>6. conv_state'[layer] = Rolled(st, bx(loss)) /\ inp_embd'[1] = Through(loss, row(loss))
  BY <1>2, <1>3, <1>4, <1>5, Zenon
<1>7. Sized(model, layer, conv_state'[layer], rec_state'[layer], kv_store'[layer], pos + Len(batch_toks))
  BY <1>1, <1>3, <1>4, <1>6, ShortConvSized
<1>8. ASSUME ~lost, loss = "none"
      PROVE  /\ Holds(model, layer, Rows[layer - 1], conv_state'[layer], rec_state'[layer],
                      kv_store'[layer], pos + Len(batch_toks))
             /\ \A i \in 1 .. Len(batch_toks) : inp_embd'[i] = Rows[layer][pos + i]
  <2> DEFINE below == Rows[layer - 1]
  <2>1. x = below[pos + 1] /\ batch_toks[1] = seq[pos + 1] /\ pos + 1 \in DOMAIN seq
        /\ seq[pos + 1] \in Tokens
    BY <1>3, <1>4, <1>8
  <2>2. bx(loss) = <<"bx", layer, below[pos + 1]>> /\ Through(loss, row(loss)) = row(loss)
    BY <1>8, <2>1, Zenon DEF Kept, Through
  <2>3. below = WholeRows(model, seq)[layer - 1] /\ Rows[layer] = WholeRows(model, seq)[layer]
    BY Zenon DEF Rows
  <2>4. Holds(model, layer, below, st, rec_state[layer], kv_store[layer], pos)
    BY <1>3, <1>8
  <2>5. row(loss) = Row(layer, below[pos + 1], <<"conv", Append(st, bx(loss))>>,
                        FeedForward(model, seq[pos + 1]))
    BY <2>1
  <2> DEFINE b == bx(loss)
  <2> HIDE DEF below, bx, st, row
  <2>6. /\ Holds(model, layer, below, Rolled(st, b), rec_state[layer], kv_store[layer], pos + 1)
        /\ IsRowOf(Row(layer, below[pos + 1], <<"conv", Append(st, b)>>, FeedForward(model, seq[pos + 1])),
                   model, layer, seq, pos + 1)
    <3>1. /\ model \in Models /\ layer \in 1 .. LayersRun(model) /\ IsConv(model, layer)
          /\ pos \in Nat /\ b = <<"bx", layer, below[pos + 1]>>
      BY <1>1, <1>3, <2>2
    <3> HIDE DEF b
    <3> QED
      BY <2>1, <2>3, <2>4, <3>1, ShortConvStep, Zenon
  <2>7. rec_state' = rec_state /\ kv_store' = kv_store
    BY <1>1
  <2>8. /\ Holds(model, layer, below, conv_state'[layer], rec_state'[layer], kv_store'[layer], pos + 1)
        /\ inp_embd'[1] = Rows[layer][pos + 1]
    BY <1>6, <2>2, <2>3, <2>5, <2>6, <2>7, Zenon DEF IsRowOf
  <2>9. \A i \in 1 .. 1 : inp_embd'[i] = Rows[layer][pos + i]
    BY <2>8
  <2> QED
    BY <1>4, <2>8, <2>9, Zenon DEF below
<1>9. \A K \in 1 .. NLayers(model) : K # layer =>
        conv_state'[K] = conv_state[K] /\ rec_state'[K] = rec_state[K] /\ kv_store'[K] = kv_store[K]
  BY <1>1, <1>2, <1>5, Zenon
<1>10. /\ DOMAIN inp_embd' = DOMAIN inp_embd /\ DOMAIN conv_state' = DOMAIN conv_state
       /\ DOMAIN rec_state' = DOMAIN rec_state /\ DOMAIN kv_store' = DOMAIN kv_store
  BY <1>1, <1>2, Zenon
<1> QED
  BY <1>1, <1>2, <1>7, <1>8, <1>9, <1>10, LayerStep, Zenon

\* A delta-rule layer runs.
LEMMA DeltaNetLayerInv == Inv /\ DeltaNetLayer => Inv'
<1> SUFFICES ASSUME Inv, DeltaNetLayer
             PROVE  Inv'
  OBVIOUS
<1> DEFINE x     == inp_embd[1]
           in(loss) == Kept(loss, x)
           mixed(loss) == Kept(loss, <<"qkv", layer, x>>)
           cst   == conv_state[layer]
           conv(loss) == <<"silu", Append(cst, mixed(loss))>>
           upd(loss) == Updates(model, rec_state[layer], conv(loss), in(loss))
           S(loss) == Matrices(upd(loss))
           row(loss) == Row(layer, x, Outputs(upd(loss)), FeedForward(model, batch_toks[1]))
<1>1. AtLayer /\ IsDelta(model, layer) /\ kv_store' = kv_store
  BY DEF DeltaNetLayer
<1>2. PICK loss \in Losses :
        /\ inp_embd' = [inp_embd EXCEPT ![1] = Through(loss, row(loss))]
        /\ rec_state' = [rec_state EXCEPT ![layer] = S(loss)]
        /\ conv_state' = [conv_state EXCEPT ![layer] = Rolled(cst, mixed(loss))]
        /\ LayerDone(loss)
  BY Zenon DEF DeltaNetLayer, Updates, Matrices, Outputs
<1> HIDE DEF S, row
<1>3. /\ model \in Models /\ layer \in 1 .. LayersRun(model) /\ layer \in 1 .. NLayers(model)
      /\ pos \in Nat
      /\ ~IsGemma(model) => Len(batch_toks) = 1
      /\ DOMAIN inp_embd = 1 .. Len(batch_toks)
      /\ \A i \in 1 .. Len(batch_toks) :
           pos + i \in DOMAIN seq /\ batch_toks[i] = seq[pos + i] /\ seq[pos + i] \in Tokens
      /\ Sized(model, layer, cst, rec_state[layer], kv_store[layer], pos)
      /\ ~lost => Holds(model, layer, Rows[layer - 1], cst, rec_state[layer], kv_store[layer], pos)
      /\ ~lost => \A i \in 1 .. Len(batch_toks) : inp_embd[i] = Rows[layer - 1][pos + i]
  BY <1>1, AtLayerFacts
<1>4. Len(batch_toks) = 1 /\ 1 \in 1 .. Len(batch_toks)
  <2>1. ~IsGemma(model)
    BY <1>1, <1>3, KindsDiffer, Zenon
  <2>2. Len(batch_toks) = 1
    BY <1>3, <2>1, Zenon
  <2> QED
    BY <2>2
<1>5. DOMAIN conv_state = 1 .. NLayers(model) /\ DOMAIN rec_state = 1 .. NLayers(model)
  BY DEF Inv, Types
<1>6. /\ conv_state'[layer] = Rolled(cst, mixed(loss)) /\ rec_state'[layer] = S(loss)
      /\ inp_embd'[1] = Through(loss, row(loss))
  BY <1>2, <1>3, <1>4, <1>5, Zenon
<1>7. Sized(model, layer, conv_state'[layer], rec_state'[layer], kv_store'[layer], pos + Len(batch_toks))
  <2>1. Sized(model, layer, Rolled(cst, mixed(loss)), S(loss), kv_store[layer], pos + 1)
    BY <1>1, <1>3, DeltaNetSized DEF S
  <2> QED
    BY <1>1, <1>4, <1>6, <2>1
<1>8. ASSUME ~lost, loss = "none"
      PROVE  /\ Holds(model, layer, Rows[layer - 1], conv_state'[layer], rec_state'[layer],
                      kv_store'[layer], pos + Len(batch_toks))
             /\ \A i \in 1 .. Len(batch_toks) : inp_embd'[i] = Rows[layer][pos + i]
  <2> DEFINE below == Rows[layer - 1]
             u == upd(loss)
             rec == rec_state[layer]
             mx == mixed(loss)
  <2>1. x = below[pos + 1] /\ batch_toks[1] = seq[pos + 1] /\ pos + 1 \in DOMAIN seq
        /\ seq[pos + 1] \in Tokens
    BY <1>3, <1>4, <1>8
  <2>2. mx = <<"qkv", layer, x>> /\ in(loss) = x /\ Through(loss, row(loss)) = row(loss)
    BY <1>8, Zenon DEF Kept, Through
  <2>3. below = WholeRows(model, seq)[layer - 1] /\ Rows[layer] = WholeRows(model, seq)[layer]
    BY Zenon DEF Rows
  <2>4. Holds(model, layer, below, cst, rec, kv_store[layer], pos)
    BY <1>3, <1>8
  <2>5. u = Updates(model, rec, <<"silu", Append(cst, mx)>>, x)
    BY <2>2, Zenon
  <2>6. /\ S(loss) = Matrices(u) /\ row(loss) = Row(layer, x, Outputs(u), FeedForward(model, seq[pos + 1]))
    BY <2>1, Zenon DEF S, row
  <2> HIDE DEF below, u, rec, mx, x, cst
  <2>7. /\ Holds(model, layer, below, Rolled(cst, mx), Matrices(u), kv_store[layer], pos + 1)
        /\ IsRowOf(Row(layer, x, Outputs(u), FeedForward(model, seq[pos + 1])), model, layer, seq, pos + 1)
    <3>1. /\ model \in Models /\ layer \in 1 .. LayersRun(model) /\ IsDelta(model, layer)
          /\ pos \in Nat /\ mx = <<"qkv", layer, x>>
      BY <1>1, <1>3, <2>2
    <3> QED
      BY <2>1, <2>3, <2>4, <2>5, <3>1, DeltaNetStep, Zenon
  <2>8. /\ Holds(model, layer, below, conv_state'[layer], rec_state'[layer], kv_store'[layer], pos + 1)
        /\ inp_embd'[1] = Rows[layer][pos + 1]
    BY <1>1, <1>6, <2>2, <2>3, <2>6, <2>7, Zenon DEF mx, IsRowOf
  <2>9. \A i \in 1 .. 1 : inp_embd'[i] = Rows[layer][pos + i]
    BY <2>8
  <2> QED
    BY <1>4, <2>8, <2>9, Zenon DEF below
<1>9. \A K \in 1 .. NLayers(model) : K # layer =>
        conv_state'[K] = conv_state[K] /\ rec_state'[K] = rec_state[K] /\ kv_store'[K] = kv_store[K]
  BY <1>1, <1>2, <1>5, Zenon
<1>10. /\ DOMAIN inp_embd' = DOMAIN inp_embd /\ DOMAIN conv_state' = DOMAIN conv_state
       /\ DOMAIN rec_state' = DOMAIN rec_state /\ DOMAIN kv_store' = DOMAIN kv_store
  BY <1>1, <1>2, Zenon
<1> QED
  BY <1>1, <1>2, <1>7, <1>8, <1>9, <1>10, LayerStep, Zenon

\* An attention layer runs.
LEMMA AttentionLayerInv == Inv /\ AttentionLayer => Inv'
<1> SUFFICES ASSUME Inv, AttentionLayer
             PROVE  Inv'
  OBVIOUS
<1> DEFINE x == inp_embd[1]
           own(loss) == [i \in 1 .. model.kvHeads |->
                           Kept(loss, KeyValue(layer, i - 1, "freq_base", pos, x))]
           store(loss) == kv_store[layer] \o own(loss)
           row(loss) == Row(layer, x, HeadsRead(model, layer, pos, x, store(loss)),
                            FeedForward(model, batch_toks[1]))
<1>1. /\ AtLayer /\ ~IsGemma(model) /\ ~IsConv(model, layer) /\ ~IsDelta(model, layer)
      /\ UNCHANGED <<conv_state, rec_state>>
  BY DEF AttentionLayer
<1>2. PICK loss \in Losses :
        /\ inp_embd' = [inp_embd EXCEPT ![1] = Through(loss, row(loss))]
        /\ kv_store' = [kv_store EXCEPT ![layer] = store(loss)]
        /\ LayerDone(loss)
  BY Zenon DEF AttentionLayer, HeadsRead
<1> HIDE DEF store, row
<1>3. /\ model \in Models /\ layer \in 1 .. LayersRun(model) /\ layer \in 1 .. NLayers(model)
      /\ pos \in Nat
      /\ ~IsGemma(model) => Len(batch_toks) = 1
      /\ DOMAIN inp_embd = 1 .. Len(batch_toks)
      /\ \A i \in 1 .. Len(batch_toks) :
           pos + i \in DOMAIN seq /\ batch_toks[i] = seq[pos + i] /\ seq[pos + i] \in Tokens
      /\ Sized(model, layer, conv_state[layer], rec_state[layer], kv_store[layer], pos)
      /\ ~lost => Holds(model, layer, Rows[layer - 1], conv_state[layer], rec_state[layer],
                        kv_store[layer], pos)
      /\ ~lost => \A i \in 1 .. Len(batch_toks) : inp_embd[i] = Rows[layer - 1][pos + i]
  BY <1>1, AtLayerFacts
<1>4. Len(batch_toks) = 1 /\ 1 \in 1 .. Len(batch_toks)
  <2>1. Len(batch_toks) = 1
    BY <1>1, <1>3, Zenon
  <2> QED
    BY <2>1
<1>5. DOMAIN kv_store = 1 .. NLayers(model)
  BY DEF Inv, Types
<1>6. kv_store'[layer] = store(loss) /\ inp_embd'[1] = Through(loss, row(loss))
  BY <1>2, <1>3, <1>4, <1>5, Zenon
<1>7. Sized(model, layer, conv_state'[layer], rec_state'[layer], kv_store'[layer], pos + Len(batch_toks))
  <2>1. model.kvHeads \in Nat
    BY <1>3, ModelTypes
  <2>2. OfLength(own(loss), model.kvHeads)
    BY <2>1 DEF OfLength
  <2> HIDE DEF own
  <2>3. Sized(model, layer, conv_state[layer], rec_state[layer], kv_store[layer] \o own(loss), pos + 1)
    BY <1>1, <1>3, <2>2, AttentionSized
  <2> QED
    BY <1>1, <1>4, <1>6, <2>3 DEF store
<1>8. ASSUME ~lost, loss = "none"
      PROVE  /\ Holds(model, layer, Rows[layer - 1], conv_state'[layer], rec_state'[layer],
                      kv_store'[layer], pos + Len(batch_toks))
             /\ \A i \in 1 .. Len(batch_toks) : inp_embd'[i] = Rows[layer][pos + i]
  <2> DEFINE below == Rows[layer - 1]
             s == store(loss)
  <2>1. x = below[pos + 1] /\ batch_toks[1] = seq[pos + 1] /\ pos + 1 \in DOMAIN seq
        /\ seq[pos + 1] \in Tokens
    BY <1>3, <1>4, <1>8
  <2>2. /\ s = kv_store[layer] \o TokenKeys(layer, model.kvHeads, "freq_base", x, pos)
        /\ Through(loss, row(loss)) = row(loss)
    BY <1>8, Zenon DEF Kept, Through, TokenKeys, store
  <2>3. below = WholeRows(model, seq)[layer - 1] /\ Rows[layer] = WholeRows(model, seq)[layer]
    BY Zenon DEF Rows
  <2>4. Holds(model, layer, below, conv_state[layer], rec_state[layer], kv_store[layer], pos)
    BY <1>3, <1>8
  <2>5. row(loss) = Row(layer, x, HeadsRead(model, layer, pos, x, s), FeedForward(model, seq[pos + 1]))
    BY <2>1, Zenon DEF row
  <2> HIDE DEF below, s, x
  <2>6. /\ Holds(model, layer, below, conv_state[layer], rec_state[layer], s, pos + 1)
        /\ IsRowOf(Row(layer, x, HeadsRead(model, layer, pos, x, s), FeedForward(model, seq[pos + 1])),
                   model, layer, seq, pos + 1)
    <3>1. model \in Models /\ layer \in 1 .. LayersRun(model) /\ pos \in Nat
      BY <1>3
    <3> QED
      BY <1>1, <2>1, <2>2, <2>3, <2>4, <3>1, AttentionStep, Zenon
  <2>7. /\ Holds(model, layer, below, conv_state'[layer], rec_state'[layer], kv_store'[layer], pos + 1)
        /\ inp_embd'[1] = Rows[layer][pos + 1]
    BY <1>1, <1>6, <2>2, <2>3, <2>5, <2>6, Zenon DEF s, IsRowOf
  <2>8. \A i \in 1 .. 1 : inp_embd'[i] = Rows[layer][pos + i]
    BY <2>7
  <2> QED
    BY <1>4, <2>7, <2>8, Zenon DEF below
<1>9. \A K \in 1 .. NLayers(model) : K # layer =>
        conv_state'[K] = conv_state[K] /\ rec_state'[K] = rec_state[K] /\ kv_store'[K] = kv_store[K]
  BY <1>1, <1>2, <1>5, Zenon
<1>10. /\ DOMAIN inp_embd' = DOMAIN inp_embd /\ DOMAIN conv_state' = DOMAIN conv_state
       /\ DOMAIN rec_state' = DOMAIN rec_state /\ DOMAIN kv_store' = DOMAIN kv_store
  BY <1>1, <1>2, Zenon
<1> QED
  BY <1>1, <1>2, <1>7, <1>8, <1>9, <1>10, LayerStep, Zenon

\* A gemma4 layer, which takes the whole block through and reads the keys of the layer
\* src: one below that has been through the block, or itself.
LEMMA GemmaLayerInv == Inv /\ GemmaLayer => Inv'
<1> SUFFICES ASSUME Inv, GemmaLayer
             PROVE  Inv'
  OBVIOUS
<1> DEFINE B == Len(batch_toks)
           src == GemmaPlan(model)[layer].kv_src
           base == RopeBase(IsSwa(model, layer))
           own(loss) == [bt \in DOMAIN inp_embd |->
                           Kept(loss, KeyValue(layer, 0, base, pos + bt - 1, inp_embd[bt]))]
           store(loss) == IF src = layer
                          THEN [kv_store EXCEPT ![layer] = @ \o own(loss)] ELSE kv_store
           read(loss, bt) ==
             [h \in 0 .. model.heads - 1 |->
               <<<<"query", h, base, pos + bt - 1, inp_embd[bt]>>,
                 SubSeq(store(loss)[src], WindowStart(model, layer, pos + bt - 1) + 1, pos + bt - 1 + 1)>>]
           row(loss, bt) == Row(layer, inp_embd[bt], read(loss, bt),
                                PerLayerEmbedding(model, layer, batch_toks[bt]))
<1>1. AtLayer /\ IsGemma(model) /\ UNCHANGED <<conv_state, rec_state>>
  BY DEF GemmaLayer
<1>2. PICK loss \in Losses :
        /\ inp_embd' = [bt \in DOMAIN inp_embd |-> Through(loss, row(loss, bt))]
        /\ kv_store' = store(loss)
        /\ LayerDone(loss)
  BY Zenon DEF GemmaLayer
<1>3. /\ stage = "layers" /\ model \in Models
      /\ layer \in 1 .. LayersRun(model) /\ layer \in 1 .. NLayers(model)
      /\ pos \in Nat /\ B \in Nat \ {0} /\ DOMAIN inp_embd = 1 .. B
      /\ \A i \in 1 .. B :
           pos + i \in DOMAIN seq /\ batch_toks[i] = seq[pos + i] /\ seq[pos + i] \in Tokens
      /\ Sized(model, layer, conv_state[layer], rec_state[layer], kv_store[layer], pos)
      /\ ~lost => Holds(model, layer, Rows[layer - 1], conv_state[layer], rec_state[layer],
                        kv_store[layer], pos)
      /\ ~lost => \A i \in 1 .. B : inp_embd[i] = Rows[layer - 1][pos + i]
  BY <1>1, AtLayerFacts
<1>4. /\ DOMAIN kv_store = 1 .. NLayers(model)
      /\ LayersRun(model) \in Nat /\ LayersRun(model) <= NLayers(model) /\ NLayers(model) \in Nat
  BY <1>3, ModelTypes DEF Inv, Types
<1>5. /\ (src = layer <=> "attn_k" \in model.tensors[layer])
      /\ src \in 1 .. layer /\ src \in 1 .. LayersRun(model)
  <2>1. /\ (GemmaPlan(model)[layer].kv_src = layer <=> "attn_k" \in model.tensors[layer])
        /\ GemmaPlan(model)[layer].kv_src \in 1 .. layer
    BY <1>1, <1>3, OwnerIs
  <2> QED
    BY <1>3, <1>4, <2>1
<1> HIDE DEF src, base, own, read
<1>6. kv_store'[layer] = IF "attn_k" \in model.tensors[layer]
                         THEN kv_store[layer] \o own(loss) ELSE kv_store[layer]
  BY <1>2, <1>3, <1>4, <1>5, Zenon
<1>7. Sized(model, layer, conv_state'[layer], rec_state'[layer], kv_store'[layer], pos + Len(batch_toks))
  <2>1. OfLength(own(loss), B)
    BY <1>3 DEF OfLength, own
  <2>2. Sized(model, layer, conv_state[layer], rec_state[layer],
              IF "attn_k" \in model.tensors[layer] THEN kv_store[layer] \o own(loss)
              ELSE kv_store[layer], pos + B)
    BY <1>1, <1>3, <2>1, GemmaSized
  <2> QED
    BY <1>1, <1>6, <2>2
<1>8. ASSUME ~lost, loss = "none"
      PROVE  /\ Holds(model, layer, Rows[layer - 1], conv_state'[layer], rec_state'[layer],
                      kv_store'[layer], pos + Len(batch_toks))
             /\ \A i \in 1 .. Len(batch_toks) : inp_embd'[i] = Rows[layer][pos + i]
  <2> DEFINE keys == store(loss)[src]
  <2>1. own(loss) = BlockKeys(layer, base, inp_embd, pos, B)
    BY <1>3, <1>8, Zenon DEF own, Kept, BlockKeys
  <2>2. kv_store[layer] = KeyMemory(model, layer, Rows[layer - 1], pos)
    BY <1>3, <1>8 DEF Holds
  <2>3. ASSUME src = layer
        PROVE  kv_store[layer] \o own(loss) = KeyMemory(model, layer, Rows[layer - 1], pos + B)
    <3>1. KeyOwner(model, layer)
      BY <1>1, <1>5, <2>3 DEF KeyOwner
    <3>2. \A i \in 1 .. B : inp_embd[i] = Rows[layer - 1][pos + i]
      BY <1>3, <1>8
    <3>3. IsKeyMemory(KeyMemory(model, layer, Rows[layer - 1], pos)
                      \o BlockKeys(layer, RopeBase(IsSwa(model, layer)), inp_embd, pos, B),
                      model, layer, Rows[layer - 1], pos + B)
      BY <1>1, <1>3, <3>1, <3>2, GemmaKeysStep
    <3> QED
      BY <2>1, <2>2, <3>3, Zenon DEF IsKeyMemory, base
  <2>4. keys = KeyMemory(model, src, Rows[src - 1], pos + B)
    <3>1. CASE src = layer
      <4>1. keys = kv_store[layer] \o own(loss)
        BY <1>3, <1>4, <3>1, Zenon
      <4> QED
        BY <2>3, <3>1, <4>1, Zenon
    <3>2. CASE src # layer
      <4>1. keys = kv_store[src]
        BY <3>2, Zenon
      <4>2. FedAt(src) = pos + B
        BY <1>3, <1>4, <1>5, <3>2 DEF FedAt
      <4>3. Holds(model, src, Rows[src - 1], conv_state[src], rec_state[src], kv_store[src], FedAt(src))
        BY <1>3, <1>5, <1>8 DEF Inv, Contents
      <4> QED
        BY <4>1, <4>2, <4>3 DEF Holds
    <3> QED
      BY <3>1, <3>2
  <2>5. Holds(model, layer, Rows[layer - 1], conv_state'[layer], rec_state'[layer],
              kv_store'[layer], pos + Len(batch_toks))
    <3>1. ~IsConv(model, layer) /\ ~IsDelta(model, layer)
      BY <1>1, <1>3, KindsDiffer, Zenon
    <3>2. /\ conv_state[layer] = ConvMemory(model, layer, Rows[layer - 1], pos + B)
          /\ rec_state[layer] = MatrixMemory(model, layer, Rows[layer - 1], pos + B)
      BY <1>3, <1>8, <3>1, Zenon DEF Holds, ConvMemory, MatrixMemory
    <3>3. kv_store'[layer] = KeyMemory(model, layer, Rows[layer - 1], pos + B)
      <4>1. CASE src = layer
        BY <1>5, <1>6, <2>3, <4>1, Zenon
      <4>2. CASE src # layer
        <5>1. ~KeyOwner(model, layer)
          BY <1>1, <1>5, <4>2, Zenon DEF KeyOwner
        <5> QED
          BY <1>5, <1>6, <2>2, <4>2, <5>1, Zenon DEF KeyMemory
      <4> QED
        BY <4>1, <4>2
    <3> QED
      BY <1>1, <3>2, <3>3 DEF Holds
  <2>6. ASSUME NEW i \in 1 .. B
        PROVE  inp_embd'[i] = Rows[layer][pos + i]
    <3> DEFINE q == pos + i
               x == inp_embd[i]
    <3>1. /\ q \in 1 .. pos + B /\ pos + i - 1 = q - 1 /\ pos + i - 1 + 1 = q /\ pos + B \in Nat
          /\ q \in DOMAIN seq /\ batch_toks[i] = seq[q] /\ seq[q] \in Tokens
      BY <1>3
    <3>2. x = WholeRows(model, seq)[layer - 1][q]
      BY <1>3, <1>8 DEF Rows
    <3>3. inp_embd'[i] = Row(layer, x, read(loss, i), PerLayerEmbedding(model, layer, seq[q]))
      BY <1>2, <1>3, <1>8, <3>1, Zenon DEF Through
    <3> HIDE DEF q, x, keys
    <3>4. read(loss, i) = WindowRead(model, layer, q, x, keys)
      <4> DEFINE p == pos + i - 1
                 y == inp_embd[i]
                 s == store(loss)[src]
      <4>1. read(loss, i) = [h \in 0 .. model.heads - 1 |->
              <<<<"query", h, base, p, y>>, SubSeq(s, WindowStart(model, layer, p) + 1, p + 1)>>]
        BY Zenon DEF read
      <4>2. p = q - 1 /\ p + 1 = q
        BY <3>1
      <4>3. x = y /\ keys = s
        BY Zenon DEF x, keys
      <4> HIDE DEF p, y, s
      <4>4. [h \in 0 .. model.heads - 1 |->
              <<<<"query", h, base, p, y>>, SubSeq(s, WindowStart(model, layer, p) + 1, p + 1)>>]
            = [h \in 0 .. model.heads - 1 |->
              <<<<"query", h, base, q - 1, x>>, SubSeq(keys, WindowStart(model, layer, q - 1) + 1, q)>>]
        BY <4>2, <4>3
      <4> QED
        BY <4>1, <4>4, Zenon DEF WindowRead, base
    <3>5. IsRowOf(Row(layer, x, WindowRead(model, layer, q, x, keys),
                      PerLayerEmbedding(model, layer, seq[q])), model, layer, seq, q)
      <4> DEFINE n == pos + B
      <4>1. /\ keys = KeyMemory(model, src, WholeRows(model, seq)[src - 1], n)
            /\ src = GemmaPlan(model)[layer].kv_src
        BY <2>4, Zenon DEF Rows, src
      <4>2. n \in Nat /\ q \in 1 .. n
        BY <3>1
      <4> HIDE DEF n
      <4> QED
        BY <1>1, <1>3, <3>1, <3>2, <4>1, <4>2, GemmaRowStep, Zenon
    <3> QED
      BY <3>3, <3>4, <3>5, Zenon DEF IsRowOf, Rows, q
  <2> QED
    BY <2>5, <2>6
<1>9. \A K \in 1 .. NLayers(model) : K # layer =>
        conv_state'[K] = conv_state[K] /\ rec_state'[K] = rec_state[K] /\ kv_store'[K] = kv_store[K]
  BY <1>1, <1>2, <1>4, Zenon
<1>10. /\ DOMAIN inp_embd' = DOMAIN inp_embd /\ DOMAIN conv_state' = DOMAIN conv_state
       /\ DOMAIN rec_state' = DOMAIN rec_state /\ DOMAIN kv_store' = DOMAIN kv_store
  BY <1>1, <1>2, Zenon
<1> QED
  BY <1>1, <1>2, <1>7, <1>8, <1>9, <1>10, LayerStep, Zenon

(***************************************************************************)
(* Every step keeps the invariant.                                          *)

\* One case per action.
LEMMA NextInv == Inv /\ [Next]_vars => Inv'
<1> SUFFICES ASSUME Inv, [Next]_vars
             PROVE  Inv'
  OBVIOUS
<1>1. CASE BeginPrefill
  BY <1>1, BeginPrefillInv
<1>2. CASE BeginDecode
  BY <1>2, BeginDecodeInv
<1>3. CASE ExitLoop
  BY <1>3, ExitLoopInv
<1>4. CASE ShortConvLayer
  BY <1>4, ShortConvLayerInv
<1>5. CASE DeltaNetLayer
  BY <1>5, DeltaNetLayerInv
<1>6. CASE AttentionLayer
  BY <1>6, AttentionLayerInv
<1>7. CASE GemmaLayer
  BY <1>7, GemmaLayerInv
<1>8. CASE LayerFails
  BY <1>8, LayerFailsInv
<1>9. CASE FinishPrefillChunk
  BY <1>9, FinishPrefillChunkInv
<1>10. CASE SampleNext
  BY <1>10, SampleNextInv
<1>11. CASE UNCHANGED vars
  <2>1. /\ model' = model /\ stage' = stage /\ prompt' = prompt /\ prompt_idx' = prompt_idx
        /\ last_sampled' = last_sampled /\ seq' = seq /\ pos' = pos /\ batch_toks' = batch_toks
        /\ do_sample' = do_sample /\ layer' = layer /\ inp_embd' = inp_embd
        /\ conv_state' = conv_state /\ rec_state' = rec_state /\ kv_store' = kv_store
        /\ inp_norm' = inp_norm /\ lost' = lost
    BY <1>11 DEF vars
  <2>2. Types' /\ AtHead'
    BY <2>1 DEF Inv, Types, AtHead
  <2>3. InBlock'
    BY <2>1 DEF Inv, InBlock
  <2>4. Sizes' /\ Contents'
    BY <2>1 DEF Inv, Sizes, Contents, FedAt, Rows
  <2>5. RowsUnderWay' /\ LastOutput'
    BY <2>1 DEF Inv, RowsUnderWay, LastOutput, Rows
  <2> QED
    BY <2>2, <2>3, <2>4, <2>5 DEF Inv
<1> QED
  BY <1>1, <1>2, <1>3, <1>4, <1>5, <1>6, <1>7, <1>8, <1>9, <1>10, <1>11 DEF Next

\* The text that has been fed is a prefix of the whole, and its rows those of the whole.
LEMMA FedPrefix ==
  ASSUME Inv
  PROVE  /\ model \in Models /\ pos \in Nat /\ LayersRun(model) \in Nat
         /\ \A L \in 0 .. LayersRun(model) : Agree(Rows[L], WholeRows(model, FedTokens)[L], pos)
<1>1. /\ model \in Models /\ seq \in Seq(Tokens) /\ pos \in 0 .. Len(seq)
  BY DEF Inv, Types
<1>2. LayersRun(model) \in Nat /\ Len(seq) \in Nat /\ pos \in Nat /\ pos <= Len(seq)
  BY <1>1, ModelTypes
<1>3. OfLength(seq, Len(seq)) /\ DOMAIN seq = 1 .. Len(seq)
  BY <1>1 DEF OfLength
<1>4. FedTokens = [i \in 1 .. pos |-> seq[i]]
  <2>1. SubSeq(seq, 0 + 1, pos) = [i \in 1 .. pos - 0 |-> seq[0 + i]]
    BY <1>2, <1>3, SubSeqIs
  <2> QED
    BY <1>2, <2>1 DEF FedTokens
<1>5. Agree(seq, FedTokens, pos)
  BY <1>2, <1>3, <1>4 DEF Agree
<1>6. \A L \in 0 .. LayersRun(model) :
        Agree(WholeRows(model, seq)[L], WholeRows(model, FedTokens)[L], pos)
  BY <1>1, <1>2, <1>5, RowsOfPrefix
<1> QED
  BY <1>1, <1>2, <1>6 DEF Rows

\* The memories a layer should have are of the sizes it has.
SizesMatch(m, L, b, p, conv, rec, kv) ==
  /\ Len(conv) = Len(ConvMemory(m, L, b, p)) /\ Len(kv) = Len(KeyMemory(m, L, b, p))
  /\ IsDelta(m, L) => \A h \in DOMAIN rec : Len(rec[h]) = 2 * p

\* Memories of the sizes of n tokens are as long as those of n tokens.
LEMMA MemoriesSized ==
  ASSUME NEW m \in Models, NEW L, NEW b, NEW p \in Nat,
         NEW conv, NEW rec, NEW kv, Sized(m, L, conv, rec, kv, p)
  PROVE  SizesMatch(m, L, b, p, conv, rec, kv)
<1>1. m.taps - 1 \in Nat /\ KeyCount(m, L) \in Nat /\ p * KeyCount(m, L) \in Nat /\ 2 * p \in Nat
  BY ModelTypes, KindSizes
<1>2. Len(conv) = Len(ConvMemory(m, L, b, p))
  <2>1. CASE IsConv(m, L) \/ IsDelta(m, L)
    <3> DEFINE c == LastInputs(m.taps - 1, ConvInputs(m, L, b), p)
    <3>1. OfLength(conv, m.taps - 1)
      BY <2>1 DEF Sized
    <3>2. OfLength(c, m.taps - 1)
      BY <1>1 DEF OfLength, LastInputs
    <3>3. ConvMemory(m, L, b, p) = c
      BY <2>1, Zenon DEF ConvMemory
    <3> HIDE DEF c
    <3> QED
      BY <1>1, <3>1, <3>2, <3>3, OfLengthIs
  <2>2. CASE ~(IsConv(m, L) \/ IsDelta(m, L))
    <3>1. OfLength(conv, 0)
      BY <2>2 DEF Sized
    <3>2. ConvMemory(m, L, b, p) = <<>>
      BY <2>2, Zenon DEF ConvMemory
    <3> QED
      BY <3>1, <3>2, OfLengthIs
  <2> QED
    BY <2>1, <2>2
<1>3. Len(kv) = Len(KeyMemory(m, L, b, p))
  <2>1. OfLength(kv, p * KeyCount(m, L))
    BY DEF Sized
  <2>2. CASE KeyOwner(m, L)
    <3> DEFINE n == p * KeyCount(m, L)
               k == Keys(L, KeyCount(m, L), RopeBase(IsGemma(m) /\ IsSwa(m, L)), b, p)
    <3>1. KeyMemory(m, L, b, p) = k
      BY <2>2, KeysAre
    <3>2. OfLength(k, n)
      BY <1>1 DEF OfLength, Keys
    <3> HIDE DEF k
    <3> QED
      BY <1>1, <2>1, <3>1, <3>2, OfLengthIs
  <2>3. CASE ~KeyOwner(m, L)
    <3>1. KeyCount(m, L) = 0 /\ p * 0 = 0
      BY <2>3 DEF KeyCount
    <3>2. KeyMemory(m, L, b, p) = <<>>
      BY <2>3, Zenon DEF KeyMemory
    <3>3. OfLength(kv, 0)
      BY <2>1, <3>1, Zenon
    <3> QED
      BY <3>2, <3>3, OfLengthIs
  <2> QED
    BY <2>2, <2>3
<1>4. ASSUME IsDelta(m, L), NEW h \in DOMAIN rec
      PROVE  Len(rec[h]) = 2 * p
  <2>1. DOMAIN rec = 0 .. m.valueHeads - 1
    BY <1>4 DEF Sized
  <2>2. OfLength(rec[h], 2 * p)
    BY <1>4, <2>1 DEF Sized
  <2> QED
    BY <1>1, <2>2, OfLengthIs
<1> QED
  BY <1>2, <1>3, <1>4 DEF SizesMatch

\* At the head of the loop the invariant is about the text fed.
LEMMA InvMatches == Inv => MemoriesMatchPosition
<1> SUFFICES ASSUME Inv, stage = "head", NEW L \in 1 .. LayersRun(model)
             PROVE  LET below == WholeRows(model, FedTokens)[L - 1]
                        conv  == ConvMemory(model, L, below, pos)
                        keys  == KeyMemory(model, L, below, pos)
                    IN  /\ Len(conv_state[L]) = Len(conv) /\ Len(kv_store[L]) = Len(keys)
                        /\ IsDelta(model, L) =>
                             \A h \in DOMAIN rec_state[L] : Len(rec_state[L][h]) = 2 * pos
                        /\ ~lost => /\ conv_state[L] = conv /\ kv_store[L] = keys
                                    /\ rec_state[L] = MatrixMemory(model, L, below, pos)
  BY Zenon DEF MemoriesMatchPosition
<1> DEFINE c == Rows[L - 1]
           d == WholeRows(model, FedTokens)[L - 1]
<1>1. /\ model \in Models /\ pos \in Nat /\ LayersRun(model) \in Nat
      /\ \A K \in 0 .. LayersRun(model) : Agree(Rows[K], WholeRows(model, FedTokens)[K], pos)
  BY FedPrefix
<1>2. FedAt(L) = pos
  BY DEF FedAt
<1>3. Sized(model, L, conv_state[L], rec_state[L], kv_store[L], pos)
  BY <1>2 DEF Inv, Sizes
<1>4. Agree(c, d, pos)
  <2>1. L - 1 \in 0 .. LayersRun(model)
    BY <1>1
  <2> QED
    BY <1>1, <2>1
<1>5. ASSUME ~lost
      PROVE  Holds(model, L, c, conv_state[L], rec_state[L], kv_store[L], pos)
  BY <1>2, <1>5 DEF Inv, Contents
<1> HIDE DEF c, d
<1>6. /\ Len(conv_state[L]) = Len(ConvMemory(model, L, d, pos))
      /\ Len(kv_store[L]) = Len(KeyMemory(model, L, d, pos))
      /\ IsDelta(model, L) => \A h \in DOMAIN rec_state[L] : Len(rec_state[L][h]) = 2 * pos
  <2>1. SizesMatch(model, L, d, pos, conv_state[L], rec_state[L], kv_store[L])
    BY <1>1, <1>3, MemoriesSized
  <2> QED
    BY <2>1, Zenon DEF SizesMatch
<1>7. ASSUME ~lost
      PROVE  /\ conv_state[L] = ConvMemory(model, L, d, pos)
             /\ kv_store[L] = KeyMemory(model, L, d, pos)
             /\ rec_state[L] = MatrixMemory(model, L, d, pos)
  <2>1. /\ ConvMemory(model, L, c, pos) = ConvMemory(model, L, d, pos)
        /\ MatrixMemory(model, L, c, pos) = MatrixMemory(model, L, d, pos)
        /\ KeyMemory(model, L, c, pos) = KeyMemory(model, L, d, pos)
    BY <1>1, <1>4, MemoriesAgree
  <2> QED
    BY <1>5, <1>7, <2>1, Zenon DEF Holds
<1> QED
  BY <1>6, <1>7, Zenon DEF d

\* And so is the last output.
LEMMA InvOutput == Inv => OutputIsWhole
<1> SUFFICES ASSUME Inv, pos > 0, stage # "failed", ~lost
             PROVE  inp_norm = <<"norm", WholeRows(model, FedTokens)[LayersRun(model)][pos]>>
  BY Zenon DEF OutputIsWhole
<1>1. /\ model \in Models /\ pos \in Nat /\ LayersRun(model) \in Nat
      /\ \A K \in 0 .. LayersRun(model) : Agree(Rows[K], WholeRows(model, FedTokens)[K], pos)
  BY FedPrefix
<1>2. LayersRun(model) \in 0 .. LayersRun(model) /\ pos \in 1 .. pos
  BY <1>1
<1>3. Rows[LayersRun(model)][pos] = WholeRows(model, FedTokens)[LayersRun(model)][pos]
  BY <1>1, <1>2 DEF Agree
<1> QED
  BY <1>3 DEF Inv, LastOutput

(* The invariant: in a block the layers already run are ahead by it, and everything
   computed so far is what the whole text gives (src/cli/main.cpp 2378-3232). *)
THEOREM InvHolds == Spec => []Inv
<1> QED
  BY InitInv, NextInv, PTL DEF Spec

(* At the head of the loop every layer of every one of these architectures remembers
   exactly the tokens fed so far, whatever the model, the prompt and the chunks: its
   last convolution inputs, its delta-rule matrices, its keys and values, and none of
   those of a layer whose keys it borrows; the sizes are right even after an ignored
   failure (src/cli/main.cpp 2524-3072). *)
THEOREM MemoriesAlwaysMatch == Spec => []MemoriesMatchPosition
<1> QED
  BY InvHolds, InvMatches, PTL

(* The row the logits are computed from is, as long as no product has failed, the row
   that the formulas of the architecture give for the last token of the text fed,
   computed over the whole text and without memories (src/cli/main.cpp 2378-3232). *)
THEOREM OutputIsAlwaysWhole == Spec => []OutputIsWhole
<1> QED
  BY InvHolds, InvOutput, PTL

=============================================================================
