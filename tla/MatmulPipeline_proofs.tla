------------------------- MODULE MatmulPipeline_proofs -------------------------
(***************************************************************************)
(* The quantized product for every shape, tile size and batch size, every  *)
(* order in which the device completes its runs and every start that       *)
(* throws.                                                                 *)
(*                                                                         *)
(* The invariant follows the pipeline.  A started slot holds the operands  *)
(* of its tile until its run completes, and their product afterwards, no   *)
(* matter what an earlier call left behind; a cached or resident tile is   *)
(* the one its key is asked for; and the result holds, block by block, the *)
(* products of the tiles waited for so far.                                *)
(***************************************************************************)
EXTENDS MatmulPipeline, TLAPS

-----------------------------------------------------------------------------
(* Division with remainder, and which tile of a grid the q-th of the loops is.*)

\* Quotients and remainders of natural numbers.
LEMMA DivMod ==
  ASSUME NEW a \in Nat, NEW b \in Nat \ {0}
  PROVE  a \div b \in Nat /\ a % b \in 0 .. b - 1 /\ a = b * (a \div b) + (a % b)
<1>1. a \div b \in Int /\ a % b \in 0 .. b - 1 /\ a = b * (a \div b) + (a % b)
  OBVIOUS
<1> DEFINE q == a \div b
           r == a % b
<1> HIDE DEF q, r
<1>2. q >= 0
  <2> SUFFICES ASSUME q <= -1 PROVE FALSE
    BY <1>1 DEF q
  <2>1. PICK z \in Nat : q = -1 - z
    <3>1. -1 - q \in Nat /\ q = -1 - (-1 - q)
      BY <1>1 DEF q
    <3> QED
      BY <3>1
  <2>2. b * q = -b - b * z /\ b * z \in Nat
    BY <2>1
  <2> QED
    BY <1>1, <2>2 DEF q, r
<1> QED
  BY <1>1, <1>2 DEF q

\* A multiple of a smaller number is a whole factor below one of a larger.
LEMMA ProductsCompare ==
  ASSUME NEW x \in Nat, NEW y \in Nat, NEW b \in Nat, x < y
  PROVE  b * x + b <= b * y
<1>1. PICK z \in Nat : y = x + 1 + z
  <2>1. y - x - 1 \in Nat /\ y = x + 1 + (y - x - 1)
    OBVIOUS
  <2> QED
    BY <2>1
<1>2. b * y = b * x + b + b * z
  BY <1>1
<1>3. b * z \in Nat /\ b * x \in Nat
  OBVIOUS
<1> QED
  BY <1>2, <1>3

LEMMA DivUnique ==
  ASSUME NEW b \in Nat \ {0}, NEW q1 \in Nat, NEW q2 \in Nat, NEW r1 \in 0 .. b - 1, NEW r2 \in 0 .. b - 1,
         b * q1 + r1 = b * q2 + r2
  PROVE  q1 = q2 /\ r1 = r2
<1>0. b * q1 \in Nat /\ b * q2 \in Nat
  OBVIOUS
<1>1. ~(q1 < q2)
  <2> SUFFICES ASSUME q1 < q2 PROVE FALSE
    OBVIOUS
  <2>1. b * q1 + b <= b * q2
    BY ProductsCompare
  <2> QED
    BY <1>0, <2>1
<1>2. ~(q2 < q1)
  <2> SUFFICES ASSUME q2 < q1 PROVE FALSE
    OBVIOUS
  <2>1. b * q2 + b <= b * q1
    BY ProductsCompare
  <2> QED
    BY <1>0, <2>1
<1> QED
  BY <1>0, <1>1, <1>2

LEMMA DivOf ==
  ASSUME NEW b \in Nat \ {0}, NEW q \in Nat, NEW r \in 0 .. b - 1, NEW a \in Nat, a = b * q + r
  PROVE  a \div b = q /\ a % b = r
<1>1. a \div b \in Nat /\ a % b \in 0 .. b - 1 /\ a = b * (a \div b) + (a % b)
  BY DivMod
<1> QED
  BY <1>1, DivUnique

-----------------------------------------------------------------------------
(* Tiles of size t over 0 .. n - 1; the last may be short.                  *)

\* The q-th tile is inside the grid, and its block is the (q \div kt)-th.
LEMMA TileIsInGrid ==
  ASSUME NEW mt \in Nat, NEW nt \in Nat, NEW kt \in Nat, NEW q \in Nat, q < mt * nt * kt
  PROVE  /\ mt > 0 /\ nt > 0 /\ kt > 0
         /\ q \div (nt * kt) \in 0 .. mt - 1
         /\ (q \div kt) % nt \in 0 .. nt - 1
         /\ q % kt \in 0 .. kt - 1
         /\ (q \div (nt * kt)) * nt + ((q \div kt) % nt) = q \div kt
<1>0. mt # 0 /\ nt # 0 /\ kt # 0
  OBVIOUS
<1> DEFINE b == q \div kt
           k == q % kt
           m == b \div nt
           n == b % nt
<1>1. b \in Nat /\ k \in 0 .. kt - 1 /\ q = kt * b + k
  BY <1>0, DivMod
<1>2. m \in Nat /\ n \in 0 .. nt - 1 /\ b = nt * m + n
  BY <1>0, <1>1, DivMod
<1> HIDE DEF b, k, m, n
<1>3. nt * kt \in Nat \ {0}
  BY <1>0
<1>4. kt * n + k \in 0 .. nt * kt - 1
  <2>1. n < nt /\ n \in Nat /\ k \in Nat /\ k <= kt - 1
    BY <1>1, <1>2
  <2>2. kt * n + kt <= kt * nt
    BY <2>1, ProductsCompare
  <2>3. kt * n \in Nat /\ kt * nt = nt * kt
    BY <2>1
  <2> QED
    BY <1>3, <2>1, <2>2, <2>3
<1>5. q = (nt * kt) * m + (kt * n + k)
  <2>1. kt * b = kt * (nt * m) + kt * n
    BY <1>1, <1>2
  <2>2. kt * (nt * m) = (nt * kt) * m
    BY <1>2
  <2> QED
    BY <1>1, <1>2, <2>1, <2>2
<1>6. q \div (nt * kt) = m
  BY <1>2, <1>3, <1>4, <1>5, DivOf
<1>7. m < mt
  <2> SUFFICES ASSUME mt <= m PROVE FALSE
    BY <1>2
  <2>1. (nt * kt) * mt <= (nt * kt) * m
    <3>1. CASE mt = m
      BY <1>2, <1>3, <3>1
    <3>2. CASE mt < m
      <4>1. (nt * kt) * mt + nt * kt <= (nt * kt) * m
        BY <1>2, <1>3, <3>2, ProductsCompare
      <4>2. (nt * kt) * mt \in Nat /\ (nt * kt) * m \in Nat
        BY <1>2, <1>3
      <4> QED
        BY <1>3, <4>1, <4>2
    <3> QED
      BY <1>2, <3>1, <3>2
  <2>2. (nt * kt) * mt = mt * nt * kt
    OBVIOUS
  <2>3. (nt * kt) * m \in Nat /\ mt * nt * kt \in Nat
    BY <1>2, <1>3
  <2> QED
    BY <1>4, <1>5, <2>1, <2>2, <2>3
<1>8. m * nt + n = b
  BY <1>2
<1>9. q \div kt = b /\ q % kt = k /\ (q \div kt) % nt = n
  BY DEF b, k, n
<1>10. mt > 0 /\ nt > 0 /\ kt > 0 /\ m \in 0 .. mt - 1
  BY <1>0, <1>2, <1>7
<1>11. (q \div (nt * kt)) * nt + ((q \div kt) % nt) = q \div kt
  BY <1>6, <1>8, <1>9
<1> QED
  BY <1>1, <1>2, <1>6, <1>9, <1>10, <1>11

\* Two blocks of the grid have different places.
LEMMA PlaceIsUnique ==
  ASSUME NEW nt \in Nat, NEW m1 \in Nat, NEW m2 \in Nat, NEW n1 \in 0 .. nt - 1, NEW n2 \in 0 .. nt - 1,
         m1 * nt + n1 = m2 * nt + n2
  PROVE  m1 = m2 /\ n1 = n2
<1>1. nt \in Nat \ {0} /\ nt * m1 + n1 = nt * m2 + n2
  OBVIOUS
<1> QED
  BY <1>1, DivUnique

\* A block of the grid has a place below the number of blocks.
LEMMA PlaceIsBounded ==
  ASSUME NEW mt \in Nat, NEW nt \in Nat, NEW m \in 0 .. mt - 1, NEW n \in 0 .. nt - 1
  PROVE  m * nt + n \in Nat /\ m * nt + n < mt * nt
<1>1. m \in Nat /\ m < mt /\ n \in Nat /\ n < nt
  OBVIOUS
<1>2. nt * m + nt <= nt * mt
  BY <1>1, ProductsCompare
<1>3. m * nt \in Nat /\ m * nt = nt * m /\ nt * mt = mt * nt
  BY <1>1
<1> QED
  BY <1>1, <1>2, <1>3

-----------------------------------------------------------------------------

Phases == {"idle", "submit", "wait"}
Results == {"none", "ok", "invalid", "unavailable", "error"}

\* Tiles and slots.
ATiles == [call : Nat, m : Int, k : Int]
BTiles == [w : Weights, n0 : Int, k0 : Int, stride : Nat, depth : Nat]
Slot == [a : ATiles \cup {<<>>}, b : BTiles \cup {<<>>},
         c : ((ATiles \cup {<<>>}) \X (BTiles \cup {<<>>})) \cup {<<>>}]

TypeOK ==
  /\ phase \in Phases /\ result \in Results
  /\ call \in Nat /\ weight \in Weights /\ height \in Heights /\ height \in Nat
  /\ first \in Nat /\ cursor \in Nat
  /\ slots \in [Paths -> Seq(Slot)]
  /\ DOMAIN inFlight = Paths
  /\ \A p \in Paths : \A s \in DOMAIN inFlight[p] :
       /\ s \in 1 .. Len(slots[p])
       /\ inFlight[p][s] \in {<<>>} \cup {<<b>> : b \in BTiles}
  /\ \A k \in DOMAIN bCache : bCache[k] \in BTiles
  /\ \A k \in DOMAIN resident : resident[k] \in BTiles
  /\ thrown \in BOOLEAN

\* What the constants make of a weight and a height, whatever the state.
PathFor(w, h) ==
  LET small == h <= SmallM /\ "small" \in Built
      deep == small /\ K(w) > TileK /\ "deep" \in Built
      wide == deep /\ N(w) >= WideN /\ "wide" \in Built
  IN IF wide THEN "wide" ELSE IF deep THEN "deep" ELSE IF small THEN "small" ELSE "plain"
TnOn(p) == IF p = "wide" THEN WideN ELSE TileN
TkOn(p) == IF p \in {"deep", "wide"} THEN DeepK ELSE TileK
KeyFor(w, p, t) ==
  [ptr |-> IF Kind(w) = "f32" THEN NoPtr ELSE Ptr(w),
   n0 |-> t.n * TnOn(p), k0 |-> t.k * TkOn(p),
   nc |-> Smaller(TnOn(p), N(w) - t.n * TnOn(p)), kc |-> Smaller(TkOn(p), K(w) - t.k * TkOn(p)),
   K |-> K(w)]
BTileFor(w, p, t) ==
  [w |-> w, n0 |-> t.n * TnOn(p), k0 |-> t.k * TkOn(p), stride |-> TnOn(p), depth |-> TkOn(p)]

\* The configuration that is not overridden: resident weights, no F32 weight
\* (the path of the benchmarks), and tensors that lie at addresses of their own.
Default ==
  /\ ResidentW
  /\ \A w \in Weights : Kind(w) # "f32"
  /\ \A v, w \in Weights : Kind(v) = "int8" /\ Kind(w) = "int8" /\ Ptr(v) = Ptr(w) => v = w

\* Where the call stands in its batch.
InBatch ==
  phase # "idle" =>
    /\ first < TileCount /\ cursor < BatchLen /\ BatchLen <= Len(slots[Path])
    /\ Kind(weight) = "other" => phase = "submit" /\ cursor = 0

\* The slots of the batch whose runs have been started and not waited for.
Started ==
  IF phase = "idle" THEN {} ELSE IF phase = "submit" THEN 1 .. cursor ELSE cursor + 1 .. BatchLen

\* A started slot holds its tile's operands until its run completes, and the
\* pair the run multiplied afterwards.
Operand(p, s) == IF inFlight[p][s] = <<>> THEN slots[p][s].b ELSE inFlight[p][s][1]
SlotsHoldTiles ==
  \A s \in Started :
    LET slot == slots[Path][s]
        t == Work(s - 1)
    IN IF s \in DOMAIN inFlight[Path]
       THEN slot.a = ATile(t) /\ Operand(Path, s) = BTile(t)
       ELSE slot.c = <<ATile(t), BTile(t)>>

\* A tile found in a cache is the tile its key is asked for.
Tiles == [m : Int, n : Int, k : Int]
CachesTell ==
  \A w \in Weights, h \in Heights, t \in Tiles :
    LET p == PathFor(w, h)
        cache == IF p \in {"deep", "wide"} THEN resident ELSE bCache
    IN Kind(w) = "int8" /\ KeyFor(w, p, t) \in DOMAIN cache =>
         cache[KeyFor(w, p, t)] = BTileFor(w, p, t)

\* The product after d tiles of the loop nest: the blocks before the one in
\* hand are complete, the later ones empty.
SummedAt(place, kt, d) == IF place < d \div kt THEN kt ELSE IF place = d \div kt THEN d % kt ELSE 0
Summed(x, d) == SummedAt(x[1] * Nt + x[2], Kt, d)
Products(x, n) ==
  [j \in 1 .. n |-> LET t == [m |-> x[1], n |-> x[2], k |-> j - 1] IN <<ATile(t), BTile(t)>>]
SummedSoFar ==
  phase # "idle" =>
    /\ DOMAIN C = (0 .. Mt - 1) \X (0 .. Nt - 1)
    /\ \A x \in DOMAIN C :
         C[x] = Products(x, Summed(x, IF phase = "wait" THEN first + cursor ELSE first))

BaseInv == TypeOK /\ InBatch
ExactInv == BaseInv /\ SlotsHoldTiles /\ CachesTell /\ SummedSoFar /\ ProductExact

\* Until a start has thrown, what is in flight belongs to the call in hand.
OnlyStarted ==
  ~thrown => \A p \in Paths : DOMAIN inFlight[p] \subseteq IF p = Path THEN Started ELSE {}

-----------------------------------------------------------------------------
(* Types.                                                                   *)

LEMMA Parameters ==
  /\ SmallM \in Nat \ {0} /\ TileM \in Nat \ {0} /\ TileN \in Nat \ {0} /\ WideN \in Nat \ {0}
  /\ TileK \in Nat \ {0} /\ DeepK \in Nat \ {0} /\ BatchSize \in Nat \ {0}
BY PipelineAssumption

LEMMA CountType == ASSUME NEW a \in Nat, NEW b \in Nat, NEW c \in Nat PROVE a * b * c \in Nat
OBVIOUS

LEMMA SmallerType ==
  ASSUME NEW a \in Int, NEW b \in Int
  PROVE  Smaller(a, b) \in Int /\ Smaller(a, b) <= a /\ Smaller(a, b) <= b
BY DEF Smaller

LEMMA BlocksType == \A size \in Nat, t \in Nat \ {0} : Blocks(size, t) \in Nat
<1> SUFFICES ASSUME NEW size \in Nat, NEW t \in Nat \ {0} PROVE Blocks(size, t) \in Nat
  OBVIOUS
<1>1. size + t - 1 \in Nat
  OBVIOUS
<1> QED
  BY <1>1, DivMod DEF Blocks

LEMMA SizesType ==
  ASSUME TypeOK
  PROVE  /\ N(weight) \in Nat /\ K(weight) \in Nat /\ Path \in Paths
         /\ Tm \in Nat \ {0} /\ Tn \in Nat \ {0} /\ Tk \in Nat \ {0}
         /\ Mt \in Nat /\ Nt \in Nat /\ Kt \in Nat /\ TileCount \in Nat
         /\ BatchLen \in Int /\ BatchLen <= TileCount - first
<1>1. N(weight) \in Nat /\ K(weight) \in Nat /\ height \in Nat
  BY PipelineAssumption DEF TypeOK
<1>2. Path \in Paths
  BY DEF Path, Paths
<1>3. Tm \in Nat \ {0} /\ Tn \in Nat \ {0} /\ Tk \in Nat \ {0}
  BY PipelineAssumption DEF Tm, Tn, Tk
<1>4. Mt \in Nat /\ Nt \in Nat /\ Kt \in Nat
  BY <1>1, <1>3, BlocksType DEF Mt, Nt, Kt
<1>5. TileCount \in Nat
  BY <1>4 DEF TileCount
<1>6. BatchLen \in Int /\ BatchLen <= TileCount - first
  BY <1>5, PipelineAssumption DEF TypeOK, BatchLen, Smaller
<1> QED
  BY <1>1, <1>2, <1>3, <1>4, <1>5, <1>6

LEMMA WorkIsTile ==
  ASSUME TypeOK, NEW q \in Nat, q < TileCount
  PROVE  /\ TileAt(q) \in [m : 0 .. Mt - 1, n : 0 .. Nt - 1, k : 0 .. Kt - 1]
         /\ Kt > 0 /\ TileAt(q).k = q % Kt
         /\ TileAt(q).m * Nt + TileAt(q).n = q \div Kt
<1>1. Mt \in Nat /\ Nt \in Nat /\ Kt \in Nat
  BY SizesType
<1>2. /\ Kt > 0
      /\ q \div (Nt * Kt) \in 0 .. Mt - 1
      /\ (q \div Kt) % Nt \in 0 .. Nt - 1
      /\ q % Kt \in 0 .. Kt - 1
  BY <1>1, TileIsInGrid DEF TileCount
<1>3. (q \div (Nt * Kt)) * Nt + ((q \div Kt) % Nt) = q \div Kt
  BY <1>1, TileIsInGrid DEF TileCount
<1> QED
  BY <1>2, <1>3 DEF TileAt

LEMMA TilesType ==
  ASSUME TypeOK, NEW t \in Tiles
  PROVE  ATile(t) \in ATiles /\ BTile(t) \in BTiles
<1>1. Tn \in Nat /\ Tk \in Nat /\ t.m \in Int /\ t.n \in Int /\ t.k \in Int
  BY SizesType DEF Tiles
<1>2. t.n * Tn \in Int /\ t.k * Tk \in Int
  BY <1>1
<1> QED
  BY <1>1, <1>2 DEF TypeOK, ATile, BTile, ATiles, BTiles

LEMMA GrownType ==
  ASSUME NEW s \in Seq(Slot), NEW n \in Int
  PROVE  /\ Grown(s, n) \in Seq(Slot)
         /\ Len(Grown(s, n)) >= n /\ Len(Grown(s, n)) >= Len(s)
         /\ \A i \in 1 .. Len(s) : Grown(s, n)[i] = s[i]
<1>1. Unwritten \in Slot
  BY DEF Unwritten, Slot
<1> DEFINE len == IF n > Len(s) THEN n ELSE Len(s)
<1>2. len \in Nat /\ len >= n /\ len >= Len(s)
  OBVIOUS
<1>3. Grown(s, n) = [i \in 1 .. len |-> IF i <= Len(s) THEN s[i] ELSE Unwritten]
  BY DEF Grown
<1> HIDE DEF len
<1>4. \A i \in 1 .. len : (IF i <= Len(s) THEN s[i] ELSE Unwritten) \in Slot
  BY <1>1, <1>2
<1>5. Grown(s, n) \in Seq(Slot) /\ Len(Grown(s, n)) = len
  BY <1>2, <1>3, <1>4
<1> QED
  BY <1>2, <1>3, <1>5

\* What packing and copying a tile does to the slots and the caches.
LEMMA StageStep ==
  ASSUME TypeOK, InBatch, phase = "submit",
         NEW b, Stage(Work(cursor), b)
  PROVE  /\ Work(cursor) \in [m : 0 .. Mt - 1, n : 0 .. Nt - 1, k : 0 .. Kt - 1]
         /\ b \in BTiles
         /\ slots' \in [Paths -> Seq(Slot)]
         /\ \A p \in Paths : Len(slots'[p]) = Len(slots[p])
         /\ \A p \in Paths, s \in Nat : p # Path \/ s # cursor + 1 => slots'[p][s] = slots[p][s]
         /\ slots'[Path][cursor + 1].a = ATile(Work(cursor))
         /\ ~UsesResident => slots'[Path][cursor + 1].b = b
         /\ \A k \in DOMAIN bCache' : bCache'[k] \in BTiles
         /\ \A k \in DOMAIN resident' : resident'[k] \in BTiles
<1> DEFINE t == Work(cursor)
           i == cursor + 1
<1>0. Path \in Paths /\ Mt \in Nat /\ Nt \in Nat /\ Kt \in Nat /\ TileCount \in Nat
  BY SizesType
<1>1. cursor < BatchLen /\ BatchLen <= Len(slots[Path]) /\ BatchLen \in Int
  BY SizesType DEF InBatch
<1>2. t \in [m : 0 .. Mt - 1, n : 0 .. Nt - 1, k : 0 .. Kt - 1]
  <2>1. first + cursor \in Nat /\ first + cursor < TileCount
    BY <1>1, SizesType DEF TypeOK
  <2> QED
    BY <2>1, WorkIsTile DEF Work
<1>3. t \in Tiles
  BY <1>0, <1>2 DEF Tiles
<1> HIDE DEF t
<1>4. ATile(t) \in ATiles /\ BTile(t) \in BTiles
  BY <1>3, TilesType
<1>5. b \in BTiles
  BY <1>4 DEF Stage, Lookup, TypeOK, t
<1>6. i \in 1 .. Len(slots[Path]) /\ slots[Path] \in Seq(Slot)
  BY <1>0, <1>1 DEF TypeOK
<1> DEFINE old == slots[Path][i]
           new == IF UsesResident THEN [old EXCEPT !.a = ATile(t)]
                  ELSE [old EXCEPT !.a = ATile(t), !.b = b]
<1>7. new \in Slot /\ new.a = ATile(t) /\ (~UsesResident => new.b = b)
  <2>1. old \in Slot
    BY <1>6
  <2> HIDE DEF old
  <2> QED
    BY <1>4, <1>5, <2>1 DEF Slot
<1>8. slots' = [slots EXCEPT ![Path] = [@ EXCEPT ![i] = new]]
  <2>1. CASE UsesResident
    BY <2>1 DEF Stage, t
  <2>2. CASE ~UsesResident
    BY <2>2 DEF Stage, t
  <2> QED
    BY <2>1, <2>2
<1> HIDE DEF new, old, i
<1>9. [slots[Path] EXCEPT ![i] = new] \in Seq(Slot) /\ Len([slots[Path] EXCEPT ![i] = new]) = Len(slots[Path])
  BY <1>6, <1>7
<1>10. slots' \in [Paths -> Seq(Slot)] /\ \A p \in Paths : Len(slots'[p]) = Len(slots[p])
  BY <1>0, <1>8, <1>9 DEF TypeOK
<1>11. slots'[Path][i] = new
  BY <1>0, <1>6, <1>8 DEF TypeOK
<1>12. \A p \in Paths, s \in Nat : p # Path \/ s # i => slots'[p][s] = slots[p][s]
  BY <1>0, <1>6, <1>8 DEF TypeOK
<1>13. /\ \A k \in DOMAIN bCache' : bCache'[k] \in BTiles
       /\ \A k \in DOMAIN resident' : resident'[k] \in BTiles
  <2>1. \/ bCache' = bCache /\ \E k : resident' = Added(resident, k, b)
        \/ resident' = resident /\ \E k : bCache' = Added(bCache, k, b)
    BY DEF Stage
  <2> QED
    BY <1>5, <2>1 DEF Added, TypeOK
<1> QED
  BY <1>2, <1>5, <1>7, <1>10, <1>11, <1>12, <1>13 DEF i, t

\* While the call stays, so does all that is derived from it.
LEMMA SameCall ==
  ASSUME UNCHANGED callVars
  PROVE  /\ Path' = Path /\ Tn' = Tn /\ Tk' = Tk /\ UsesResident' = UsesResident
         /\ Mt' = Mt /\ Nt' = Nt /\ Kt' = Kt /\ TileCount' = TileCount
         /\ \A t : ATile(t)' = ATile(t) /\ BTile(t)' = BTile(t)
         /\ \A q : TileAt(q)' = TileAt(q)
         /\ first' = first => BatchLen' = BatchLen /\ \A i : Work(i)' = Work(i)
BY DEF callVars, Path, Tm, Tn, Tk, UsesResident, Mt, Nt, Kt, TileCount, ATile, BTile, TileAt,
       BatchLen, Work

LEMMA InitBase == Init => BaseInv
<1> SUFFICES ASSUME Init PROVE BaseInv
  OBVIOUS
<1>1. weight \in Weights /\ height \in Heights
  BY PipelineAssumption DEF Init
<1>2. slots \in [Paths -> Seq(Slot)]
  BY DEF Init
<1>3. DOMAIN inFlight = Paths /\ \A p \in Paths : DOMAIN inFlight[p] = {}
  BY DEF Init, Empty
<1>4. DOMAIN bCache = {} /\ DOMAIN resident = {}
  BY DEF Init, Empty
<1>5. height \in Nat
  BY <1>1, PipelineAssumption
<1>6. TypeOK
  BY <1>1, <1>2, <1>3, <1>4, <1>5 DEF Init, TypeOK, Phases, Results
<1>7. InBatch
  BY DEF Init, InBatch
<1> QED
  BY <1>6, <1>7 DEF BaseInv

\* The batch in hand is not empty while a tile is left.
LEMMA BatchIsNotEmpty ==
  ASSUME NEW count \in Nat, NEW start \in Nat, start < count
  PROVE  Smaller(BatchSize, count - start) \in Nat \ {0}
BY Parameters DEF Smaller

LEMMA CallBase == ASSUME BaseInv, Call PROVE BaseInv' /\ (phase' # "idle" => phase' = "submit" /\ first' = 0 /\ cursor' = 0)
<1> USE DEF BaseInv
<1>1. /\ weight' \in Weights /\ height' \in Heights /\ height' \in Nat /\ call' \in Nat /\ first' = 0 /\ cursor' = 0
      /\ phase' \in Phases /\ result' \in Results
      /\ UNCHANGED <<inFlight, bCache, resident, thrown>>
      /\ phase' # "idle" => phase' = "submit" /\ TileCount' # 0
  <2>1. /\ weight' \in Weights /\ height' \in Heights /\ first' = 0 /\ cursor' = 0
        /\ call' = call + 1 /\ UNCHANGED <<inFlight, bCache, resident, thrown>>
    BY Zenon DEF Call
  <2>2. /\ (phase' = "idle" /\ result' = "ok") \/ (phase' = "submit" /\ result' = result)
        /\ phase' # "idle" => phase' = "submit" /\ TileCount' # 0
    BY Zenon DEF Call
  <2>3. call \in Nat /\ result \in Results
    BY DEF TypeOK
  <2>4. height' \in Nat /\ call' \in Nat
    BY <2>1, <2>3, PipelineAssumption
  <2>5. phase' \in Phases /\ result' \in Results
    BY <2>2, <2>3 DEF Phases, Results
  <2> QED
    BY <2>1, <2>2, <2>4, <2>5
<1>2. slots' = [slots EXCEPT ![Path'] = Grown(slots[Path'], BatchLen')] /\ Path' \in Paths
  <2>1. Path' \in Paths
    BY DEF Path, Paths
  <2>2. slots' = [slots EXCEPT ![Path'] = Grown(@, BatchLen')]
    BY DEF Call
  <2> QED
    BY <2>1, <2>2 DEF TypeOK
<1>3. BatchLen' \in Int /\ TileCount' \in Nat
  <2>1. N(weight') \in Nat /\ K(weight') \in Nat
    BY <1>1, PipelineAssumption
  <2>2. Tm' \in Nat \ {0} /\ Tn' \in Nat \ {0} /\ Tk' \in Nat \ {0}
    BY PipelineAssumption DEF Tm, Tn, Tk
  <2>3. Mt' \in Nat /\ Nt' \in Nat /\ Kt' \in Nat
    BY <1>1, <2>1, <2>2, BlocksType DEF Mt, Nt, Kt
  <2>4. TileCount' \in Nat
    <3>1. TileCount' = Mt' * Nt' * Kt'
      BY DEF TileCount
    <3>2. \A a, b, c \in Nat : a * b * c \in Nat
      BY CountType
    <3> QED
      BY <2>3, <3>1, <3>2
  <2>5. BatchLen' = Smaller(BatchSize, TileCount' - first')
    BY DEF BatchLen
  <2>6. TileCount' - first' \in Int /\ BatchSize \in Int
    BY <1>1, <2>4, Parameters
  <2> QED
    BY <2>4, <2>5, <2>6, SmallerType
<1>4. /\ Grown(slots[Path'], BatchLen') \in Seq(Slot)
      /\ Len(Grown(slots[Path'], BatchLen')) >= BatchLen'
      /\ Len(Grown(slots[Path'], BatchLen')) >= Len(slots[Path'])
  BY <1>2, <1>3, GrownType DEF TypeOK
<1>5. /\ slots' \in [Paths -> Seq(Slot)] /\ Len(slots'[Path']) >= BatchLen'
      /\ \A p \in Paths : Len(slots'[p]) >= Len(slots[p])
  BY <1>2, <1>4 DEF TypeOK
<1>6. \A p \in Paths : \A s \in DOMAIN inFlight[p] : s \in 1 .. Len(slots'[p])
  <2> SUFFICES ASSUME NEW p \in Paths, NEW s \in DOMAIN inFlight[p] PROVE s \in 1 .. Len(slots'[p])
    OBVIOUS
  <2>1. s \in 1 .. Len(slots[p]) /\ Len(slots'[p]) >= Len(slots[p])
    BY <1>5 DEF TypeOK
  <2>2. Len(slots[p]) \in Nat /\ Len(slots'[p]) \in Nat
    BY <1>5 DEF TypeOK
  <2> QED
    BY <2>1, <2>2
<1>7. TypeOK'
  BY <1>1, <1>5, <1>6 DEF TypeOK
<1>8. InBatch'
  <2> SUFFICES ASSUME phase' # "idle" PROVE InBatch'
    BY DEF InBatch
  <2>1. phase' = "submit" /\ first' < TileCount'
    BY <1>1, <1>3
  <2>2. cursor' < BatchLen'
    BY <1>1, <1>3, <2>1, BatchIsNotEmpty DEF BatchLen
  <2> QED
    BY <1>1, <1>5, <2>1, <2>2 DEF InBatch
<1> QED
  BY <1>1, <1>7, <1>8

LEMMA SubmitBase ==
  ASSUME BaseInv, Submit
  PROVE  /\ BaseInv'
         /\ phase' = "submit" => cursor' = cursor + 1
         /\ phase' = "wait" => cursor' = 0 /\ BatchLen = cursor + 1
<1> USE DEF BaseInv
<1>1. PICK b : /\ b \in {Lookup(IF UsesResident THEN resident ELSE bCache, Work(cursor))}
               /\ Stage(Work(cursor), b)
               /\ inFlight' = [inFlight EXCEPT ![Path] =
                         Added(@, cursor + 1, IF UsesResident THEN <<b>> ELSE <<>>)]
  BY DEF Submit
<1>2. /\ phase = "submit" /\ Kind(weight) # "other" /\ UNCHANGED <<result, first, C, thrown>>
      /\ UNCHANGED callVars
      /\ \/ cursor + 1 < BatchLen /\ cursor' = cursor + 1 /\ phase' = phase
         \/ ~(cursor + 1 < BatchLen) /\ cursor' = 0 /\ phase' = "wait"
  BY DEF Submit
<1>3. b \in BTiles /\ slots' \in [Paths -> Seq(Slot)] /\ \A p \in Paths : Len(slots'[p]) = Len(slots[p])
  BY <1>1, <1>2, StageStep
<1>4. \A k \in DOMAIN bCache' : bCache'[k] \in BTiles
  BY <1>1, <1>2, StageStep
<1>5. \A k \in DOMAIN resident' : resident'[k] \in BTiles
  BY <1>1, <1>2, StageStep
<1>6. cursor < BatchLen /\ BatchLen <= Len(slots[Path]) /\ BatchLen \in Int /\ Path \in Paths
  BY <1>2, SizesType DEF InBatch
<1>7. DOMAIN inFlight' = Paths /\
      \A p \in Paths : \A s \in DOMAIN inFlight'[p] :
        /\ s \in 1 .. Len(slots'[p])
        /\ inFlight'[p][s] \in {<<>>} \cup {<<x>> : x \in BTiles}
  <2> SUFFICES ASSUME NEW p \in Paths, NEW s \in DOMAIN inFlight'[p]
               PROVE  /\ s \in 1 .. Len(slots[p])
                      /\ inFlight'[p][s] \in {<<>>} \cup {<<x>> : x \in BTiles}
    BY <1>1, <1>3 DEF TypeOK
  <2>1. CASE p = Path /\ s = cursor + 1
    <3>1. s \in 1 .. Len(slots[p])
      BY <1>6, <2>1 DEF TypeOK
    <3>2. inFlight'[p][s] = IF UsesResident THEN <<b>> ELSE <<>>
      BY <1>1, <1>6, <2>1 DEF TypeOK, Added
    <3> QED
      BY <1>3, <3>1, <3>2
  <2>2. CASE ~(p = Path /\ s = cursor + 1)
    <3>1. s \in DOMAIN inFlight[p] /\ inFlight'[p][s] = inFlight[p][s]
      BY <1>1, <1>6, <2>2 DEF TypeOK, Added
    <3> QED
      BY <3>1 DEF TypeOK
  <2> QED
    BY <2>1, <2>2
<1>8. TypeOK'
  BY <1>2, <1>3, <1>4, <1>5, <1>7 DEF TypeOK, Phases, callVars
<1>9. /\ InBatch'
      /\ phase' = "wait" => BatchLen = cursor + 1
  <2>1. Path' = Path /\ TileCount' = TileCount /\ BatchLen' = BatchLen
    BY <1>2, SameCall
  <2> QED
    BY <1>2, <1>3, <1>6, <2>1 DEF InBatch, TypeOK, callVars
<1> QED
  BY <1>2, <1>8, <1>9

LEMMA SubmitThrowsBase == ASSUME BaseInv, SubmitThrows PROVE BaseInv'
<1> USE DEF BaseInv
<1>1. PICK b : Stage(Work(cursor), b)
  BY DEF SubmitThrows
<1>2. /\ phase = "submit" /\ phase' = "idle" /\ result' = "error" /\ thrown' = TRUE
      /\ UNCHANGED <<first, cursor, inFlight, C>> /\ UNCHANGED callVars
  BY DEF SubmitThrows
<1>3. slots' \in [Paths -> Seq(Slot)] /\ \A p \in Paths : Len(slots'[p]) = Len(slots[p])
  BY <1>1, <1>2, StageStep
<1>4. \A k \in DOMAIN bCache' : bCache'[k] \in BTiles
  BY <1>1, <1>2, StageStep
<1>5. \A k \in DOMAIN resident' : resident'[k] \in BTiles
  BY <1>1, <1>2, StageStep
<1>6. TypeOK'
  BY <1>2, <1>3, <1>4, <1>5 DEF TypeOK, Phases, Results, callVars
<1>7. InBatch'
  BY <1>2 DEF InBatch
<1> QED
  BY <1>6, <1>7

LEMMA CallRejectedBase == ASSUME BaseInv, CallRejected PROVE BaseInv'
<1>1. TypeOK'
  BY DEF BaseInv, CallRejected, TypeOK, Phases, Results
<1>2. InBatch'
  BY DEF CallRejected, InBatch
<1> QED
  BY <1>1, <1>2 DEF BaseInv

LEMMA UnsupportedBase == ASSUME BaseInv, Unsupported PROVE BaseInv'
<1>1. TypeOK'
  BY DEF BaseInv, Unsupported, TypeOK, Phases, Results, callVars
<1>2. InBatch'
  BY DEF Unsupported, InBatch
<1> QED
  BY <1>1, <1>2 DEF BaseInv

\* What a wait does to the batch: the next member, the next batch, or the end.
LEMMA WaitStep ==
  ASSUME BaseInv, Wait
  PROVE  /\ phase = "wait" /\ UNCHANGED callVars /\ UNCHANGED <<inFlight, bCache, resident, thrown>>
         /\ cursor + 1 \notin DOMAIN inFlight[Path]
         /\ \/ /\ cursor + 1 < BatchLen /\ cursor' = cursor + 1
               /\ UNCHANGED <<phase, result, first, slots>>
            \/ /\ cursor + 1 = BatchLen /\ cursor' = 0 /\ first' = first + BatchLen
               /\ first' < TileCount /\ phase' = "submit" /\ result' = result
               /\ slots' = [slots EXCEPT ![Path] = Grown(slots[Path], Smaller(BatchSize, TileCount - first'))]
            \/ /\ cursor + 1 = BatchLen /\ cursor' = 0 /\ first' = first + BatchLen
               /\ first' = TileCount /\ phase' = "idle" /\ result' = "ok" /\ slots' = slots
<1> USE DEF BaseInv
<1>1. /\ phase = "wait" /\ UNCHANGED callVars /\ UNCHANGED <<inFlight, bCache, resident, thrown>>
      /\ cursor + 1 \notin DOMAIN inFlight[Path]
  BY DEF Wait, Completed
<1>2. cursor < BatchLen /\ BatchLen \in Int /\ BatchLen <= TileCount - first /\ cursor \in Nat /\ first \in Nat
      /\ TileCount \in Nat /\ Path \in Paths
  BY <1>1, SizesType DEF InBatch, TypeOK
<1>3. CASE cursor + 1 < BatchLen
  BY <1>1, <1>3 DEF Wait
<1>4. CASE ~(cursor + 1 < BatchLen)
  <2>1. cursor + 1 = BatchLen /\ cursor' = 0 /\ first' = first + BatchLen
    BY <1>2, <1>4 DEF Wait
  <2>2. CASE first' < TileCount
    <3>1. phase' = "submit" /\ result' = result
          /\ slots' = [slots EXCEPT ![Path] = Grown(@, Smaller(BatchSize, TileCount - first'))]
      BY <1>4, <2>2 DEF Wait
    <3> QED
      BY <1>1, <1>2, <2>1, <2>2, <3>1 DEF TypeOK
  <2>3. CASE ~(first' < TileCount)
    <3>1. first' = TileCount
      BY <1>2, <2>1, <2>3
    <3>2. phase' = "idle" /\ result' = "ok" /\ slots' = slots
      BY <1>4, <2>3 DEF Wait
    <3> QED
      BY <1>1, <2>1, <3>1, <3>2
  <2> QED
    BY <2>2, <2>3
<1> QED
  BY <1>3, <1>4

LEMMA WaitBase == ASSUME BaseInv, Wait PROVE BaseInv'
<1> USE DEF BaseInv
<1>1. /\ phase = "wait" /\ UNCHANGED callVars /\ UNCHANGED <<inFlight, bCache, resident, thrown>>
      /\ \/ /\ cursor + 1 < BatchLen /\ cursor' = cursor + 1
            /\ UNCHANGED <<phase, result, first, slots>>
         \/ /\ cursor + 1 = BatchLen /\ cursor' = 0 /\ first' = first + BatchLen
            /\ first' < TileCount /\ phase' = "submit" /\ result' = result
            /\ slots' = [slots EXCEPT ![Path] = Grown(slots[Path], Smaller(BatchSize, TileCount - first'))]
         \/ /\ cursor + 1 = BatchLen /\ cursor' = 0 /\ first' = first + BatchLen
            /\ first' = TileCount /\ phase' = "idle" /\ result' = "ok" /\ slots' = slots
  BY WaitStep
<1>2. cursor < BatchLen /\ BatchLen \in Int /\ BatchLen <= TileCount - first /\ cursor \in Nat /\ first \in Nat
      /\ TileCount \in Nat /\ Path \in Paths /\ BatchLen <= Len(slots[Path]) /\ Kind(weight) # "other"
  BY <1>1, SizesType DEF InBatch, TypeOK
<1>3. Path' = Path /\ TileCount' = TileCount /\ (first' = first => BatchLen' = BatchLen)
  BY <1>1, SameCall
<1>4. CASE cursor + 1 < BatchLen /\ cursor' = cursor + 1 /\ UNCHANGED <<phase, result, first, slots>>
  <2>1. TypeOK'
    BY <1>1, <1>4 DEF TypeOK, callVars
  <2>2. InBatch'
    BY <1>1, <1>2, <1>3, <1>4 DEF InBatch, callVars
  <2> QED
    BY <2>1, <2>2
<1>5. CASE /\ cursor + 1 = BatchLen /\ cursor' = 0 /\ first' = first + BatchLen
           /\ first' < TileCount /\ phase' = "submit" /\ result' = result
           /\ slots' = [slots EXCEPT ![Path] = Grown(slots[Path], Smaller(BatchSize, TileCount - first'))]
  <2>1. first' \in Nat
    BY <1>2, <1>5
  <2> DEFINE n == Smaller(BatchSize, TileCount - first')
  <2>2. n \in Nat \ {0}
    BY <1>2, <1>5, <2>1, BatchIsNotEmpty
  <2>3. BatchLen' = n
    BY <1>3 DEF BatchLen
  <2> HIDE DEF n
  <2>4. /\ Grown(slots[Path], n) \in Seq(Slot) /\ Len(Grown(slots[Path], n)) >= n
        /\ Len(Grown(slots[Path], n)) >= Len(slots[Path])
    BY <1>2, <2>2, GrownType DEF TypeOK
  <2>5. slots' \in [Paths -> Seq(Slot)] /\ Len(slots'[Path]) >= n
        /\ \A p \in Paths : Len(slots'[p]) >= Len(slots[p])
    BY <1>2, <1>5, <2>4 DEF TypeOK, n
  <2>6. \A p \in Paths : \A s \in DOMAIN inFlight[p] : s \in 1 .. Len(slots'[p])
    <3> SUFFICES ASSUME NEW p \in Paths, NEW s \in DOMAIN inFlight[p] PROVE s \in 1 .. Len(slots'[p])
      OBVIOUS
    <3>1. s \in 1 .. Len(slots[p]) /\ Len(slots'[p]) >= Len(slots[p])
      BY <2>5 DEF TypeOK
    <3>2. Len(slots[p]) \in Nat /\ Len(slots'[p]) \in Nat
      BY <2>5 DEF TypeOK
    <3> QED
      BY <3>1, <3>2
  <2>7. TypeOK'
    BY <1>1, <1>5, <2>1, <2>5, <2>6 DEF TypeOK, Phases, callVars
  <2>8. InBatch'
    <3>1. first' < TileCount' /\ cursor' < BatchLen' /\ BatchLen' <= Len(slots'[Path']) /\ phase' # "wait"
      <4>1. Len(slots'[Path]) \in Nat
        BY <1>2, <2>5
      <4> QED
        BY <1>3, <1>5, <2>2, <2>3, <2>5, <4>1
    <3> QED
      BY <1>1, <1>2, <3>1 DEF InBatch, callVars
  <2> QED
    BY <2>7, <2>8
<1>6. CASE /\ cursor + 1 = BatchLen /\ cursor' = 0 /\ first' = first + BatchLen
           /\ first' = TileCount /\ phase' = "idle" /\ result' = "ok" /\ slots' = slots
  <2>1. TypeOK'
    BY <1>1, <1>2, <1>6 DEF TypeOK, Phases, Results, callVars
  <2>2. InBatch'
    BY <1>6 DEF InBatch
  <2> QED
    BY <2>1, <2>2
<1> QED
  BY <1>1, <1>4, <1>5, <1>6

\* A completion writes the output of its slot and nothing else.
LEMMA DeviceStep ==
  ASSUME TypeOK, NEW p \in Paths, NEW s \in DOMAIN inFlight[p], DeviceCompletes(p, s)
  PROVE  /\ slots' \in [Paths -> Seq(Slot)]
         /\ \A q \in Paths : Len(slots'[q]) = Len(slots[q])
         /\ \A q \in Paths : \A i \in 1 .. Len(slots[q]) :
              slots'[q][i].a = slots[q][i].a /\ slots'[q][i].b = slots[q][i].b
         /\ \A q \in Paths : \A i \in 1 .. Len(slots[q]) :
              q # p \/ i # s => slots'[q][i] = slots[q][i]
         /\ slots'[p][s].c = <<slots[p][s].a, Operand(p, s)>>
         /\ DOMAIN inFlight' = Paths
         /\ \A q \in Paths : DOMAIN inFlight'[q] = IF q = p THEN DOMAIN inFlight[p] \ {s} ELSE DOMAIN inFlight[q]
         /\ \A q \in Paths : \A i \in DOMAIN inFlight'[q] : inFlight'[q][i] = inFlight[q][i]
<1> DEFINE b == Operand(p, s)
           old == slots[p][s]
           new == [old EXCEPT !.c = <<old.a, b>>]
<1>1. slots' = [slots EXCEPT ![p][s].c = <<old.a, b>>]
  BY DEF DeviceCompletes, Operand
<1>2. s \in 1 .. Len(slots[p]) /\ slots[p] \in Seq(Slot)
  BY DEF TypeOK
<1>3. old \in Slot
  BY <1>2
<1>4. b \in BTiles \cup {<<>>}
  <2>1. inFlight[p][s] \in {<<>>} \cup {<<x>> : x \in BTiles}
    BY DEF TypeOK
  <2>2. CASE inFlight[p][s] = <<>>
    BY <1>3, <2>2 DEF Operand, Slot
  <2>3. CASE inFlight[p][s] # <<>>
    <3>1. PICK x \in BTiles : inFlight[p][s] = <<x>>
      BY <2>1, <2>3
    <3> QED
      BY <2>3, <3>1 DEF Operand
  <2> QED
    BY <2>2, <2>3
<1>5. slots' = [slots EXCEPT ![p] = [slots[p] EXCEPT ![s] = new]]
  BY <1>1 DEF TypeOK
<1> HIDE DEF b, old
<1>6. /\ new \in Slot /\ new.a = old.a /\ new.b = old.b /\ new.c = <<old.a, b>>
  BY <1>3, <1>4 DEF Slot
<1> HIDE DEF new
<1>7. [slots[p] EXCEPT ![s] = new] \in Seq(Slot) /\ Len([slots[p] EXCEPT ![s] = new]) = Len(slots[p])
  BY <1>2, <1>6
<1>8. slots' \in [Paths -> Seq(Slot)] /\ \A q \in Paths : Len(slots'[q]) = Len(slots[q])
  BY <1>5, <1>7 DEF TypeOK
<1>9. slots'[p][s] = new
  BY <1>2, <1>5 DEF TypeOK
<1>10. \A q \in Paths : \A i \in 1 .. Len(slots[q]) : q # p \/ i # s => slots'[q][i] = slots[q][i]
  BY <1>2, <1>5 DEF TypeOK
<1>11. \A q \in Paths : \A i \in 1 .. Len(slots[q]) :
         slots'[q][i].a = slots[q][i].a /\ slots'[q][i].b = slots[q][i].b
  BY <1>6, <1>9, <1>10 DEF old
<1>12. inFlight' = [inFlight EXCEPT ![p] = [x \in DOMAIN inFlight[p] \ {s} |-> inFlight[p][x]]]
  BY DEF DeviceCompletes, TypeOK
<1>13. /\ DOMAIN inFlight' = Paths
       /\ \A q \in Paths : DOMAIN inFlight'[q] = IF q = p THEN DOMAIN inFlight[p] \ {s} ELSE DOMAIN inFlight[q]
       /\ \A q \in Paths : \A i \in DOMAIN inFlight'[q] : inFlight'[q][i] = inFlight[q][i]
  BY <1>12 DEF TypeOK
<1>14. slots'[p][s].c = <<slots[p][s].a, Operand(p, s)>>
  BY <1>6, <1>9 DEF old, b
<1> QED
  BY <1>8, <1>10, <1>11, <1>13, <1>14

LEMMA DeviceBase ==
  ASSUME BaseInv, NEW p \in Paths, NEW s \in DOMAIN inFlight[p], DeviceCompletes(p, s)
  PROVE  BaseInv'
<1> USE DEF BaseInv
<1>1. UNCHANGED <<phase, result, first, cursor, bCache, resident, C, thrown>> /\ UNCHANGED callVars
  BY DEF DeviceCompletes
<1>2. slots' \in [Paths -> Seq(Slot)] /\ \A q \in Paths : Len(slots'[q]) = Len(slots[q])
  BY DeviceStep
<1>3. DOMAIN inFlight' = Paths
  BY DeviceStep
<1>4. \A q \in Paths : \A i \in DOMAIN inFlight'[q] :
         i \in DOMAIN inFlight[q] /\ inFlight'[q][i] = inFlight[q][i]
  BY DeviceStep
<1>5. TypeOK'
  BY <1>1, <1>2, <1>3, <1>4 DEF TypeOK, callVars
<1>6. InBatch'
  <2>1. Path' = Path /\ TileCount' = TileCount /\ BatchLen' = BatchLen /\ Path \in Paths
    BY <1>1, SameCall, SizesType
  <2> QED
    BY <1>1, <1>2, <2>1 DEF InBatch, callVars
<1> QED
  BY <1>5, <1>6

LEMMA StutterBase == ASSUME BaseInv, UNCHANGED vars PROVE BaseInv'
<1>1. TypeOK'
  BY DEF BaseInv, TypeOK, vars, callVars
<1>2. InBatch'
  <2>1. Path' = Path /\ TileCount' = TileCount /\ BatchLen' = BatchLen
    BY SameCall DEF vars
  <2> QED
    BY <2>1 DEF BaseInv, InBatch, vars, callVars
<1> QED
  BY <1>1, <1>2 DEF BaseInv

LEMMA NextBase == BaseInv /\ [Next]_vars => BaseInv'
<1> SUFFICES ASSUME BaseInv, [Next]_vars PROVE BaseInv'
  OBVIOUS
<1>1. CASE Next
  BY <1>1, CallBase, CallRejectedBase, SubmitBase, SubmitThrowsBase, UnsupportedBase, WaitBase, DeviceBase
     DEF Next, Host, Device
<1>2. CASE UNCHANGED vars
  BY <1>2, StutterBase
<1> QED
  BY <1>1, <1>2

THEOREM AlwaysBase == Spec => []BaseInv
BY InitBase, NextBase, PTL DEF Spec

-----------------------------------------------------------------------------
(* The operands of a run in flight.                                         *)

\* A start adds the run of the member in hand.
LEMMA SubmitFlight ==
  ASSUME BaseInv, Submit
  PROVE  /\ DOMAIN inFlight' = Paths
         /\ \A q \in Paths : DOMAIN inFlight'[q] = IF q = Path THEN DOMAIN inFlight[Path] \cup {cursor + 1}
                                                   ELSE DOMAIN inFlight[q]
<1>1. PICK b : inFlight' = [inFlight EXCEPT ![Path] =
                         Added(inFlight[Path], cursor + 1, IF UsesResident THEN <<b>> ELSE <<>>)]
  BY DEF Submit, BaseInv, TypeOK
<1>2. Path \in Paths
  BY SizesType DEF BaseInv
<1> QED
  BY <1>1, <1>2 DEF BaseInv, TypeOK, Added

LEMMA NextFlight == BaseInv /\ OnlyStarted /\ [Next]_vars => OnlyStarted'
<1> SUFFICES ASSUME BaseInv, OnlyStarted, [Next]_vars, ~thrown' PROVE OnlyStarted'
  BY DEF OnlyStarted
<1>0. ~thrown
  BY DEF Next, Host, Device, CallRejected, Call, Submit, SubmitThrows, Unsupported, Wait, DeviceCompletes, vars, TypeOK, BaseInv
<1>1. \A p \in Paths : DOMAIN inFlight[p] \subseteq IF p = Path THEN Started ELSE {}
  BY <1>0 DEF OnlyStarted
<1> SUFFICES ASSUME NEW p \in Paths PROVE DOMAIN inFlight'[p] \subseteq IF p = Path' THEN Started' ELSE {}
  BY DEF OnlyStarted
<1>2. CASE CallRejected
  <2>1. phase' = phase /\ inFlight' = inFlight /\ phase = "idle"
    BY <1>2 DEF CallRejected
  <2>2. DOMAIN inFlight[p] = {}
    BY <1>1, <2>1 DEF Started
  <2> QED
    BY <2>1, <2>2
<1>3. CASE Call
  <2>1. inFlight' = inFlight /\ phase = "idle"
    BY <1>3 DEF Call
  <2>2. DOMAIN inFlight[p] = {}
    BY <1>1, <2>1 DEF Started
  <2> QED
    BY <2>1, <2>2
<1>4. CASE Submit
  <2>1. DOMAIN inFlight'[p] = IF p = Path THEN DOMAIN inFlight[Path] \cup {cursor + 1} ELSE DOMAIN inFlight[p]
    BY <1>4, SubmitFlight
  <2>2. phase = "submit" /\ UNCHANGED callVars /\ first' = first
    BY <1>4 DEF Submit
  <2>3. Path' = Path /\ BatchLen' = BatchLen
    BY <2>2, SameCall
  <2>4. \/ phase' = "submit" /\ cursor' = cursor + 1
        \/ phase' = "wait" /\ cursor' = 0 /\ BatchLen = cursor + 1
    BY <1>4, <2>2, SubmitBase DEF Submit
  <2>5. cursor \in Nat /\ Started = 1 .. cursor
    BY <2>2 DEF BaseInv, TypeOK, Started
  <2>6. Started' = 1 .. cursor + 1
    BY <2>3, <2>4, <2>5 DEF Started
  <2> QED
    BY <1>1, <2>1, <2>3, <2>5, <2>6
<1>5. CASE SubmitThrows
  BY <1>5 DEF SubmitThrows
<1>6. CASE Unsupported
  <2>1. phase = "submit" /\ phase' = "idle" /\ cursor = 0 /\ inFlight' = inFlight
    BY <1>6 DEF Unsupported, BaseInv, InBatch
  <2> QED
    BY <1>1, <2>1 DEF Started
<1>7. CASE Wait
  <2>1. /\ phase = "wait" /\ UNCHANGED callVars /\ inFlight' = inFlight
        /\ cursor + 1 \notin DOMAIN inFlight[Path]
        /\ \/ phase' = "wait" /\ cursor' = cursor + 1 /\ first' = first
           \/ phase' \in {"submit", "idle"} /\ cursor' = 0 /\ cursor + 1 = BatchLen
    BY <1>7, WaitStep
  <2>2. Path' = Path /\ (first' = first => BatchLen' = BatchLen)
    BY <2>1, SameCall
  <2>3. DOMAIN inFlight[p] \subseteq IF p = Path THEN cursor + 2 .. BatchLen ELSE {}
    BY <1>1, <2>1, SizesType DEF Started, BaseInv, TypeOK
  <2>4. CASE phase' = "wait" /\ cursor' = cursor + 1 /\ first' = first
    BY <2>1, <2>2, <2>3, <2>4, SizesType DEF Started, BaseInv, TypeOK
  <2>5. CASE phase' \in {"submit", "idle"} /\ cursor' = 0 /\ cursor + 1 = BatchLen
    <3>1. DOMAIN inFlight[p] = {}
      BY <2>3, <2>5, SizesType DEF BaseInv, TypeOK
    <3> QED
      BY <2>1, <3>1
  <2> QED
    BY <2>1, <2>4, <2>5
<1>8. CASE Device
  <2>0. PICK q \in Paths : \E s \in DOMAIN inFlight[q] : DeviceCompletes(q, s)
    BY <1>8 DEF Device
  <2>1. PICK s \in DOMAIN inFlight[q] : DeviceCompletes(q, s)
    BY <2>0
  <2>2. DOMAIN inFlight'[p] \subseteq DOMAIN inFlight[p]
    BY <2>1, DeviceStep DEF BaseInv
  <2>3. UNCHANGED <<phase, first, cursor>> /\ UNCHANGED callVars
    BY <2>1 DEF DeviceCompletes
  <2>4. Path' = Path /\ BatchLen' = BatchLen
    BY <2>3, SameCall
  <2> QED
    BY <1>1, <2>2, <2>3, <2>4 DEF Started
<1>9. CASE UNCHANGED vars
  <2>1. Path' = Path /\ BatchLen' = BatchLen
    BY <1>9, SameCall DEF vars
  <2> QED
    BY <1>1, <1>9, <2>1 DEF vars, Started
<1> QED
  BY <1>2, <1>3, <1>4, <1>5, <1>6, <1>7, <1>8, <1>9 DEF Next, Host

THEOREM AlwaysOnlyStarted == Spec => []OnlyStarted
<1>1. Init => OnlyStarted
  BY DEF Init, OnlyStarted, Empty
<1> QED
  BY <1>1, AlwaysBase, NextFlight, PTL DEF Spec

\* Packing writes only the slot of the member in hand, growing the pipeline
\* keeps the slots there are, and a completion writes only an output.
LEMMA NextOperands ==
  ASSUME BaseInv, OnlyStarted, [Next]_vars, ~thrown,
         NEW p \in Paths, NEW s \in DOMAIN inFlight[p]
  PROVE  slots'[p][s].a = slots[p][s].a /\ slots'[p][s].b = slots[p][s].b
<1>0. s \in 1 .. Len(slots[p]) /\ s \in Nat
  BY DEF BaseInv, TypeOK
<1>1. p = Path /\ s \in Started
  BY DEF OnlyStarted
<1>2. CASE CallRejected \/ Unsupported \/ UNCHANGED vars
  BY <1>2 DEF CallRejected, Unsupported, vars
<1>3. CASE Call
  BY <1>1, <1>3 DEF Call, Started
<1>4. CASE Submit \/ SubmitThrows
  <2>1. phase = "submit" /\ \E b : Stage(Work(cursor), b)
    BY <1>4 DEF Submit, SubmitThrows
  <2>2. s # cursor + 1
    BY <1>1, <2>1 DEF Started, BaseInv, TypeOK
  <2> QED
    BY <1>0, <2>1, <2>2, StageStep DEF BaseInv
<1>5. CASE Wait
  <2>1. \/ slots' = slots
        \/ \E n \in Int : slots' = [slots EXCEPT ![Path] = Grown(slots[Path], n)]
    <3>1. \/ slots' = slots
          \/ /\ slots' = [slots EXCEPT ![Path] = Grown(slots[Path], Smaller(BatchSize, TileCount - first'))]
             /\ first' = first + BatchLen
      BY <1>5, WaitStep
    <3>2. first \in Int /\ BatchLen \in Int /\ TileCount \in Int /\ BatchSize \in Int
      BY SizesType, Parameters DEF BaseInv, TypeOK
    <3>3. first' = first + BatchLen => Smaller(BatchSize, TileCount - first') \in Int
      BY <3>2, SmallerType
    <3> QED
      BY <3>1, <3>3
  <2> QED
    BY <1>0, <1>1, <2>1, GrownType DEF BaseInv, TypeOK
<1>6. CASE Device
  <2>0. PICK q \in Paths : \E i \in DOMAIN inFlight[q] : DeviceCompletes(q, i)
    BY <1>6 DEF Device
  <2>1. PICK i \in DOMAIN inFlight[q] : DeviceCompletes(q, i)
    BY <2>0
  <2>2. \A r \in Paths : \A j \in 1 .. Len(slots[r]) :
          slots'[r][j].a = slots[r][j].a /\ slots'[r][j].b = slots[r][j].b
    BY <2>1, DeviceStep DEF BaseInv
  <2> QED
    BY <1>0, <2>2
<1> QED
  BY <1>2, <1>3, <1>4, <1>5, <1>6 DEF Next, Host

\* Until a start has thrown, no step of the host changes what a run in flight
\* reads, for every batch size and every order of completions.
THEOREM OperandsAreStable == Spec => OperandsStay
<1>1. BaseInv /\ OnlyStarted /\ [Next]_vars =>
        [\A p \in Paths : \A s \in DOMAIN inFlight[p] :
           ~thrown => slots'[p][s].a = slots[p][s].a /\ slots'[p][s].b = slots[p][s].b]_vars
  BY NextOperands
<1> QED
  BY <1>1, AlwaysBase, AlwaysOnlyStarted, PTL DEF Spec, OperandsStay

-----------------------------------------------------------------------------
(* The product, with resident weights and tensors at addresses of their own. *)

\* The key of a tile says all of the tile: two ways of tiling one weight that
\* share a cache share its strides too.
LEMMA KeyTells ==
  ASSUME NEW v \in Weights, NEW g, NEW s, NEW w \in Weights, NEW h, NEW t,
         \A x, y \in Weights : Kind(x) = "int8" /\ Kind(y) = "int8" /\ Ptr(x) = Ptr(y) => x = y,
         Kind(v) = "int8", Kind(w) = "int8",
         PathFor(v, g) \in {"deep", "wide"} <=> PathFor(w, h) \in {"deep", "wide"},
         KeyFor(v, PathFor(v, g), s) = KeyFor(w, PathFor(w, h), t)
  PROVE  BTileFor(v, PathFor(v, g), s) = BTileFor(w, PathFor(w, h), t)
<1> DEFINE p == PathFor(v, g)
           q == PathFor(w, h)
<1>1. v = w
  <2>1. KeyFor(v, p, s).ptr = Ptr(v) /\ KeyFor(w, q, t).ptr = Ptr(w)
    BY DEF KeyFor
  <2> QED
    BY <2>1
<1>2. TnOn(p) = TnOn(q) /\ TkOn(p) = TkOn(q)
  <2>1. CASE p \in {"deep", "wide"}
    <3>1. p = q
      BY <1>1, <2>1 DEF PathFor
    <3> QED
      BY <3>1
  <2>2. CASE p \notin {"deep", "wide"}
    BY <2>2 DEF TnOn, TkOn
  <2> QED
    BY <2>1, <2>2
<1> HIDE DEF p, q
<1>3. s.n * TnOn(p) = t.n * TnOn(q) /\ s.k * TkOn(p) = t.k * TkOn(q)
  <2>1. KeyFor(v, p, s) = KeyFor(w, q, t)
    BY DEF p, q
  <2>2. /\ KeyFor(v, p, s).n0 = s.n * TnOn(p) /\ KeyFor(v, p, s).k0 = s.k * TkOn(p)
        /\ KeyFor(w, q, t).n0 = t.n * TnOn(q) /\ KeyFor(w, q, t).k0 = t.k * TkOn(q)
    BY DEF KeyFor
  <2> QED
    BY <2>1, <2>2
<1>4. BTileFor(v, p, s) = BTileFor(w, q, t)
  BY <1>1, <1>2, <1>3 DEF BTileFor
<1> QED
  BY <1>4 DEF p, q

\* The tile a start is given is the tile it asks for.
LEMMA StagedIsRight ==
  ASSUME Default, BaseInv, CachesTell, phase = "submit", Kind(weight) # "other",
         NEW b, Stage(Work(cursor), b)
  PROVE  b = BTile(Work(cursor)) /\ CachesTell'
<1> DEFINE t == Work(cursor)
           cache == IF UsesResident THEN resident ELSE bCache
<1>1. Kind(weight) = "int8" /\ weight \in Weights /\ height \in Heights
  BY PipelineAssumption DEF Default, BaseInv, TypeOK
<1>2. t \in Tiles
  <2>1. t \in [m : 0 .. Mt - 1, n : 0 .. Nt - 1, k : 0 .. Kt - 1]
    BY StageStep DEF BaseInv
  <2> QED
    BY <2>1, SizesType DEF Tiles, BaseInv
<1>3. Path = PathFor(weight, height) /\ Tn = TnOn(Path) /\ Tk = TkOn(Path)
  BY DEF Path, PathFor, Tn, Tk, TnOn, TkOn
<1>4. Key(t) = KeyFor(weight, Path, t) /\ BTile(t) = BTileFor(weight, Path, t)
  BY <1>3 DEF Key, KeyFor, BTile, BTileFor
<1>5. UsesResident <=> Path \in {"deep", "wide"}
  BY <1>1 DEF UsesResident, Default
<1> HIDE DEF t
<1>6. b = BTile(t)
  <2>1. b = IF Key(t) \in DOMAIN cache THEN cache[Key(t)] ELSE BTile(t)
    BY DEF Stage, Lookup, t
  <2>2. Key(t) \in DOMAIN cache => cache[Key(t)] = BTile(t)
    <3>1. KeyFor(weight, PathFor(weight, height), t) \in DOMAIN cache =>
            cache[KeyFor(weight, PathFor(weight, height), t)] = BTileFor(weight, PathFor(weight, height), t)
      BY <1>1, <1>2, <1>3, <1>5 DEF CachesTell
    <3> QED
      BY <1>3, <1>4, <3>1
  <2> QED
    BY <2>1, <2>2
<1>7. ASSUME NEW w \in Weights, NEW h \in Heights, NEW s \in Tiles, Kind(w) = "int8",
             KeyFor(w, PathFor(w, h), s) \in
               DOMAIN (IF PathFor(w, h) \in {"deep", "wide"} THEN resident' ELSE bCache')
      PROVE  (IF PathFor(w, h) \in {"deep", "wide"} THEN resident' ELSE bCache')[KeyFor(w, PathFor(w, h), s)]
               = BTileFor(w, PathFor(w, h), s)
  <2> DEFINE p == PathFor(w, h)
             key == KeyFor(w, p, s)
             now == IF p \in {"deep", "wide"} THEN resident ELSE bCache
             then == IF p \in {"deep", "wide"} THEN resident' ELSE bCache'
  <2>1. key \in DOMAIN now => now[key] = BTileFor(w, p, s)
    BY <1>7 DEF CachesTell
  <2>2. \/ then = now
        \/ (p \in {"deep", "wide"} <=> Path \in {"deep", "wide"}) /\ then = Added(now, Key(t), b)
    BY <1>5 DEF Stage, t
  <2>3. (p \in {"deep", "wide"} <=> Path \in {"deep", "wide"}) /\ key = Key(t) => BTileFor(w, p, s) = BTile(t)
    <3> SUFFICES ASSUME p \in {"deep", "wide"} <=> Path \in {"deep", "wide"}, key = Key(t)
                 PROVE  BTileFor(w, p, s) = BTile(t)
      OBVIOUS
    <3>1. \A x, y \in Weights : Kind(x) = "int8" /\ Kind(y) = "int8" /\ Ptr(x) = Ptr(y) => x = y
      BY DEF Default
    <3>2. BTileFor(w, PathFor(w, h), s) = BTileFor(weight, PathFor(weight, height), t)
      BY <1>1, <1>3, <1>4, <1>7, <3>1, KeyTells
    <3> QED
      BY <1>3, <1>4, <3>2
  <2> HIDE DEF p, key, now, then
  <2>4. key \in DOMAIN then => then[key] = BTileFor(w, p, s)
    BY <1>6, <2>1, <2>2, <2>3 DEF Added
  <2> QED
    BY <1>7, <2>4 DEF p, key, then
<1>8. CachesTell'
  BY <1>7 DEF CachesTell
<1> QED
  BY <1>6, <1>8 DEF t

\* Every other step leaves the caches alone.
LEMMA NextCaches == ASSUME Default, BaseInv, CachesTell, [Next]_vars PROVE CachesTell'
<1>1. CASE Submit \/ SubmitThrows
  <2>1. phase = "submit" /\ Kind(weight) # "other" /\ \E b : Stage(Work(cursor), b)
    BY <1>1 DEF Submit, SubmitThrows
  <2> QED
    BY <2>1, StagedIsRight
<1>2. CASE ~(Submit \/ SubmitThrows)
  <2>1. bCache' = bCache /\ resident' = resident
    BY <1>2 DEF Next, Host, Device, CallRejected, Call, Unsupported, Wait, DeviceCompletes, vars
  <2> QED
    BY <2>1 DEF CachesTell
<1> QED
  BY <1>1, <1>2

\* A started slot holds the operands of its tile, then their product.
LEMMA SubmitSlots ==
  ASSUME Default, BaseInv, CachesTell, SlotsHoldTiles, Submit
  PROVE  SlotsHoldTiles'
<1>1. PICK b : /\ Stage(Work(cursor), b)
               /\ inFlight' = [inFlight EXCEPT ![Path] =
                         Added(inFlight[Path], cursor + 1, IF UsesResident THEN <<b>> ELSE <<>>)]
  BY DEF Submit, BaseInv, TypeOK
<1>2. phase = "submit" /\ Kind(weight) # "other" /\ UNCHANGED callVars /\ first' = first
  BY DEF Submit
<1>3. \/ phase' = "submit" /\ cursor' = cursor + 1
      \/ phase' = "wait" /\ cursor' = 0 /\ BatchLen = cursor + 1
  BY <1>2, SubmitBase DEF Submit
<1>4. Path' = Path /\ BatchLen' = BatchLen /\ \A i : Work(i)' = Work(i)
  BY <1>2, SameCall
<1>5. \A t : ATile(t)' = ATile(t) /\ BTile(t)' = BTile(t)
  BY <1>2, SameCall
<1>6. cursor \in Nat /\ Started = 1 .. cursor /\ Path \in Paths
  BY <1>2, SizesType DEF BaseInv, TypeOK, Started
<1>7. Started' = 1 .. cursor + 1
  BY <1>3, <1>4, <1>6 DEF Started
<1>8. b = BTile(Work(cursor))
  BY <1>1, <1>2, StagedIsRight
<1>9. /\ \A s \in Nat : s # cursor + 1 => slots'[Path][s] = slots[Path][s]
      /\ slots'[Path][cursor + 1].a = ATile(Work(cursor))
      /\ ~UsesResident => slots'[Path][cursor + 1].b = b
  BY <1>1, <1>2, <1>6, StageStep DEF BaseInv
<1>10. /\ DOMAIN inFlight'[Path] = DOMAIN inFlight[Path] \cup {cursor + 1}
       /\ inFlight'[Path][cursor + 1] = IF UsesResident THEN <<b>> ELSE <<>>
       /\ \A s \in DOMAIN inFlight[Path] : s # cursor + 1 => inFlight'[Path][s] = inFlight[Path][s]
  BY <1>1, <1>6 DEF BaseInv, TypeOK, Added
<1>11. ASSUME NEW s \in 1 .. cursor + 1
       PROVE  IF s \in DOMAIN inFlight'[Path]
              THEN /\ slots'[Path][s].a = ATile(Work(s - 1))
                   /\ Operand(Path, s)' = BTile(Work(s - 1))
              ELSE slots'[Path][s].c = <<ATile(Work(s - 1)), BTile(Work(s - 1))>>
  <2>0. Operand(Path, s)' = IF inFlight'[Path][s] = <<>> THEN slots'[Path][s].b ELSE inFlight'[Path][s][1]
    BY <1>4 DEF Operand
  <2>1. CASE s = cursor + 1
    <3>1. s - 1 = cursor /\ s \in DOMAIN inFlight'[Path]
      BY <1>6, <1>10, <2>1
    <3>2. Operand(Path, s)' = b
      <4>1. CASE UsesResident
        <5>1. inFlight'[Path][s] = <<b>>
          BY <1>10, <2>1, <4>1
        <5> QED
          BY <2>0, <5>1
      <4>2. CASE ~UsesResident
        BY <1>9, <1>10, <2>0, <2>1, <4>2
      <4> QED
        BY <4>1, <4>2
    <3> QED
      BY <1>8, <1>9, <2>1, <3>1, <3>2
  <2>2. CASE s # cursor + 1
    <3>1. s \in Started /\ s \in Nat
      BY <1>6, <2>2
    <3>2. slots'[Path][s] = slots[Path][s] /\ (s \in DOMAIN inFlight'[Path] <=> s \in DOMAIN inFlight[Path])
          /\ (s \in DOMAIN inFlight[Path] => inFlight'[Path][s] = inFlight[Path][s])
      BY <1>9, <1>10, <2>2, <3>1
    <3>3. IF s \in DOMAIN inFlight[Path]
          THEN slots[Path][s].a = ATile(Work(s - 1)) /\ Operand(Path, s) = BTile(Work(s - 1))
          ELSE slots[Path][s].c = <<ATile(Work(s - 1)), BTile(Work(s - 1))>>
      BY <3>1 DEF SlotsHoldTiles
    <3> QED
      BY <2>0, <3>2, <3>3 DEF Operand
  <2> QED
    BY <2>1, <2>2
<1> SUFFICES ASSUME NEW s \in 1 .. cursor + 1
             PROVE  IF s \in DOMAIN inFlight'[Path']
                    THEN slots'[Path'][s].a = ATile(Work(s - 1))' /\ Operand(Path, s)' = BTile(Work(s - 1))'
                    ELSE slots'[Path'][s].c = <<ATile(Work(s - 1))', BTile(Work(s - 1))'>>
  BY <1>7 DEF SlotsHoldTiles
<1>12. ATile(Work(s - 1))' = ATile(Work(s - 1)) /\ BTile(Work(s - 1))' = BTile(Work(s - 1))
  BY <1>2, SameCall DEF ATile, BTile
<1> QED
  BY <1>4, <1>11, <1>12

LEMMA DeviceSlots ==
  ASSUME BaseInv, SlotsHoldTiles, NEW p \in Paths, NEW i \in DOMAIN inFlight[p], DeviceCompletes(p, i)
  PROVE  SlotsHoldTiles'
<1>1. UNCHANGED <<phase, first, cursor>> /\ UNCHANGED callVars
  BY DEF DeviceCompletes
<1>2. Path' = Path /\ BatchLen' = BatchLen /\ Started' = Started
  BY <1>1, SameCall DEF Started
<1>3. \A s : ATile(Work(s - 1))' = ATile(Work(s - 1)) /\ BTile(Work(s - 1))' = BTile(Work(s - 1))
  BY <1>1, SameCall DEF ATile, BTile
<1>4. /\ slots'[p][i].c = <<slots[p][i].a, Operand(p, i)>>
      /\ \A s \in 1 .. Len(slots[Path]) : Path # p \/ s # i => slots'[Path][s] = slots[Path][s]
      /\ DOMAIN inFlight'[Path] = IF Path = p THEN DOMAIN inFlight[p] \ {i} ELSE DOMAIN inFlight[Path]
      /\ \A s \in DOMAIN inFlight'[Path] : inFlight'[Path][s] = inFlight[Path][s]
  <2>1. Path \in Paths
    BY SizesType DEF BaseInv
  <2>2. /\ slots'[p][i].c = <<slots[p][i].a, Operand(p, i)>>
        /\ \A q \in Paths : \A s \in 1 .. Len(slots[q]) : q # p \/ s # i => slots'[q][s] = slots[q][s]
    BY DeviceStep DEF BaseInv
  <2>3. /\ \A q \in Paths : DOMAIN inFlight'[q] = IF q = p THEN DOMAIN inFlight[p] \ {i} ELSE DOMAIN inFlight[q]
        /\ \A q \in Paths : \A s \in DOMAIN inFlight'[q] : inFlight'[q][s] = inFlight[q][s]
    BY DeviceStep DEF BaseInv
  <2> QED
    BY <2>1, <2>2, <2>3
<1> SUFFICES ASSUME NEW s \in Started
             PROVE  IF s \in DOMAIN inFlight'[Path']
                    THEN slots'[Path'][s].a = ATile(Work(s - 1))' /\ Operand(Path, s)' = BTile(Work(s - 1))'
                    ELSE slots'[Path'][s].c = <<ATile(Work(s - 1))', BTile(Work(s - 1))'>>
  BY <1>2 DEF SlotsHoldTiles
<1>5. s \in 1 .. Len(slots[Path])
  <2>1. phase # "idle" /\ cursor \in Nat /\ BatchLen \in Int /\ Path \in Paths
    BY SizesType DEF Started, BaseInv, TypeOK
  <2>2. cursor < BatchLen /\ BatchLen <= Len(slots[Path])
    BY <2>1 DEF BaseInv, InBatch
  <2>3. Len(slots[Path]) \in Nat
    BY <2>1 DEF BaseInv, TypeOK
  <2>4. s \in 1 .. cursor \/ s \in cursor + 1 .. BatchLen
    BY <2>1 DEF Started
  <2> QED
    BY <2>1, <2>2, <2>3, <2>4
<1>6. IF s \in DOMAIN inFlight[Path]
      THEN slots[Path][s].a = ATile(Work(s - 1)) /\ Operand(Path, s) = BTile(Work(s - 1))
      ELSE slots[Path][s].c = <<ATile(Work(s - 1)), BTile(Work(s - 1))>>
  BY DEF SlotsHoldTiles
<1>7. CASE Path = p /\ s = i
  BY <1>2, <1>3, <1>4, <1>6, <1>7
<1>8. CASE ~(Path = p /\ s = i)
  <2>1. Operand(Path, s)' = IF inFlight'[Path][s] = <<>> THEN slots'[Path][s].b ELSE inFlight'[Path][s][1]
    BY <1>2 DEF Operand
  <2> QED
    BY <1>2, <1>3, <1>4, <1>5, <1>6, <1>8, <2>1 DEF Operand
<1> QED
  BY <1>7, <1>8

LEMMA NextSlots == ASSUME Default, BaseInv, CachesTell, SlotsHoldTiles, [Next]_vars PROVE SlotsHoldTiles'
<1>1. CASE CallRejected \/ Call \/ SubmitThrows \/ Unsupported
  <2>1. phase' = "idle" \/ (phase' = "submit" /\ cursor' = 0)
    <3>1. CASE Call
      BY <3>1, CallBase
    <3>2. CASE ~Call
      BY <1>1, <3>2 DEF CallRejected, SubmitThrows, Unsupported
    <3> QED
      BY <3>1, <3>2
  <2>2. Started' = {}
    BY <2>1 DEF Started
  <2> QED
    BY <2>2 DEF SlotsHoldTiles
<1>2. CASE Submit
  BY <1>2, SubmitSlots
<1>3. CASE Wait
  <2>1. /\ phase = "wait" /\ UNCHANGED callVars /\ inFlight' = inFlight
        /\ \/ phase' = "wait" /\ cursor' = cursor + 1 /\ first' = first /\ slots' = slots
           \/ phase' \in {"submit", "idle"} /\ cursor' = 0
    BY <1>3, WaitStep
  <2>2. CASE phase' \in {"submit", "idle"} /\ cursor' = 0
    <3>1. Started' = {}
      BY <2>2 DEF Started
    <3> QED
      BY <3>1 DEF SlotsHoldTiles
  <2>3. CASE phase' = "wait" /\ cursor' = cursor + 1 /\ first' = first /\ slots' = slots
    <3>1. Path' = Path /\ BatchLen' = BatchLen
      BY <2>1, <2>3, SameCall
    <3>2. \A s : ATile(Work(s - 1))' = ATile(Work(s - 1)) /\ BTile(Work(s - 1))' = BTile(Work(s - 1))
      BY <2>1, <2>3, SameCall DEF ATile, BTile
    <3>3. Started' \subseteq Started
      BY <2>1, <2>3, <3>1, SizesType DEF Started, BaseInv, TypeOK
    <3>4. \A s : Operand(Path, s)' = Operand(Path, s)
      BY <2>1, <2>3, <3>1 DEF Operand
    <3> QED
      BY <2>1, <2>3, <3>1, <3>2, <3>3, <3>4 DEF SlotsHoldTiles
  <2> QED
    BY <2>1, <2>2, <2>3
<1>4. CASE Device
  <2>1. PICK p \in Paths : \E i \in DOMAIN inFlight[p] : DeviceCompletes(p, i)
    BY <1>4 DEF Device
  <2> QED
    BY <2>1, DeviceSlots
<1>5. CASE UNCHANGED vars
  <2>1. Path' = Path /\ BatchLen' = BatchLen /\ UNCHANGED callVars /\ UNCHANGED <<phase, first, cursor, slots, inFlight>>
    BY <1>5, SameCall DEF vars
  <2>2. \A s : ATile(Work(s - 1))' = ATile(Work(s - 1)) /\ BTile(Work(s - 1))' = BTile(Work(s - 1))
    BY <2>1, SameCall DEF ATile, BTile
  <2>3. \A s : Operand(Path, s)' = Operand(Path, s)
    BY <2>1 DEF Operand
  <2>4. Started' = Started
    BY <2>1 DEF Started
  <2> QED
    BY <2>1, <2>2, <2>3, <2>4 DEF SlotsHoldTiles
<1> QED
  BY <1>1, <1>2, <1>3, <1>4, <1>5 DEF Next, Host

\* One more tile of the loop nest adds one product, in order, to the block of
\* that tile and none to any other.
LEMMA OneMoreTile ==
  ASSUME NEW kt \in Nat \ {0}, NEW q \in Nat, NEW place \in Nat
  PROVE  IF place = q \div kt
         THEN SummedAt(place, kt, q) = q % kt /\ SummedAt(place, kt, q + 1) = (q % kt) + 1
         ELSE SummedAt(place, kt, q + 1) = SummedAt(place, kt, q)
<1> DEFINE b == q \div kt
           k == q % kt
<1>1. b \in Nat /\ k \in 0 .. kt - 1 /\ q = kt * b + k
  BY DivMod
<1> HIDE DEF b, k
<1> DEFINE now == SummedAt(place, kt, q)
           then == SummedAt(place, kt, q + 1)
<1>2. now = IF place < b THEN kt ELSE IF place = b THEN k ELSE 0
  BY DEF b, k, SummedAt
<1>3. CASE k + 1 < kt
  <2>1. k + 1 \in 0 .. kt - 1 /\ q + 1 = kt * b + (k + 1) /\ q + 1 \in Nat
    BY <1>1, <1>3
  <2>2. (q + 1) \div kt = b /\ (q + 1) % kt = k + 1
    BY <1>1, <2>1, DivOf
  <2>3. then = IF place < b THEN kt ELSE IF place = b THEN k + 1 ELSE 0
    BY <2>2 DEF SummedAt
  <2> HIDE DEF now, then
  <2>4. IF place = b THEN now = k /\ then = k + 1 ELSE then = now
    BY <1>1, <1>2, <2>3
  <2> QED
    BY <2>4 DEF b, k, now, then
<1>4. CASE ~(k + 1 < kt)
  <2>1. k + 1 = kt /\ 0 \in 0 .. kt - 1 /\ b + 1 \in Nat /\ q + 1 \in Nat
    BY <1>1, <1>4
  <2>2. q + 1 = kt * (b + 1) + 0
    BY <1>1, <2>1
  <2>3. (q + 1) \div kt = b + 1 /\ (q + 1) % kt = 0
    <3>1. ASSUME NEW a \in Nat, NEW c \in Nat, a = kt * c + 0 PROVE a \div kt = c /\ a % kt = 0
      BY <2>1, <3>1, DivOf
    <3> QED
      BY <2>1, <2>2, <3>1
  <2>4. then = IF place < b + 1 THEN kt ELSE 0
    BY <2>3 DEF SummedAt
  <2> HIDE DEF now, then
  <2>5. IF place = b THEN now = k /\ then = k + 1 ELSE then = now
    BY <1>1, <1>2, <2>1, <2>4
  <2> QED
    BY <2>5 DEF b, k, now, then
<1> QED
  BY <1>3, <1>4

LEMMA SummedStep ==
  ASSUME TypeOK, NEW q \in Nat, q < TileCount,
         NEW m \in 0 .. Mt - 1, NEW n \in 0 .. Nt - 1
  PROVE  IF <<m, n>> = <<TileAt(q).m, TileAt(q).n>>
         THEN Summed(<<m, n>>, q) = TileAt(q).k /\ Summed(<<m, n>>, q + 1) = TileAt(q).k + 1
         ELSE Summed(<<m, n>>, q + 1) = Summed(<<m, n>>, q)
<1>1. Mt \in Nat /\ Nt \in Nat /\ Kt \in Nat /\ q < Mt * Nt * Kt
  BY SizesType DEF TileCount
<1> DEFINE t == TileAt(q)
<1>2. /\ Kt > 0 /\ t.m \in 0 .. Mt - 1 /\ t.n \in 0 .. Nt - 1 /\ t.k = q % Kt
      /\ t.m * Nt + t.n = q \div Kt
  BY <1>1, WorkIsTile
<1> HIDE DEF t
<1> DEFINE place == m * Nt + n
<1>3. place \in Nat /\ Kt \in Nat \ {0}
  BY <1>1, <1>2, PlaceIsBounded
<1>4. \A d : Summed(<<m, n>>, d) = SummedAt(place, Kt, d)
  BY DEF Summed
<1>5. place = q \div Kt <=> <<m, n>> = <<t.m, t.n>>
  <2>1. CASE place = q \div Kt
    <3>1. m * Nt + n = t.m * Nt + t.n
      BY <1>2, <2>1
    <3>2. m = t.m /\ n = t.n
      <4>1. m \in Nat /\ t.m \in Nat
        BY <1>1, <1>2
      <4> QED
        BY <1>1, <1>2, <3>1, <4>1, PlaceIsUnique
    <3> QED
      BY <2>1, <3>2
  <2>2. CASE <<m, n>> = <<t.m, t.n>>
    <3>1. m = t.m /\ n = t.n
      BY <2>2
    <3> QED
      BY <1>2, <2>2, <3>1
  <2> QED
    BY <2>1, <2>2
<1> HIDE DEF place
<1>6. IF place = q \div Kt
      THEN Summed(<<m, n>>, q) = q % Kt /\ Summed(<<m, n>>, q + 1) = (q % Kt) + 1
      ELSE Summed(<<m, n>>, q + 1) = Summed(<<m, n>>, q)
  BY <1>3, <1>4, OneMoreTile
<1> QED
  BY <1>2, <1>5, <1>6 DEF t

\* The first wait of a tile finds its block where the product says, the last
\* leaves every block complete.
LEMMA SummedEnds ==
  ASSUME TypeOK, TileCount # 0, NEW m \in 0 .. Mt - 1, NEW n \in 0 .. Nt - 1
  PROVE  Summed(<<m, n>>, 0) = 0 /\ Summed(<<m, n>>, TileCount) = Kt
<1>1. Mt \in Nat /\ Nt \in Nat /\ Kt \in Nat
  BY SizesType
<1>2. Kt \in Nat \ {0}
  <2> SUFFICES ASSUME Kt = 0 PROVE FALSE
    BY <1>1
  <2> QED
    BY <1>1 DEF TileCount
<1>3. m * Nt + n \in Nat /\ m * Nt + n < Mt * Nt
  BY <1>1, PlaceIsBounded
<1>4. 0 \div Kt = 0 /\ 0 % Kt = 0
  <2>1. 0 = Kt * 0 + 0 /\ 0 \in 0 .. Kt - 1
    BY <1>2
  <2> QED
    BY <1>2, <2>1, DivOf
<1>5. TileCount \div Kt = Mt * Nt
  <2>1. Mt * Nt \in Nat /\ 0 \in 0 .. Kt - 1
    BY <1>1, <1>2
  <2>2. TileCount = Kt * (Mt * Nt) + 0 /\ TileCount \in Nat
    BY <1>1, <2>1, SizesType DEF TileCount
  <2> QED
    BY <1>2, <2>1, <2>2, DivOf
<1> DEFINE place == m * Nt + n
<1>6. Summed(<<m, n>>, 0) = IF place < 0 THEN Kt ELSE IF place = 0 THEN 0 ELSE 0
  BY <1>4 DEF Summed, SummedAt
<1>7. Summed(<<m, n>>, TileCount) =
        IF place < Mt * Nt THEN Kt ELSE IF place = Mt * Nt THEN TileCount % Kt ELSE 0
  BY <1>5 DEF Summed, SummedAt
<1> QED
  BY <1>3, <1>6, <1>7

\* The blocks while tile d is the next to be waited for.
Block(x, d) == Products(x, Summed(x, d))
Grid == (0 .. Mt - 1) \X (0 .. Nt - 1)

LEMMA SameBlocks ==
  ASSUME UNCHANGED callVars
  PROVE  Grid' = Grid /\ \A x, d : Block(x, d)' = Block(x, d)
<1>1. Mt' = Mt /\ Nt' = Nt /\ Kt' = Kt /\ Tn' = Tn /\ Tk' = Tk
  BY SameCall
<1>2. Grid' = Grid
  BY <1>1 DEF Grid
<1>3. \A x, n : Products(x, n)' = Products(x, n)
  BY <1>1 DEF Products, ATile, BTile, callVars
<1>4. \A x, d : Summed(x, d)' = Summed(x, d)
  BY <1>1 DEF Summed
<1>5. \A x, d : Block(x, d)' = Block(x, d)
  BY <1>3, <1>4 DEF Block, Products, ATile, BTile, callVars, Summed
<1> QED
  BY <1>2, <1>5

LEMMA ProductsGrow ==
  ASSUME NEW x, NEW n \in Nat
  PROVE  Products(x, n + 1) =
           Append(Products(x, n),
                  <<ATile([m |-> x[1], n |-> x[2], k |-> n]), BTile([m |-> x[1], n |-> x[2], k |-> n])>>)
<1> DEFINE P(j) == <<ATile([m |-> x[1], n |-> x[2], k |-> j - 1]), BTile([m |-> x[1], n |-> x[2], k |-> j - 1])>>
           last == <<ATile([m |-> x[1], n |-> x[2], k |-> n]), BTile([m |-> x[1], n |-> x[2], k |-> n])>>
<1>1. \A d \in Nat : Products(x, d) = [j \in 1 .. d |-> P(j)]
  BY DEF Products
<1>2. P(n + 1) = last
  <2>1. (n + 1) - 1 = n
    OBVIOUS
  <2> QED
    BY <2>1
<1> HIDE DEF P, last
<1>3. Append([j \in 1 .. n |-> P(j)], last) = [j \in 1 .. n + 1 |-> IF j <= n THEN P(j) ELSE last]
  OBVIOUS
<1>4. [j \in 1 .. n + 1 |-> IF j <= n THEN P(j) ELSE last] = [j \in 1 .. n + 1 |-> P(j)]
  BY <1>2
<1> QED
  BY <1>1, <1>3, <1>4 DEF last

\* A wait adds the product of its tile to the block of its tile.
LEMMA WaitAdds ==
  ASSUME BaseInv, SlotsHoldTiles, SummedSoFar, Wait
  PROVE  /\ DOMAIN C' = Grid
         /\ \A x \in Grid : C'[x] = Block(x, first + cursor + 1)
<1> DEFINE q == first + cursor
           t == TileAt(q)
           home == <<t.m, t.n>>
<1>1. phase = "wait" /\ cursor + 1 \notin DOMAIN inFlight[Path]
  BY WaitStep
<1>2. /\ first \in Nat /\ cursor \in Nat /\ cursor < BatchLen /\ BatchLen \in Int /\ BatchLen <= TileCount - first
      /\ TileCount \in Nat /\ TypeOK
  BY <1>1, SizesType DEF BaseInv, InBatch, TypeOK
<1>3. q \in Nat /\ q < TileCount
  BY <1>2
<1>4. Work(cursor) = t
  BY DEF Work
<1>5. slots[Path][cursor + 1].c = <<ATile(t), BTile(t)>>
  <2>1. cursor + 1 \in Started /\ (cursor + 1) - 1 = cursor
    BY <1>1, <1>2 DEF Started
  <2>2. slots[Path][cursor + 1].c = <<ATile(Work((cursor + 1) - 1)), BTile(Work((cursor + 1) - 1))>>
    BY <1>1, <2>1 DEF SlotsHoldTiles
  <2> QED
    BY <1>4, <2>1, <2>2
<1>6. C' = [C EXCEPT ![home] = Append(C[home], slots[Path][cursor + 1].c)]
  <2>1. home \in DOMAIN C
    <3>1. t \in [m : 0 .. Mt - 1, n : 0 .. Nt - 1, k : 0 .. Kt - 1]
      BY <1>2, <1>3, WorkIsTile
    <3> QED
      BY <1>1, <3>1 DEF SummedSoFar
  <2>2. C' = [C EXCEPT ![home] = Append(@, slots[Path][cursor + 1].c)]
    BY <1>4 DEF Wait, Accumulated
  <2> QED
    BY <2>1, <2>2
<1>7. DOMAIN C = Grid /\ \A x \in Grid : C[x] = Block(x, q)
  BY <1>1 DEF SummedSoFar, Grid, Block
<1>8. t \in [m : 0 .. Mt - 1, n : 0 .. Nt - 1, k : 0 .. Kt - 1] /\ Mt \in Nat /\ Nt \in Nat /\ Kt \in Nat
  BY <1>2, <1>3, WorkIsTile, SizesType
<1>9. ASSUME NEW m \in 0 .. Mt - 1, NEW n \in 0 .. Nt - 1 PROVE C'[<<m, n>>] = Block(<<m, n>>, q + 1)
  <2> DEFINE x == <<m, n>>
  <2>1. IF x = home THEN Summed(x, q) = t.k /\ Summed(x, q + 1) = t.k + 1 ELSE Summed(x, q + 1) = Summed(x, q)
    BY <1>2, <1>3, SummedStep
  <2>2. x \in Grid
    BY DEF Grid
  <2>3. CASE x = home
    <3>1. C'[x] = Append(Products(x, t.k), <<ATile(t), BTile(t)>>)
      BY <1>5, <1>6, <1>7, <2>1, <2>2, <2>3 DEF Block
    <3>2. t = [m |-> x[1], n |-> x[2], k |-> t.k] /\ t.k \in Nat
      <4>1. t.m = x[1] /\ t.n = x[2]
        BY <2>3
      <4> HIDE DEF t, x
      <4> QED
        BY <1>8, <4>1
    <3> HIDE DEF t, x
    <3>3. Products(x, t.k + 1) = Append(Products(x, t.k), <<ATile(t), BTile(t)>>)
      BY <3>2, ProductsGrow
    <3> QED
      BY <2>1, <2>3, <3>1, <3>3 DEF Block, x
  <2>4. CASE x # home
    BY <1>6, <1>7, <2>1, <2>2, <2>4 DEF Block
  <2> QED
    BY <2>3, <2>4
<1>10. DOMAIN C' = Grid
  BY <1>6, <1>7
<1>11. \A x \in Grid : C'[x] = Block(x, q + 1)
  <2> SUFFICES ASSUME NEW x \in Grid PROVE C'[x] = Block(x, q + 1)
    OBVIOUS
  <2>1. PICK m \in 0 .. Mt - 1, n \in 0 .. Nt - 1 : x = <<m, n>>
    BY DEF Grid
  <2> QED
    BY <1>9, <2>1
<1> QED
  BY <1>10, <1>11

\* The two statements about C in terms of blocks.
LEMMA BlocksSay ==
  /\ SummedSoFar <=>
       (phase # "idle" =>
          /\ DOMAIN C = Grid
          /\ \A x \in Grid : C[x] = Block(x, IF phase = "wait" THEN first + cursor ELSE first))
  /\ ProductExact <=> (phase = "idle" /\ result = "ok" => \A x \in DOMAIN C : C[x] = Products(x, Kt))
<1>1. SummedSoFar <=>
       (phase # "idle" =>
          /\ DOMAIN C = Grid
          /\ \A x \in Grid : C[x] = Block(x, IF phase = "wait" THEN first + cursor ELSE first))
  <2>1. DOMAIN C = Grid =>
          ((\A x \in DOMAIN C : C[x] = Products(x, Summed(x, IF phase = "wait" THEN first + cursor ELSE first)))
           <=> (\A x \in Grid : C[x] = Block(x, IF phase = "wait" THEN first + cursor ELSE first)))
    BY DEF Block
  <2> QED
    BY <2>1 DEF SummedSoFar, Grid
<1>2. ProductExact <=> (phase = "idle" /\ result = "ok" => \A x \in DOMAIN C : C[x] = Products(x, Kt))
  BY DEF ProductExact, Products
<1> QED
  BY <1>1, <1>2

\* What holds of sizes and first blocks in a state holds of them in the next.
LEMMA FirstBlocks ==
  ((TypeOK => Mt \in Nat /\ Nt \in Nat /\ Kt \in Nat)
   /\ (TypeOK /\ TileCount # 0 => \A x \in Grid : Block(x, 0) = <<>>))'
<1>1. TypeOK => Mt \in Nat /\ Nt \in Nat /\ Kt \in Nat
  BY SizesType
<1>2. TypeOK /\ TileCount # 0 => \A x \in Grid : Block(x, 0) = <<>>
  <2> SUFFICES ASSUME TypeOK, TileCount # 0, NEW x \in Grid PROVE Block(x, 0) = <<>>
    OBVIOUS
  <2>1. PICK m \in 0 .. Mt - 1, n \in 0 .. Nt - 1 : x = <<m, n>>
    BY DEF Grid
  <2>2. Summed(<<m, n>>, 0) = 0
    BY SummedEnds
  <2> QED
    BY <2>1, <2>2 DEF Block, Products
<1> QED
  BY <1>1, <1>2, PTL

LEMMA CallSum == ASSUME BaseInv, Call PROVE SummedSoFar' /\ ProductExact'
<1>1. DOMAIN C' = Grid' /\ \A x \in Grid' : C'[x] = <<>>
  BY DEF Call, Grid
<1>2. TypeOK'
  BY CallBase DEF BaseInv
<1>3. Mt' \in Nat /\ Nt' \in Nat /\ Kt' \in Nat
  BY <1>2, FirstBlocks
<1>4. \A x : Products(x, 0)' = <<>>
  BY DEF Products
<1>5. CASE TileCount' = 0
  <2>1. phase' = "idle"
    BY <1>5 DEF Call
  <2>2. \A x \in DOMAIN C' : C'[x] = Products(x, Kt)'
    <3> SUFFICES ASSUME NEW x \in Grid' PROVE Kt' = 0 /\ C'[x] = <<>>
      BY <1>1, <1>4 DEF Products
    <3>1. Mt' # 0 /\ Nt' # 0
      BY <1>3 DEF Grid
    <3>2. Mt' * Nt' * Kt' = 0
      BY <1>5 DEF TileCount
    <3>3. \A a, b, c \in Nat : a * b * c = 0 => a = 0 \/ b = 0 \/ c = 0
      OBVIOUS
    <3> QED
      BY <1>1, <1>3, <3>1, <3>2, <3>3
  <2> QED
    BY <2>1, <2>2 DEF SummedSoFar, ProductExact, Products
<1>6. CASE TileCount' # 0
  <2>1. phase' = "submit" /\ first' = 0
    BY <1>6, CallBase DEF Call
  <2>2. \A x \in Grid' : C'[x] = Block(x, 0)'
    BY <1>1, <1>2, <1>6, FirstBlocks
  <2> QED
    BY <1>1, <2>1, <2>2 DEF SummedSoFar, ProductExact, Grid, Block
<1> QED
  BY <1>5, <1>6

LEMMA NextSum == ASSUME ExactInv, [Next]_vars PROVE SummedSoFar' /\ ProductExact'
<1> USE DEF ExactInv
<1>1. CASE Call
  BY <1>1, CallSum
<1>2. CASE CallRejected \/ SubmitThrows \/ Unsupported
  <2>1. phase' = "idle" /\ result' # "ok"
    BY <1>2 DEF CallRejected, SubmitThrows, Unsupported
  <2> QED
    BY <2>1 DEF SummedSoFar, ProductExact
<1>3. CASE Submit
  <2>1. phase = "submit" /\ UNCHANGED callVars /\ UNCHANGED <<first, C>>
        /\ (phase' = "submit" \/ (phase' = "wait" /\ cursor' = 0))
    BY <1>3 DEF Submit
  <2>2. DOMAIN C = Grid /\ \A x \in Grid : C[x] = Block(x, first)
    BY <2>1, BlocksSay
  <2>3. first = IF phase' = "wait" THEN first' + cursor' ELSE first'
    BY <2>1 DEF BaseInv, TypeOK
  <2>4. DOMAIN C' = Grid' /\ \A x \in Grid' : C'[x] = Block(x, IF phase = "wait" THEN first + cursor ELSE first)'
    BY <2>1, <2>2, <2>3, SameBlocks
  <2> QED
    BY <2>1, <2>4 DEF SummedSoFar, ProductExact, Grid, Block
<1>4. CASE Wait
  <2>1. /\ phase = "wait" /\ UNCHANGED callVars
        /\ \/ cursor' = cursor + 1 /\ phase' = phase /\ first' = first
           \/ cursor + 1 = BatchLen /\ cursor' = 0 /\ first' = first + BatchLen /\ phase' = "submit"
           \/ cursor + 1 = BatchLen /\ cursor' = 0 /\ first' = first + BatchLen /\ phase' = "idle" /\ first' = TileCount
    BY <1>4, WaitStep
  <2>2. DOMAIN C' = Grid /\ \A x \in Grid : C'[x] = Block(x, first + cursor + 1)
    BY <1>4, WaitAdds
  <2>3. first \in Nat /\ cursor \in Nat /\ BatchLen \in Int
    BY SizesType DEF BaseInv, TypeOK
  <2>4. CASE phase' # "idle"
    <3>1. first + cursor + 1 = IF phase' = "wait" THEN first' + cursor' ELSE first'
      BY <2>1, <2>3, <2>4
    <3>2. DOMAIN C' = Grid' /\ \A x \in Grid' : C'[x] = Block(x, IF phase = "wait" THEN first + cursor ELSE first)'
      BY <2>1, <2>2, <3>1, SameBlocks
    <3> QED
      BY <2>4, <3>2 DEF SummedSoFar, ProductExact, Grid, Block
  <2>5. CASE phase' = "idle"
    <3>1. first + cursor + 1 = TileCount /\ TileCount # 0
      BY <2>1, <2>3, <2>5, SizesType DEF BaseInv
    <3>2. ASSUME NEW x \in Grid PROVE C'[x] = Products(x, Kt)
      <4>1. PICK m \in 0 .. Mt - 1, n \in 0 .. Nt - 1 : x = <<m, n>>
        BY DEF Grid
      <4>2. Summed(<<m, n>>, TileCount) = Kt
        BY <3>1, SummedEnds DEF BaseInv
      <4> QED
        BY <2>2, <3>1, <4>1, <4>2 DEF Block
    <3>3. \A x \in DOMAIN C' : C'[x] = Products(x, Kt)'
      <4>1. Kt' = Kt /\ \A x : Products(x, Kt)' = Products(x, Kt)
        BY <2>1, SameCall DEF Products, ATile, BTile, callVars
      <4> QED
        BY <2>2, <3>2, <4>1
    <3> QED
      BY <2>5, <3>3 DEF SummedSoFar, ProductExact, Products
  <2> QED
    BY <2>4, <2>5
<1>5. CASE Device \/ UNCHANGED vars
  <2>1. UNCHANGED <<phase, result, first, cursor, C>> /\ UNCHANGED callVars
    BY <1>5 DEF Device, DeviceCompletes, vars
  <2>2. Kt' = Kt /\ \A x, n : Products(x, n)' = Products(x, n)
    BY <2>1, SameCall DEF Products, ATile, BTile, callVars
  <2>3. phase # "idle" =>
          DOMAIN C = Grid /\ \A x \in Grid : C[x] = Block(x, IF phase = "wait" THEN first + cursor ELSE first)
    BY BlocksSay
  <2>4. SummedSoFar'
    <3>1. phase' # "idle" =>
            DOMAIN C' = Grid' /\ \A x \in Grid' : C'[x] = Block(x, IF phase = "wait" THEN first + cursor ELSE first)'
      BY <2>1, <2>3, SameBlocks
    <3> QED
      BY <3>1 DEF SummedSoFar, Grid, Block
  <2>5. ProductExact'
    BY <2>1, <2>2, SameCall DEF ProductExact, Products, ATile, BTile, callVars
  <2> QED
    BY <2>4, <2>5
<1> QED
  BY <1>1, <1>2, <1>3, <1>4, <1>5 DEF Next, Host

THEOREM AlwaysExactInv ==
  ASSUME Default PROVE Spec => []ExactInv
<1>1. Init => ExactInv
  <2> SUFFICES ASSUME Init PROVE ExactInv
    OBVIOUS
  <2>1. SlotsHoldTiles
    BY DEF Init, SlotsHoldTiles, Started
  <2>2. CachesTell
    BY DEF Init, CachesTell, Empty
  <2>3. SummedSoFar /\ ProductExact
    BY DEF Init, SummedSoFar, ProductExact
  <2> QED
    BY <2>1, <2>2, <2>3, InitBase DEF ExactInv
<1>2. ExactInv /\ [Next]_vars => ExactInv'
  <2> SUFFICES ASSUME ExactInv, [Next]_vars PROVE ExactInv'
    OBVIOUS
  <2>1. BaseInv'
    BY NextBase DEF ExactInv
  <2>2. CachesTell'
    BY NextCaches DEF ExactInv
  <2>3. SlotsHoldTiles'
    BY NextSlots DEF ExactInv
  <2>4. SummedSoFar' /\ ProductExact'
    BY NextSum
  <2> QED
    BY <2>1, <2>2, <2>3, <2>4 DEF ExactInv
<1> QED
  BY <1>1, <1>2, PTL DEF Spec

\* With resident weights, no F32 weight and tensors at addresses of their own,
\* a call that returns OK has computed the product: whatever the shapes, the
\* tiles, the batch size, the caches earlier calls left, the order in which the
\* device completed, and the starts that threw.
THEOREM ProductIsExact ==
  ASSUME Default PROVE Spec => []ProductExact
<1>1. ExactInv => ProductExact
  BY DEF ExactInv
<1> QED
  BY <1>1, AlwaysExactInv, PTL
===============================================================================
