--------------------------- MODULE Bf16Matmul_proofs ---------------------------
(***************************************************************************)
(* The padding of the bf16 staging buffers stays zero for every tile size  *)
(* and every sequence of calls.  The argument is local to one pack: a cell *)
(* outside the new extent is either cleared as part of the border that     *)
(* shrank or was outside the old extent already.                           *)
(***************************************************************************)
EXTENDS Bf16Matmul, TLAPS

-----------------------------------------------------------------------------
(* How many tiles a size takes and where they start.                        *)

\* Quotients and remainders of natural numbers.
LEMMA DivMod ==
  ASSUME NEW a \in Nat, NEW b \in Nat \ {0}
  PROVE  a \div b \in Nat /\ a % b \in 0 .. b - 1 /\ a = b * (a \div b) + (a % b)
<1>1. a \div b \in Int /\ a % b \in 0 .. b - 1 /\ a = b * (a \div b) + (a % b)
  OBVIOUS
<1> DEFINE q == a \div b
           r == a % b
<1> HIDE DEF q, r
<1>2. q >= 0
  <2> SUFFICES ASSUME q <= -1 PROVE FALSE
    BY <1>1 DEF q
  <2>1. PICK z \in Nat : q = -1 - z
    <3>1. -1 - q \in Nat /\ q = -1 - (-1 - q)
      BY <1>1 DEF q
    <3> QED
      BY <3>1
  <2>2. b * q = -b - b * z /\ b * z \in Nat
    BY <2>1
  <2> QED
    BY <1>1, <2>2 DEF q, r
<1> QED
  BY <1>1, <1>2 DEF q

\* A multiple of a smaller number is a whole factor below one of a larger.
LEMMA ProductsCompare ==
  ASSUME NEW x \in Nat, NEW y \in Nat, NEW b \in Nat, x < y
  PROVE  b * x + b <= b * y
<1>1. PICK z \in Nat : y = x + 1 + z
  <2>1. y - x - 1 \in Nat /\ y = x + 1 + (y - x - 1)
    OBVIOUS
  <2> QED
    BY <2>1
<1>2. b * y = b * x + b + b * z
  BY <1>1
<1>3. b * z \in Nat /\ b * x \in Nat
  OBVIOUS
<1> QED
  BY <1>2, <1>3

\* A size takes no tile more than it needs, and the tiles cover it.
LEMMA TileCounts ==
  ASSUME NEW n \in Nat, NEW t \in Nat \ {0}
  PROVE  /\ (n + t - 1) \div t \in Nat
         /\ n <= ((n + t - 1) \div t) * t
         /\ ((n + t - 1) \div t) * t <= n + t - 1
<1> DEFINE c == (n + t - 1) \div t
           r == (n + t - 1) % t
<1>1. n + t - 1 \in Nat
  OBVIOUS
<1>2. c \in Nat /\ r \in 0 .. t - 1 /\ n + t - 1 = t * c + r
  BY <1>1, DivMod
<1> HIDE DEF c, r
<1>3. t * c \in Nat /\ c * t = t * c
  BY <1>2
<1>4. c \in Nat /\ n <= c * t /\ c * t <= n + t - 1
  BY <1>2, <1>3
<1> QED
  BY <1>4 DEF c

\* A tile below the count starts inside the size.
LEMMA TileStarts ==
  ASSUME NEW n \in Nat, NEW t \in Nat \ {0}, NEW i \in Nat, i < (n + t - 1) \div t
  PROVE  i * t \in Nat /\ i * t < n /\ (i + 1) * t = i * t + t
<1> DEFINE c == (n + t - 1) \div t
<1>1. c \in Nat /\ c * t <= n + t - 1 /\ i < c
  BY TileCounts
<1> HIDE DEF c
<1>2. t * i + t <= t * c
  BY <1>1, ProductsCompare
<1>3. t * i = i * t /\ t * c = c * t /\ i * t \in Nat /\ c * t \in Nat /\ (i + 1) * t = i * t + t
  BY <1>1
<1> QED
  BY <1>1, <1>2, <1>3

-----------------------------------------------------------------------------

\* What a pack needs to know of a stage: its cells, an integer extent, and
\* nothing but zero outside it.
Clean(stage, extent) ==
  /\ extent \in Int \X Int
  /\ PaddingIsZero(stage, extent)

Integral ==
  /\ shape \in [M : Nat, N : Nat, K : Nat]
  /\ mi \in Int /\ ni \in Int /\ ki \in Int

PaddingInv == Integral /\ Clean(stageA, extentA) /\ Clean(stageB, extentB)

LEMMA ExtentIsInt == \A n, tile \in Int : Extent(n, tile) \in Int
BY Bf16Assumption DEF Extent, Smaller

\* Clearing the border and packing leaves zeros outside the new extent.
LEMMA PackKeepsClean ==
  ASSUME NEW stage, NEW prev, Clean(stage, prev),
         NEW rows \in Int, NEW cols \in Int, NEW data(_, _)
  PROVE  Clean(Packed(ClearBorder(stage, prev, rows, cols), rows, cols, data), <<rows, cols>>)
<1> DEFINE cleared == ClearBorder(stage, prev, rows, cols)
           new == Packed(cleared, rows, cols, data)
<1>1. ASSUME NEW x \in Cells, x[1] >= rows \/ x[2] >= cols
      PROVE  new[x] = Zero
  <2>1. x[1] \in Int /\ x[2] \in Int /\ prev[1] \in Int /\ prev[2] \in Int
    BY Bf16Assumption DEF Cells, Span, Clean
  <2>2. new[x] = cleared[x]
    BY <1>1, <2>1 DEF Packed
  <2>3. CASE \/ x[1] < rows /\ cols <= x[2] /\ x[2] < prev[2]
             \/ rows <= x[1] /\ x[1] < prev[1] /\ (x[2] < cols \/ x[2] < prev[2])
    BY <2>2, <2>3 DEF ClearBorder
  <2>4. CASE ~ \/ x[1] < rows /\ cols <= x[2] /\ x[2] < prev[2]
               \/ rows <= x[1] /\ x[1] < prev[1] /\ (x[2] < cols \/ x[2] < prev[2])
    <3>1. x[1] >= prev[1] \/ x[2] >= prev[2]
      BY <1>1, <2>1, <2>4
    <3>2. stage[x] = Zero
      BY <3>1 DEF Clean, PaddingIsZero
    <3> QED
      BY <2>2, <2>4, <3>2 DEF ClearBorder
  <2> QED
    BY <2>3, <2>4
<1>2. <<rows, cols>>[1] = rows /\ <<rows, cols>>[2] = cols
  OBVIOUS
<1> QED
  BY <1>1, <1>2 DEF Clean, PaddingIsZero

LEMMA InitPadding == Init => PaddingInv
BY Bf16Assumption DEF Init, PaddingInv, Integral, Clean, PaddingIsZero

LEMMA StepPadding ==
  ASSUME PaddingInv, [Next]_vars
  PROVE  PaddingInv'
<1>1. CASE Pack
  <2>1. Rows \in Int /\ Columns \in Int /\ Depth \in Int
    <3>1. shape.M \in Int /\ shape.N \in Int /\ shape.K \in Int
      BY DEF PaddingInv, Integral
    <3>2. mi \in Int /\ ni \in Int /\ ki \in Int
      BY DEF PaddingInv, Integral
    <3> QED
      BY <3>1, <3>2, ExtentIsInt DEF Rows, Columns, Depth
  <2>2. Clean(stageA', extentA')
    <3> DEFINE elem(r, c) == Element(call, mi * T + r, ki * T + c)
    <3>1. Clean(Packed(ClearBorder(stageA, extentA, Rows, Depth), Rows, Depth, elem),
                <<Rows, Depth>>)
      <4> HIDE DEF elem
      <4> QED
        BY <2>1, PackKeepsClean DEF PaddingInv
    <3> QED
      BY <1>1, <3>1 DEF Pack, PackA
  <2>3. Clean(stageB', extentB')
    <3> DEFINE elem(r, c) == Element(call, ki * T + r, ni * T + c)
    <3>1. Clean(Packed(ClearBorder(stageB, extentB, Depth, Columns), Depth, Columns, elem),
                <<Depth, Columns>>)
      <4> HIDE DEF elem
      <4> QED
        BY <2>1, PackKeepsClean DEF PaddingInv
    <3> QED
      BY <1>1, <3>1 DEF Pack, PackB
  <2> QED
    BY <1>1, <2>2, <2>3 DEF Pack, PaddingInv, Integral, tileVars, Clean, PaddingIsZero
<1>2. ASSUME UNCHANGED stageVars, Integral' PROVE PaddingInv'
  BY <1>2 DEF PaddingInv, Clean, PaddingIsZero, stageVars
<1>3. CASE CallInvalid \/ CallUnavailable
  BY <1>2, <1>3, Bf16Assumption DEF CallInvalid, CallUnavailable, Reject, PaddingInv, Integral, tileVars
<1>4. CASE Call
  BY <1>2, <1>4, Bf16Assumption DEF Call, PaddingInv, Integral
<1>5. CASE Launch \/ LaunchFails \/ Store
  BY <1>2, <1>5 DEF Launch, LaunchFails, Store, PaddingInv, Integral, tileVars
<1>6. CASE UNCHANGED vars
  BY <1>2, <1>6 DEF vars, PaddingInv, Integral, tileVars
<1> QED
  BY <1>1, <1>3, <1>4, <1>5, <1>6 DEF Next

\* "Padding stays zero across calls", for every tile size, shape and history
\* of calls and failures: the launches never see a stale element.
THEOREM PaddingStaysZero == Spec => []StagePadding
<1>1. Init => PaddingInv
  BY InitPadding
<1>2. PaddingInv /\ [Next]_vars => PaddingInv'
  BY StepPadding
<1>3. PaddingInv => StagePadding
  BY DEF PaddingInv, Clean, StagePadding
<1> QED
  BY <1>1, <1>2, <1>3, PTL DEF Spec

-----------------------------------------------------------------------------
(***************************************************************************)
(* The product.  Between a pack and its launch the stages hold the two     *)
(* tiles, and zeros around them; the accumulator holds the K tiles         *)
(* launched so far; the result is complete over the output tiles stored.   *)
(***************************************************************************)

\* The loops are inside the shape.
InLoops ==
  phase # "idle" =>
    /\ mi < Tiles(shape.M) /\ ni < Tiles(shape.N) /\ shape.K > 0
    /\ IF phase = "store" THEN ki = Tiles(shape.K) ELSE ki < Tiles(shape.K)

\* The stages during a launch.
Staged ==
  phase = "launch" =>
    /\ extentA = <<Rows, Depth>> /\ extentB = <<Depth, Columns>>
    /\ \A r, k \in Span : r < Rows /\ k < Depth => stageA[<<r, k>>] = Element(call, mi * T + r, ki * T + k)
    /\ \A k, c \in Span : k < Depth /\ c < Columns => stageB[<<k, c>>] = Element(call, ki * T + k, ni * T + c)

\* The first n K tiles of the element at (i, j).
PartialProduct(i, j, n) == [t \in 1 .. n |-> TileProducts(i, j, t - 1)]

\* What is added up for the output tile in hand.
AddedUp ==
  \A r, c \in Span : r < Rows /\ c < Columns =>
    /\ Accumulates /\ (phase \in {"launch", "store"} \/ (phase = "pack" /\ ki > 0)) =>
         cAcc[<<r, c>>] = PartialProduct(mi * T + r, ni * T + c, ki)
    /\ ~Accumulates /\ phase = "store" => cRaw[<<r, c>>] = TileProducts(mi * T + r, ni * T + c, 0)

\* The elements of the output tiles stored before the one in hand.
Before(i, j) == i < mi * T \/ (i < mi * T + T /\ j < ni * T)
StoredSoFar ==
  phase # "idle" =>
    /\ DOMAIN C = (0 .. shape.M - 1) \X (0 .. shape.N - 1)
    /\ \A i \in 0 .. shape.M - 1, j \in 0 .. shape.N - 1 :
         Before(i, j) => C[<<i, j>>] = PartialProduct(i, j, Tiles(shape.K))

TypeInv == TypeOK /\ InLoops
ProductInv == Staged /\ AddedUp /\ StoredSoFar /\ ProductExact

LEMMA TilesCover == \A n \in Nat : Tiles(n) \in Nat /\ n <= Tiles(n) * T /\ (n > 0 => Tiles(n) > 0)
<1> SUFFICES ASSUME NEW n \in Nat PROVE Tiles(n) \in Nat /\ n <= Tiles(n) * T /\ (n > 0 => Tiles(n) > 0)
  OBVIOUS
<1>1. T \in Nat \ {0}
  BY Bf16Assumption
<1>2. Tiles(n) \in Nat /\ n <= Tiles(n) * T
  BY <1>1, TileCounts DEF Tiles
<1>3. ASSUME n > 0, Tiles(n) = 0 PROVE FALSE
  BY <1>1, <1>2, <1>3
<1> QED
  BY <1>2, <1>3

\* A tile below the count has an extent, inside the tile and the size; what
\* is inside both is inside the extent.
LEMMA ExtentFits ==
  ASSUME NEW n \in Nat, NEW i \in Nat, i < Tiles(n)
  PROVE  /\ i * T \in Nat /\ (i + 1) * T = i * T + T
         /\ Extent(n, i) \in 1 .. T /\ i * T + Extent(n, i) <= n
         /\ \A x \in Nat : i * T <= x /\ x < i * T + T /\ x < n => x - i * T \in 0 .. Extent(n, i) - 1
<1>1. T \in Nat \ {0}
  BY Bf16Assumption
<1>2. i * T \in Nat /\ i * T < n /\ (i + 1) * T = i * T + T
  BY <1>1, TileStarts DEF Tiles
<1> QED
  BY <1>1, <1>2 DEF Extent, Smaller

LEMMA CellsAre == T \in Nat \ {0} /\ \A r, c \in Span : <<r, c>> \in Cells /\ r \in Nat /\ c \in Nat
BY Bf16Assumption DEF Cells, Span

\* The tile in hand.
LEMMA TileInHand ==
  ASSUME TypeInv, phase # "idle"
  PROVE  /\ shape.M \in Nat /\ shape.N \in Nat /\ shape.K \in Nat
         /\ mi \in Nat /\ mi * T \in Nat /\ Rows \in 1 .. T
         /\ ni \in Nat /\ ni * T \in Nat /\ Columns \in 1 .. T
         /\ ki \in Nat /\ Tiles(shape.K) \in Nat \ {0}
         /\ phase # "store" => ki < Tiles(shape.K) /\ ki * T \in Nat /\ Depth \in 1 .. T
<1>1. /\ shape.M \in Nat /\ shape.N \in Nat /\ shape.K \in Nat /\ shape.K > 0
      /\ mi \in Nat /\ ni \in Nat /\ ki \in Nat
      /\ mi < Tiles(shape.M) /\ ni < Tiles(shape.N)
      /\ phase # "store" => ki < Tiles(shape.K)
  BY DEF TypeInv, TypeOK, InLoops
<1>2. mi * T \in Nat /\ Rows \in 1 .. T
  BY <1>1, ExtentFits DEF Rows
<1>3. ni * T \in Nat /\ Columns \in 1 .. T
  BY <1>1, ExtentFits DEF Columns
<1>4. phase # "store" => ki * T \in Nat /\ Depth \in 1 .. T
  BY <1>1, ExtentFits DEF Depth
<1>5. Tiles(shape.K) \in Nat \ {0}
  BY <1>1, TilesCover
<1> QED
  BY <1>1, <1>2, <1>3, <1>4, <1>5

LEMMA InitType == Init => TypeInv
<1> SUFFICES ASSUME Init PROVE TypeInv
  OBVIOUS
<1>1. 0 \in 0 .. T
  BY Bf16Assumption
<1>2. extentA \in (0 .. T) \X (0 .. T) /\ extentB \in (0 .. T) \X (0 .. T)
  BY <1>1 DEF Init
<1>3. DOMAIN stageA = Cells /\ DOMAIN stageB = Cells /\ DOMAIN cRaw = Cells /\ DOMAIN cAcc = Cells
  BY DEF Init
<1>4. TypeOK
  BY <1>2, <1>3 DEF Init, TypeOK
<1>5. InLoops
  BY DEF Init, InLoops
<1> QED
  BY <1>4, <1>5 DEF TypeInv

\* The loop heads after a store.
LEMMA StoreStep ==
  ASSUME TypeInv, Store
  PROVE  /\ phase = "store" /\ ki' = 0 /\ UNCHANGED <<call, shape, kernelLoaded, stageVars, cRaw, cAcc>>
         /\ \/ ni + 1 < Tiles(shape.N) /\ ni' = ni + 1 /\ mi' = mi /\ phase' = "pack" /\ status' = status
            \/ /\ ni + 1 = Tiles(shape.N) /\ ni' = 0 /\ mi' = mi + 1
               /\ \/ mi + 1 < Tiles(shape.M) /\ phase' = "pack" /\ status' = status
                  \/ mi + 1 = Tiles(shape.M) /\ phase' = "idle" /\ status' = "ok"
<1>1. phase = "store" /\ ki' = 0 /\ UNCHANGED <<call, shape, kernelLoaded, stageVars, cRaw, cAcc>>
  BY DEF Store
<1>2. /\ mi \in Nat /\ ni \in Nat /\ mi < Tiles(shape.M) /\ ni < Tiles(shape.N)
      /\ Tiles(shape.M) \in Nat /\ Tiles(shape.N) \in Nat
  BY <1>1, TilesCover DEF TypeInv, TypeOK, InLoops
<1>3. CASE ni + 1 < Tiles(shape.N)
  <2>1. ni' = ni + 1 /\ mi' = mi
    BY <1>3 DEF Store
  <2>2. phase' = "pack" /\ status' = status
    BY <1>2, <2>1 DEF Store
  <2> QED
    BY <1>1, <1>3, <2>1, <2>2
<1>4. CASE ~(ni + 1 < Tiles(shape.N))
  <2>1. ni + 1 = Tiles(shape.N) /\ ni' = 0 /\ mi' = mi + 1
    BY <1>2, <1>4 DEF Store
  <2>2. CASE mi + 1 < Tiles(shape.M)
    BY <1>1, <2>1, <2>2 DEF Store
  <2>3. CASE ~(mi + 1 < Tiles(shape.M))
    <3>1. mi + 1 = Tiles(shape.M)
      BY <1>2, <2>3
    <3>2. phase' = "idle" /\ status' = "ok"
      BY <2>1, <2>3 DEF Store
    <3> QED
      BY <1>1, <2>1, <3>1, <3>2
  <2> QED
    BY <2>2, <2>3
<1> QED
  BY <1>3, <1>4

LEMMA NextType == TypeInv /\ [Next]_vars => TypeInv'
<1> SUFFICES ASSUME TypeInv, [Next]_vars PROVE TypeInv'
  OBVIOUS
<1>1. TypeOK /\ InLoops /\ T \in Nat \ {0}
  BY Bf16Assumption DEF TypeInv
<1>2. CASE CallInvalid \/ CallUnavailable
  <2>1. PICK s \in Shapes : Reject(s, status') /\ status' \in {"invalid", "unavailable"} /\ phase = "idle"
    BY <1>2 DEF CallInvalid, CallUnavailable, Reject
  <2>2. s \in [M : Nat, N : Nat, K : Nat]
    BY Bf16Assumption
  <2>3. TypeOK'
    BY <1>1, <2>1, <2>2 DEF Reject, TypeOK, tileVars, stageVars
  <2>4. InLoops'
    BY <2>1 DEF Reject, InLoops
  <2> QED
    BY <2>3, <2>4 DEF TypeInv
<1>3. CASE Call
  <2>1. /\ shape' \in Shapes /\ shape'.M > 0 /\ shape'.N > 0 /\ shape'.K > 0
        /\ call' = call + 1 /\ kernelLoaded' = TRUE /\ mi' = 0 /\ ni' = 0 /\ ki' = 0 /\ phase' = "pack"
        /\ UNCHANGED <<status, stageVars, cRaw, cAcc>>
    BY <1>3 DEF Call
  <2>2. shape' \in [M : Nat, N : Nat, K : Nat]
    BY <2>1, Bf16Assumption
  <2>3. TypeOK'
    BY <1>1, <2>1, <2>2 DEF TypeOK, stageVars
  <2>4. InLoops'
    <3>1. Tiles(shape'.M) > 0 /\ Tiles(shape'.N) > 0 /\ Tiles(shape'.K) > 0
      BY <2>1, <2>2, TilesCover
    <3> QED
      BY <2>1, <3>1 DEF InLoops, Tiles
  <2> QED
    BY <2>3, <2>4 DEF TypeInv
<1>4. CASE Pack
  <2>1. /\ phase = "pack" /\ phase' = "launch"
        /\ UNCHANGED <<status, call, shape, kernelLoaded, cRaw, C>> /\ UNCHANGED <<mi, ni, ki>>
        /\ extentA' = <<Rows, Depth>> /\ extentB' = <<Depth, Columns>>
    BY <1>4 DEF Pack, PackA, PackB, tileVars
  <2>2. Rows \in 0 .. T /\ Columns \in 0 .. T /\ Depth \in 0 .. T
    BY <1>1, <2>1, TileInHand
  <2>3. DOMAIN stageA' = Cells /\ DOMAIN stageB' = Cells
    BY <1>4 DEF Pack, PackA, PackB, Packed
  <2>4. DOMAIN cAcc' = Cells
    <3>1. DOMAIN ClearedAcc = Cells
      <4>1. CASE ki = 0 /\ Accumulates
        BY <4>1 DEF ClearedAcc
      <4>2. CASE ~(ki = 0 /\ Accumulates)
        BY <1>1, <4>2 DEF ClearedAcc, TypeOK
      <4> QED
        BY <4>1, <4>2
    <3> QED
      BY <1>4, <3>1 DEF Pack
  <2>5. extentA' \in (0 .. T) \X (0 .. T) /\ extentB' \in (0 .. T) \X (0 .. T)
    BY <2>1, <2>2
  <2>6. TypeOK'
    BY <1>1, <2>1, <2>3, <2>4, <2>5 DEF TypeOK
  <2>7. InLoops'
    BY <1>1, <2>1 DEF InLoops, Tiles
  <2> QED
    BY <2>6, <2>7 DEF TypeInv
<1>5. CASE Launch
  <2>1. /\ phase = "launch" /\ ki' = ki + 1
        /\ UNCHANGED <<status, call, shape, mi, ni, kernelLoaded>> /\ UNCHANGED stageVars
        /\ DOMAIN cRaw' = Cells
    BY <1>5 DEF Launch
  <2>2. ki \in Nat /\ Tiles(shape.K) \in Nat /\ ki < Tiles(shape.K)
    BY <2>1, TileInHand
  <2>3. \/ phase' = "pack" /\ ki' < Tiles(shape.K)
        \/ phase' = "store" /\ ki' = Tiles(shape.K)
    <3>1. phase' = IF ki' < Tiles(shape.K) THEN "pack" ELSE "store"
      BY <1>5 DEF Launch
    <3> QED
      BY <2>1, <2>2, <3>1
  <2>4. DOMAIN cAcc' = Cells
    <3>1. CASE Accumulates
      BY <1>5, <3>1 DEF Launch, Accumulate
    <3>2. CASE ~Accumulates
      BY <1>1, <1>5, <3>2 DEF Launch, Accumulate, TypeOK
    <3> QED
      BY <3>1, <3>2
  <2>5. TypeOK'
    BY <1>1, <2>1, <2>2, <2>3, <2>4 DEF TypeOK, stageVars
  <2>6. InLoops'
    BY <1>1, <2>1, <2>3 DEF InLoops, Tiles
  <2> QED
    BY <2>5, <2>6 DEF TypeInv
<1>6. CASE LaunchFails
  <2>1. TypeOK'
    BY <1>1, <1>6 DEF LaunchFails, TypeOK, tileVars, stageVars
  <2>2. InLoops'
    BY <1>6 DEF LaunchFails, InLoops
  <2> QED
    BY <2>1, <2>2 DEF TypeInv
<1>7. CASE Store
  <2>1. /\ phase = "store" /\ ki' = 0 /\ UNCHANGED <<call, shape, kernelLoaded, stageVars, cRaw, cAcc>>
        /\ \/ ni + 1 < Tiles(shape.N) /\ ni' = ni + 1 /\ mi' = mi /\ phase' = "pack" /\ status' = status
           \/ /\ ni + 1 = Tiles(shape.N) /\ ni' = 0 /\ mi' = mi + 1
              /\ \/ mi + 1 < Tiles(shape.M) /\ phase' = "pack" /\ status' = status
                 \/ mi + 1 = Tiles(shape.M) /\ phase' = "idle" /\ status' = "ok"
    BY <1>7, StoreStep
  <2>2. TypeOK'
    BY <1>1, <2>1 DEF TypeOK, stageVars
  <2>3. InLoops'
    <3>1. /\ mi \in Nat /\ ni \in Nat /\ mi < Tiles(shape.M) /\ ni < Tiles(shape.N) /\ shape.K > 0
          /\ Tiles(shape.N) \in Nat /\ Tiles(shape.K) \in Nat \ {0}
      BY <1>1, <2>1, TileInHand, TilesCover DEF InLoops
    <3>2. phase' # "idle" => phase' = "pack" /\ mi' < Tiles(shape.M) /\ ni' < Tiles(shape.N) /\ ki' < Tiles(shape.K)
      BY <2>1, <3>1
    <3> QED
      BY <2>1, <3>1, <3>2 DEF InLoops, Tiles
  <2> QED
    BY <2>2, <2>3 DEF TypeInv
<1>8. CASE UNCHANGED vars
  BY <1>1, <1>8 DEF vars, tileVars, stageVars, TypeInv, TypeOK, InLoops, Tiles
<1> QED
  BY <1>2, <1>3, <1>4, <1>5, <1>6, <1>7, <1>8 DEF Next

\* The types: every launch is given whole tiles, and the extent remembered
\* for a stage never leaves it.
THEOREM TypesHold == Spec => []TypeOK
<1>1. TypeInv => TypeOK
  BY DEF TypeInv
<1> QED
  BY <1>1, InitType, NextType, PTL DEF Spec

LEMMA PartialGrows ==
  ASSUME NEW i, NEW j, NEW n \in Nat
  PROVE  PartialProduct(i, j, n + 1) = Append(PartialProduct(i, j, n), TileProducts(i, j, n))
<1> DEFINE P(t) == TileProducts(i, j, t - 1)
           last == TileProducts(i, j, n)
<1>1. \A d \in Nat : PartialProduct(i, j, d) = [t \in 1 .. d |-> P(t)]
  BY DEF PartialProduct
<1>2. P(n + 1) = last
  <2>1. (n + 1) - 1 = n
    OBVIOUS
  <2> QED
    BY <2>1
<1> HIDE DEF P, last
<1>3. Append([t \in 1 .. n |-> P(t)], last) = [t \in 1 .. n + 1 |-> IF t <= n THEN P(t) ELSE last]
  OBVIOUS
<1>4. [t \in 1 .. n + 1 |-> IF t <= n THEN P(t) ELSE last] = [t \in 1 .. n + 1 |-> P(t)]
  BY <1>2
<1> QED
  BY <1>1, <1>3, <1>4 DEF last

LEMMA SameTile ==
  ASSUME UNCHANGED <<call, shape>>
  PROVE  /\ Accumulates' = Accumulates
         /\ \A i, j, t : TileProducts(i, j, t)' = TileProducts(i, j, t)
         /\ \A i, j, n : PartialProduct(i, j, n)' = PartialProduct(i, j, n)
         /\ UNCHANGED <<mi, ni>> => Rows' = Rows /\ Columns' = Columns
BY DEF Accumulates, TileProducts, PartialProduct, Rows, Columns, Extent, Tiles, Element

\* A launch multiplies the two tiles and nothing of the padding.
LEMMA LaunchedProduct ==
  ASSUME TypeInv, StagePadding, Staged, phase = "launch",
         NEW r \in Span, NEW c \in Span, r < Rows, c < Columns
  PROVE  Product(r, c) = TileProducts(mi * T + r, ni * T + c, ki)
<1> DEFINE base == ki * T
           used == {j \in Span : stageA[<<r, j>>] # Zero /\ stageB[<<j, c>>] # Zero}
           i == mi * T + r
           l == ni * T + c
<1>1. base \in Nat /\ Depth \in 1 .. T /\ T \in Nat \ {0} /\ Rows \in 1 .. T
  BY TileInHand, CellsAre
<1>2. \A j \in Span : j < Depth =>
        stageA[<<r, j>>] = Element(call, i, base + j) /\ stageB[<<j, c>>] = Element(call, base + j, l)
  BY DEF Staged
<1>3. \A j \in Span : j >= Depth => stageA[<<r, j>>] = Zero
  <2> SUFFICES ASSUME NEW j \in Span, j >= Depth PROVE stageA[<<r, j>>] = Zero
    OBVIOUS
  <2>1. <<r, j>> \in Cells /\ <<r, j>>[2] = j /\ extentA[2] = Depth
    BY CellsAre DEF Staged
  <2>2. \A x \in Cells : x[1] >= extentA[1] \/ x[2] >= extentA[2] => stageA[x] = Zero
    BY DEF StagePadding, PaddingIsZero
  <2> QED
    BY <2>1, <2>2
<1>4. \A x, y : Element(call, x, y) # Zero
  BY DEF Element, Zero
<1> HIDE DEF base, i, l
<1>5. used = 0 .. Depth - 1
  <2>1. \A j \in Span : j \in used <=> j < Depth
    BY <1>1, <1>2, <1>3, <1>4, CellsAre
  <2>2. 0 .. Depth - 1 \subseteq Span /\ \A j \in Span : j \in Nat
    BY <1>1 DEF Span
  <2> HIDE DEF used
  <2>3. used \subseteq Span
    BY DEF used
  <2>4. \A j : j \in 0 .. Depth - 1 <=> j \in Span /\ j < Depth
    BY <1>1, <2>2
  <2>5. \A j : j \in used <=> j \in 0 .. Depth - 1
    BY <2>1, <2>3, <2>4
  <2> QED
    BY <2>5
<1>6. Product(r, c) = {<<stageA[<<r, j>>], stageB[<<j, c>>]>> : j \in 0 .. Depth - 1}
  BY <1>5 DEF Product
<1>7. Product(r, c) = {<<Element(call, i, base + j), Element(call, base + j, l)>> : j \in 0 .. Depth - 1}
  <2>1. \A j \in 0 .. Depth - 1 :
          stageA[<<r, j>>] = Element(call, i, base + j) /\ stageB[<<j, c>>] = Element(call, base + j, l)
    BY <1>1, <1>2 DEF Span
  <2> QED
    BY <1>6, <2>1
<1>8. TileProducts(i, l, ki) = {<<Element(call, i, k), Element(call, k, l)>> : k \in base .. base + Depth - 1}
  BY DEF TileProducts, Depth, base
<1>9. {<<Element(call, i, base + j), Element(call, base + j, l)>> : j \in 0 .. Depth - 1}
        = {<<Element(call, i, k), Element(call, k, l)>> : k \in base .. base + Depth - 1}
  <2> DEFINE P(k) == <<Element(call, i, k), Element(call, k, l)>>
  <2> HIDE DEF P
  <2>1. {P(base + j) : j \in 0 .. Depth - 1} = {P(k) : k \in base .. base + Depth - 1}
    <3>1. ASSUME NEW x \in {P(base + j) : j \in 0 .. Depth - 1} PROVE x \in {P(k) : k \in base .. base + Depth - 1}
      <4>1. PICK j \in 0 .. Depth - 1 : x = P(base + j)
        OBVIOUS
      <4>2. base + j \in base .. base + Depth - 1
        BY <1>1
      <4> QED
        BY <4>1, <4>2
    <3>2. ASSUME NEW x \in {P(k) : k \in base .. base + Depth - 1} PROVE x \in {P(base + j) : j \in 0 .. Depth - 1}
      <4>1. PICK k \in base .. base + Depth - 1 : x = P(k)
        OBVIOUS
      <4>2. k - base \in 0 .. Depth - 1 /\ base + (k - base) = k
        BY <1>1
      <4> QED
        BY <4>1, <4>2
    <3> QED
      BY <3>1, <3>2
  <2> QED
    BY <2>1 DEF P
<1> QED
  BY <1>7, <1>8, <1>9 DEF i, l

LEMMA PackStages == ASSUME TypeInv, Pack PROVE Staged'
<1>1. /\ phase = "pack" /\ UNCHANGED <<call, shape>> /\ UNCHANGED <<mi, ni, ki>>
      /\ extentA' = <<Rows, Depth>> /\ extentB' = <<Depth, Columns>>
  BY DEF Pack, PackA, PackB, tileVars
<1>2. Rows' = Rows /\ Columns' = Columns /\ Depth' = Depth
  BY <1>1 DEF Rows, Columns, Depth
<1>3. \A r, k \in Span : r < Rows /\ k < Depth => stageA'[<<r, k>>] = Element(call, mi * T + r, ki * T + k)
  <2> SUFFICES ASSUME NEW r \in Span, NEW k \in Span, r < Rows, k < Depth
               PROVE  stageA'[<<r, k>>] = Element(call, mi * T + r, ki * T + k)
    OBVIOUS
  <2>1. <<r, k>> \in Cells
    BY CellsAre
  <2> QED
    BY <2>1 DEF Pack, PackA, Packed
<1>4. \A k, c \in Span : k < Depth /\ c < Columns => stageB'[<<k, c>>] = Element(call, ki * T + k, ni * T + c)
  <2> SUFFICES ASSUME NEW k \in Span, NEW c \in Span, k < Depth, c < Columns
               PROVE  stageB'[<<k, c>>] = Element(call, ki * T + k, ni * T + c)
    OBVIOUS
  <2>1. <<k, c>> \in Cells
    BY CellsAre
  <2> QED
    BY <2>1 DEF Pack, PackB, Packed
<1> QED
  BY <1>1, <1>2, <1>3, <1>4 DEF Staged, Element

LEMMA PackAdds == ASSUME TypeInv, AddedUp, Pack PROVE AddedUp'
<1>1. phase = "pack" /\ phase' = "launch" /\ cAcc' = ClearedAcc /\ UNCHANGED <<call, shape>> /\ UNCHANGED <<mi, ni, ki>>
  BY DEF Pack, tileVars
<1>2. ASSUME NEW r \in Span, NEW c \in Span, r < Rows, c < Columns, Accumulates
      PROVE  cAcc'[<<r, c>>] = PartialProduct(mi * T + r, ni * T + c, ki)
  <2>1. CASE ki = 0
    <3>1. cAcc' = [x \in Cells |-> IF x[1] < Rows /\ x[2] < Columns THEN <<>> ELSE cAcc[x]]
      BY <1>1, <1>2, <2>1 DEF ClearedAcc
    <3>2. cAcc'[<<r, c>>] = <<>>
      BY <1>2, <3>1, CellsAre
    <3> QED
      BY <2>1, <3>2 DEF PartialProduct
  <2>2. CASE ki # 0
    <3>1. ki > 0
      BY <1>1, <2>2, TileInHand
    <3> QED
      BY <1>1, <1>2, <2>2, <3>1 DEF AddedUp, ClearedAcc
  <2> QED
    BY <2>1, <2>2
<1> QED
  BY <1>1, <1>2, SameTile DEF AddedUp

LEMMA LaunchAdds == ASSUME TypeInv, StagePadding, Staged, AddedUp, Launch PROVE AddedUp'
<1>1. /\ phase = "launch" /\ ki' = ki + 1 /\ UNCHANGED <<call, shape>> /\ UNCHANGED <<mi, ni>>
      /\ cRaw' = [x \in Cells |-> Product(x[1], x[2])] /\ Accumulate
      /\ phase' = IF ki' < Tiles(shape.K) THEN "pack" ELSE "store"
  BY DEF Launch
<1>2. ki \in Nat /\ ki < Tiles(shape.K) /\ Tiles(shape.K) \in Nat
  BY <1>1, TileInHand
<1>3. ASSUME NEW r \in Span, NEW c \in Span, r < Rows, c < Columns
      PROVE  /\ Accumulates => cAcc'[<<r, c>>] = PartialProduct(mi * T + r, ni * T + c, ki + 1)
             /\ ~Accumulates => ki = 0 /\ cRaw'[<<r, c>>] = TileProducts(mi * T + r, ni * T + c, 0)
  <2>1. cRaw'[<<r, c>>] = TileProducts(mi * T + r, ni * T + c, ki)
    <3>1. cRaw'[<<r, c>>] = Product(r, c)
      BY <1>1, CellsAre
    <3> QED
      BY <1>1, <1>3, <3>1, LaunchedProduct
  <2>2. CASE Accumulates
    <3>1. cAcc'[<<r, c>>] = Append(cAcc[<<r, c>>], cRaw'[<<r, c>>])
      BY <1>1, <1>3, <2>2, CellsAre DEF Accumulate
    <3>2. cAcc[<<r, c>>] = PartialProduct(mi * T + r, ni * T + c, ki)
      BY <1>1, <1>3, <2>2 DEF AddedUp
    <3> QED
      BY <1>2, <2>1, <2>2, <3>1, <3>2, PartialGrows
  <2>3. CASE ~Accumulates
    <3>1. ki = 0
      BY <1>2, <2>3 DEF Accumulates
    <3> QED
      BY <2>1, <2>3, <3>1
  <2> QED
    BY <2>2, <2>3
<1> QED
  BY <1>1, <1>3, SameTile DEF AddedUp

\* What is copied out of an output tile is its part of the product.
LEMMA TileResultIs ==
  ASSUME TypeInv, AddedUp, phase = "store", NEW r \in Span, NEW c \in Span, r < Rows, c < Columns
  PROVE  TileResult(<<r, c>>) = PartialProduct(mi * T + r, ni * T + c, Tiles(shape.K))
<1>1. ki = Tiles(shape.K) /\ Tiles(shape.K) \in Nat \ {0}
  BY TileInHand DEF TypeInv, InLoops
<1>2. CASE Accumulates
  BY <1>1, <1>2 DEF AddedUp, TileResult
<1>3. CASE ~Accumulates
  <2>1. Tiles(shape.K) = 1
    BY <1>1, <1>3 DEF Accumulates
  <2>2. TileResult(<<r, c>>) = <<TileProducts(mi * T + r, ni * T + c, 0)>>
    BY <1>3 DEF AddedUp, TileResult
  <2>3. PartialProduct(mi * T + r, ni * T + c, 1) = <<TileProducts(mi * T + r, ni * T + c, 0)>>
    <3> DEFINE P(t) == TileProducts(mi * T + r, ni * T + c, t - 1)
    <3>1. P(1) = TileProducts(mi * T + r, ni * T + c, 0)
      <4>1. 1 - 1 = 0
        OBVIOUS
      <4> QED
        BY <4>1
    <3>2. PartialProduct(mi * T + r, ni * T + c, 1) = [t \in 1 .. 1 |-> P(t)]
      BY DEF PartialProduct
    <3> HIDE DEF P
    <3>3. [t \in 1 .. 1 |-> P(t)] = <<P(1)>>
      OBVIOUS
    <3> QED
      BY <3>1, <3>2, <3>3
  <2> QED
    BY <2>1, <2>2, <2>3
<1> QED
  BY <1>2, <1>3

\* A store completes the output tile in hand and no other element.
LEMMA StoreCompletes ==
  ASSUME TypeInv, AddedUp, StoredSoFar, Store,
         NEW i \in 0 .. shape.M - 1, NEW j \in 0 .. shape.N - 1,
         i < mi * T \/ (i < mi * T + T /\ j < ni * T + T)
  PROVE  C'[<<i, j>>] = PartialProduct(i, j, Tiles(shape.K))
<1> DEFINE r == i - mi * T
           c == j - ni * T
<1>1. phase = "store" /\ <<i, j>> \in DOMAIN C
  BY DEF Store, StoredSoFar
<1>2. C'[<<i, j>>] = IF r \in 0 .. Rows - 1 /\ c \in 0 .. Columns - 1 THEN TileResult(<<r, c>>) ELSE C[<<i, j>>]
  BY <1>1 DEF Store
<1>3. /\ shape.M \in Nat /\ shape.N \in Nat /\ i \in Nat /\ j \in Nat /\ i < shape.M /\ j < shape.N
      /\ mi \in Nat /\ ni \in Nat /\ mi < Tiles(shape.M) /\ ni < Tiles(shape.N)
      /\ mi * T \in Nat /\ ni * T \in Nat /\ Rows \in 1 .. T /\ Columns \in 1 .. T /\ T \in Nat \ {0}
  BY <1>1, TileInHand, CellsAre DEF TypeInv, InLoops
<1>4. CASE r \in 0 .. Rows - 1 /\ c \in 0 .. Columns - 1
  <2>1. r \in Span /\ c \in Span /\ r < Rows /\ c < Columns
    BY <1>3, <1>4 DEF Span
  <2>2. mi * T + r = i /\ ni * T + c = j
    BY <1>3
  <2> HIDE DEF r, c
  <2>3. TileResult(<<r, c>>) = PartialProduct(mi * T + r, ni * T + c, Tiles(shape.K))
    BY <1>1, <2>1, TileResultIs
  <2> QED
    BY <1>2, <1>4, <2>2, <2>3
<1>5. CASE ~(r \in 0 .. Rows - 1 /\ c \in 0 .. Columns - 1)
  <2>1. mi * T <= i /\ i < mi * T + T => r \in 0 .. Rows - 1
    BY <1>3, ExtentFits DEF Rows
  <2>2. ni * T <= j /\ j < ni * T + T => c \in 0 .. Columns - 1
    BY <1>3, ExtentFits DEF Columns
  <2>3. Before(i, j)
    <3> HIDE DEF r, c
    <3> QED
      BY <1>3, <1>5, <2>1, <2>2 DEF Before
  <2> QED
    BY <1>1, <1>2, <1>5, <2>3 DEF StoredSoFar
<1> QED
  BY <1>4, <1>5

LEMMA StoreStored ==
  ASSUME TypeInv, AddedUp, StoredSoFar, Store
  PROVE  StoredSoFar' /\ ProductExact'
<1>1. /\ phase = "store" /\ UNCHANGED <<call, shape>>
      /\ \/ ni + 1 < Tiles(shape.N) /\ ni' = ni + 1 /\ mi' = mi /\ phase' = "pack" /\ status' = status
         \/ /\ ni + 1 = Tiles(shape.N) /\ ni' = 0 /\ mi' = mi + 1
            /\ \/ mi + 1 < Tiles(shape.M) /\ phase' = "pack" /\ status' = status
               \/ mi + 1 = Tiles(shape.M) /\ phase' = "idle" /\ status' = "ok"
  BY StoreStep
<1>2. /\ shape.M \in Nat /\ shape.N \in Nat /\ mi \in Nat /\ ni \in Nat
      /\ mi < Tiles(shape.M) /\ ni < Tiles(shape.N)
      /\ mi * T \in Nat /\ ni * T \in Nat /\ T \in Nat \ {0}
  BY <1>1, TileInHand, CellsAre DEF TypeInv, InLoops
<1>3. (mi + 1) * T = mi * T + T /\ (ni + 1) * T = ni * T + T
  BY <1>2, ExtentFits
<1>4. shape.M <= Tiles(shape.M) * T /\ shape.N <= Tiles(shape.N) * T
  BY <1>2, TilesCover
<1>5. DOMAIN C' = (0 .. shape.M - 1) \X (0 .. shape.N - 1)
  BY <1>1 DEF Store, StoredSoFar
<1>6. CASE ni + 1 < Tiles(shape.N) /\ ni' = ni + 1 /\ mi' = mi /\ phase' = "pack"
  <2>1. \A i \in 0 .. shape.M - 1, j \in 0 .. shape.N - 1 :
          Before(i, j)' => i < mi * T \/ (i < mi * T + T /\ j < ni * T + T)
    BY <1>3, <1>6 DEF Before
  <2>2. \A i \in 0 .. shape.M - 1, j \in 0 .. shape.N - 1 :
          Before(i, j)' => C'[<<i, j>>] = PartialProduct(i, j, Tiles(shape.K))
    BY <2>1, StoreCompletes
  <2> QED
    BY <1>1, <1>5, <1>6, <2>2, SameTile DEF StoredSoFar, ProductExact, Tiles
<1>7. CASE ni + 1 = Tiles(shape.N) /\ ni' = 0 /\ mi' = mi + 1
  <2>1. \A i \in 0 .. shape.M - 1, j \in 0 .. shape.N - 1 :
          i < mi * T + T => C'[<<i, j>>] = PartialProduct(i, j, Tiles(shape.K))
    <3> SUFFICES ASSUME NEW i \in 0 .. shape.M - 1, NEW j \in 0 .. shape.N - 1, i < mi * T + T
                 PROVE  C'[<<i, j>>] = PartialProduct(i, j, Tiles(shape.K))
      OBVIOUS
    <3>1. j < ni * T + T
      BY <1>2, <1>3, <1>4, <1>7
    <3> QED
      BY <3>1, StoreCompletes
  <2>2. CASE phase' = "pack"
    <3>1. \A i \in 0 .. shape.M - 1, j \in 0 .. shape.N - 1 : Before(i, j)' => i < mi * T + T
      <4> SUFFICES ASSUME NEW i \in 0 .. shape.M - 1, NEW j \in 0 .. shape.N - 1, Before(i, j)'
                   PROVE  i < mi * T + T
        OBVIOUS
      <4>1. ni' * T = 0
        BY <1>2, <1>7
      <4>2. mi' * T = mi * T + T
        BY <1>3, <1>7
      <4>3. i < mi' * T \/ (i < mi' * T + T /\ j < ni' * T)
        BY DEF Before
      <4> QED
        BY <4>1, <4>2, <4>3
    <3> QED
      BY <1>1, <1>5, <2>1, <2>2, <3>1, SameTile DEF StoredSoFar, ProductExact, Tiles
  <2>3. CASE phase' = "idle" /\ mi + 1 = Tiles(shape.M)
    <3>1. \A i \in 0 .. shape.M - 1 : i < mi * T + T
      BY <1>2, <1>3, <1>4, <2>3
    <3>2. \A x \in DOMAIN C' : C'[x] = PartialProduct(x[1], x[2], Tiles(shape.K))
      <4> SUFFICES ASSUME NEW x \in (0 .. shape.M - 1) \X (0 .. shape.N - 1)
                   PROVE  C'[x] = PartialProduct(x[1], x[2], Tiles(shape.K))
        BY <1>5
      <4>1. PICK i \in 0 .. shape.M - 1, j \in 0 .. shape.N - 1 : x = <<i, j>>
        OBVIOUS
      <4> QED
        BY <2>1, <3>1, <4>1
    <3>3. Tiles(shape.K)' = Tiles(shape.K)
      BY <1>1 DEF Tiles
    <3>4. \A x \in DOMAIN C' : C'[x] = PartialProduct(x[1], x[2], Tiles(shape.K))'
      BY <1>1, <3>2, <3>3, SameTile
    <3> QED
      BY <2>3, <3>4 DEF StoredSoFar, ProductExact, PartialProduct
  <2> QED
    BY <1>1, <1>2, <1>7, <2>2, <2>3
<1> QED
  BY <1>1, <1>6, <1>7

LEMMA CallStored == ASSUME Call PROVE StoredSoFar' /\ ProductExact'
<1>1. /\ phase' = "pack" /\ mi' = 0 /\ ni' = 0 /\ T \in Nat
      /\ \E s \in Shapes : shape' = s /\ C' = [x \in (0 .. s.M - 1) \X (0 .. s.N - 1) |-> <<>>]
  BY Bf16Assumption DEF Call
<1>2. DOMAIN C' = (0 .. shape'.M - 1) \X (0 .. shape'.N - 1)
  BY <1>1
<1>3. mi' * T = 0 /\ ni' * T = 0
  BY <1>1
<1>4. \A i \in 0 .. shape'.M - 1, j \in 0 .. shape'.N - 1 : ~Before(i, j)'
  BY <1>3 DEF Before
<1> QED
  BY <1>1, <1>2, <1>4 DEF StoredSoFar, ProductExact

LEMMA NextProduct ==
  ASSUME TypeInv, StagePadding, ProductInv, [Next]_vars
  PROVE  ProductInv'
<1> USE DEF ProductInv
<1>1. CASE CallInvalid \/ CallUnavailable \/ LaunchFails
  <2>1. phase' = "idle" /\ status' # "ok"
    BY <1>1 DEF CallInvalid, CallUnavailable, LaunchFails, Reject
  <2> QED
    BY <2>1 DEF Staged, AddedUp, StoredSoFar, ProductExact
<1>2. CASE Call
  <2>1. phase' = "pack" /\ ki' = 0
    BY <1>2 DEF Call
  <2>2. Staged' /\ AddedUp'
    BY <2>1 DEF Staged, AddedUp
  <2> QED
    BY <1>2, <2>2, CallStored
<1>3. CASE Pack \/ Launch
  <2>1. /\ phase # "idle" /\ phase' # "idle" /\ UNCHANGED <<call, shape>> /\ UNCHANGED <<mi, ni, C>>
        /\ Pack \/ phase' # "launch"
    BY <1>3 DEF Pack, Launch, tileVars
  <2>2. StoredSoFar' /\ ProductExact'
    BY <2>1, SameTile DEF StoredSoFar, ProductExact, Before, Tiles
  <2>3. Staged'
    BY <2>1, PackStages DEF Staged
  <2> QED
    BY <1>3, <2>2, <2>3, PackAdds, LaunchAdds
<1>4. CASE Store
  <2>1. phase' \in {"pack", "idle"} /\ ki' = 0
    BY <1>4, StoreStep
  <2>2. Staged' /\ AddedUp'
    BY <2>1 DEF Staged, AddedUp
  <2> QED
    BY <1>4, <2>2, StoreStored
<1>5. CASE UNCHANGED vars
  <2>1. UNCHANGED <<call, shape>> /\ UNCHANGED <<mi, ni>> /\ UNCHANGED <<phase, status, ki, cRaw, cAcc, C, extentA, extentB, stageA, stageB>>
    BY <1>5 DEF vars, tileVars, stageVars
  <2>2. Depth' = Depth
    BY <2>1 DEF Depth
  <2>3. Staged'
    BY <2>1, <2>2, SameTile DEF Staged, Element
  <2>4. AddedUp'
    BY <2>1, SameTile DEF AddedUp
  <2>5. StoredSoFar'
    BY <2>1, SameTile DEF StoredSoFar, Before, Tiles
  <2>6. ProductExact'
    BY <2>1, SameTile DEF ProductExact, Tiles
  <2> QED
    BY <2>3, <2>4, <2>5, <2>6
<1> QED
  BY <1>1, <1>2, <1>3, <1>4, <1>5 DEF Next

\* A call that returns OK has computed the product, for every tile size and
\* every shape, after any history of calls and failed launches.
THEOREM ProductIsExact == Spec => []ProductExact
<1>1. Init => ProductInv
  BY DEF Init, ProductInv, Staged, AddedUp, StoredSoFar, ProductExact
<1>2. TypeInv /\ StagePadding /\ ProductInv /\ [Next]_vars => ProductInv'
  BY NextProduct
<1>3. ProductInv => ProductExact
  BY DEF ProductInv
<1> QED
  BY <1>1, <1>2, <1>3, InitType, NextType, PaddingStaysZero, PTL DEF Spec
===============================================================================
