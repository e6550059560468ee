----------------------------- MODULE NpuOps_proofs -----------------------------
(***************************************************************************)
(* Proofs about the operators of the NPU backend, for every size, width,   *)
(* head count, tile length and eps, and whatever files the disk holds.     *)
(* An operator is right on a kernel that fits it, by arithmetic on padding *)
(* and packing; that the validation on first use keeps its word needs an   *)
(* invariant, which says that the kernel behind a validated size is still  *)
(* the one that was validated.  The route of a product is fixed because    *)
(* the first answer about each optional kernel is remembered.              *)
(***************************************************************************)
EXTENDS NpuOps, SequenceTheorems, FiniteSetTheorems, TLAPS

-----------------------------------------------------------------------------
(* Division with remainder, tiles, and the halves of a vector.              *)

\* Quotients and remainders of natural numbers.
LEMMA DivMod ==
  ASSUME NEW a \in Nat, NEW b \in Nat \ {0}
  PROVE  a \div b \in Nat /\ a % b \in 0 .. b - 1 /\ a = b * (a \div b) + (a % b)
<1>1. a \div b \in Int /\ a % b \in 0 .. b - 1 /\ a = b * (a \div b) + (a % b)
  OBVIOUS
<1> DEFINE q == a \div b
           r == a % b
<1> HIDE DEF q, r
<1>2. q >= 0
  <2> SUFFICES ASSUME q <= -1 PROVE FALSE
    BY <1>1 DEF q
  <2>1. PICK z \in Nat : q = -1 - z
    <3>1. -1 - q \in Nat /\ q = -1 - (-1 - q)
      BY <1>1 DEF q
    <3> QED
      BY <3>1
  <2>2. b * q = -b - b * z /\ b * z \in Nat
    BY <2>1
  <2> QED
    BY <1>1, <2>2 DEF q, r
<1> QED
  BY <1>1, <1>2 DEF q

\* A multiple of a smaller number is a whole factor below one of a larger.
LEMMA ProductsCompare ==
  ASSUME NEW x \in Nat, NEW y \in Nat, NEW b \in Nat, x < y
  PROVE  b * x + b <= b * y
<1>1. PICK z \in Nat : y = x + 1 + z
  <2>1. y - x - 1 \in Nat /\ y = x + 1 + (y - x - 1)
    OBVIOUS
  <2> QED
    BY <2>1
<1>2. b * y = b * x + b + b * z
  BY <1>1
<1>3. b * z \in Nat /\ b * x \in Nat
  OBVIOUS
<1> QED
  BY <1>2, <1>3

LEMMA DivUnique ==
  ASSUME NEW b \in Nat \ {0}, NEW q1 \in Nat, NEW q2 \in Nat, NEW r1 \in 0 .. b - 1, NEW r2 \in 0 .. b - 1,
         b * q1 + r1 = b * q2 + r2
  PROVE  q1 = q2 /\ r1 = r2
<1>0. b * q1 \in Nat /\ b * q2 \in Nat
  OBVIOUS
<1>1. ~(q1 < q2)
  <2> SUFFICES ASSUME q1 < q2 PROVE FALSE
    OBVIOUS
  <2>1. b * q1 + b <= b * q2
    BY ProductsCompare
  <2> QED
    BY <1>0, <2>1
<1>2. ~(q2 < q1)
  <2> SUFFICES ASSUME q2 < q1 PROVE FALSE
    OBVIOUS
  <2>1. b * q2 + b <= b * q1
    BY ProductsCompare
  <2> QED
    BY <1>0, <2>1
<1> QED
  BY <1>0, <1>1, <1>2

LEMMA DivOf ==
  ASSUME NEW b \in Nat \ {0}, NEW q \in Nat, NEW r \in 0 .. b - 1, NEW a \in Nat, a = b * q + r
  PROVE  a \div b = q /\ a % b = r
<1>1. a \div b \in Nat /\ a % b \in 0 .. b - 1 /\ a = b * (a \div b) + (a % b)
  BY DivMod
<1> QED
  BY <1>1, DivUnique

-----------------------------------------------------------------------------
(* Tiles of size t over 0 .. n - 1; the last may be short.                  *)

\* A size takes no tile more than it needs, and the tiles cover it.
LEMMA TileCounts ==
  ASSUME NEW n \in Nat, NEW t \in Nat \ {0}
  PROVE  /\ (n + t - 1) \div t \in Nat
         /\ n <= ((n + t - 1) \div t) * t
         /\ ((n + t - 1) \div t) * t <= n + t - 1
<1> DEFINE c == (n + t - 1) \div t
           r == (n + t - 1) % t
<1>1. n + t - 1 \in Nat
  OBVIOUS
<1>2. c \in Nat /\ r \in 0 .. t - 1 /\ n + t - 1 = t * c + r
  BY <1>1, DivMod
<1> HIDE DEF c, r
<1>3. t * c \in Nat /\ c * t = t * c
  BY <1>2
<1>4. c \in Nat /\ n <= c * t /\ c * t <= n + t - 1
  BY <1>2, <1>3
<1> QED
  BY <1>4 DEF c

\* Element i of row r, rows of n packed one after the other.
Spot(r, n, i) == r * n + i

\* In a buffer of two halves of size rows, laid out alike: an element is in the
\* first half, and row and element come back from its place in either.
LEMMA HalvesPlace ==
  ASSUME NEW n \in Nat \ {0}, NEW size \in Nat, NEW r \in 0 .. size - 1, NEW i \in 0 .. n - 1
  PROVE  LET at == Spot(r, n, i)
             half == Spot(size, n, 0)
         IN /\ at \in Nat /\ half \in Nat /\ at < half
            /\ at \div n = r /\ at % n = i
            /\ at % half = at
            /\ (at + half) % half = at /\ (at + half) % n = i
<1> DEFINE at == Spot(r, n, i)
           half == Spot(size, n, 0)
<1>1. n * r + n <= n * size
  BY ProductsCompare
<1>2. /\ r \in Nat /\ n * r \in Nat /\ n * size \in Nat
      /\ at = n * r + i /\ half = n * size /\ n * (r + size) = n * r + n * size
  BY DEF Spot
<1> HIDE DEF at, half
<1>3. at < half /\ half \in Nat \ {0} /\ at \in 0 .. half - 1 /\ at \in Nat
  BY <1>1, <1>2
<1>4. at \div n = r /\ at % n = i
  BY <1>2, <1>3, DivOf
<1>5. at = half * 0 + at /\ at + half = half * 1 + at /\ at + half \in Nat
  BY <1>3
<1>6. at % half = at
  BY <1>3, <1>5, DivOf
<1>7. (at + half) % half = at
  BY <1>3, <1>5, DivOf
<1>8. (at + half) % n = i
  <2> DEFINE a == at + half
             row == r + size
  <2>1. a \in Nat /\ row \in Nat /\ a = n * row + i
    BY <1>2, <1>3
  <2> HIDE DEF a, row
  <2>2. (a % n) = i
    BY ONLY <2>1, n \in Nat \ {0}, i \in 0 .. n - 1, DivOf
  <2> QED
    BY <2>2 DEF a
<1> QED
  BY <1>3, <1>4, <1>6, <1>7, <1>8 DEF at, half

-----------------------------------------------------------------------------
(* A loop nest over a grid of tiles.                                         *)

\* What a kernel leaves where it computes nothing is not a result.  (A
\* hypothesis: TLC cannot enumerate x and y.)
JunkIsNoResult == \A x, y : Junk # <<x, y>>

-----------------------------------------------------------------------------
(* The invariants.                                                          *)

\* Where a kernel serves what fits its length, the length is a number: of all
\* files, of the one opened at start and of all kernels.
Numbered(f) == \A n \in DOMAIN f : f[n].shape[1] \in Nat

DiskNumbered(d) ==
  d = [xclbin |-> d.xclbin, seq |-> d.seq] /\ Numbered(d.xclbin)

LengthsKnown ==
  op \in LengthOperators =>
    /\ DiskNumbered(disk) /\ Numbered(kernels)
    /\ ctx = <<>> \/ (ctx = <<ctx[1]>> /\ ctx[1].file.shape[1] \in Nat)

\* Kernel k gets an activation of size n right, in one launch or in chunks.
Activates(k, exact, n) ==
  Activated(k, exact, [i \in 1 .. n |-> <<i>>]) = [i \in 1 .. n |-> Applied(<<i>>)]

\* The kernel that a gelu of size n uses is there and gets it right: its own,
\* or the tiling one, once n is known to have none of its own.
GeluServes(n) ==
  \/ <<n>> \in DOMAIN kernels /\ Activates(kernels[<<n>>], TRUE, n)
  \/ /\ n \in tiled /\ <<n>> \notin DOMAIN kernels
     /\ <<ActivationSize>> \in DOMAIN kernels
     /\ Activates(kernels[<<ActivationSize>>], FALSE, n)

\* The kernel that an rms_norm padded to width uses is there and fits.
RmsServes(width) ==
  <<width>> \in DOMAIN kernels /\ Fits(kernels[<<width>>], <<width>>)

\* As long as the caller goes on, what was validated, and not on an input near
\* zero, is served by a kernel that is right.
ValidatedServes ==
  up => \A n \in validated \ vacuous :
          /\ op = "gelu" => GeluServes(n)
          /\ op = "rms" => RmsServes(rmsnorm_pad_width(n))

OpInv ==
  /\ op \in Operators
  /\ LengthsKnown
  /\ ValidatedServes
  /\ OkIsReference /\ ErrorHasCause

\* The route of a class of products already seen: the optional kernels it asks
\* for were found up to some point, and the next one was not.
Settled(c) ==
  \E n \in 0 .. Len(PathsOf(c)) :
    /\ \A j \in 1 .. n : paths[PathsOf(c)[j]] = "loaded"
    /\ n < Len(PathsOf(c)) => paths[PathsOf(c)[n + 1]] = "unavailable"
    /\ routes[c] = IF n = 0 THEN "square" ELSE PathsOf(c)[n]

RouteInv ==
  /\ runs \in Nat
  /\ paths \in [Paths -> {"unasked", "loaded", "unavailable"}]
  /\ \A c \in DOMAIN routes : Settled(c)

-----------------------------------------------------------------------------
(* The choices by operator.                                                 *)

LEMMA FitsIs ==
  ASSUME NEW k, NEW s
  PROVE  /\ op \in {"silu", "gelu"} => (Fits(k, s) <=> Works(k) /\ k.shape[1] >= s[1])
         /\ op = "rope" => (Fits(k, s) <=> /\ Works(k)
                                           /\ RopePad(k.shape[1] \div 2) >= RopePad(s[1] \div 2))
         /\ op = "softmax" => (Fits(k, s) <=> /\ Works(k)
                                              /\ k.shape[1] >= s[1] /\ k.shape[2] = s[2])
         /\ op \in {"rms", "flash"} => (Fits(k, s) <=> Works(k) /\ k.shape = s)
<1>1. op \in {"silu", "gelu"} => (Fits(k, s) <=> Works(k) /\ k.shape[1] >= s[1])
  BY Zenon DEF Fits
<1>2. op = "rope" => (Fits(k, s) <=> /\ Works(k)
                                     /\ RopePad(k.shape[1] \div 2) >= RopePad(s[1] \div 2))
  BY Zenon DEF Fits
<1>3. op = "softmax" => (Fits(k, s) <=> Works(k) /\ k.shape[1] >= s[1] /\ k.shape[2] = s[2])
  BY Zenon DEF Fits
<1>4. op = "rms" => (Fits(k, s) <=> Works(k) /\ k.shape = s)
  BY Zenon DEF Fits
<1>5. op = "flash" => (Fits(k, s) <=> Works(k) /\ k.shape = s)
  BY Zenon DEF Fits
<1> QED
  BY <1>1, <1>2, <1>3, <1>4, <1>5

LEMMA ReferenceIs ==
  ASSUME NEW c
  PROVE  /\ op \in {"silu", "gelu"} => Reference(c) = [i \in 1 .. c.size |-> Applied(Input(c)[i])]
         /\ op = "rms" => Reference(c) = <<c.size, c.eps>>
         /\ op = "rope" => Reference(c) = RotatedCpu(c)
         /\ op = "softmax" => Reference(c) = [r \in 1 .. c.rows |-> <<r, c.cols>>]
         /\ op = "flash" => Reference(c) = HostHeads(c)
<1>1. op = "silu" => Reference(c) = [i \in 1 .. c.size |-> Applied(Input(c)[i])]
  BY Zenon DEF Reference
<1>2. op = "gelu" => Reference(c) = [i \in 1 .. c.size |-> Applied(Input(c)[i])]
  BY Zenon DEF Reference
<1>3. op = "rms" => Reference(c) = <<c.size, c.eps>>
  BY Zenon DEF Reference
<1>4. op = "rope" => Reference(c) = RotatedCpu(c)
  BY Zenon DEF Reference
<1>5. op = "softmax" => Reference(c) = [r \in 1 .. c.rows |-> <<r, c.cols>>]
  BY Zenon DEF Reference
<1>6. op = "flash" => Reference(c) = HostHeads(c)
  BY Zenon DEF Reference
<1> QED
  BY <1>1, <1>2, <1>3, <1>4, <1>5, <1>6

-----------------------------------------------------------------------------
(* An operator on a kernel that fits it.                                    *)

\* Element i of a long input is element ((i - 1) % ActivationSize) + 1 of its
\* chunk, which the tiling kernel covers.
LEMMA FittingActivates ==
  ASSUME op \in {"silu", "gelu"}, NEW n \in Nat, NEW exact \in BOOLEAN,
         NEW k, k.shape[1] \in Nat, Fits(k, IF exact THEN <<n>> ELSE <<ActivationSize>>)
  PROVE  Activates(k, exact, n)
<1> USE NpuKernelsAssumption
<1>1. Works(k) /\ k.shape[1] >= (IF exact THEN n ELSE ActivationSize)
  BY FitsIs
<1> SUFFICES ASSUME NEW i \in 1 .. n
             PROVE  Element(k, <<i>>, IF exact THEN i ELSE ((i - 1) % ActivationSize) + 1)
                    = Applied(<<i>>)
  BY DEF Activates, Activated
<1>2. (IF exact THEN i ELSE ((i - 1) % ActivationSize) + 1) <= k.shape[1]
  <2>1. CASE exact
    BY <1>1, <2>1
  <2>2. CASE ~exact
    <3>1. i - 1 \in Nat
      OBVIOUS
    <3>2. (i - 1) % ActivationSize \in 0 .. ActivationSize - 1
      BY <3>1, DivMod
    <3> QED
      BY <1>1, <2>2, <3>2
  <2> QED
    BY <2>1, <2>2
<1> QED
  BY <1>1, <1>2 DEF Element

\* Whatever the width a row is padded to, the correction gives the caller's
\* divisor and eps.
LEMMA NormedIs ==
  ASSUME JunkIsNoResult, NEW k, NEW width, NEW n, NEW eps
  PROVE  Corrected(Normed(k, width), width, n, eps)
           = IF Fits(k, <<width>>) THEN <<n, eps>> ELSE Junk
BY DEF Corrected, Normed, JunkIsNoResult

LEMMA FittingSoftmax ==
  ASSUME op = "softmax", NEW n \in Nat, NEW cols, NEW k, k.shape[1] \in Nat, Fits(k, <<n, cols>>)
  PROVE  Softmaxed(k, n, cols) = [r \in 1 .. n |-> <<r, cols>>]
<1>1. Works(k) /\ k.shape[1] >= n /\ k.shape[2] = cols
  BY FitsIs
<1>2. \A r \in 1 .. n : r <= k.shape[1]
  BY <1>1
<1> QED
  BY <1>1, <1>2 DEF Softmaxed

\* The scores masked on the host leave the positions the host looks at.
LEMMA HeadsAgree ==
  ASSUME NEW c, c.len \in Nat, c.qpos \in Int
  PROVE  /\ HeadOnNpu(c) = HeadOnHost(c)
         /\ QueryPos(c) >= c.len - 1 => HeadOnHost(c) = 0 .. c.len - 1
BY DEF HeadOnNpu, HeadOnHost, QueryPos, Smaller

LEMMA RopePadType ==
  ASSUME NEW n \in Nat
  PROVE  RopePad(n) \in Nat /\ 2 * n <= RopePad(n)
<1> DEFINE padded == ((n + Tile - 1) \div Tile) * Tile
<1>1. Tile \in Nat \ {0}
  BY NpuOpsAssumption
<1>2. (n + Tile - 1) \div Tile \in Nat /\ n <= padded
  BY <1>1, TileCounts
<1>3. padded \in Nat
  BY <1>1, <1>2
<1>4. RopePad(n) = Larger(2 * Tile, padded * 2)
  BY DEF RopePad, Ceiling
<1> HIDE DEF padded
<1> QED
  BY <1>1, <1>2, <1>3, <1>4 DEF Larger

\* How many heads go into a launch: at least one, and no more than fit.
LEMMA LaunchSize ==
  ASSUME NEW c, c.pairs \in Nat \ {0}
  PROVE  /\ HeadsPerLaunch(c) \in Nat \ {0}
         /\ HeadsPerLaunch(c) * c.pairs \in Nat
         /\ 2 * (HeadsPerLaunch(c) * c.pairs) <= RopePad(c.pairs)
<1> DEFINE b == 2 * c.pairs
           H == RopePad(c.pairs) \div b
           rest == RopePad(c.pairs) % b
           pad == RopePad(c.pairs)
<1>1. pad \in Nat /\ b \in Nat \ {0} /\ b <= pad
  BY RopePadType
<1>2. H \in Nat /\ rest \in 0 .. b - 1 /\ pad = b * H + rest
  BY <1>1, DivMod
<1>3. HeadsPerLaunch(c) = H
  BY DEF HeadsPerLaunch
<1>4. b * H = 2 * (H * c.pairs) /\ H * c.pairs \in Nat
  <2> HIDE DEF H, rest, pad
  <2> QED
    BY <1>2
<1> HIDE DEF H, rest, pad, b
<1>5. H # 0
  <2> SUFFICES ASSUME H = 0 PROVE FALSE
    OBVIOUS
  <2>1. b * H = 0
    BY <1>1
  <2> QED
    BY <1>1, <1>2, <2>1
<1> QED
  BY <1>1, <1>2, <1>3, <1>4, <1>5 DEF pad

\* The group of a head: its place in it, and that the group fits the launch.
LEMMA GroupIs ==
  ASSUME NEW c, c.pairs \in Nat \ {0}, c.heads \in Nat, NEW h \in 0 .. c.heads - 1
  PROVE  /\ GroupOf(c, h).first \in Nat /\ GroupOf(c, h).size \in Nat
         /\ h - GroupOf(c, h).first \in 0 .. GroupOf(c, h).size - 1
         /\ GroupOf(c, h).size <= HeadsPerLaunch(c)
<1> DEFINE H == HeadsPerLaunch(c)
           q == h \div H
           r == h % H
           first == q * H
<1>1. H \in Nat \ {0}
  BY LaunchSize
<1>2. h \in Nat /\ h < c.heads
  OBVIOUS
<1> HIDE DEF H
<1>3. q \in Nat /\ r \in 0 .. H - 1 /\ h = H * q + r
  BY <1>1, <1>2, DivMod
<1> HIDE DEF q, r
<1>4. first \in Nat /\ first = H * q
  BY <1>1, <1>3
<1> HIDE DEF first
<1>5. h - first = r /\ r < c.heads - first
  BY <1>1, <1>2, <1>3, <1>4
<1>6. GroupOf(c, h) = [first |-> first, size |-> Smaller(H, c.heads - first)]
  BY DEF GroupOf, first, q, H
<1>7. /\ Smaller(H, c.heads - first) \in Nat
      /\ r < Smaller(H, c.heads - first) /\ Smaller(H, c.heads - first) <= H
  BY <1>1, <1>3, <1>4, <1>5 DEF Smaller
<1> QED
  BY <1>3, <1>4, <1>5, <1>6, <1>7 DEF H

LEMMA PackedCases ==
  ASSUME NEW c, NEW g, NEW at
  PROVE  /\ at < g.size * c.pairs /\ at \notin g.size * c.pairs .. 2 * (g.size * c.pairs) - 1 =>
              Packed(c, g, at) = <<"even", PairOf(c, g.first + ((at % (g.size * c.pairs)) \div c.pairs),
                                                  at % c.pairs)>>
         /\ ~(at < g.size * c.pairs) /\ at \in g.size * c.pairs .. 2 * (g.size * c.pairs) - 1 =>
              Packed(c, g, at) = <<"odd", PairOf(c, g.first + ((at % (g.size * c.pairs)) \div c.pairs),
                                                 at % c.pairs)>>
<1>1. ASSUME at < g.size * c.pairs, at \notin g.size * c.pairs .. 2 * (g.size * c.pairs) - 1
      PROVE  Packed(c, g, at) = <<"even", PairOf(c, g.first + ((at % (g.size * c.pairs)) \div c.pairs),
                                                 at % c.pairs)>>
  BY <1>1, Zenon DEF Packed
<1>2. ASSUME ~(at < g.size * c.pairs), at \in g.size * c.pairs .. 2 * (g.size * c.pairs) - 1
      PROVE  Packed(c, g, at) = <<"odd", PairOf(c, g.first + ((at % (g.size * c.pairs)) \div c.pairs),
                                                at % c.pairs)>>
  BY <1>2, Zenon DEF Packed
<1> QED
  BY <1>1, <1>2

\* Pair i of a head lies in the group's buffers at the same place among the
\* even halves as among the odd ones, and both are in the kernel's reach.
LEMMA PackedIs ==
  ASSUME NEW c, NEW n \in Nat \ {0}, NEW m \in Nat, c.pairs = n, c.heads = m,
         NEW h \in 0 .. m - 1, NEW i \in 0 .. n - 1
  PROVE  LET g == GroupOf(c, h)
             even == (h - g.first) * n
         IN /\ Packed(c, g, even + i) = <<"even", PairOf(c, h, i)>>
            /\ Packed(c, g, even + i + Odd(c, g)) = <<"odd", PairOf(c, h, i)>>
            /\ even + i \in Nat /\ even + i < RopePad(n)
            /\ even + i + Odd(c, g) \in Nat /\ even + i + Odd(c, g) < RopePad(n)
<1> DEFINE g == GroupOf(c, h)
           first == g.first
           size == g.size
           H == HeadsPerLaunch(c)
           pad == RopePad(n)
           r == h - first
           at == Spot(r, n, i)
           half == Spot(size, n, 0)
<1>1. /\ first \in Nat /\ size \in Nat /\ r \in 0 .. size - 1 /\ size <= H
      /\ first + r = h
  BY GroupIs
<1>2. H \in Nat \ {0} /\ H * n \in Nat /\ 2 * (H * n) <= pad /\ pad \in Nat
  BY LaunchSize, RopePadType
<1> HIDE DEF first, size, H, pad, r
<1>3. at \in Nat /\ half \in Nat
  BY <1>1, HalvesPlace
<1>4. /\ at < half /\ at \div n = r /\ at % n = i /\ at % half = at
      /\ (at + half) % half = at /\ (at + half) % n = i
  BY <1>1, HalvesPlace
<1>5. half <= H * n
  <2>0. half = size * n
    BY <1>1 DEF Spot
  <2>1. CASE size = H
    BY <1>2, <2>0, <2>1
  <2>2. CASE size < H
    <3>1. n * size + n <= n * H
      BY <1>1, <1>2, <2>2, ProductsCompare
    <3>2. n * H = H * n
      BY <1>2
    <3>3. n * size = half
      BY <1>1, <2>0
    <3> HIDE DEF half
    <3> QED
      BY <1>2, <1>3, <3>1, <3>2, <3>3
  <2> QED
    BY <1>1, <1>2, <2>1, <2>2
<1> HIDE DEF at, half
<1>6. /\ at < pad /\ at + half \in Nat /\ at + half < pad
      /\ at \notin half .. 2 * half - 1
      /\ ~(at + half < half) /\ at + half \in half .. 2 * half - 1
  BY <1>2, <1>3, <1>4, <1>5
<1>7. half = g.size * c.pairs
  BY <1>1 DEF half, size, Spot
<1> HIDE DEF g
<1>8. Packed(c, g, at) = <<"even", PairOf(c, h, i)>>
  <2>1. Packed(c, g, at) = <<"even", PairOf(c, g.first + ((at % half) \div n), at % n)>>
    BY <1>4, <1>6, <1>7, PackedCases
  <2> QED
    BY <1>1, <1>4, <2>1 DEF first
<1>9. Packed(c, g, at + half) = <<"odd", PairOf(c, h, i)>>
  <2>1. Packed(c, g, at + half)
          = <<"odd", PairOf(c, g.first + (((at + half) % half) \div n), (at + half) % n)>>
    BY <1>6, <1>7, PackedCases
  <2> QED
    BY <1>1, <1>4, <2>1 DEF first
<1>10. Odd(c, g) = half /\ at = (h - g.first) * n + i
  BY <1>7 DEF Odd, at, r, first, Spot
<1> QED
  BY <1>3, <1>6, <1>8, <1>9, <1>10 DEF g, pad

\* Several heads in a launch, however the last group falls short: every element
\* of every head comes out rotated, as on the host.
LEMMA FittingRope ==
  ASSUME op = "rope", NEW c, c.pairs \in Nat \ {0}, c.heads \in Nat, c.neox \in BOOLEAN,
         NEW k, k.shape[1] \in Nat, Fits(k, <<2 * c.pairs>>)
  PROVE  RotatedNpu(k, c) = RotatedCpu(c) /\ RotatedHeads(k, c) = RotatedCpu(c)
<1>1. Works(k) /\ RopePad(k.shape[1] \div 2) >= RopePad(c.pairs)
      /\ RopePad(k.shape[1] \div 2) \in Nat /\ RopePad(c.pairs) \in Nat
      /\ 2 * c.pairs <= RopePad(c.pairs)
  <2>1. (2 * c.pairs) \div 2 = c.pairs
    OBVIOUS
  <2>2. k.shape[1] \div 2 \in Nat
    BY DivMod
  <2> QED
    BY <2>1, <2>2, FitsIs, RopePadType
<1>2. ASSUME NEW h \in 0 .. c.heads - 1, NEW j \in 0 .. 2 * c.pairs - 1
      PROVE  /\ RotatedNpu(k, c)[h][j] = RotatedCpu(c)[h][j]
             /\ RotatedHeads(k, c)[h][j] = RotatedCpu(c)[h][j]
  <2> DEFINE g == GroupOf(c, h)
             even == (h - g.first) * c.pairs
             i == IF c.neox THEN j % c.pairs ELSE j \div 2
             isOdd == IF c.neox THEN j >= c.pairs ELSE (j % 2) = 1
             half == IF isOdd THEN "odd" ELSE "even"
  <2>1. i \in 0 .. c.pairs - 1
    <3>1. CASE c.neox
      <4>1. j \in Nat
        OBVIOUS
      <4>2. j % c.pairs \in 0 .. c.pairs - 1
        BY <4>1, DivMod
      <4> QED
        BY <3>1, <4>2
    <3>2. CASE ~c.neox
      <4>1. j \in Nat /\ j <= 2 * c.pairs - 1
        OBVIOUS
      <4>2. j \div 2 \in 0 .. c.pairs - 1
        BY <4>1
      <4> QED
        BY <3>2, <4>2
    <3> QED
      BY <3>1, <3>2
  <2>2. RotatedCpu(c)[h][j] = <<half, PairOf(c, h, i)>>
    BY DEF RotatedCpu
  <2>3. RotatedNpu(k, c)[h][j] = Sums(k, c, g, even + i + (IF isOdd THEN Odd(c, g) ELSE 0))
    BY DEF RotatedNpu
  <2>4. RotatedHeads(k, c)[h][j]
          = IF Works(k) /\ i < RopePad(k.shape[1] \div 2) THEN <<half, PairOf(c, h, i)>> ELSE Junk
    BY DEF RotatedHeads
  <2> HIDE DEF i, isOdd
  <2>5. /\ Packed(c, g, even + i) = <<"even", PairOf(c, h, i)>>
        /\ Packed(c, g, even + i + Odd(c, g)) = <<"odd", PairOf(c, h, i)>>
        /\ even + i \in Nat /\ even + i < RopePad(c.pairs)
        /\ even + i + Odd(c, g) \in Nat /\ even + i + Odd(c, g) < RopePad(c.pairs)
    BY <2>1, PackedIs
  <2> HIDE DEF g, even
  <2>6. even + i + 0 = even + i
    BY <2>5
  <2>7. RotatedNpu(k, c)[h][j] = <<half, PairOf(c, h, i)>>
    BY <1>1, <2>3, <2>5, <2>6 DEF Sums
  <2>8. i < RopePad(k.shape[1] \div 2)
    BY <1>1, <2>1
  <2> QED
    BY <1>1, <2>2, <2>4, <2>7, <2>8
<1>3. /\ RotatedCpu(c) = [h \in 0 .. c.heads - 1 |->
                            [j \in 0 .. 2 * c.pairs - 1 |-> RotatedCpu(c)[h][j]]]
      /\ RotatedNpu(k, c) = [h \in 0 .. c.heads - 1 |->
                               [j \in 0 .. 2 * c.pairs - 1 |-> RotatedNpu(k, c)[h][j]]]
      /\ RotatedHeads(k, c) = [h \in 0 .. c.heads - 1 |->
                                 [j \in 0 .. 2 * c.pairs - 1 |-> RotatedHeads(k, c)[h][j]]]
  BY DEF RotatedCpu, RotatedNpu, RotatedHeads
<1> QED
  BY <1>2, <1>3

-----------------------------------------------------------------------------
(* Looking a kernel up.                                                     *)

\* A map with a new key or a new value for it.
LEMMA PutIs ==
  ASSUME NEW f, NEW key, NEW value
  PROVE  /\ DOMAIN Put(f, key, value) = {key} \cup DOMAIN f
         /\ Put(f, key, value)[key] = value
         /\ \A x \in DOMAIN f : x # key => Put(f, key, value)[x] = f[x]
BY DEF Put

LEMMA PutNumbered ==
  ASSUME NEW f, NEW key, NEW value, Numbered(f), value.shape[1] \in Nat
  PROVE  Numbered(Put(f, key, value))
BY DEF Numbered, Put

LEMMA StoredNumbered ==
  ASSUME NEW d, DiskNumbered(d), NEW key, NEW file, file.shape[1] \in Nat
  PROVE  DiskNumbered(Stored(d, key, file))
<1>1. Stored(d, key, file) = [xclbin |-> Put(d.xclbin, key, file), seq |-> d.seq]
  BY DEF Stored, DiskNumbered
<1> QED
  BY <1>1, PutNumbered DEF DiskNumbered

\* The compiler is asked for a kernel of a length.
LEMMA JitShapeNumbered ==
  ASSUME op \in LengthOperators
  PROVE  JitShape[1] \in Nat
<1> USE NpuKernelsAssumption
<1>1. CASE op = "silu"
  <2>1. JitShape = <<JitSiluSize>>
    BY <1>1, Zenon DEF JitShape
  <2> QED
    BY <2>1
<1>2. CASE op = "softmax"
  <2>1. JitShape = <<1, JitSoftmaxCols>>
    BY <1>2, Zenon DEF JitShape
  <2> QED
    BY <2>1
<1>3. CASE op = "gelu"
  <2>1. JitShape = DefaultShape
    BY <1>3, Zenon DEF JitShape
  <2>2. DefaultShape = <<ActivationSize>>
    BY <1>3, Zenon DEF DefaultShape
  <2> QED
    BY <2>1, <2>2
<1>4. CASE op = "rope"
  <2>1. JitShape = DefaultShape
    BY <1>4, Zenon DEF JitShape
  <2>2. DefaultShape = <<2 * RopePairs>>
    BY <1>4, Zenon DEF DefaultShape
  <2> QED
    BY <2>1, <2>2
<1> QED
  BY <1>1, <1>2, <1>3, <1>4 DEF LengthOperators

LEMMA JitNumbered ==
  ASSUME op \in LengthOperators, NEW d, DiskNumbered(d), NEW s
  PROVE  DiskNumbered(JitDisk(d, s)) /\ JitFile(d, s).shape[1] \in Nat
<1> DEFINE file == [shape |-> JitShape, good |-> TRUE]
<1>1. op # "rms"
  BY DEF LengthOperators
<1>2. file.shape[1] \in Nat
  BY JitShapeNumbered
<1>3. JitDisk(d, s) = IF InCache(d, Generic) THEN d ELSE Compiled(d, JitShape)
  BY <1>1 DEF JitDisk
<1>4. JitFile(d, s) = JitDisk(d, s).xclbin[Generic]
  BY <1>1 DEF JitFile
<1>5. Compiled(d, JitShape) = [xclbin |-> Put(d.xclbin, Generic, file),
                               seq |-> Put(d.seq, Generic, JitShape)]
  BY DEF Compiled
<1> HIDE DEF file
<1>6. CASE InCache(d, Generic)
  BY <1>3, <1>4, <1>6 DEF InCache, DiskNumbered, Numbered
<1>7. CASE ~InCache(d, Generic)
  <2>1. Numbered(Put(d.xclbin, Generic, file))
    BY <1>2, PutNumbered DEF DiskNumbered
  <2>2. Put(d.xclbin, Generic, file)[Generic] = file
    BY DEF Put
  <2>3. JitDisk(d, s) = [xclbin |-> Put(d.xclbin, Generic, file),
                         seq |-> Put(d.seq, Generic, JitShape)]
    BY <1>3, <1>5, <1>7
  <2>4. JitDisk(d, s).xclbin = Put(d.xclbin, Generic, file)
    BY <2>3
  <2>5. JitDisk(d, s) = [xclbin |-> JitDisk(d, s).xclbin, seq |-> JitDisk(d, s).seq]
    BY <2>3
  <2>6. JitFile(d, s) = file
    BY <1>4, <2>2, <2>4
  <2> QED
    BY <1>2, <2>1, <2>4, <2>5, <2>6 DEF DiskNumbered
<1> QED
  BY <1>6, <1>7

\* What a kernel may be opened from.
Files(d) ==
  {x \in {ctx[1]} \cup {[name |-> n, file |-> d.xclbin[n]] : n \in DOMAIN d.xclbin}
                  \cup {[name |-> n, file |-> System(op)[n]] : n \in DOMAIN System(op)} :
     x.file.shape[1] \in Nat}

LEMMA AtMostOne ==
  ASSUME NEW S, NEW q, q = <<>> \/ \E x \in S : q = <<x>>
  PROVE  q \in Seq(S)
<1>1. CASE q = <<>>
  BY <1>1
<1>2. ASSUME NEW x \in S, q = <<x>>
      PROVE  q \in Seq(S)
  BY <1>2
<1> QED
  BY <1>1, <1>2

LEMMA PrebuiltInFiles ==
  ASSUME op \in Operators, op \in LengthOperators, NEW d, DiskNumbered(d), NEW n
  PROVE  Prebuilt(d, n) = <<>> \/ \E x \in Files(d) : Prebuilt(d, n) = <<x>>
<1>1. CASE InCache(d, n)
  <2> DEFINE x == [name |-> n, file |-> d.xclbin[n]]
  <2>1. x \in Files(d)
    BY <1>1 DEF Files, InCache, DiskNumbered, Numbered
  <2>2. Prebuilt(d, n) = <<x>>
    BY <1>1 DEF Prebuilt
  <2> QED
    BY <2>1, <2>2
<1>2. CASE ~InCache(d, n) /\ n \in DOMAIN System(op)
  <2> DEFINE x == [name |-> n, file |-> System(op)[n]]
  <2>1. System(op)[n].shape[1] \in Nat
    BY <1>2, FilesAssumption
  <2>2. x \in Files(d)
    BY <1>2, <2>1 DEF Files
  <2>3. Prebuilt(d, n) = <<x>>
    BY <1>2 DEF Prebuilt
  <2> QED
    BY <2>2, <2>3
<1>3. CASE ~InCache(d, n) /\ n \notin DOMAIN System(op)
  BY <1>3 DEF Prebuilt
<1> QED
  BY <1>1, <1>2, <1>3

LEMMA CandidatesInFiles ==
  ASSUME op \in Operators, op \in LengthOperators, LengthsKnown, NEW d, DiskNumbered(d), NEW s
  PROVE  Candidates(d, s) \in Seq(Files(d))
<1> DEFINE loaded == IF ContextServes(s) THEN ctx ELSE <<>>
           key == IF InCache(d, s) THEN Prebuilt(d, s) ELSE <<>>
           S == Files(d)
           last == IF s = DefaultShape THEN Prebuilt(d, Generic) ELSE <<>>
<1>0. ctx = <<>> \/ (ctx = <<ctx[1]>> /\ ctx[1] \in S)
  BY DEF LengthsKnown, Files
<1>1. /\ Prebuilt(d, s) = <<>> \/ \E x \in S : Prebuilt(d, s) = <<x>>
      /\ Prebuilt(d, Generic) = <<>> \/ \E x \in S : Prebuilt(d, Generic) = <<x>>
  BY PrebuiltInFiles
<1> HIDE DEF S
<1>2. Prebuilt(d, s) \in Seq(S) /\ Prebuilt(d, Generic) \in Seq(S) /\ ctx \in Seq(S)
  BY <1>0, <1>1, AtMostOne
<1>3. loaded \in Seq(S) /\ key \in Seq(S) /\ last \in Seq(S)
  BY <1>2
<1>4. op = "silu" => Candidates(d, s) = key \o loaded
  BY Zenon DEF Candidates
<1>5. op = "softmax" => Candidates(d, s) = key \o loaded
  BY Zenon DEF Candidates
<1>6. op = "gelu" => Candidates(d, s) = key \o last
  BY Zenon DEF Candidates
<1>7. op = "rope" => Candidates(d, s) = key \o loaded \o Prebuilt(d, s)
  BY Zenon DEF Candidates
<1> HIDE DEF loaded, key, last
<1>8. key \o loaded \in Seq(S) /\ key \o last \in Seq(S) /\ key \o loaded \o Prebuilt(d, s) \in Seq(S)
  BY <1>2, <1>3
<1> QED
  BY <1>4, <1>5, <1>6, <1>7, <1>8 DEF LengthOperators, S

\* A kernel that is there is found and nothing else happens; there is at most
\* one, and it has a length.
LEMMA LookupIs ==
  ASSUME NEW d, NEW s, NEW opens, NEW builds
  PROVE  LET e == Lookup(d, s, opens, builds)
         IN /\ e.found = <<>> \/ e.found = <<e.found[1]>>
            /\ s \in DOMAIN kernels => e.found = <<kernels[s]>> /\ e.disk = d
BY DEF Lookup, Ensure

LEMMA LookupNumbered ==
  ASSUME op \in Operators, op \in LengthOperators, LengthsKnown, NEW d, DiskNumbered(d), NEW s,
         NEW opens, NEW builds
  PROVE  LET e == Lookup(d, s, opens, builds)
         IN /\ DiskNumbered(e.disk)
            /\ e.found # <<>> => e.found[1].shape[1] \in Nat
<1> DEFINE e == Lookup(d, s, opens, builds)
           first == Candidates(d, s)[1]
           made == [name |-> s, file |-> JitFile(d, s)]
           after == Stored(JitDisk(d, s), s, JitFile(d, s))
<1>1. ASSUME NEW x, NEW w
      PROVE  KernelOf(x, w).shape = x.file.shape
  BY DEF KernelOf
<1>2. CASE s \in DOMAIN kernels
  BY <1>2 DEF Lookup, LengthsKnown, Numbered
<1>3. CASE s \notin DOMAIN kernels /\ Candidates(d, s) # <<>>
  <2>1. first.file.shape[1] \in Nat
    <3>1. Candidates(d, s) \in Seq(Files(d))
      BY CandidatesInFiles
    <3>2. first \in Files(d)
      BY <1>3, <3>1
    <3> QED
      BY <3>2 DEF Files
  <2>2. e.disk = d /\ (e.found = <<>> \/ e.found = <<KernelOf(first, d)>>)
    BY <1>3 DEF Lookup, Ensure
  <2> HIDE DEF first, e
  <2> QED
    BY <1>1, <2>1, <2>2 DEF e
<1>4. CASE s \notin DOMAIN kernels /\ Candidates(d, s) = <<>> /\ (Jit /\ builds /\ op # "flash")
  <2>1. DiskNumbered(after) /\ made.file.shape[1] \in Nat
    BY JitNumbered, StoredNumbered
  <2>2. e.disk = after /\ (e.found = <<>> \/ e.found = <<KernelOf(made, after)>>)
    BY <1>4 DEF Lookup, Ensure
  <2> HIDE DEF made, after, e
  <2> QED
    BY <1>1, <2>1, <2>2 DEF e
<1>5. CASE s \notin DOMAIN kernels /\ Candidates(d, s) = <<>> /\ ~(Jit /\ builds /\ op # "flash")
  BY <1>5 DEF Lookup, Ensure
<1> QED
  BY <1>2, <1>3, <1>4, <1>5

-----------------------------------------------------------------------------
(* What the invariants say after a step, in terms of the state before it.   *)

LEMMA FitsStays ==
  ASSUME op' = op, NEW k, NEW s
  PROVE  Fits(k, s)' <=> Fits(k, s)
BY Zenon DEF Fits

LEMMA AppliedStays ==
  ASSUME op' = op, NEW x
  PROVE  Applied(x)' = Applied(x)
BY DEF Applied

LEMMA ActivatesStays ==
  ASSUME op' = op, NEW k, NEW exact, NEW n
  PROVE  Activates(k, exact, n)' <=> Activates(k, exact, n)
BY DEF Activates, Activated, Element, Applied

LEMMA ReferenceStays ==
  ASSUME op' = op, NEW c
  PROVE  Reference(c)' = Reference(c)
BY DEF Reference, Applied, Input

\* A call that returned is as the properties demand.
LEMMA ReturnsRight ==
  ASSUME NEW c, NEW status, NEW out, NEW used, NEW threw,
         Returns(c, status, out, used, threw),
         status = "ok" /\ op # "matmul" =>
           \/ out = Reference(c)
           \/ /\ used # <<>> /\ ~Fits(used[1], used[2])
              /\ Gated /\ used[1].seq # NoSequence => c.size \in vacuous'
           \/ op = "flash" /\ c.mode = "fused" /\ QueryPos(c) < c.len - 1,
         status = "error" => threw \/ ~Fits(used[1], used[2])
  PROVE  OkIsReference' /\ ErrorHasCause'
<1>1. op' = op /\ res' = [status |-> status, call |-> c, out |-> out, used |-> used, threw |-> threw]
  BY DEF Returns
<1>2. Fits(used[1], used[2])' <=> Fits(used[1], used[2])
  BY <1>1, FitsStays
<1>3. Reference(c)' = Reference(c)
  BY <1>1, ReferenceStays
<1> QED
  BY <1>1, <1>2, <1>3 DEF OkIsReference, ErrorHasCause, Unnoticed, Gated

LEMMA PropertiesStay ==
  ASSUME OkIsReference, ErrorHasCause, UNCHANGED <<op, res, vacuous>>
  PROVE  OkIsReference' /\ ErrorHasCause'
<1>1. Fits(res.used[1], res.used[2])' <=> Fits(res.used[1], res.used[2])
  BY FitsStays
<1>2. Reference(res.call)' = Reference(res.call)
  BY ReferenceStays
<1> QED
  BY <1>1, <1>2 DEF OkIsReference, ErrorHasCause, Unnoticed, Gated

LEMMA GeluServesNow ==
  ASSUME op' = op, NEW n,
         \/ <<n>> \in DOMAIN kernels' /\ Activates(kernels'[<<n>>], TRUE, n)
         \/ /\ n \in tiled' /\ <<n>> \notin DOMAIN kernels'
            /\ <<ActivationSize>> \in DOMAIN kernels'
            /\ Activates(kernels'[<<ActivationSize>>], FALSE, n)
  PROVE  GeluServes(n)'
BY ActivatesStays DEF GeluServes

LEMMA RmsServesNow ==
  ASSUME op' = op, NEW width, <<width>> \in DOMAIN kernels', Fits(kernels'[<<width>>], <<width>>)
  PROVE  RmsServes(width)'
BY FitsStays DEF RmsServes

-----------------------------------------------------------------------------
(* The steps.                                                               *)

\* What a lookup adds to the kernels and to the disk.
LEMMA RegisteredGrows ==
  ASSUME NEW s, NEW opens, NEW builds, Registered(s, Lookup(disk, s, opens, builds))
  PROVE  LET found == Lookup(disk, s, opens, builds).found
         IN /\ \A x \in DOMAIN kernels : x \in DOMAIN kernels' /\ kernels'[x] = kernels[x]
            /\ found # <<>> => s \in DOMAIN kernels' /\ kernels'[s] = found[1]
<1> DEFINE e == Lookup(disk, s, opens, builds)
<1>1. s \in DOMAIN kernels => e.found = <<kernels[s]>>
  BY LookupIs
<1>2. kernels' = IF e.found = <<>> THEN kernels ELSE Put(kernels, s, e.found[1])
  BY DEF Registered
<1> HIDE DEF e
<1> QED
  BY <1>1, <1>2 DEF e, Put

LEMMA RegisteredNumbered ==
  ASSUME op \in Operators, LengthsKnown, NEW s, NEW opens, NEW builds,
         Registered(s, Lookup(disk, s, opens, builds)), UNCHANGED <<op, ctx>>
  PROVE  LengthsKnown'
<1> SUFFICES ASSUME op \in LengthOperators
             PROVE  DiskNumbered(disk') /\ Numbered(kernels')
  BY DEF LengthsKnown, DiskNumbered, Numbered, LengthOperators
<1> DEFINE e == Lookup(disk, s, opens, builds)
<1>1. DiskNumbered(disk) /\ Numbered(kernels)
  BY DEF LengthsKnown
<1>2. DiskNumbered(e.disk) /\ (e.found # <<>> => e.found[1].shape[1] \in Nat)
  BY <1>1, LookupNumbered
<1>3. disk' = e.disk /\ kernels' = IF e.found = <<>> THEN kernels ELSE Put(kernels, s, e.found[1])
  BY DEF Registered
<1> HIDE DEF e
<1>4. e.found # <<>> => Numbered(Put(kernels, s, e.found[1]))
  BY <1>1, <1>2, PutNumbered
<1> QED
  BY <1>1, <1>2, <1>3, <1>4

\* Where the operator validates nothing, nothing validated can go wrong.
LEMMA NothingValidated ==
  ASSUME op \notin {"gelu", "rms"}, op' = op
  PROVE  ValidatedServes'
BY DEF ValidatedServes

LEMMA OpeningRight ==
  ASSUME OpInv, Opening
  PROVE  OpInv'
<1> PICK opens \in BOOLEAN, builds \in BOOLEAN : OpenBackend(opens, builds)
  BY DEF Opening
<1>1. op' = op /\ res' = NoCall /\ validated' = {} /\ kernels' = <<>>
  BY DEF Opening, OpenBackend
<1>2. LengthsKnown'
  <2> SUFFICES ASSUME op \in LengthOperators
               PROVE  /\ DiskNumbered(disk')
                      /\ ctx' = <<>> \/ (ctx' = <<ctx'[1]>> /\ ctx'[1].file.shape[1] \in Nat)
    BY <1>1 DEF LengthsKnown, DiskNumbered, Numbered, LengthOperators
  <2>1. DiskNumbered(disk) /\ op \in Operators
    BY DEF LengthsKnown, OpInv
  <2>2. CASE JitsAtStart /\ builds
    <3> DEFINE s == IF op = "rms" THEN <<RmsHidden>> ELSE JitShape
               key == IF op = "rms" THEN s ELSE AtStart
               made == [name |-> key, file |-> JitFile(disk, s)]
    <3>1. /\ disk' = Stored(JitDisk(disk, s), key, JitFile(disk, s))
          /\ ctx' = IF opens THEN <<made>> ELSE <<>>
      BY <2>2 DEF OpenBackend
    <3>2. DiskNumbered(JitDisk(disk, s)) /\ made.file.shape[1] \in Nat
      BY <2>1, JitNumbered
    <3> HIDE DEF s, key
    <3>3. DiskNumbered(Stored(JitDisk(disk, s), key, JitFile(disk, s)))
      BY <3>2, StoredNumbered
    <3> HIDE DEF made
    <3> QED
      BY <3>1, <3>2, <3>3
  <2>3. CASE ~(JitsAtStart /\ builds)
    <3>1. /\ disk' = disk
          /\ ctx' = IF opens /\ Preloaded # <<>> THEN SubSeq(Preloaded, 1, 1) ELSE <<>>
      BY <2>3 DEF OpenBackend
    <3>2. Preloaded = <<>> \/ Preloaded = Prebuilt(disk, Generic)
      <4>1. op = "gelu" => Preloaded = <<>>
        BY Zenon DEF Preloaded
      <4>2. op \notin {"rms", "gelu"} => Preloaded = Prebuilt(disk, Generic)
        BY Zenon DEF Preloaded
      <4> QED
        BY <4>1, <4>2 DEF LengthOperators
    <3>3. Prebuilt(disk, Generic) = <<>> \/ \E x \in Files(disk) : Prebuilt(disk, Generic) = <<x>>
      BY <2>1, PrebuiltInFiles
    <3>4. ASSUME NEW x \in Files(disk), Preloaded = <<x>>
          PROVE  SubSeq(Preloaded, 1, 1) = <<x>> /\ x.file.shape[1] \in Nat
      <4>1. <<x>> \in Seq({x}) /\ Len(<<x>>) = 1
        OBVIOUS
      <4>2. SubSeq(<<x>>, 1, 1) = <<x>>
        BY <4>1, SubSeqFull
      <4> QED
        BY <3>4, <4>2 DEF Files
    <3>5. ctx' = <<>> \/ \E x \in Files(disk) : ctx' = <<x>> /\ x.file.shape[1] \in Nat
      BY <3>1, <3>2, <3>3, <3>4
    <3>6. ctx' = <<>> \/ (ctx' = <<ctx'[1]>> /\ ctx'[1].file.shape[1] \in Nat)
      <4>1. ASSUME NEW x, ctx' = <<x>>, x.file.shape[1] \in Nat
            PROVE  ctx' = <<ctx'[1]>> /\ ctx'[1].file.shape[1] \in Nat
        BY <4>1
      <4> QED
        BY <3>5, <4>1
    <3> QED
      BY <2>1, <3>1, <3>6
  <2> QED
    BY <2>2, <2>3
<1>3. ValidatedServes'
  BY <1>1 DEF ValidatedServes
<1>4. OkIsReference' /\ ErrorHasCause'
  BY <1>1 DEF OkIsReference, ErrorHasCause, NoCall
<1> QED
  BY <1>1, <1>2, <1>3, <1>4 DEF OpInv

LEMMA RopeRight ==
  ASSUME OpInv, NEW c \in Calls(op), NEW opens, NEW builds, NEW throws \in BOOLEAN,
         Rope(c, opens, builds, throws)
  PROVE  OpInv'
<1> DEFINE s == <<2 * c.pairs>>
           e == Lookup(disk, s, opens, builds)
           k == e.found[1]
           fallsBack == c.batched /\ ~c.neox
           out == IF c.batched THEN RotatedNpu(k, c) ELSE RotatedHeads(k, c)
<1>1. op = "rope" /\ Registered(s, e)
  BY DEF Rope
<1>2. /\ c.pairs \in Nat \ {0} /\ c.heads \in Nat
      /\ c.neox \in BOOLEAN /\ c.batched \in BOOLEAN
      /\ op \in Operators /\ op \in LengthOperators /\ DiskNumbered(disk)
  BY <1>1, CallsAssumption DEF OpInv, LengthOperators, LengthsKnown
<1>3. e.found # <<>> => k.shape[1] \in Nat
  BY <1>2, LookupNumbered DEF OpInv
<1>4. Reference(c) = RotatedCpu(c)
  BY <1>1, ReferenceIs
<1> HIDE DEF e, s
<1>5. \/ \E status, used : /\ Returns(c, status, <<>>, used, throws)
                           /\ status = "unavailable" \/ (status = "error" /\ throws)
      \/ \E used : Returns(c, "ok", RotatedCpu(c), used, throws)
      \/ e.found # <<>> /\ Returns(c, "ok", out, <<k, s>>, FALSE)
  <2>1. CASE e.found = <<>>
    BY <2>1 DEF Rope, e, s
  <2>2. CASE e.found # <<>> /\ throws
    BY <2>2 DEF Rope, e, s
  <2>3. CASE e.found # <<>> /\ ~throws
    BY <2>3 DEF Rope, e, s
  <2> QED
    BY <2>1, <2>2, <2>3
<1>6. OkIsReference' /\ ErrorHasCause'
  <2>1. ASSUME NEW status, NEW used, Returns(c, status, <<>>, used, throws),
               status = "unavailable" \/ (status = "error" /\ throws)
        PROVE  OkIsReference' /\ ErrorHasCause'
    BY <2>1, ReturnsRight
  <2>2. ASSUME NEW used, Returns(c, "ok", RotatedCpu(c), used, throws)
        PROVE  OkIsReference' /\ ErrorHasCause'
    BY <1>4, <2>2, ReturnsRight
  <2>3. ASSUME e.found # <<>>, Returns(c, "ok", out, <<k, s>>, FALSE)
        PROVE  OkIsReference' /\ ErrorHasCause'
    <3>1. Fits(k, s) => out = RotatedCpu(c)
      BY <1>1, <1>2, <1>3, <2>3, FittingRope DEF s
    <3> DEFINE used == <<k, s>>
    <3>2. used # <<>> /\ used[1] = k /\ used[2] = s
      OBVIOUS
    <3>3. ~Gated
      BY <1>1 DEF Gated
    <3> HIDE DEF out, used, k
    <3>4. Returns(c, "ok", out, used, FALSE)
      BY <2>3 DEF used, k
    <3> QED
      BY <1>4, <3>1, <3>2, <3>3, <3>4, ReturnsRight
  <2> QED
    BY <1>5, <2>1, <2>2, <2>3
<1>7. op' = op /\ ctx' = ctx
  BY <1>5 DEF Returns
<1>8. LengthsKnown'
  BY <1>1, <1>2, <1>7, RegisteredNumbered DEF OpInv, e
<1>9. ValidatedServes'
  BY <1>1, <1>7, NothingValidated
<1> QED
  BY <1>2, <1>6, <1>7, <1>8, <1>9 DEF OpInv

LEMMA SoftmaxRight ==
  ASSUME OpInv, NEW c \in Calls(op), NEW opens, NEW builds, NEW throws \in BOOLEAN,
         Softmax(c, opens, builds, throws)
  PROVE  OpInv'
<1> DEFINE s == <<c.rows, c.cols>>
           e == Lookup(disk, s, opens, builds)
           k == e.found[1]
           out == Softmaxed(k, c.rows, c.cols)
           used == <<k, s>>
<1>1. op = "softmax" /\ Registered(s, e)
  BY DEF Softmax
<1>2. /\ c.rows \in Nat \ {0} /\ c.cols \in Nat \ {0}
      /\ op \in Operators /\ op \in LengthOperators /\ DiskNumbered(disk)
  BY <1>1, CallsAssumption DEF OpInv, LengthOperators, LengthsKnown
<1>3. e.found # <<>> => k.shape[1] \in Nat
  BY <1>2, LookupNumbered DEF OpInv
<1>4. Reference(c) = [r \in 1 .. c.rows |-> <<r, c.cols>>]
  BY <1>1, ReferenceIs
<1>5. Fits(k, s) /\ e.found # <<>> => out = Reference(c)
  <2> SUFFICES ASSUME Fits(k, <<c.rows, c.cols>>), k.shape[1] \in Nat
               PROVE  Softmaxed(k, c.rows, c.cols) = [r \in 1 .. c.rows |-> <<r, c.cols>>]
    BY <1>3, <1>4
  <2> HIDE DEF k
  <2> QED
    BY <1>1, <1>2, FittingSoftmax
<1>6. used # <<>> /\ used[1] = k /\ used[2] = s
  OBVIOUS
<1>7. ~Gated
  BY <1>1 DEF Gated
<1> HIDE DEF out, used
<1>8. \/ Returns(c, "unavailable", <<>>, <<>>, FALSE)
      \/ Returns(c, "error", <<>>, used, TRUE)
      \/ e.found # <<>> /\ Returns(c, "ok", out, used, FALSE)
  BY DEF Softmax, out, used
<1> HIDE DEF e, s, k
<1>9. OkIsReference' /\ ErrorHasCause'
  <2>1. CASE Returns(c, "unavailable", <<>>, <<>>, FALSE)
    BY <2>1, ReturnsRight
  <2>2. CASE Returns(c, "error", <<>>, used, TRUE)
    BY <2>2, ReturnsRight
  <2>3. CASE e.found # <<>> /\ Returns(c, "ok", out, used, FALSE)
    BY <1>5, <1>6, <1>7, <2>3, ReturnsRight
  <2> QED
    BY <1>8, <2>1, <2>2, <2>3
<1>10. op' = op /\ ctx' = ctx
  BY <1>8 DEF Returns
<1>11. LengthsKnown'
  BY <1>1, <1>2, <1>10, RegisteredNumbered DEF OpInv, e
<1>12. ValidatedServes'
  BY <1>1, <1>10, NothingValidated
<1> QED
  BY <1>2, <1>9, <1>10, <1>11, <1>12 DEF OpInv

\* The fused kernel looks at every position, which is what the host looks at
\* unless the query is not the last one.
LEMMA FlashFusedRight ==
  ASSUME OpInv, NEW c \in Calls(op), NEW opens, NEW throws \in BOOLEAN,
         FlashFused(c, opens, throws)
  PROVE  OpInv'
<1> DEFINE s == <<c.heads, c.dim, c.len>>
           e == Lookup(disk, s, opens, FALSE)
           k == e.found[1]
           out == FusedHeads(k, c)
           used == <<k, s>>
<1>1. op = "flash" /\ c.mode = "fused" /\ Registered(s, e)
  BY DEF FlashFused
<1>2. c.heads \in Nat /\ c.len \in Nat /\ c.qpos \in Int /\ op \in Operators
  BY <1>1, CallsAssumption DEF OpInv
<1>3. QueryPos(c) \in Int
  BY <1>2 DEF QueryPos
<1>4. Fits(k, s) /\ ~(QueryPos(c) < c.len - 1) => out = Reference(c)
  <2>0. Reference(c) = HostHeads(c)
    BY <1>1, ReferenceIs
  <2>1. SUFFICES ASSUME Fits(k, s), QueryPos(c) >= c.len - 1
                 PROVE  FusedHeads(k, c) = HostHeads(c)
    <3> HIDE DEF k, s
    <3> QED
      BY <1>2, <1>3, <2>0
  <2>2. HeadOnHost(c) = 0 .. c.len - 1
    BY <1>2, <2>1, HeadsAgree
  <2> QED
    BY <2>1, <2>2 DEF FusedHeads, HostHeads
<1>5. used # <<>> /\ used[1] = k /\ used[2] = s
  OBVIOUS
<1>6. ~Gated
  BY <1>1 DEF Gated
<1> HIDE DEF out, used
<1>7. \/ Returns(c, "unavailable", <<>>, <<>>, FALSE)
      \/ Returns(c, "error", <<>>, used, TRUE)
      \/ Returns(c, "ok", out, used, FALSE)
  BY DEF FlashFused, out, used
<1> HIDE DEF e, s, k
<1>8. OkIsReference' /\ ErrorHasCause'
  <2>1. CASE Returns(c, "unavailable", <<>>, <<>>, FALSE)
    BY <2>1, ReturnsRight
  <2>2. CASE Returns(c, "error", <<>>, used, TRUE)
    BY <2>2, ReturnsRight
  <2>3. CASE Returns(c, "ok", out, used, FALSE)
    BY <1>1, <1>4, <1>5, <1>6, <2>3, ReturnsRight
  <2> QED
    BY <1>7, <2>1, <2>2, <2>3
<1>9. op' = op /\ ctx' = ctx
  BY <1>7 DEF Returns
<1>10. LengthsKnown'
  BY <1>1, <1>9 DEF LengthsKnown, LengthOperators
<1>11. ValidatedServes'
  BY <1>1, <1>9, NothingValidated
<1> QED
  BY <1>2, <1>8, <1>9, <1>10, <1>11 DEF OpInv

LEMMA FlashDecomposedRight ==
  ASSUME OpInv, NEW c \in Calls(op), NEW failsAt \in 1 .. MaxHeads + 1,
         FlashDecomposed(c, failsAt)
  PROVE  OpInv'
<1> DEFINE out == IF c.mode = "npu" /\ failsAt > c.heads THEN NpuHeads(c, failsAt) ELSE HostHeads(c)
<1>1. op = "flash" /\ Returns(c, "ok", out, <<>>, FALSE)
  BY DEF FlashDecomposed
<1>2. c.heads \in Nat /\ c.len \in Nat /\ c.qpos \in Int /\ op \in Operators
  BY <1>1, CallsAssumption DEF OpInv
<1>3. out = Reference(c)
  <2>1. SUFFICES ASSUME failsAt > c.heads
                 PROVE  NpuHeads(c, failsAt) = HostHeads(c)
    BY <1>1, ReferenceIs
  <2>2. failsAt \in Int
    BY NpuOpsAssumption
  <2>3. \A h \in 1 .. c.heads : h < failsAt
    BY <1>2, <2>1, <2>2
  <2> QED
    BY <1>2, <2>3, HeadsAgree DEF NpuHeads, HostHeads
<1> HIDE DEF out
<1>4. OkIsReference' /\ ErrorHasCause'
  BY <1>1, <1>3, ReturnsRight
<1>5. op' = op /\ ctx' = ctx
  BY <1>1 DEF Returns
<1>6. LengthsKnown'
  BY <1>1, <1>5 DEF LengthsKnown, LengthOperators
<1>7. ValidatedServes'
  BY <1>1, <1>5, NothingValidated
<1> QED
  BY <1>2, <1>4, <1>5, <1>6, <1>7 DEF OpInv

LEMMA MulMatRight ==
  ASSUME OpInv, NEW c, NEW opens, NEW builds, MulMat(c, opens, builds)
  PROVE  OpInv'
<1>1. op = "matmul" /\ op \in Operators
  BY DEF MulMat, OpInv
<1> DEFINE e == Lookup(disk, Generic, opens, builds)
           route == Route(PathsOf(c), opens)
           used == e.found \o <<Generic>>
<1>2. \/ Returns(c, "unavailable", <<>>, <<>>, FALSE)
      \/ Returns(c, "unavailable", <<>>, used, FALSE)
      \/ Returns(c, "ok", route, used, FALSE)
  BY DEF MulMat
<1> HIDE DEF e, route, used
<1>3. OkIsReference' /\ ErrorHasCause'
  BY <1>1, <1>2, ReturnsRight
<1>4. op' = op /\ ctx' = ctx
  BY <1>2 DEF Returns
<1>5. LengthsKnown'
  BY <1>1, <1>4 DEF LengthsKnown, LengthOperators
<1>6. ValidatedServes'
  BY <1>1, <1>4, NothingValidated
<1> QED
  BY <1>1, <1>3, <1>4, <1>5, <1>6 DEF OpInv

\* What is installed is a file for the length in its name; kernels already made
\* are not touched.
LEMMA InstallingRight ==
  ASSUME OpInv, NEW n \in Installable(op), InstallFile(n) \/ InstallSequence(n)
  PROVE  OpInv'
<1> DEFINE file == [shape |-> n, good |-> TRUE]
           stored == Stored(disk, n, file)
<1>1. UNCHANGED <<op, up, ctx, kernels, tiled, validated, vacuous, res>>
  BY DEF InstallFile, InstallSequence, opVars
<1>2. disk' = stored \/ disk' = [stored EXCEPT !.seq = Put(@, n, n)]
  BY DEF InstallFile, InstallSequence
<1>3. LengthsKnown'
  <2> SUFFICES ASSUME op \in LengthOperators
               PROVE  DiskNumbered(disk')
    BY <1>1 DEF OpInv, LengthsKnown, DiskNumbered, Numbered, LengthOperators
  <2>1. file.shape[1] \in Nat
    BY CallsAssumption DEF OpInv
  <2>2. DiskNumbered(stored)
    BY <2>1, StoredNumbered DEF OpInv, LengthsKnown
  <2> HIDE DEF stored
  <2> QED
    BY <1>2, <2>2 DEF DiskNumbered
<1>4. ValidatedServes'
  BY <1>1, GeluServesNow, RmsServesNow DEF ValidatedServes, OpInv, GeluServes, RmsServes
<1>5. OkIsReference' /\ ErrorHasCause'
  BY <1>1, PropertiesStay DEF OpInv
<1> QED
  BY <1>1, <1>3, <1>4, <1>5 DEF OpInv

LEMMA LeavingRight ==
  ASSUME OpInv, Leave
  PROVE  OpInv'
<1>1. UNCHANGED <<op, disk, ctx, kernels, res, vacuous>> /\ ~up'
  BY DEF Leave, opVars
<1>2. OkIsReference' /\ ErrorHasCause'
  BY <1>1, PropertiesStay DEF OpInv
<1> QED
  BY <1>1, <1>2 DEF OpInv, LengthsKnown, DiskNumbered, Numbered, LengthOperators, ValidatedServes

LEMMA OneThenOne ==
  ASSUME NEW x, NEW y
  PROVE  <<x>> \o <<y>> = <<x, y>>
<1> DEFINE S == {x, y}
           a == <<x>>
           b == <<y>>
           r == <<x, y>>
<1>1. /\ a \in Seq(S) /\ b \in Seq(S) /\ r \in Seq(S)
      /\ Len(a) = 1 /\ Len(b) = 1 /\ Len(r) = 2
      /\ a[1] = x /\ b[1] = y /\ r[1] = x /\ r[2] = y
  OBVIOUS
<1> HIDE DEF a, b, r, S
<1>2. a \o b \in Seq(S) /\ Len(a \o b) = 2 /\ (a \o b)[1] = x /\ (a \o b)[2] = y
  BY <1>1, ConcatProperties
<1>3. a \o b = r
  BY <1>1, <1>2, SeqEqual
<1> QED
  BY <1>3 DEF a, b, r

\* What was validated stays served when a lookup adds a kernel for a new width.
LEMMA RmsNormRight ==
  ASSUME JunkIsNoResult, OpInv, up, NEW c \in Calls(op), NEW opens, NEW builds,
         NEW throws \in BOOLEAN, RmsNorm(c, opens, builds, throws)
  PROVE  OpInv'
<1> DEFINE n == c.size
           width == rmsnorm_pad_width(n)
           e == Lookup(disk, <<width>>, opens, builds)
           k == e.found[1]
           used == <<k, <<width>>>>
           out == Corrected(Normed(k, width), width, n, c.eps)
           right == out = <<n, c.eps>>
           status == GateStatus(n, c.tiny, right)
<1>1. op = "rms" /\ Registered(<<width>>, e) /\ op \in Operators
  BY DEF RmsNorm, OpInv
<1>2. Reference(c) = <<n, c.eps>>
  BY <1>1, ReferenceIs
<1>3. right <=> Fits(k, <<width>>)
  BY NormedIs DEF JunkIsNoResult
<1>4. k.seq = NoSequence => ~Fits(k, <<width>>)
  <2>1. <<width>> # NoSequence
    BY DEF NoSequence
  <2> QED
    BY <1>1, <2>1, FitsIs DEF Works
<1>5. e.found = <<>> \/ e.found = <<k>>
  BY LookupIs
<1>6. e.found = <<k>> => e.found \o <<<<width>>>> = used
  BY OneThenOne
<1>7. /\ \A x \in DOMAIN kernels : x \in DOMAIN kernels' /\ kernels'[x] = kernels[x]
      /\ e.found # <<>> => <<width>> \in DOMAIN kernels' /\ kernels'[<<width>>] = k
  BY <1>1, RegisteredGrows
<1>8. <<width>> \in DOMAIN kernels => e.found = <<kernels[<<width>>]>>
  BY LookupIs
<1>9. used # <<>> /\ used[1] = k /\ used[2] = <<width>>
  OBVIOUS
<1>10. \/ /\ Returns(c, "unavailable", <<>>, <<>>, FALSE) \/ Returns(c, "unavailable", <<>>, used, FALSE)
          /\ NotValidated
       \/ Returns(c, "error", <<>>, used, TRUE) /\ NotValidated
       \/ k.seq = NoSequence /\ Returns(c, "ok", Junk, used, FALSE) /\ NotValidated
       \/ Returns(c, status, out, used, FALSE) /\ Validated(n, c.tiny) /\ e.found # <<>>
  <2> HIDE DEF k, used, out
  <2>1. CASE e.found = <<>>
    BY <2>1 DEF RmsNorm
  <2>2. CASE e.found # <<>>
    <3>1. e.found \o <<<<width>>>> = used
      BY <1>5, <1>6, <2>2
    <3> QED
      BY <2>2, <3>1 DEF RmsNorm, k, out
  <2> QED
    BY <2>1, <2>2
<1> HIDE DEF width, e, k, used, out, right, status
\* A size validated before is served by the kernel of this call.
<1>11. n \in validated \ vacuous => Fits(k, <<width>>)
  <2> SUFFICES ASSUME n \in validated \ vacuous
               PROVE  Fits(k, <<width>>)
    OBVIOUS
  <2>1. <<width>> \in DOMAIN kernels /\ Fits(kernels[<<width>>], <<width>>)
    BY <1>1 DEF OpInv, ValidatedServes, RmsServes, width
  <2>2. k = kernels[<<width>>]
    BY <1>8, <2>1 DEF k
  <2> QED
    BY <2>1, <2>2
<1>12. status \in {"ok", "error"} /\ (status = "ok" <=> n \in validated \/ c.tiny \/ right)
  BY CallsAssumption, <1>1 DEF status, GateStatus, right
<1>13. Validated(n, c.tiny) /\ status = "ok" /\ n \notin vacuous' => Fits(k, <<width>>)
  BY <1>3, <1>11, <1>12 DEF Validated
<1>14. OkIsReference' /\ ErrorHasCause'
  <2>1. CASE Returns(c, "unavailable", <<>>, <<>>, FALSE) \/ Returns(c, "unavailable", <<>>, used, FALSE)
    BY <2>1, ReturnsRight
  <2>2. CASE Returns(c, "error", <<>>, used, TRUE)
    BY <2>2, ReturnsRight
  <2>3. CASE k.seq = NoSequence /\ Returns(c, "ok", Junk, used, FALSE)
    BY <1>4, <1>9, <2>3, ReturnsRight
  <2>4. CASE Returns(c, status, out, used, FALSE) /\ Validated(n, c.tiny)
    <3>1. status = "error" => ~Fits(k, <<width>>)
      BY <1>3, <1>12
    <3>2. status = "ok" => out = Reference(c) \/ (~Fits(k, <<width>>) /\ n \in vacuous')
      BY <1>2, <1>3, <1>13, <2>4 DEF right
    <3> QED
      BY <1>9, <2>4, <3>1, <3>2, ReturnsRight
  <2> QED
    BY <1>10, <2>1, <2>2, <2>3, <2>4
<1>15. op' = op /\ ctx' = ctx
  BY <1>10 DEF Returns
<1>16. LengthsKnown'
  BY <1>1, <1>15, RegisteredNumbered DEF OpInv, e
<1>17. ValidatedServes'
  <2> SUFFICES ASSUME up', NEW m \in validated' \ vacuous'
               PROVE  RmsServes(rmsnorm_pad_width(m))'
    BY <1>1, <1>15 DEF ValidatedServes
  <2>1. ASSUME m \in validated \ vacuous
        PROVE  RmsServes(rmsnorm_pad_width(m))'
    <3> DEFINE w == rmsnorm_pad_width(m)
    <3>1. <<w>> \in DOMAIN kernels /\ Fits(kernels[<<w>>], <<w>>)
      BY <1>1, <2>1 DEF OpInv, ValidatedServes, RmsServes
    <3> HIDE DEF w
    <3>2. <<w>> \in DOMAIN kernels' /\ Fits(kernels'[<<w>>], <<w>>)
      BY <1>7, <3>1
    <3>3. RmsServes(w)'
      BY <1>15, <3>2, RmsServesNow
    <3> QED
      BY <3>3 DEF w
  <2>2. ASSUME m \notin validated \/ m \in vacuous
        PROVE  RmsServes(rmsnorm_pad_width(m))'
    <3>1. vacuous \subseteq vacuous'
      BY <1>10 DEF Validated, NotValidated
    <3>2. Returns(c, status, out, used, FALSE) /\ Validated(n, c.tiny) /\ e.found # <<>> /\ m = n
      BY <1>10, <2>2, <3>1 DEF NotValidated, Validated
    <3>3. status = "ok"
      BY <3>2 DEF Returns
    <3>4. Fits(k, <<width>>)
      BY <1>13, <3>2, <3>3
    <3>5. RmsServes(width)'
      BY <1>7, <1>15, <3>2, <3>4, RmsServesNow
    <3> QED
      BY <3>2, <3>5 DEF width
  <2> QED
    BY <2>1, <2>2
<1> QED
  BY <1>1, <1>14, <1>15, <1>16, <1>17 DEF OpInv

\* The kernel a call of silu or gelu uses, and whether it is the one made for
\* its size.
LEMMA ActivationKernelIs ==
  ASSUME NEW n, NEW opens, NEW builds
  PROVE  LET e == ActivationKernel(n, opens, builds)
             k == e.found[1]
             s == e.found[2]
         IN e.found # <<>> =>
              /\ e.found = <<k, s>>
              /\ s = <<n>> \/ (s = <<ActivationSize>> /\ <<n>> \notin DOMAIN kernels)
              /\ s \in DOMAIN kernels => k = kernels[s]
              /\ n \in tiled /\ <<n>> \notin DOMAIN kernels => s = <<ActivationSize>>
<1> DEFINE own == IF <<n>> \in DOMAIN kernels \/ n \notin tiled
                  THEN Lookup(disk, <<n>>, opens, builds)
                  ELSE [found |-> <<>>, disk |-> disk]
           tile == Lookup(own.disk, <<ActivationSize>>, opens, builds)
           e == ActivationKernel(n, opens, builds)
<1>1. e = IF own.found # <<>>
          THEN [own EXCEPT !.found = <<own.found[1], <<n>>>>]
          ELSE IF tile.found # <<>>
          THEN [tile EXCEPT !.found = <<tile.found[1], <<ActivationSize>>>>]
          ELSE tile
  BY DEF ActivationKernel
<1>2. /\ "found" \in DOMAIN own /\ "found" \in DOMAIN tile
      /\ <<n>> \in DOMAIN kernels => own.found = <<kernels[<<n>>]>>
      /\ <<ActivationSize>> \in DOMAIN kernels => tile.found = <<kernels[<<ActivationSize>>]>>
      /\ n \in tiled /\ <<n>> \notin DOMAIN kernels => own.found = <<>>
  BY LookupIs DEF Lookup, Ensure
<1> HIDE DEF own, tile, e
<1>3. CASE own.found # <<>>
  BY <1>1, <1>2, <1>3 DEF e
<1>4. CASE own.found = <<>> /\ tile.found # <<>>
  BY <1>1, <1>2, <1>4 DEF e
<1>5. CASE own.found = <<>> /\ tile.found = <<>>
  BY <1>1, <1>5 DEF e
<1> QED
  BY <1>3, <1>4, <1>5

LEMMA ActivationKernelNumbered ==
  ASSUME op \in Operators, op \in LengthOperators, LengthsKnown, NEW n, NEW opens, NEW builds
  PROVE  LET e == ActivationKernel(n, opens, builds)
         IN DiskNumbered(e.disk) /\ (e.found # <<>> => e.found[1].shape[1] \in Nat)
<1> DEFINE own == IF <<n>> \in DOMAIN kernels \/ n \notin tiled
                  THEN Lookup(disk, <<n>>, opens, builds)
                  ELSE [found |-> <<>>, disk |-> disk]
           tile == Lookup(own.disk, <<ActivationSize>>, opens, builds)
           e == ActivationKernel(n, opens, builds)
<1>1. e = IF own.found # <<>>
          THEN [own EXCEPT !.found = <<own.found[1], <<n>>>>]
          ELSE IF tile.found # <<>>
          THEN [tile EXCEPT !.found = <<tile.found[1], <<ActivationSize>>>>]
          ELSE tile
  BY DEF ActivationKernel
<1>2. DiskNumbered(disk)
  BY DEF LengthsKnown
<1>3. DiskNumbered(own.disk) /\ (own.found # <<>> => own.found[1].shape[1] \in Nat)
  BY <1>2, LookupNumbered
<1>4. own = [found |-> own.found, disk |-> own.disk] /\ tile = [found |-> tile.found, disk |-> tile.disk]
  BY DEF Lookup, Ensure
<1> HIDE DEF own
<1>5. DiskNumbered(tile.disk) /\ (tile.found # <<>> => tile.found[1].shape[1] \in Nat)
  BY <1>3, LookupNumbered
<1> HIDE DEF tile, e
<1> QED
  BY <1>1, <1>3, <1>4, <1>5 DEF e

\* A size that was validated stays served: a kernel, once found, stays, and a
\* size that has been tiled is not looked up again.
LEMMA ActivationRight ==
  ASSUME OpInv, up, NEW c \in Calls(op), NEW opens, NEW builds,
         NEW throws \in BOOLEAN, Activation(c, opens, builds, throws)
  PROVE  OpInv'
<1> DEFINE n == c.size
           e == ActivationKernel(n, opens, builds)
           k == e.found[1]
           s == e.found[2]
           exact == e.found # <<>> /\ s = <<n>>
           out == Activated(k, exact, Input(c))
           right == GeluMatches(Input(c), out)
           status == GateStatus(n, c.tiny, right)
<1>1. /\ op \in {"silu", "gelu"} /\ disk' = e.disk
      /\ tiled' = IF exact THEN tiled ELSE tiled \cup {n}
  BY DEF Activation
<1>2. /\ n \in Nat \ {0} /\ c.tiny \in BOOLEAN
      /\ op \in Operators /\ op \in LengthOperators /\ LengthsKnown
  BY <1>1, CallsAssumption DEF OpInv, LengthOperators
<1>3. DiskNumbered(e.disk) /\ (e.found # <<>> => k.shape[1] \in Nat)
  BY <1>2, ActivationKernelNumbered
<1>4. e.found # <<>> =>
        /\ e.found = <<k, s>>
        /\ s = <<n>> \/ (s = <<ActivationSize>> /\ <<n>> \notin DOMAIN kernels)
        /\ s \in DOMAIN kernels => k = kernels[s]
        /\ n \in tiled /\ <<n>> \notin DOMAIN kernels => s = <<ActivationSize>>
  BY ActivationKernelIs
<1>5. Input(c) = [i \in 1 .. n |-> <<i>>]
  BY DEF Input
<1>6. Reference(c) = [i \in 1 .. n |-> Applied(<<i>>)]
  <2>1. Reference(c) = [i \in 1 .. n |-> Applied(Input(c)[i])]
    BY <1>1, ReferenceIs
  <2> QED
    BY <1>5, <2>1
<1>7. right <=> out = Reference(c)
  <2>1. right <=> out = [i \in 1 .. n |-> Applied(<<i>>)]
    BY <1>5 DEF GeluMatches, Snapshot
  <2> QED
    BY <1>6, <2>1
<1>8. Activates(k, exact, n) <=> out = Reference(c)
  BY <1>5, <1>6 DEF Activates
<1>9. \/ /\ e.found = <<>> /\ kernels' = kernels
         /\ Returns(c, "unavailable", <<>>, <<>>, FALSE) /\ NotValidated
      \/ /\ e.found # <<>> /\ kernels' = Put(kernels, s, k) /\ NotValidated
         /\ \/ Returns(c, "unavailable", <<>>, e.found, FALSE)
            \/ Returns(c, "error", <<>>, e.found, TRUE)
            \/ op = "silu" /\ Returns(c, "ok", out, e.found, FALSE)
      \/ /\ e.found # <<>> /\ kernels' = Put(kernels, s, k)
         /\ op = "gelu" /\ Returns(c, status, out, e.found, FALSE) /\ Validated(n, c.tiny)
  <2> HIDE DEF n, e, right
  <2>1. CASE e.found = <<>>
    BY <2>1 DEF Activation, n, e
  <2>2. CASE e.found # <<>>
    BY <1>1, <2>2 DEF Activation, n, e, right
  <2> QED
    BY <2>1, <2>2
<1> HIDE DEF n, e, k, s, exact, out, right, status
<1>10. exact \in BOOLEAN
  BY DEF exact
<1>11. e.found # <<>> /\ Fits(k, s) => out = Reference(c)
  <2> SUFFICES ASSUME e.found # <<>>, Fits(k, s)
               PROVE  Activates(k, exact, n)
    BY <1>8
  <2>1. s = IF exact THEN <<n>> ELSE <<ActivationSize>>
    BY <1>4 DEF exact
  <2> QED
    BY <1>1, <1>2, <1>3, <1>10, <2>1, FittingActivates
\* A size validated before is served by the kernel of this call.
<1>12. op = "gelu" /\ e.found # <<>> /\ n \in validated \ vacuous => Activates(k, exact, n)
  <2> SUFFICES ASSUME op = "gelu", e.found # <<>>, n \in validated \ vacuous
               PROVE  Activates(k, exact, n)
    OBVIOUS
  <2>1. GeluServes(n)
    BY DEF OpInv, ValidatedServes
  <2>2. CASE <<n>> \in DOMAIN kernels /\ Activates(kernels[<<n>>], TRUE, n)
    <3>1. s = <<n>> /\ exact /\ k = kernels[<<n>>]
      BY <1>4, <2>2 DEF exact
    <3> QED
      BY <1>10, <2>2, <3>1
  <2>3. CASE /\ n \in tiled /\ <<n>> \notin DOMAIN kernels
             /\ <<ActivationSize>> \in DOMAIN kernels
             /\ Activates(kernels[<<ActivationSize>>], FALSE, n)
    <3>1. s = <<ActivationSize>> /\ k = kernels[<<ActivationSize>>] /\ exact = FALSE
      BY <1>4, <2>3 DEF exact
    <3> QED
      BY <2>3, <3>1
  <2> QED
    BY <2>1, <2>2, <2>3 DEF GeluServes
<1>13. status \in {"ok", "error"} /\ (status = "ok" <=> n \in validated \/ c.tiny \/ right)
  BY <1>2 DEF status, GateStatus
<1>14. (/\ op = "gelu" /\ e.found # <<>>
        /\ Validated(n, c.tiny) /\ status = "ok" /\ n \notin vacuous') => Activates(k, exact, n)
  BY <1>7, <1>8, <1>12, <1>13 DEF Validated
<1>15. OkIsReference' /\ ErrorHasCause'
  <2> DEFINE used == e.found
  <2>1. used # <<>> => used[1] = k /\ used[2] = s
    BY DEF k, s
  <2> HIDE DEF used
  <2>2. CASE \E threw : Returns(c, "unavailable", <<>>, <<>>, threw)
    BY <2>2, ReturnsRight
  <2>3. CASE Returns(c, "unavailable", <<>>, used, FALSE)
    BY <2>3, ReturnsRight
  <2>4. CASE Returns(c, "error", <<>>, used, TRUE)
    BY <2>4, ReturnsRight
  <2>5. CASE used # <<>> /\ op = "silu" /\ Returns(c, "ok", out, used, FALSE)
    <3>1. ~Gated
      BY <2>5 DEF Gated
    <3>2. out = Reference(c) \/ ~Fits(k, s)
      BY <1>11, <2>5 DEF used
    <3> QED
      BY <2>1, <2>5, <3>1, <3>2, ReturnsRight
  <2>6. CASE used # <<>> /\ op = "gelu" /\ Returns(c, status, out, used, FALSE) /\ Validated(n, c.tiny)
    <3>1. status = "error" => ~Fits(k, s)
      BY <1>7, <1>11, <1>13, <2>6 DEF used
    <3>2. status = "ok" => out = Reference(c) \/ (~Fits(k, s) /\ n \in vacuous')
      BY <1>8, <1>11, <1>14, <2>6 DEF used
    <3> QED
      BY <2>1, <2>6, <3>1, <3>2, ReturnsRight DEF n
  <2> QED
    BY <1>9, <2>2, <2>3, <2>4, <2>5, <2>6 DEF used
<1>16. op' = op /\ ctx' = ctx
  BY <1>9 DEF Returns
<1>17. LengthsKnown'
  <2>1. Numbered(kernels)
    BY <1>2 DEF LengthsKnown
  <2>2. e.found # <<>> => Numbered(Put(kernels, s, k))
    BY <1>3, <2>1, PutNumbered
  <2>3. Numbered(kernels') /\ DiskNumbered(disk')
    BY <1>1, <1>3, <1>9, <2>1, <2>2
  <2> QED
    BY <1>2, <1>16, <2>3 DEF LengthsKnown, DiskNumbered, Numbered
<1>18. ValidatedServes'
  <2> SUFFICES ASSUME op = "gelu", up', NEW m \in validated' \ vacuous'
               PROVE  GeluServes(m)'
    BY <1>1, <1>16 DEF ValidatedServes
  <2>1. e.found # <<>> /\ kernels' = Put(kernels, s, k)
    BY <1>9 DEF Returns
  <2>2. /\ s \in DOMAIN kernels' /\ kernels'[s] = k
        /\ \A x \in DOMAIN kernels : x \in DOMAIN kernels' /\ kernels'[x] = kernels[x]
        /\ \A x : x \notin DOMAIN kernels /\ x # s => x \notin DOMAIN kernels'
    BY <1>4, <2>1 DEF Put
  <2>3. CASE m \in validated \ vacuous
    <3>1. GeluServes(m)
      BY <2>3 DEF OpInv, ValidatedServes
    <3>2. CASE <<m>> \in DOMAIN kernels /\ Activates(kernels[<<m>>], TRUE, m)
      <4>1. <<m>> \in DOMAIN kernels' /\ Activates(kernels'[<<m>>], TRUE, m)
        BY <2>2, <3>2
      <4> QED
        BY <1>16, <4>1, GeluServesNow
    <3>3. CASE /\ m \in tiled /\ <<m>> \notin DOMAIN kernels
               /\ <<ActivationSize>> \in DOMAIN kernels
               /\ Activates(kernels[<<ActivationSize>>], FALSE, m)
      <4>1. <<m>> # s
        <5> SUFFICES ASSUME <<m>> = s
                     PROVE  FALSE
          OBVIOUS
        <5>1. s = <<n>> \/ s = <<ActivationSize>>
          BY <1>4, <2>1
        <5>2. m = n
          BY <3>3, <5>1
        <5> QED
          BY <1>4, <2>1, <3>3, <5>2
      <4>2. /\ m \in tiled' /\ <<m>> \notin DOMAIN kernels'
            /\ <<ActivationSize>> \in DOMAIN kernels'
            /\ Activates(kernels'[<<ActivationSize>>], FALSE, m)
        BY <1>1, <2>2, <3>3, <4>1
      <4> QED
        BY <1>16, <4>2, GeluServesNow
    <3> QED
      BY <3>1, <3>2, <3>3 DEF GeluServes
  <2>4. CASE m \notin validated \/ m \in vacuous
    <3>1. vacuous \subseteq vacuous'
      BY <1>9 DEF Validated, NotValidated
    <3>2. Returns(c, status, out, e.found, FALSE) /\ Validated(n, c.tiny) /\ m = n
      BY <1>9, <2>4, <3>1 DEF NotValidated, Validated
    <3>3. status = "ok"
      BY <3>2 DEF Returns
    <3>4. Activates(k, exact, n)
      BY <1>14, <2>1, <3>2, <3>3
    <3>5. CASE exact
      <4>1. <<n>> \in DOMAIN kernels' /\ Activates(kernels'[<<n>>], TRUE, n)
        BY <1>10, <2>2, <3>4, <3>5 DEF exact
      <4> QED
        BY <1>16, <3>2, <4>1, GeluServesNow
    <3>6. CASE ~exact
      <4>1. s = <<ActivationSize>> /\ <<n>> # s /\ <<n>> \notin DOMAIN kernels
        BY <1>4, <2>1, <3>6 DEF exact
      <4>2. /\ n \in tiled' /\ <<n>> \notin DOMAIN kernels'
            /\ <<ActivationSize>> \in DOMAIN kernels'
            /\ Activates(kernels'[<<ActivationSize>>], FALSE, n)
        BY <1>1, <1>10, <2>2, <3>4, <3>6, <4>1
      <4> QED
        BY <1>16, <3>2, <4>2, GeluServesNow
    <3> QED
      BY <3>5, <3>6
  <2> QED
    BY <2>3, <2>4
<1> QED
  BY <1>2, <1>15, <1>16, <1>17, <1>18 DEF OpInv

\* Together: every step keeps the invariant.
LEMMA OpInvHolds ==
  ASSUME JunkIsNoResult
  PROVE  Spec => []OpInv
<1>1. Init => OpInv
  <2> SUFFICES ASSUME Init
               PROVE  OpInv
    OBVIOUS
  <2>1. op \in Operators /\ disk \in Disks(op) /\ ctx = <<>> /\ kernels = <<>> /\ ~up /\ res = NoCall
    BY DEF Init, RegInit
  <2>2. LengthsKnown
    BY <2>1, FilesAssumption DEF LengthsKnown, DiskNumbered, Numbered
  <2> QED
    BY <2>1, <2>2 DEF OpInv, ValidatedServes, OkIsReference, ErrorHasCause, NoCall
<1>2. OpInv /\ [Next]_vars => OpInv'
  <2> SUFFICES ASSUME OpInv, [Next]_vars
               PROVE  OpInv'
    OBVIOUS
  <2>1. ASSUME Opening
        PROVE  OpInv'
    BY <2>1, OpeningRight
  <2>2. ASSUME Call
        PROVE  OpInv'
    <3>1. PICK c \in Calls(op), opens \in BOOLEAN, builds \in BOOLEAN, throws \in BOOLEAN :
                 \/ Activation(c, opens, builds, throws)
                 \/ RmsNorm(c, opens, builds, throws)
                 \/ Rope(c, opens, builds, throws)
                 \/ Softmax(c, opens, builds, throws)
                 \/ FlashFused(c, opens, throws)
                 \/ ~throws /\ MulMat(c, opens, builds)
      BY <2>2 DEF Call
    <3>2. up
      BY <2>2 DEF Call
    <3>3. CASE Activation(c, opens, builds, throws)
      BY <3>2, <3>3, ActivationRight
    <3>4. CASE RmsNorm(c, opens, builds, throws)
      BY <3>2, <3>4, RmsNormRight
    <3>5. CASE Rope(c, opens, builds, throws)
      BY <3>5, RopeRight
    <3>6. CASE Softmax(c, opens, builds, throws)
      BY <3>6, SoftmaxRight
    <3>7. CASE FlashFused(c, opens, throws)
      BY <3>7, FlashFusedRight
    <3>8. CASE MulMat(c, opens, builds)
      BY <3>8, MulMatRight
    <3> QED
      BY <3>1, <3>3, <3>4, <3>5, <3>6, <3>7, <3>8
  <2>3. ASSUME NEW c \in Calls(op), NEW failsAt \in 1 .. MaxHeads + 1, FlashDecomposed(c, failsAt)
        PROVE  OpInv'
    BY <2>3, FlashDecomposedRight
  <2>4. ASSUME NEW n \in Installable(op), InstallFile(n) \/ InstallSequence(n)
        PROVE  OpInv'
    BY <2>4, InstallingRight
  <2>5. ASSUME Leave
        PROVE  OpInv'
    BY <2>5, LeavingRight
  <2>6. CASE UNCHANGED vars
    <3>1. UNCHANGED <<op, up, disk, ctx, kernels, tiled, validated, vacuous, res>>
      BY <2>6 DEF vars, regVars, opVars
    <3>2. OkIsReference' /\ ErrorHasCause'
      BY <3>1, PropertiesStay DEF OpInv
    <3>3. ValidatedServes'
      BY <3>1, GeluServesNow, RmsServesNow DEF ValidatedServes, OpInv, GeluServes, RmsServes
    <3> QED
      BY <3>1, <3>2, <3>3 DEF OpInv, LengthsKnown, DiskNumbered, Numbered, LengthOperators
  <2> QED
    BY <2>1, <2>2, <2>3, <2>4, <2>5, <2>6 DEF Next
<1> QED
  BY <1>1, <1>2, PTL DEF Spec

\* Every call that returns OK has computed what the CPU backend computes, for
\* every size, width, head count, tile and eps and whatever files the disk holds
\* or gains, unless a kernel that does not fit went unnoticed or the fused
\* attention kernel looked past query_pos (amd_xdna.cpp:954-2034).
THEOREM OkIsRight ==
  ASSUME JunkIsNoResult
  PROVE  Spec => []OkIsReference
<1>1. OpInv => OkIsReference
  BY DEF OpInv
<1> QED
  BY <1>1, OpInvHolds, PTL

\* Every call that returns ERROR launched a kernel that threw or that did not
\* fit: no right kernel is refused by the validation on first use, whatever the
\* padding, the tiling or the eps (amd_xdna.cpp:1081, 1767-1778, 1798-1807).
THEOREM ErrorsHaveCause ==
  ASSUME JunkIsNoResult
  PROVE  Spec => []ErrorHasCause
<1>1. OpInv => ErrorHasCause
  BY DEF OpInv
<1> QED
  BY <1>1, OpInvHolds, PTL

-----------------------------------------------------------------------------
(* The route of a product.                                                  *)

LEMMA PathsOfIs ==
  ASSUME NEW c
  PROVE  PathsOf(c) \in Seq(Paths) /\ Len(PathsOf(c)) \in 0 .. 3
<1> DEFINE a == IF c.small THEN <<"small">> ELSE <<>>
           b == IF c.small /\ c.deep THEN <<"deepk">> ELSE <<>>
           d == IF c.small /\ c.deep /\ c.wide THEN <<"wide">> ELSE <<>>
<1>1. /\ a \in Seq(Paths) /\ Len(a) \in 0 .. 1
      /\ b \in Seq(Paths) /\ Len(b) \in 0 .. 1
      /\ d \in Seq(Paths) /\ Len(d) \in 0 .. 1
  <2>1. ASSUME NEW p \in Paths, NEW q, q = <<>> \/ q = <<p>>
        PROVE  q \in Seq(Paths) /\ Len(q) \in 0 .. 1
    <3>1. q \in Seq(Paths)
      BY <2>1, AtMostOne
    <3> QED
      BY <2>1, <3>1
  <2>2. "small" \in Paths /\ "deepk" \in Paths /\ "wide" \in Paths
    BY DEF Paths
  <2> QED
    BY <2>1, <2>2
<1>2. PathsOf(c) = (a \o b) \o d
  BY DEF PathsOf
<1> HIDE DEF a, b, d
<1>3. a \o b \in Seq(Paths) /\ Len(a \o b) = Len(a) + Len(b)
  BY <1>1, ConcatProperties
<1>4. (a \o b) \o d \in Seq(Paths) /\ Len((a \o b) \o d) = Len(a) + Len(b) + Len(d)
  BY <1>1, <1>3, ConcatProperties
<1> QED
  BY <1>1, <1>2, <1>4

\* The paths taken are the first so many; the next one, if any, is missing.
LEMMA TakenIs ==
  ASSUME NEW ps, Len(ps) \in 0 .. 3, NEW opens
  PROVE  \E m \in 0 .. Len(ps) :
           /\ \A j \in 1 .. m : PathLoaded(ps[j], opens)
           /\ m < Len(ps) => ~PathLoaded(ps[m + 1], opens)
<1> DEFINE P(j) == PathLoaded(ps[j], opens)
           len == Len(ps)
<1> HIDE DEF P, len
<1>1. len \in 0 .. 3
  BY DEF len
<1> DEFINE Stop(m) == /\ m \in 0 .. len
                      /\ \A j \in 1 .. m : P(j)
                      /\ m < len => ~P(m + 1)
<1>2. len = 0 \/ ~P(1) => Stop(0)
  BY <1>1
<1>3. len > 0 /\ P(1) /\ (len = 1 \/ ~P(2)) => Stop(1)
  BY <1>1
<1>4. len > 1 /\ P(1) /\ P(2) /\ (len = 2 \/ ~P(3)) => Stop(2)
  BY <1>1
<1>5. len = 3 /\ P(1) /\ P(2) /\ P(3) => Stop(3)
  BY <1>1
<1>6. \E m : Stop(m)
  <2> HIDE DEF Stop
  <2> QED
    BY <1>1, <1>2, <1>3, <1>4, <1>5
<1> QED
  BY <1>6 DEF P, len

LEMMA RouteOf ==
  ASSUME NEW ps, Len(ps) \in Nat, NEW opens, NEW m \in 0 .. Len(ps),
         \A j \in 1 .. m : PathLoaded(ps[j], opens),
         m < Len(ps) => ~PathLoaded(ps[m + 1], opens)
  PROVE  Route(ps, opens) = IF m = 0 THEN "square" ELSE ps[m]
<1> DEFINE taken == {i \in 1 .. Len(ps) : \A j \in 1 .. i : PathLoaded(ps[j], opens)}
<1>1. taken = 1 .. m
  <2>1. ASSUME NEW i \in 1 .. m
        PROVE  i \in taken
    BY <2>1
  <2>2. ASSUME NEW i \in taken
        PROVE  i \in 1 .. m
    <3>1. i \in 1 .. Len(ps) /\ \A j \in 1 .. i : PathLoaded(ps[j], opens)
      OBVIOUS
    <3>2. CASE i > m
      <4>1. m + 1 \in 1 .. i /\ m < Len(ps)
        BY <3>1, <3>2
      <4> QED
        BY <3>1, <4>1
    <3> QED
      BY <3>1, <3>2
  <2> HIDE DEF taken
  <2> QED
    BY <2>1, <2>2
<1>2. Cardinality(1 .. m) = m
  BY FS_Interval
<1>3. Route(ps, opens) = IF taken = {} THEN "square" ELSE ps[Cardinality(taken)]
  BY DEF Route
<1> HIDE DEF taken
<1>4. taken = {} <=> m = 0
  BY <1>1
<1> QED
  BY <1>1, <1>2, <1>3, <1>4

\* What is known of an optional kernel does not change, and what was asked is
\* known.
LEMMA PathsAfterIs ==
  ASSUME NEW ps, NEW opens, paths \in [Paths -> {"unasked", "loaded", "unavailable"}]
  PROVE  LET after == PathsAfter(ps, opens)
         IN /\ after \in [Paths -> {"unasked", "loaded", "unavailable"}]
            /\ \A p \in Paths : paths[p] # "unasked" => after[p] = paths[p]
            /\ \A p \in Asked(ps, opens) :
                 after[p] = IF PathLoaded(p, opens) THEN "loaded" ELSE "unavailable"
<1>1. \A p \in Paths : /\ paths[p] = "loaded" => PathLoaded(p, opens)
                       /\ paths[p] = "unavailable" => ~PathLoaded(p, opens)
  BY DEF PathLoaded
<1>2. Asked(ps, opens) \subseteq Paths
  BY DEF Asked
<1> QED
  BY <1>1, <1>2 DEF PathsAfter

\* A class of products that has been seen before is sent the same way again.
LEMMA SettledRoute ==
  ASSUME paths \in [Paths -> {"unasked", "loaded", "unavailable"}],
         NEW c, Settled(c), NEW opens
  PROVE  Route(PathsOf(c), opens) = routes[c]
<1> DEFINE ps == PathsOf(c)
<1>1. PICK n \in 0 .. Len(ps) :
        /\ \A j \in 1 .. n : paths[ps[j]] = "loaded"
        /\ n < Len(ps) => paths[ps[n + 1]] = "unavailable"
        /\ routes[c] = IF n = 0 THEN "square" ELSE ps[n]
  BY DEF Settled
<1>2. Len(ps) \in Nat
  BY PathsOfIs
<1> HIDE DEF ps
<1>3. /\ \A j \in 1 .. n : PathLoaded(ps[j], opens)
      /\ n < Len(ps) => ~PathLoaded(ps[n + 1], opens)
  BY <1>1 DEF PathLoaded
<1> QED
  BY <1>1, <1>2, <1>3, RouteOf DEF ps

\* A settled class stays settled when more becomes known and its route is kept.
LEMMA SettledStays ==
  ASSUME NEW c, Settled(c), routes'[c] = routes[c],
         \A p \in Paths : paths[p] # "unasked" => paths'[p] = paths[p]
  PROVE  Settled(c)'
<1> DEFINE ps == PathsOf(c)
<1>1. PICK n \in 0 .. Len(ps) :
        /\ \A j \in 1 .. n : paths[ps[j]] = "loaded"
        /\ n < Len(ps) => paths[ps[n + 1]] = "unavailable"
        /\ routes[c] = IF n = 0 THEN "square" ELSE ps[n]
  BY DEF Settled
<1>2. ps \in Seq(Paths) /\ Len(ps) \in Nat
  BY PathsOfIs
<1> HIDE DEF ps
<1>3. \A j \in 1 .. Len(ps) : ps[j] \in Paths
  BY <1>2
<1>4. /\ \A j \in 1 .. n : paths'[ps[j]] = "loaded"
      /\ n < Len(ps) => paths'[ps[n + 1]] = "unavailable"
  BY <1>1, <1>2, <1>3
<1> QED
  BY <1>1, <1>4 DEF Settled, ps

\* The class of the product just routed is settled.
LEMMA RoutedSettles ==
  ASSUME paths \in [Paths -> {"unasked", "loaded", "unavailable"}], NEW c, NEW opens,
         paths' = PathsAfter(PathsOf(c), opens), routes'[c] = Route(PathsOf(c), opens)
  PROVE  Settled(c)'
<1> DEFINE ps == PathsOf(c)
           after == PathsAfter(ps, opens)
<1>1. ps \in Seq(Paths) /\ Len(ps) \in 0 .. 3
  BY PathsOfIs
<1>2. PICK m \in 0 .. Len(ps) :
        /\ \A j \in 1 .. m : PathLoaded(ps[j], opens)
        /\ m < Len(ps) => ~PathLoaded(ps[m + 1], opens)
  <2> HIDE DEF ps
  <2> QED
    BY <1>1, TakenIs
<1>3. Route(ps, opens) = IF m = 0 THEN "square" ELSE ps[m]
  <2> HIDE DEF ps
  <2> QED
    BY <1>1, <1>2, RouteOf
<1>4. \A p \in Asked(ps, opens) :
        after[p] = IF PathLoaded(p, opens) THEN "loaded" ELSE "unavailable"
  BY PathsAfterIs
<1>5. paths' = after /\ routes'[c] = Route(ps, opens)
  OBVIOUS
<1> HIDE DEF ps, after
<1>6. ASSUME NEW i \in 1 .. Len(ps), i <= m + 1
      PROVE  ps[i] \in Asked(ps, opens)
  <2>1. ps[i] \in Paths
    BY <1>1
  <2>2. \A j \in 1 .. i - 1 : PathLoaded(ps[j], opens)
    BY <1>1, <1>2, <1>6
  <2> QED
    BY <2>1, <2>2 DEF Asked
<1>7. \A j \in 1 .. m : paths'[ps[j]] = "loaded"
  BY <1>1, <1>2, <1>4, <1>5, <1>6
<1>8. m < Len(ps) => paths'[ps[m + 1]] = "unavailable"
  BY <1>1, <1>2, <1>4, <1>5, <1>6
<1> QED
  BY <1>3, <1>5, <1>7, <1>8 DEF Settled, ps

LEMMA OnlyMulMatRoutes ==
  ASSUME Next, ~Opening
  PROVE  \/ UNCHANGED <<paths, routes, runs>>
         \/ \E c, opens, builds : MulMat(c, opens, builds)
<1>1. ASSUME NEW c, NEW opens, NEW builds, NEW throws, Activation(c, opens, builds, throws)
      PROVE  UNCHANGED <<paths, routes, runs>>
  BY <1>1 DEF Activation, Returns
<1>2. ASSUME NEW c, NEW opens, NEW builds, NEW throws, RmsNorm(c, opens, builds, throws)
      PROVE  UNCHANGED <<paths, routes, runs>>
  BY <1>2 DEF RmsNorm, Returns
<1>3. ASSUME NEW c, NEW opens, NEW builds, NEW throws, Rope(c, opens, builds, throws)
      PROVE  UNCHANGED <<paths, routes, runs>>
  BY <1>3 DEF Rope, Returns
<1>4. ASSUME NEW c, NEW opens, NEW builds, NEW throws, Softmax(c, opens, builds, throws)
      PROVE  UNCHANGED <<paths, routes, runs>>
  BY <1>4 DEF Softmax, Returns
<1>5. ASSUME NEW c, NEW opens, NEW throws, FlashFused(c, opens, throws)
      PROVE  UNCHANGED <<paths, routes, runs>>
  BY <1>5 DEF FlashFused, Returns
<1>6. ASSUME NEW c, NEW failsAt, FlashDecomposed(c, failsAt)
      PROVE  UNCHANGED <<paths, routes, runs>>
  BY <1>6 DEF FlashDecomposed, Returns
<1>7. ASSUME NEW n, InstallFile(n) \/ InstallSequence(n)
      PROVE  UNCHANGED <<paths, routes, runs>>
  BY <1>7 DEF InstallFile, InstallSequence, opVars
<1>8. Leave => UNCHANGED <<paths, routes, runs>>
  BY DEF Leave, opVars
<1> QED
  BY <1>1, <1>2, <1>3, <1>4, <1>5, <1>6, <1>7, <1>8 DEF Next, Call

LEMMA RouteInvHolds == Spec => []RouteInv
<1>1. Init => RouteInv
  BY DEF Init, RegInit, RouteInv
<1>2. RouteInv /\ [Next]_vars => RouteInv'
  <2> SUFFICES ASSUME RouteInv, [Next]_vars
               PROVE  RouteInv'
    OBVIOUS
  <2>1. ASSUME Opening
        PROVE  RouteInv'
    BY <2>1 DEF Opening, OpenBackend, RouteInv
  <2>2. ASSUME NEW c, NEW opens, NEW builds, MulMat(c, opens, builds)
        PROVE  RouteInv'
    <3>1. runs' = runs
      BY <2>2 DEF MulMat, Returns
    <3>2. CASE UNCHANGED <<paths, routes>>
      BY <3>1, <3>2, SettledStays DEF RouteInv
    <3>3. CASE /\ paths' = PathsAfter(PathsOf(c), opens)
               /\ routes' = Put(routes, c, Route(PathsOf(c), opens))
      <4>1. /\ paths' \in [Paths -> {"unasked", "loaded", "unavailable"}]
            /\ \A p \in Paths : paths[p] # "unasked" => paths'[p] = paths[p]
        BY <3>3, PathsAfterIs DEF RouteInv
      <4>2. ASSUME NEW b \in DOMAIN routes'
            PROVE  Settled(b)'
        <5>1. CASE b = c
          <6>1. routes'[c] = Route(PathsOf(c), opens)
            BY <3>3 DEF Put
          <6> QED
            BY <3>3, <5>1, <6>1, RoutedSettles DEF RouteInv
        <5>2. CASE b # c
          <6>1. b \in DOMAIN routes /\ routes'[b] = routes[b]
            BY <3>3, <5>2 DEF Put
          <6> QED
            BY <4>1, <6>1, SettledStays DEF RouteInv
        <5> QED
          BY <5>1, <5>2
      <4> QED
        BY <3>1, <4>1, <4>2 DEF RouteInv
    <3> QED
      BY <2>2, <3>2, <3>3 DEF MulMat
  <2>3. CASE UNCHANGED <<paths, routes, runs>>
    BY <2>3, SettledStays DEF RouteInv
  <2>4. UNCHANGED vars => UNCHANGED <<paths, routes, runs>>
    BY DEF vars, regVars, opVars
  <2> QED
    BY <2>1, <2>2, <2>3, <2>4, OnlyMulMatRoutes
<1> QED
  BY <1>1, <1>2, PTL DEF Spec

\* In one process products of one class take one kernel, whatever is installed
\* or fails to load between them (amd_xdna.cpp:2251-2367).
THEOREM RoutesAreFixed == Spec => RouteIsFixed
<1>1. RouteInv /\ [Next]_vars => [runs' = runs => \A c \in DOMAIN routes : routes'[c] = routes[c]]_vars
  <2> SUFFICES ASSUME RouteInv, Next, runs' = runs, NEW c \in DOMAIN routes
               PROVE  routes'[c] = routes[c]
    OBVIOUS
  <2>1. ~Opening
    BY DEF Opening, RouteInv
  <2>2. ASSUME NEW b, NEW opens, NEW builds, MulMat(b, opens, builds)
        PROVE  routes'[c] = routes[c]
    <3>1. CASE routes' = routes
      BY <3>1
    <3>2. CASE routes' = Put(routes, b, Route(PathsOf(b), opens))
      <4>1. CASE c = b
        <5>1. Route(PathsOf(c), opens) = routes[c]
          BY SettledRoute DEF RouteInv
        <5> QED
          BY <3>2, <4>1, <5>1 DEF Put
      <4>2. CASE c # b
        BY <3>2, <4>2 DEF Put
      <4> QED
        BY <4>1, <4>2
    <3> QED
      BY <2>2, <3>1, <3>2 DEF MulMat
  <2> QED
    BY <2>1, <2>2, OnlyMulMatRoutes
<1> QED
  BY <1>1, RouteInvHolds, PTL DEF Spec, RouteIsFixed
=============================================================================
