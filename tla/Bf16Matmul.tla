------------------------------ MODULE Bf16Matmul ------------------------------
(***************************************************************************)
(* AmdXdnaBackend::matmul_bf16() (src/backends/amd_xdna/amd_xdna.cpp): a   *)
(* matrix product tiled into T x T x T launches.  The host staging buffers *)
(* live across calls and only the part of a tile that holds data is        *)
(* written, so each call depends on what earlier calls, failed ones        *)
(* included, left in the padding.                                          *)
(*                                                                         *)
(* Data abstraction.  An element of an operand is named by the call and    *)
(* its two indices, or is Zero.  The device's output at (r, c) is the set  *)
(* of products of the non-zero elements of row r and column c; an          *)
(* accumulator is the sequence of the outputs added to it, in order.       *)
(***************************************************************************)
EXTENDS Integers, Sequences

CONSTANTS T,          \* kMatmulTile
          Shapes,     \* the [M, N, K] asked for
          MaxCalls    \* bound on the number of calls

ASSUME Bf16Assumption ==
  /\ T \in Nat \ {0} /\ MaxCalls \in Nat
  /\ Shapes \subseteq [M : Nat, N : Nat, K : Nat]

VARIABLES
  phase,                    \* idle, pack, launch or store
  status,                   \* what the last call returned
  call, shape,              \* the number of the call, its M, N and K
  mi, ni, ki,               \* the tile being computed
  kernelLoaded,             \* matmul_bf16_kernel_.loaded
  stageA, stageB,           \* mmbf16_stage_a_, mmbf16_stage_b_
  extentA, extentB,         \* mmbf16_pa_rows_, mmbf16_pa_cols_; mmbf16_pb_*_
  cRaw, cAcc,               \* mmbf16_craw_, mmbf16_cacc_
  C                         \* the caller's result

tileVars == <<mi, ni, ki>>
stageVars == <<stageA, stageB, extentA, extentB>>
vars == <<phase, status, call, shape, tileVars, kernelLoaded, stageVars, cRaw, cAcc, C>>

Span == 0 .. T - 1
Cells == Span \X Span
Zero == <<>>
Element(n, i, j) == <<n, i, j>>     \* element (i, j) of an operand of call n

Smaller(m, n) == IF m <= n THEN m ELSE n
Tiles(n) == (n + T - 1) \div T
\* Mutant: no clamp to the tile.
ExtentUnclamped(n, tile) == n - tile * T

\* The part of a tile that holds data.
Extent(n, tile) == Smaller(T, n - tile * T)

Rows == Extent(shape.M, mi)         \* rm
Columns == Extent(shape.N, ni)      \* nc
Depth == Extent(shape.K, ki)        \* kc
Accumulates == Tiles(shape.K) > 1

\* The types: the stages are whole T x T tiles and the extents remembered for
\* them stay inside.
TypeOK ==
  /\ phase \in {"idle", "pack", "launch", "store"}
  /\ status \in {"none", "ok", "invalid", "unavailable", "error"}
  /\ call \in Nat /\ shape \in [M : Nat, N : Nat, K : Nat]
  /\ mi \in Nat /\ ni \in Nat /\ ki \in Nat
  /\ kernelLoaded \in BOOLEAN
  /\ DOMAIN stageA = Cells /\ DOMAIN stageB = Cells
  /\ DOMAIN cRaw = Cells /\ DOMAIN cAcc = Cells
  /\ extentA \in (0 .. T) \X (0 .. T) /\ extentB \in (0 .. T) \X (0 .. T)

\* The first call allocates the staging zeroed, with empty extents.
Init ==
  /\ phase = "idle" /\ status = "none"
  /\ call = 0 /\ shape = [M |-> 0, N |-> 0, K |-> 0]
  /\ mi = 0 /\ ni = 0 /\ ki = 0
  /\ kernelLoaded = FALSE
  /\ stageA = [x \in Cells |-> Zero] /\ stageB = [x \in Cells |-> Zero]
  /\ extentA = <<0, 0>> /\ extentB = <<0, 0>>
  /\ cRaw = [x \in Cells |-> {}] /\ cAcc = [x \in Cells |-> <<>>]
  /\ C = <<>>

-----------------------------------------------------------------------------
Reject(s, result) ==
  /\ shape' = s /\ call' = call + 1
  /\ status' = result
  /\ UNCHANGED <<phase, tileVars, kernelLoaded, stageVars, cRaw, cAcc, C>>

CallInvalid ==
  /\ phase = "idle" /\ call < MaxCalls
  /\ \E s \in Shapes : (s.M <= 0 \/ s.N <= 0 \/ s.K <= 0) /\ Reject(s, "invalid")

CallUnavailable ==
  /\ phase = "idle" /\ call < MaxCalls
  /\ ~kernelLoaded
  /\ \E s \in Shapes : s.M > 0 /\ s.N > 0 /\ s.K > 0 /\ Reject(s, "unavailable")

\* The result starts as whatever the caller's buffer holds.
Call ==
  /\ phase = "idle" /\ call < MaxCalls
  /\ \E s \in Shapes :
       /\ s.M > 0 /\ s.N > 0 /\ s.K > 0
       /\ shape' = s
       /\ C' = [x \in (0 .. s.M - 1) \X (0 .. s.N - 1) |-> <<>>]
  /\ call' = call + 1
  /\ kernelLoaded' = TRUE
  /\ mi' = 0 /\ ni' = 0 /\ ki' = 0
  /\ phase' = "pack"
  /\ UNCHANGED <<status, stageVars, cRaw, cAcc>>

-----------------------------------------------------------------------------
(* One K tile: pack both operands, launch, read back.                       *)

\* Mutant: only the columns are cleared.
ClearColumns(stage, prev, rows, cols) ==
  [x \in Cells |-> IF x[1] < rows /\ cols <= x[2] /\ x[2] < prev[2] THEN Zero ELSE stage[x]]

\* clear_stage_border(): the columns the rows to be written no longer use, and
\* the rows no longer used.
ClearBorder(stage, prev, rows, cols) ==
  [x \in Cells |->
     IF \/ x[1] < rows /\ cols <= x[2] /\ x[2] < prev[2]
        \/ rows <= x[1] /\ x[1] < prev[1] /\ (x[2] < cols \/ x[2] < prev[2])
     THEN Zero ELSE stage[x]]

\* Copying data(r, c) over the part of the stage in use.
Packed(stage, rows, cols, data(_, _)) ==
  [x \in Cells |-> IF x[1] < rows /\ x[2] < cols THEN data(x[1], x[2]) ELSE stage[x]]

PackA ==
  LET elem(r, c) == Element(call, mi * T + r, ki * T + c)
  IN /\ stageA' = Packed(ClearBorder(stageA, extentA, Rows, Depth), Rows, Depth, elem)
     /\ extentA' = <<Rows, Depth>>

PackB ==
  LET elem(r, c) == Element(call, ki * T + r, ni * T + c)
  IN /\ stageB' = Packed(ClearBorder(stageB, extentB, Depth, Columns), Depth, Columns, elem)
     /\ extentB' = <<Depth, Columns>>

\* Mutant: the accumulator is cleared for the first output tile only.
ClearedAccOnce ==
  IF ki = 0 /\ mi = 0 /\ ni = 0 /\ Accumulates
  THEN [x \in Cells |-> IF x[1] < Rows /\ x[2] < Columns THEN <<>> ELSE cAcc[x]]
  ELSE cAcc

\* The accumulator of an output tile is cleared before its first K tile.
ClearedAcc ==
  IF ki = 0 /\ Accumulates
  THEN [x \in Cells |-> IF x[1] < Rows /\ x[2] < Columns THEN <<>> ELSE cAcc[x]]
  ELSE cAcc

Pack ==
  /\ phase = "pack"
  /\ cAcc' = ClearedAcc
  /\ PackA /\ PackB
  /\ phase' = "launch"
  /\ UNCHANGED <<status, call, shape, tileVars, kernelLoaded, cRaw, C>>

\* The fixed T x T x T kernel multiplies the stages whole, padding included.
Product(r, c) ==
  {<<stageA[<<r, k>>], stageB[<<k, c>>]>> :
     k \in {j \in Span : stageA[<<r, j>>] # Zero /\ stageB[<<j, c>>] # Zero}}

Accumulate ==
  cAcc' = IF Accumulates
          THEN [x \in Cells |-> IF x[1] < Rows /\ x[2] < Columns
                                THEN Append(cAcc[x], cRaw'[x]) ELSE cAcc[x]]
          ELSE cAcc

Launch ==
  /\ phase = "launch"
  /\ cRaw' = [x \in Cells |-> Product(x[1], x[2])]
  /\ Accumulate
  /\ ki' = ki + 1
  /\ phase' = IF ki' < Tiles(shape.K) THEN "pack" ELSE "store"
  /\ UNCHANGED <<status, call, shape, mi, ni, kernelLoaded, stageVars, C>>

\* The launch throws: the call ends, its stages stay as they are.
LaunchFails ==
  /\ phase = "launch"
  /\ phase' = "idle" /\ status' = "error"
  /\ UNCHANGED <<call, shape, tileVars, kernelLoaded, stageVars, cRaw, cAcc, C>>

-----------------------------------------------------------------------------
\* What is copied out: the accumulator, or the only launch's output.
TileResult(x) == IF Accumulates THEN cAcc[x] ELSE <<cRaw[x]>>

\* Writing an output tile, and the loop heads that follow.
Store ==
  /\ phase = "store"
  /\ C' = [x \in DOMAIN C |->
             LET r == x[1] - mi * T
                 c == x[2] - ni * T
             IN IF r \in 0 .. Rows - 1 /\ c \in 0 .. Columns - 1
                THEN TileResult(<<r, c>>) ELSE C[x]]
  /\ ki' = 0
  /\ IF ni + 1 < Tiles(shape.N)
     THEN ni' = ni + 1 /\ mi' = mi
     ELSE ni' = 0 /\ mi' = mi + 1
  /\ IF mi' < Tiles(shape.M)
     THEN phase' = "pack" /\ status' = status
     ELSE phase' = "idle" /\ status' = "ok"
  /\ UNCHANGED <<call, shape, kernelLoaded, stageVars, cRaw, cAcc>>

Next ==
  \/ CallInvalid \/ CallUnavailable \/ Call
  \/ Pack \/ Launch \/ LaunchFails \/ Store

Spec == Init /\ [][Next]_vars

-----------------------------------------------------------------------------
(* Properties.                                                              *)

\* Nothing but zero outside the extent.
PaddingIsZero(stage, extent) ==
  \A x \in Cells : x[1] >= extent[1] \/ x[2] >= extent[2] => stage[x] = Zero

\* "Padding stays zero across calls": whatever shapes were multiplied before,
\* and whichever launches failed, nothing is left outside the part in use.
StagePadding == PaddingIsZero(stageA, extentA) /\ PaddingIsZero(stageB, extentB)

\* The products the K tile number t adds to element (i, j).
TileProducts(i, j, t) ==
  {<<Element(call, i, k), Element(call, k, j)>> :
     k \in t * T .. t * T + Extent(shape.K, t) - 1}

\* A call that succeeds returns the product: every element is the sum of its
\* K tiles, each added once and in order, with no stale term.
ProductExact ==
  phase = "idle" /\ status = "ok" =>
    \A x \in DOMAIN C :
       C[x] = [t \in 1 .. Tiles(shape.K) |-> TileProducts(x[1], x[2], t - 1)]
=============================================================================
