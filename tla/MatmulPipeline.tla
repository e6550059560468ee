---------------------------- MODULE MatmulPipeline ----------------------------
(***************************************************************************)
(* AmdXdnaBackend::mul_mat_q() (src/backends/amd_xdna/amd_xdna.cpp): a     *)
(* quantized matrix product cut into tiles that are submitted to the NPU   *)
(* in batches, each tile in a pipeline slot with its own run and buffers,  *)
(* while the device works on earlier ones.  Slots, packed weight tiles and *)
(* resident weight buffers outlive the call.                               *)
(*                                                                         *)
(* Data abstraction.  A packed tile is named by what was packed, with the  *)
(* row stride it was laid out with; a launch's output is the pair of the   *)
(* tiles it multiplied; an element block of C is the sequence of outputs   *)
(* added to it.  Sizes are in units small enough to check, in the          *)
(* proportions of the code's (16/256/512/2048).                            *)
(***************************************************************************)
EXTENDS Integers, Sequences

CONSTANTS
  Weights,             \* the weight operands
  Kind(_),             \* "int8" (decoded quants), "f32" or "other"
  Ptr(_), NoPtr,       \* the address of the weight data; the null pointer
  N(_), K(_),          \* a weight's shape
  Heights,             \* the M asked for
  SmallM, TileM, TileN, WideN, TileK, DeepK,
  Built,               \* optional xclbins present: a subset of small, deep, wide
  ResidentW,           \* GGNPU_NO_RESIDENT_W is not set
  BatchSize,           \* batch_size
  SubmitMayThrow,      \* may starting a run throw?
  MaxCalls             \* bound on the number of calls

ASSUME PipelineAssumption ==
  /\ {SmallM, TileM, TileN, WideN, TileK, DeepK, BatchSize} \subseteq Nat \ {0}
  /\ MaxCalls \in Nat /\ Heights \subseteq Nat /\ Heights # {} /\ Weights # {}
  /\ \A w \in Weights : N(w) \in Nat /\ K(w) \in Nat /\ Kind(w) \in {"int8", "f32", "other"}
  /\ Built \subseteq {"small", "deep", "wide"}
  /\ ResidentW \in BOOLEAN /\ SubmitMayThrow \in BOOLEAN

VARIABLES
  phase,        \* idle, submit or wait
  result,       \* the status returned
  call,         \* number of the call
  weight, height,   \* its B and M
  first,        \* the first tile of the batch
  cursor,       \* the batch member being submitted or waited for
  slots,        \* per path, the pipeline slots: buf_a, buf_b, buf_c
  inFlight,     \* per path, the runs started and not completed: slot -> <<>>
                \* (bound to the slot's buf_b) or <<the resident tile bound>>
  bCache,       \* the global B-tile cache: key -> packed tile
  resident,     \* resident_b_bos_: key -> packed tile
  C,            \* the result blocks
  thrown        \* history: some start has thrown

callVars == <<call, weight, height>>
vars == <<phase, result, callVars, first, cursor, slots, inFlight, bCache, resident, C, thrown>>

-----------------------------------------------------------------------------
(* Which xclbin runs the product, and the tiles it is cut into.             *)

Paths == {"plain", "small", "deep", "wide"}

Path ==
  LET small == height <= SmallM /\ "small" \in Built
      deep == small /\ K(weight) > TileK /\ "deep" \in Built
      wide == deep /\ N(weight) >= WideN /\ "wide" \in Built
  IN IF wide THEN "wide" ELSE IF deep THEN "deep" ELSE IF small THEN "small" ELSE "plain"

Tm == IF Path = "plain" THEN TileM ELSE SmallM
Tn == IF Path = "wide" THEN WideN ELSE TileN
Tk == IF Path \in {"deep", "wide"} THEN DeepK ELSE TileK

Smaller(m, n) == IF m <= n THEN m ELSE n
Blocks(size, t) == (size + t - 1) \div t
Mt == Blocks(height, Tm)
Nt == Blocks(N(weight), Tn)
Kt == Blocks(K(weight), Tk)
TileCount == Mt * Nt * Kt

\* The loop nest: m0 outermost, k0 innermost.
TileAt(q) == [m |-> q \div (Nt * Kt), n |-> (q \div Kt) % Nt, k |-> q % Kt]

BatchLen == Smaller(BatchSize, TileCount - first)
Work(i) == TileAt(first + i)        \* batch[i]

\* Mutant: the key leaves out the K block.
KeyWithoutK0(t) ==
  [ptr |-> IF Kind(weight) = "f32" THEN NoPtr ELSE Ptr(weight),
   n0 |-> t.n * Tn, nc |-> Smaller(Tn, N(weight) - t.n * Tn), K |-> K(weight)]

\* BTileKey: B, n0, k0, nc, kc, K.  B is B_int8_base, null for F32 weights.
Key(t) ==
  [ptr |-> IF Kind(weight) = "f32" THEN NoPtr ELSE Ptr(weight),
   n0 |-> t.n * Tn, k0 |-> t.k * Tk,
   nc |-> Smaller(Tn, N(weight) - t.n * Tn), kc |-> Smaller(Tk, K(weight) - t.k * Tk),
   K |-> K(weight)]

\* The tiles wanted for the batch member t: b_tile is laid out with stride T.
ATile(t) == [call |-> call, m |-> t.m, k |-> t.k]
BTile(t) == [w |-> weight, n0 |-> t.n * Tn, k0 |-> t.k * Tk, stride |-> Tn, depth |-> Tk]

UsesResident == Path \in {"deep", "wide"} /\ Kind(weight) = "int8" /\ ResidentW

-----------------------------------------------------------------------------
Empty == [x \in {} |-> 0]
Added(f, x, v) == [y \in DOMAIN f \cup {x} |-> IF y = x THEN v ELSE f[y]]
Unwritten == [a |-> <<>>, b |-> <<>>, c |-> <<>>]

Init ==
  /\ phase = "idle" /\ result = "none"
  /\ call = 0
  /\ weight = CHOOSE w \in Weights : TRUE
  /\ height = CHOOSE h \in Heights : TRUE
  /\ first = 0 /\ cursor = 0
  /\ slots = [p \in Paths |-> <<>>]
  /\ inFlight = [p \in Paths |-> Empty]
  /\ bCache = Empty /\ resident = Empty
  /\ C = Empty /\ thrown = FALSE

\* The caller's operands are null, or the base xclbin is missing.
CallRejected ==
  /\ phase = "idle" /\ call < MaxCalls
  /\ call' = call + 1
  /\ result' \in {"invalid", "unavailable"}
  /\ UNCHANGED <<phase, weight, height, first, cursor, slots, inFlight, bCache, resident,
                 C, thrown>>

\* ensure_matmul_pipeline_slots(): only new slots are initialised.
Grown(s, n) == [i \in 1 .. (IF n > Len(s) THEN n ELSE Len(s)) |->
                  IF i <= Len(s) THEN s[i] ELSE Unwritten]

\* C is zeroed; a product with no tile returns at once.
Call ==
  /\ phase = "idle" /\ call < MaxCalls
  /\ call' = call + 1
  /\ weight' \in Weights /\ height' \in Heights
  /\ first' = 0 /\ cursor' = 0
  /\ C' = [x \in (0 .. Mt' - 1) \X (0 .. Nt' - 1) |-> <<>>]
  /\ IF TileCount' = 0
     THEN phase' = "idle" /\ result' = "ok"
     ELSE phase' = "submit" /\ result' = result
  /\ slots' = [slots EXCEPT ![Path'] = Grown(@, BatchLen')]
  /\ UNCHANGED <<inFlight, bCache, resident, thrown>>

-----------------------------------------------------------------------------
(* Phase 1: pack, copy and start the tiles of the batch, without waiting.   *)

Lookup(cache, t) == IF Key(t) \in DOMAIN cache THEN cache[Key(t)] ELSE BTile(t)

\* resolve_a_tile(), resolve_b_tile() / resolve_b_bo() and the copies into
\* the slot; b is the B operand the run is bound to.
Stage(t, b) ==
  LET s == cursor + 1
  IN /\ b = Lookup(IF UsesResident THEN resident ELSE bCache, t)
     /\ IF UsesResident
        THEN /\ resident' = Added(resident, Key(t), b)
             /\ slots' = [slots EXCEPT ![Path][s] = [@ EXCEPT !.a = ATile(t)]]
             /\ UNCHANGED bCache
        ELSE /\ bCache' = Added(bCache, Key(t), b)
             /\ slots' = [slots EXCEPT ![Path][s] = [@ EXCEPT !.a = ATile(t), !.b = b]]
             /\ UNCHANGED resident

Submit ==
  /\ phase = "submit" /\ Kind(weight) # "other"
  /\ cursor + 1 \notin DOMAIN inFlight[Path]
  /\ \E b \in {Lookup(IF UsesResident THEN resident ELSE bCache, Work(cursor))} :
       /\ Stage(Work(cursor), b)
       /\ inFlight' = [inFlight EXCEPT ![Path] =
                         Added(@, cursor + 1, IF UsesResident THEN <<b>> ELSE <<>>)]
  /\ IF cursor + 1 < BatchLen
     THEN cursor' = cursor + 1 /\ phase' = phase
     ELSE cursor' = 0 /\ phase' = "wait"
  /\ UNCHANGED <<result, callVars, first, C, thrown>>

\* Starting the run throws, as it does for a run that is still in flight: the
\* call returns an error and leaves the runs it has started behind.
SubmitThrows ==
  /\ phase = "submit" /\ Kind(weight) # "other"
  /\ SubmitMayThrow
  /\ \E b \in {Lookup(IF UsesResident THEN resident ELSE bCache, Work(cursor))} :
       Stage(Work(cursor), b)
  /\ phase' = "idle" /\ result' = "error" /\ thrown' = TRUE
  /\ UNCHANGED <<callVars, first, cursor, inFlight, C>>

\* Mutant: the type is looked at once a tile has been submitted.
UnsupportedLate ==
  /\ phase = "submit" /\ Kind(weight) = "other" /\ cursor > 0
  /\ phase' = "idle" /\ result' = "invalid"
  /\ UNCHANGED <<callVars, first, cursor, slots, inFlight, bCache, resident, C, thrown>>

\* A weight type the path does not know.
Unsupported ==
  /\ phase = "submit" /\ Kind(weight) = "other"
  /\ phase' = "idle" /\ result' = "invalid"
  /\ UNCHANGED <<callVars, first, cursor, slots, inFlight, bCache, resident, C, thrown>>

-----------------------------------------------------------------------------
(* The device (external): runs of a path complete in any order, and read    *)
(* their operands as late as they complete.                                 *)

DeviceCompletes(p, s) ==
  /\ s \in DOMAIN inFlight[p]
  /\ LET slot == slots[p][s]
         b == IF inFlight[p][s] = <<>> THEN slot.b ELSE inFlight[p][s][1]
     IN slots' = [slots EXCEPT ![p][s].c = <<slot.a, b>>]
  /\ inFlight' = [inFlight EXCEPT ![p] = [x \in DOMAIN @ \ {s} |-> @[x]]]
  /\ UNCHANGED <<phase, result, callVars, first, cursor, bCache, resident, C, thrown>>

Device == \E p \in Paths : \E s \in DOMAIN inFlight[p] : DeviceCompletes(p, s)

-----------------------------------------------------------------------------
(* Phase 2: wait for the runs in submission order, read back, accumulate.   *)

\* Mutant: the block is overwritten, as if there were one K tile.
Overwritten(block, out) == <<out>>

Accumulated(block, out) == Append(block, out)

\* Mutant: nothing is waited for.
CompletedUnchecked(s) == TRUE

Completed(s) == s \notin DOMAIN inFlight[Path]

Wait ==
  /\ phase = "wait"
  /\ Completed(cursor + 1)
  /\ LET t == Work(cursor)
     IN C' = [C EXCEPT ![<<t.m, t.n>>] = Accumulated(@, slots[Path][cursor + 1].c)]
  /\ IF cursor + 1 < BatchLen
     THEN UNCHANGED <<phase, result, first, slots>> /\ cursor' = cursor + 1
     ELSE /\ cursor' = 0 /\ first' = first + BatchLen
          /\ IF first' < TileCount
             THEN /\ phase' = "submit" /\ result' = result
                  /\ slots' = [slots EXCEPT ![Path] = Grown(@, Smaller(BatchSize, TileCount - first'))]
             ELSE phase' = "idle" /\ result' = "ok" /\ slots' = slots
  /\ UNCHANGED <<callVars, inFlight, bCache, resident, thrown>>

Host == CallRejected \/ Call \/ Submit \/ SubmitThrows \/ Unsupported \/ Wait
Next == Host \/ Device

\* The host thread does not stop inside a call, and the device completes what
\* it has been given.
Spec == /\ Init /\ [][Next]_vars
        /\ WF_vars(Submit \/ SubmitThrows \/ Unsupported \/ Wait) /\ WF_vars(Device)

-----------------------------------------------------------------------------
(* Properties.                                                              *)

\* A call that returns OK has computed the product: every block of C is the
\* sum of its K tiles, each once and in k order (so the rounding does not
\* depend on the device), of this call's activations with its own weights.
ProductExact ==
  phase = "idle" /\ result = "ok" =>
    \A x \in DOMAIN C :
       C[x] = [j \in 1 .. Kt |->
                 LET t == [m |-> x[1], n |-> x[2], k |-> j - 1]
                 IN <<ATile(t), BTile(t)>>]

\* Until a start has thrown, the host never writes the operands of a run in
\* flight, whatever the batch size and however late the device is.
OperandsStay ==
  [][\A p \in Paths : \A s \in DOMAIN inFlight[p] :
       ~thrown => slots'[p][s].a = slots[p][s].a /\ slots'[p][s].b = slots[p][s].b]_vars

\* Every call returns.
CallReturns == phase # "idle" ~> phase = "idle"
=============================================================================
