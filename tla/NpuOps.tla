------------------------------- MODULE NpuOps -------------------------------
(***************************************************************************)
(* The operators of AmdXdnaBackend other than the matrix products          *)
(* (src/backends/amd_xdna/amd_xdna.cpp): padding, tiling, packing, host    *)
(* corrections, validation on first use and fall-backs, with the path that *)
(* mul_mat_q() chooses, against the CPU backend's operators.  The kernels  *)
(* come from NpuKernels.                                                   *)
(*                                                                         *)
(* Data abstraction.  Values are symbols: an element is its place in the   *)
(* input, a result the expression computed, Junk whatever a kernel leaves  *)
(* where it computes nothing.  A call holds the mutex, so it is one step.  *)
(* A kernel of another shape, or driven by another's instruction sequence, *)
(* computes nothing outside its shape; one built wrongly is always wrong.  *)
(***************************************************************************)
EXTENDS NpuKernels, FiniteSets

CONSTANTS Junk, Zero,           \* what is not computed, what is padding
          Calls(_),             \* the calls to try for an operator
          Tile,                 \* 256: what the rope kernel pads to
          BakedEps,             \* kRmsnormBakedEps
          Installable(_),       \* files build-kernels.sh may add meanwhile
          MaxHeads,             \* bound on the heads of a call
          MaxCalls, MaxRuns     \* bounds on calls and processes

ASSUME NpuOpsAssumption ==
  /\ Tile \in Nat \ {0} 
  /\ MaxHeads \in Nat /\ MaxCalls \in Nat /\ MaxRuns \in Nat

\* What the operators' first lines accept; rope turns pairs.
ASSUME CallsAssumption ==
  \A o \in Operators :
    /\ \A c \in Calls(o) :
         /\ o \in {"silu", "gelu", "rms"} => c.size \in Nat \ {0} /\ c.tiny \in BOOLEAN
         /\ o = "rope" => /\ c.pairs \in Nat \ {0} /\ c.heads \in Nat
                          /\ c.neox \in BOOLEAN /\ c.batched \in BOOLEAN
         /\ o = "softmax" => c.rows \in Nat \ {0} /\ c.cols \in Nat \ {0}
         /\ o = "flash" => c.heads \in Nat /\ c.len \in Nat /\ c.qpos \in Int
    /\ o \in LengthOperators => \A n \in Installable(o) : n[1] \in Nat

VARIABLES
  tiled,      \* silu_tiled_sizes_, gelu_tiled_sizes_
  validated,  \* rmsnorm_validated_, gelu_validated_
  vacuous,    \* sizes validated on an input too small to tell anything
  routes,     \* the path taken by each class of matrix product
  res,        \* the last call: its arguments, status, output and kernel
  calls, runs

opVars == <<tiled, validated, vacuous, routes, res, calls, runs>>
vars == <<regVars, opVars>>

NoCall == [status |-> "none"]

-----------------------------------------------------------------------------
(* A launch.                                                                *)

Works(k) == k.good /\ k.seq = k.shape

Larger(a, b) == IF a > b THEN a ELSE b
Smaller(a, b) == IF a < b THEN a ELSE b
Ceiling(a, b) == (a + b - 1) \div b

\* pad_len of rope() and rope_batched(), which is the kernel's length too.
RopePad(pairs) == Larger(2 * Tile, Ceiling(pairs, Tile) * Tile * 2)

\* Kernel k computes all that a call for shape s needs.
Fits(k, s) ==
  /\ Works(k)
  /\ CASE op \in {"silu", "gelu"} -> k.shape[1] >= s[1]
       [] op = "rope" -> RopePad(k.shape[1] \div 2) >= RopePad(s[1] \div 2)
       [] op = "softmax" -> k.shape[1] >= s[1] /\ k.shape[2] = s[2]
       [] OTHER -> k.shape = s

-----------------------------------------------------------------------------
(* silu and gelu.                                                           *)

Applied(x) == <<op, x>>

\* run_silu_launch(), run_gelu_launch(): element i of what the kernel is given.
Element(k, x, i) == IF Works(k) /\ i <= k.shape[1] THEN Applied(x) ELSE Junk

\* One launch of the exact kernel, or one per chunk of the tiling kernel.
Activated(k, exact, input) ==
  [i \in DOMAIN input |->
     Element(k, input[i], IF exact THEN i ELSE ((i - 1) % ActivationSize) + 1)]

\* Which kernel a call of size n uses: its own, or the one it is tiled through.
ActivationKernel(n, opens, builds) ==
  LET own == IF <<n>> \in DOMAIN kernels \/ n \notin tiled
             THEN Lookup(disk, <<n>>, opens, builds)
             ELSE [found |-> <<>>, disk |-> disk]
      tile == Lookup(own.disk, <<ActivationSize>>, opens, builds)
  IN IF own.found # <<>>
     THEN [own EXCEPT !.found = <<own.found[1], <<n>>>>]
     ELSE IF tile.found # <<>>
     THEN [tile EXCEPT !.found = <<tile.found[1], <<ActivationSize>>>>]
     ELSE tile

-----------------------------------------------------------------------------
(* rms_norm: an output is scaled by 1/sqrt(sum of squares / n + eps), which *)
(* <<n, eps>> stands for, and possibly weighted.                            *)

next_pow2(n) == CHOOSE p \in {2 ^ k : k \in 0 .. n} : p >= n /\ (p = 1 \/ p \div 2 < n)

rmsnorm_pad_width(n) ==
  IF n <= RmsCols THEN RmsCols
  ELSE IF n <= RmsMiddle THEN RmsMiddle
  ELSE IF n <= RmsHidden THEN RmsHidden
  ELSE next_pow2(n)

\* rms_out_corr: out of the kernel's divisor and eps, into the caller's.
Corrected(raw, width, n, eps) ==
  IF raw = <<width, BakedEps>> THEN <<n, eps>> ELSE Junk

Normed(k, width) == IF Fits(k, <<width>>) THEN <<width, BakedEps>> ELSE Junk

-----------------------------------------------------------------------------
(* rope: element j of head h is <<h, j>>.                                   *)

\* The two elements of pair i.
PairOf(c, h, i) ==
  IF c.neox THEN <<<<h, i>>, <<h, i + c.pairs>>>>
  ELSE <<<<h, 2 * i>>, <<h, 2 * i + 1>>>>

HeadsPerLaunch(c) == RopePad(c.pairs) \div (2 * c.pairs)

\* The heads of the launch that head h belongs to.
GroupOf(c, h) ==
  LET h0 == (h \div HeadsPerLaunch(c)) * HeadsPerLaunch(c)
  IN [first |-> h0, size |-> Smaller(HeadsPerLaunch(c), c.heads - h0)]

\* What the buffers of a group hold: its even halves, then its odd halves.
Packed(c, g, at) ==
  LET half == g.size * c.pairs
      h == g.first + (at % half) \div c.pairs
  IN CASE at < half -> <<"even", PairOf(c, h, at % c.pairs)>>
       [] at \in half .. 2 * half - 1 -> <<"odd", PairOf(c, h, at % c.pairs)>>
       [] OTHER -> Zero

\* Mutant: the odd halves taken from where a full launch has them.
OddOfFullLaunch(c, g) == HeadsPerLaunch(c) * c.pairs

\* Where the odd halves of a group start.
Odd(c, g) == g.size * c.pairs

Sums(k, c, g, at) ==
  IF Works(k) /\ at < RopePad(k.shape[1] \div 2) THEN Packed(c, g, at) ELSE Junk

\* rope_batched(): the rotated heads.
RotatedNpu(k, c) ==
  [h \in 0 .. c.heads - 1 |->
     [j \in 0 .. 2 * c.pairs - 1 |->
        LET g == GroupOf(c, h)
            even == (h - g.first) * c.pairs
            i == IF c.neox THEN j % c.pairs ELSE j \div 2
            isOdd == IF c.neox THEN j >= c.pairs ELSE j % 2 = 1
        IN Sums(k, c, g, even + i + IF isOdd THEN Odd(c, g) ELSE 0)]]

\* rope(): two launches a head, one for each half.
RotatedHeads(k, c) ==
  [h \in 0 .. c.heads - 1 |->
     [j \in 0 .. 2 * c.pairs - 1 |->
        LET i == IF c.neox THEN j % c.pairs ELSE j \div 2
            isOdd == IF c.neox THEN j >= c.pairs ELSE j % 2 = 1
        IN IF Works(k) /\ i < RopePad(k.shape[1] \div 2)
           THEN <<IF isOdd THEN "odd" ELSE "even", PairOf(c, h, i)>>
           ELSE Junk]]

\* apply_rope_cpu() and rope() of the CPU backend.
RotatedCpu(c) ==
  [h \in 0 .. c.heads - 1 |->
     [j \in 0 .. 2 * c.pairs - 1 |->
        IF c.neox THEN <<IF j < c.pairs THEN "even" ELSE "odd", PairOf(c, h, j % c.pairs)>>
        ELSE <<IF j % 2 = 0 THEN "even" ELSE "odd", PairOf(c, h, j \div 2)>>]]

-----------------------------------------------------------------------------
(* softmax: row r is normalised over its columns.                           *)

Softmaxed(k, rows, cols) ==
  [r \in 1 .. rows |->
     IF Works(k) /\ k.shape[2] = cols /\ r <= k.shape[1] THEN <<r, cols>> ELSE Junk]

-----------------------------------------------------------------------------
(* flash_attn: an output head is the set of positions it attends to.        *)

QueryPos(c) == IF c.qpos >= 0 THEN c.qpos ELSE c.len - 1

\* flash_attn_npu(): all scores computed, the later ones masked on the host.
HeadOnNpu(c) == {j \in 0 .. c.len - 1 : j <= QueryPos(c)}

\* flash_attn_decomposed(), and flash_attn() of the CPU backend.
HeadOnHost(c) == {j \in 0 .. Smaller(QueryPos(c), c.len - 1) : TRUE}

\* flash_attn_npu() stops at the first head a product fails for, with the heads
\* before it written.
NpuHeads(c, failsAt) == [h \in 1 .. c.heads |-> IF h < failsAt THEN HeadOnNpu(c) ELSE Junk]

HostHeads(c) == [h \in 1 .. c.heads |-> HeadOnHost(c)]

\* The fused kernel is told nothing of query_pos.
FusedHeads(k, c) ==
  [h \in 1 .. c.heads |->
     IF Fits(k, <<c.heads, c.dim, c.len>>) THEN 0 .. c.len - 1 ELSE Junk]

-----------------------------------------------------------------------------
(* The reference: the operators of the CPU backend.                         *)

Input(c) == [i \in 1 .. c.size |-> <<i>>]

Reference(c) ==
  CASE op \in {"silu", "gelu"} -> [i \in 1 .. c.size |-> Applied(Input(c)[i])]
    [] op = "rms" -> <<c.size, c.eps>>
    [] op = "rope" -> RotatedCpu(c)
    [] op = "softmax" -> [r \in 1 .. c.rows |-> <<r, c.cols>>]
    [] op = "flash" -> HostHeads(c)

-----------------------------------------------------------------------------
(* Validation on first use.  A size counts as validated before it is looked *)
(* at; an input near zero tells nothing and passes.                         *)

GateStatus(n, tiny, matches) ==
  IF n \notin validated /\ ~tiny /\ ~matches THEN "error" ELSE "ok"

Validated(n, tiny) ==
  /\ validated' = validated \cup {n}
  /\ vacuous' = IF n \notin validated /\ tiny THEN vacuous \cup {n} ELSE vacuous

NotValidated == UNCHANGED <<validated, vacuous>>

\* Mutant: the gate looks at the buffer the launch has overwritten.
SnapshotAfter(input, output) == output

\* gelu() works in place: the input is kept aside before the launch.
Snapshot(input, output) == input

GeluMatches(input, output) ==
  output = [i \in DOMAIN input |-> Applied(Snapshot(input, output)[i])]

-----------------------------------------------------------------------------
(* The calls.  The caller goes on after OK only: main() returns on anything *)
(* else.  used is the kernel and the shape it was to have.                  *)

Returns(c, status, out, used, threw) ==
  /\ res' = [status |-> status, call |-> c, out |-> out, used |-> used, threw |-> threw]
  /\ up' = (status = "ok")
  /\ calls' = calls + 1
  /\ UNCHANGED <<op, ctx, runs>>

Opening ==
  /\ ~up /\ runs < MaxRuns
  /\ \E opens, builds \in BOOLEAN : OpenBackend(opens, builds)
  /\ tiled' = {} /\ validated' = {} /\ vacuous' = {} /\ routes' = <<>>
  /\ res' = NoCall /\ calls' = 0 /\ runs' = runs + 1

Activation(c, opens, builds, throws) ==
  LET e == ActivationKernel(c.size, opens, builds)
      exact == e.found # <<>> /\ e.found[2] = <<c.size>>
      input == Input(c)
  IN /\ op \in {"silu", "gelu"}
     /\ disk' = e.disk
     /\ tiled' = IF exact THEN tiled ELSE tiled \cup {c.size}
     /\ UNCHANGED <<paths, routes>>
     /\ IF e.found = <<>>
        THEN /\ Returns(c, "unavailable", <<>>, <<>>, FALSE)
             /\ kernels' = kernels /\ NotValidated
        ELSE LET k == e.found[1]
                 out == Activated(k, exact, input)
             IN /\ kernels' = Put(kernels, e.found[2], k)
                /\ IF k.seq = NoSequence
                   THEN Returns(c, "unavailable", <<>>, e.found, FALSE) /\ NotValidated
                   ELSE IF throws
                   THEN Returns(c, "error", <<>>, e.found, TRUE) /\ NotValidated
                   ELSE IF op = "silu"
                   THEN Returns(c, "ok", out, e.found, FALSE) /\ NotValidated
                   ELSE /\ Returns(c, GateStatus(c.size, c.tiny, GeluMatches(input, out)),
                                   out, e.found, FALSE)
                        /\ Validated(c.size, c.tiny)

RmsNorm(c, opens, builds, throws) ==
  LET width == rmsnorm_pad_width(c.size)
      e == Lookup(disk, <<width>>, opens, builds)
      used == e.found \o <<<<width>>>>
      k == e.found[1]
      out == Corrected(Normed(k, width), width, c.size, c.eps)
  IN /\ op = "rms"
     /\ Registered(<<width>>, e)
     /\ UNCHANGED <<paths, tiled, routes>>
     /\ IF e.found = <<>>
        THEN Returns(c, "unavailable", <<>>, <<>>, FALSE) /\ NotValidated
        ELSE IF k.seq = NoSequence /\ c.size = RmsHidden
        THEN Returns(c, "unavailable", <<>>, used, FALSE) /\ NotValidated
        ELSE IF throws
        THEN Returns(c, "error", <<>>, used, TRUE) /\ NotValidated
        ELSE IF k.seq = NoSequence
        THEN Returns(c, "ok", Junk, used, FALSE) /\ NotValidated
        ELSE /\ Returns(c, GateStatus(c.size, c.tiny, out = <<c.size, c.eps>>),
                        out, used, FALSE)
             /\ Validated(c.size, c.tiny)

\* The caller of rope_batched() on adjacent pairs falls back to the host.
Rope(c, opens, builds, throws) ==
  LET s == <<2 * c.pairs>>
      e == Lookup(disk, s, opens, builds)
      fallsBack == c.batched /\ ~c.neox
      Fails(status, used) ==
        IF fallsBack THEN Returns(c, "ok", RotatedCpu(c), used, throws)
        ELSE Returns(c, status, <<>>, used, throws)
  IN /\ op = "rope"
     /\ Registered(s, e)
     /\ UNCHANGED <<paths, tiled, validated, vacuous, routes>>
     /\ IF e.found = <<>> THEN Fails("unavailable", <<>>)
        ELSE IF throws THEN Fails("error", <<e.found[1], s>>)
        ELSE Returns(c, "ok", IF c.batched THEN RotatedNpu(e.found[1], c)
                              ELSE RotatedHeads(e.found[1], c),
                     <<e.found[1], s>>, FALSE)

Softmax(c, opens, builds, throws) ==
  LET s == <<c.rows, c.cols>>
      e == Lookup(disk, s, opens, builds)
  IN /\ op = "softmax"
     /\ Registered(s, e)
     /\ UNCHANGED <<paths, tiled, validated, vacuous, routes>>
     /\ IF e.found = <<>> THEN Returns(c, "unavailable", <<>>, <<>>, FALSE)
        ELSE IF throws THEN Returns(c, "error", <<>>, <<e.found[1], s>>, TRUE)
        ELSE Returns(c, "ok", Softmaxed(e.found[1], c.rows, c.cols), <<e.found[1], s>>, FALSE)

\* Attention by the fused kernel.
FlashFused(c, opens, throws) ==
  LET s == <<c.heads, c.dim, c.len>>
      e == Lookup(disk, s, opens, FALSE)
  IN /\ op = "flash" /\ c.mode = "fused"
     /\ Registered(s, e)
     /\ UNCHANGED <<paths, tiled, validated, vacuous, routes>>
     /\ IF e.found = <<>> THEN Returns(c, "unavailable", <<>>, <<>>, FALSE)
        ELSE IF throws THEN Returns(c, "error", <<>>, <<e.found[1], s>>, TRUE)
        ELSE Returns(c, "ok", FusedHeads(e.found[1], c), <<e.found[1], s>>, FALSE)

\* Attention by bf16 products, with the host to fall back on, or on the host.
FlashDecomposed(c, failsAt) ==
  /\ op = "flash" /\ c.mode # "fused" /\ failsAt \in 1 .. c.heads + 1
  /\ Returns(c, "ok", IF c.mode = "npu" /\ failsAt > c.heads THEN NpuHeads(c, failsAt)
                      ELSE HostHeads(c), <<>>, FALSE)
  /\ UNCHANGED <<disk, kernels, paths, tiled, validated, vacuous, routes>>

\* The optional kernels a product of this class asks for.
PathsOf(c) ==
  (IF c.small THEN <<"small">> ELSE <<>>) \o
  (IF c.small /\ c.deep THEN <<"deepk">> ELSE <<>>) \o
  (IF c.small /\ c.deep /\ c.wide THEN <<"wide">> ELSE <<>>)

Route(ps, opens) ==
  LET taken == {i \in 1 .. Len(ps) : \A j \in 1 .. i : PathLoaded(ps[j], opens)}
  IN IF taken = {} THEN "square" ELSE ps[Cardinality(taken)]

\* mul_mat_q() up to the choice of its kernel.
MulMat(c, opens, builds) ==
  LET e == Lookup(disk, Generic, opens, builds)
      route == Route(PathsOf(c), opens)
      used == e.found \o <<Generic>>
  IN /\ op = "matmul"
     /\ Registered(Generic, e)
     /\ UNCHANGED <<tiled, validated, vacuous>>
     /\ IF e.found = <<>>
        THEN /\ Returns(c, "unavailable", <<>>, <<>>, FALSE)
             /\ UNCHANGED <<paths, routes>>
        ELSE /\ paths' = PathsAfter(PathsOf(c), opens)
             /\ routes' = Put(routes, c, route)
             /\ IF route = "square" /\ e.found[1].seq = NoSequence
                THEN Returns(c, "unavailable", <<>>, used, FALSE)
                ELSE Returns(c, "ok", route, used, FALSE)

\* build-kernels.sh in another terminal: the xclbin is copied first, then its
\* sequence; an xclbin found without one is built again.
InstallFile(n) ==
  /\ ~InCache(disk, n)
  /\ disk' = Stored(disk, n, [shape |-> n, good |-> TRUE])
  /\ UNCHANGED <<op, up, ctx, kernels, paths, opVars>>

InstallSequence(n) ==
  /\ InCache(disk, n) /\ SequenceOf(disk, n) = NoSequence
  /\ disk' = [Stored(disk, n, [shape |-> n, good |-> TRUE]) EXCEPT !.seq = Put(@, n, n)]
  /\ UNCHANGED <<op, up, ctx, kernels, paths, opVars>>

Leave ==
  /\ up /\ calls > 0
  /\ up' = FALSE
  /\ UNCHANGED <<op, disk, ctx, kernels, paths, opVars>>

Init ==
  /\ RegInit
  /\ tiled = {} /\ validated = {} /\ vacuous = {} /\ routes = <<>>
  /\ res = NoCall /\ calls = 0 /\ runs = 0

Call ==
  /\ up /\ calls < MaxCalls
  /\ \E c \in Calls(op), opens, builds, throws \in BOOLEAN :
       \/ Activation(c, opens, builds, throws)
       \/ RmsNorm(c, opens, builds, throws)
       \/ Rope(c, opens, builds, throws)
       \/ Softmax(c, opens, builds, throws)
       \/ FlashFused(c, opens, throws)
       \/ ~throws /\ MulMat(c, opens, builds)

Next ==
  \/ Opening
  \/ Call
  \/ /\ up /\ calls < MaxCalls
     /\ \E c \in Calls(op), failsAt \in 1 .. MaxHeads + 1 : FlashDecomposed(c, failsAt)
  \/ \E n \in Installable(op) : InstallFile(n) \/ InstallSequence(n)
  \/ Leave

Spec == Init /\ [][Next]_vars

-----------------------------------------------------------------------------
(* What a caller may rely on.                                               *)

Gated == op \in {"rms", "gelu"}

\* The kernel of the last call did not fit it, and nothing noticed: silu,
\* softmax and rope check nothing, nor does rms_norm without its sequence, and
\* what was validated on a tiny input was not validated.
Unnoticed ==
  /\ res.used # <<>> /\ ~Fits(res.used[1], res.used[2])
  /\ Gated /\ res.used[1].seq # NoSequence => res.call.size \in vacuous

\* A call that returns OK has computed what the CPU backend computes, through
\* padding, tiling, packing several heads in a launch, the correction of the
\* kernel's divisor and eps, and every fall-back (amd_xdna.cpp:954-2034), unless
\* a kernel that does not fit went unnoticed, or the fused attention kernel
\* looked past query_pos.
OkIsReference ==
  res.status = "ok" /\ op # "matmul" =>
    \/ res.out = Reference(res.call)
    \/ Unnoticed
    \/ op = "flash" /\ res.call.mode = "fused" /\ QueryPos(res.call) < res.call.len - 1

\* A call returns ERROR only after a launch that threw or on a kernel that does
\* not fit: the validation of rms_norm() and gelu() accepts every kernel that is
\* right, for any size padded or tiled, any eps, and in place
\* (amd_xdna.cpp:1081, 1767-1778, 1798-1807).
ErrorHasCause ==
  res.status = "error" => res.threw \/ ~Fits(res.used[1], res.used[2])

\* In one process products of the same class always take the same kernel,
\* whatever is installed or fails to load meanwhile: the tiles kept from an
\* earlier call were packed for it (amd_xdna.cpp:2251-2367).
RouteIsFixed ==
  [][runs' = runs => \A c \in DOMAIN routes : routes'[c] = routes[c]]_vars
=============================================================================
