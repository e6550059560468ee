------------------------------ MODULE NpuKernels ------------------------------
(***************************************************************************)
(* Where the NPU operators find their kernels: the files of the compile    *)
(* cache and of the system directories, what the backend opens at start,   *)
(* the ensure_*_kernel() functions, and the kernels Triton-XDNA compiles   *)
(* on demand (src/backends/amd_xdna/amd_xdna.cpp and kernels.cpp, the      *)
(* xclbin half of src/cache/cache.cpp).                                    *)
(*                                                                         *)
(* Data abstraction.  A behaviour follows one operator, op.  A shape is a  *)
(* sequence of numbers and names the file made for it; <<>> names the      *)
(* file without a shape.  Of a file only the shape it was compiled for and *)
(* whether the compiler got it right are kept; of an instruction sequence  *)
(* the shape it drives.                                                    *)
(***************************************************************************)
EXTENDS Integers, Sequences

CONSTANTS Operators,
          RmsCols, RmsMiddle, RmsHidden,   \* 256, 512, 2048: rmsnorm widths
          ActivationSize,                  \* kSiluKernelSize, kGeluKernelSize
          JitSiluSize,                     \* the --N of jit_compile_kernel()
          SoftmaxDim, JitSoftmaxCols,      \* kSoftmaxKernelRows and Cols; --cols
          RopePairs,                       \* kRopePairs
          FlashShape,                      \* kFlashAttnHeads, HeadDim, CtxLen
          MatmulShape,                     \* kMatmulTile
          Jit,                             \* jit_compilation_available()
          Disks(_),      \* what the cache directory may hold for an operator
          System(_)      \* what the system directories hold

ASSUME NpuKernelsAssumption ==
  /\ RmsCols \in Nat \ {0} /\ RmsMiddle \in Nat /\ RmsHidden \in Nat
  /\ ActivationSize \in Nat \ {0} /\ JitSiluSize \in Nat \ {0}
  /\ RopePairs \in Nat \ {0} /\ SoftmaxDim \in Nat \ {0}
  /\ Jit \in BOOLEAN
  /\ Operators \subseteq {"rms", "softmax", "silu", "gelu", "rope", "flash", "matmul"}

\* The operators of which a kernel serves what fits in the first number of its
\* shape.
LengthOperators == {"silu", "gelu", "rope", "softmax"}

\* Every file was compiled for some length.
ASSUME FilesAssumption ==
  \A o \in Operators \cap LengthOperators :
    /\ \A d \in Disks(o) :
         /\ d = [xclbin |-> d.xclbin, seq |-> d.seq]
         /\ \A n \in DOMAIN d.xclbin : d.xclbin[n].shape[1] \in Nat
    /\ \A n \in DOMAIN System(o) : System(o)[n].shape[1] \in Nat

VARIABLES
  op,
  up,         \* a process has the backend open
  disk,       \* xclbin/ in the cache directory: xclbin files and sequences
  ctx,        \* hw_ctx_*_: the file opened at start, if any
  kernels,    \* *_kernels_: from shapes to kernels
  paths       \* the optional matmul kernels: unasked, loaded or unavailable

regVars == <<op, up, disk, ctx, kernels, paths>>

Generic == <<>>
AtStart == <<0, 0>>        \* make_cache_key(): a name nothing looks for again
NoSequence == <<>>

\* f with a value for key, as operator[] of a map leaves it.
Put(f, key, value) == [x \in {key} \cup DOMAIN f |-> IF x = key THEN value ELSE f[x]]

Paths == {"small", "deepk", "wide"}

\* The shape of the kernel built without a shape in its name.
DefaultShape ==
  CASE op = "rms" -> <<RmsCols>>
    [] op = "softmax" -> <<SoftmaxDim, SoftmaxDim>>
    [] op \in {"silu", "gelu"} -> <<ActivationSize>>
    [] op = "rope" -> <<2 * RopePairs>>
    [] op = "flash" -> FlashShape
    [] op = "matmul" -> MatmulShape

\* What jit_compile_kernel() asks the compiler for, whatever the caller wanted.
JitShape ==
  CASE op = "silu" -> <<JitSiluSize>>
    [] op = "softmax" -> <<1, JitSoftmaxCols>>
    [] OTHER -> DefaultShape

-----------------------------------------------------------------------------
(* The files.                                                               *)

InCache(d, n) == n \in DOMAIN d.xclbin

\* find_prebuilt_xclbin(): the cache directory, then the system's.
Prebuilt(d, n) ==
  IF InCache(d, n) THEN <<[name |-> n, file |-> d.xclbin[n]]>>
  ELSE IF n \in DOMAIN System(op) THEN <<[name |-> n, file |-> System(op)[n]]>>
  ELSE <<>>

\* find_prebuilt_sequence() looks in the cache directory only.
SequenceOf(d, n) == IF n \in DOMAIN d.seq THEN d.seq[n] ELSE NoSequence

Stored(d, key, file) == [d EXCEPT !.xclbin = Put(@, key, file)]

\* compile_kernels.py writes both files under the operator's own name.
Compiled(d, shape) ==
  [xclbin |-> Put(d.xclbin, Generic, [shape |-> shape, good |-> TRUE]),
   seq |-> Put(d.seq, Generic, shape)]

\* jit_compile_rmsnorm() copies what was compiled to the name with the shape;
\* the others take the file without a shape when there is one already.
JitDisk(d, s) ==
  IF op = "rms"
  THEN IF InCache(d, s) THEN d
       ELSE LET c == Compiled(d, s)
            IN [xclbin |-> Put(c.xclbin, s, c.xclbin[Generic]),
                seq |-> IF s \in DOMAIN c.seq THEN c.seq ELSE Put(c.seq, s, s)]
  ELSE IF InCache(d, Generic) THEN d ELSE Compiled(d, JitShape)

JitFile(d, s) == JitDisk(d, s).xclbin[IF op = "rms" THEN s ELSE Generic]

-----------------------------------------------------------------------------
(* The kernels.                                                             *)

\* A kernel made from a file: its instruction sequence goes by the name of the
\* file for rmsnorm and by the operator's for the others, whatever the shape.
KernelOf(c, d) ==
  [shape |-> c.file.shape, good |-> c.file.good,
   seq |-> IF op = "flash" THEN c.file.shape
           ELSE SequenceOf(d, IF op = "rms" THEN c.name ELSE Generic)]

\* The file opened at start serves this shape.
ContextServes(s) ==
  /\ ctx # <<>>
  /\ CASE op = "rms" -> \/ s = <<RmsHidden>> /\ ctx[1].name = <<RmsHidden>>
                        \/ s = <<RmsCols>> /\ ctx[1].name # <<RmsHidden>>
       [] op = "matmul" -> TRUE
       [] OTHER -> s = DefaultShape

\* Where ensure_*_kernel() looks for a kernel of shape s, in order.
Candidates(d, s) ==
  LET loaded == IF ContextServes(s) THEN ctx ELSE <<>>
      key == IF InCache(d, s) THEN Prebuilt(d, s) ELSE <<>>
  IN CASE op = "rms" -> loaded \o key \o Prebuilt(d, s)
       [] op = "matmul" -> loaded \o key
       [] op = "softmax" -> key \o loaded
       [] op = "silu" -> key \o loaded
       [] op = "gelu" -> key \o (IF s = DefaultShape THEN Prebuilt(d, Generic) ELSE <<>>)
       [] op = "rope" -> key \o loaded \o Prebuilt(d, s)
       [] op = "flash" -> key \o Prebuilt(d, s) \o loaded

\* rmsnorm at the hidden size insists on its instruction sequence.
Registers(s, k) == op = "rms" /\ s = <<RmsHidden>> => k.seq # NoSequence

\* ensure_*_kernel(): the kernel found, if any, and the disk afterwards; opens
\* tells whether the device takes the file, builds whether the compiler works.
Ensure(d, s, opens, builds) ==
  LET Opened(c, after) ==
        LET k == KernelOf(c, after)
        IN [found |-> IF opens /\ Registers(s, k) THEN <<k>> ELSE <<>>, disk |-> after]
  IN IF Candidates(d, s) # <<>> THEN Opened(Candidates(d, s)[1], d)
     ELSE IF Jit /\ builds /\ op # "flash"
     THEN Opened([name |-> s, file |-> JitFile(d, s)], Stored(JitDisk(d, s), s, JitFile(d, s)))
     ELSE [found |-> <<>>, disk |-> d]

\* A kernel that has been found stays; one that has not is looked for again.
Lookup(d, s, opens, builds) ==
  IF s \in DOMAIN kernels THEN [found |-> <<kernels[s]>>, disk |-> d]
  ELSE Ensure(d, s, opens, builds)

Registered(s, e) ==
  /\ disk' = e.disk
  /\ kernels' = IF e.found = <<>> THEN kernels ELSE Put(kernels, s, e.found[1])

-----------------------------------------------------------------------------
RegInit ==
  /\ op \in Operators
  /\ disk \in Disks(op)
  /\ up = FALSE /\ ctx = <<>> /\ kernels = <<>>
  /\ paths = [p \in Paths |-> "unasked"]

\* load_*_xclbin(): what the constructor opens.  Only gelu opens nothing.
Preloaded ==
  CASE op = "rms" -> Prebuilt(disk, <<RmsHidden>>) \o Prebuilt(disk, Generic)
    [] op = "gelu" -> <<>>
    [] OTHER -> Prebuilt(disk, Generic)

JitsAtStart == Jit /\ op \in {"matmul", "rms", "softmax", "silu"} /\ Preloaded = <<>>

\* AmdXdnaBackend().
OpenBackend(opens, builds) ==
  /\ up' = TRUE
  /\ kernels' = <<>>
  /\ paths' = [p \in Paths |-> "unasked"]
  /\ IF JitsAtStart /\ builds
     THEN LET s == IF op = "rms" THEN <<RmsHidden>> ELSE JitShape
              key == IF op = "rms" THEN s ELSE AtStart
          IN /\ disk' = Stored(JitDisk(disk, s), key, JitFile(disk, s))
             /\ ctx' = IF opens THEN <<[name |-> key, file |-> JitFile(disk, s)]>> ELSE <<>>
     ELSE /\ disk' = disk
          /\ ctx' = IF opens /\ Preloaded # <<>> THEN SubSeq(Preloaded, 1, 1) ELSE <<>>
  /\ UNCHANGED op

\* Mutant: that a kernel is missing is not remembered.
PathLoadedNoMemo(p, opens) ==
  \/ paths[p] = "loaded"
  \/ opens /\ Prebuilt(disk, <<p>>) # <<>> /\ SequenceOf(disk, <<p>>) # NoSequence

\* ensure_matmul_small_m_kernel() and its likes: found or not, the first answer
\* is remembered.
PathLoaded(p, opens) ==
  \/ paths[p] = "loaded"
  \/ /\ paths[p] = "unasked"
     /\ opens /\ Prebuilt(disk, <<p>>) # <<>> /\ SequenceOf(disk, <<p>>) # NoSequence

\* The paths asked in turn until one is missing.
Asked(ps, opens) ==
  {p \in Paths : \E i \in 1 .. Len(ps) :
     ps[i] = p /\ \A j \in 1 .. i - 1 : PathLoaded(ps[j], opens)}

PathsAfter(ps, opens) ==
  [p \in Paths |-> IF p \in Asked(ps, opens)
                   THEN IF PathLoaded(p, opens) THEN "loaded" ELSE "unavailable"
                   ELSE paths[p]]
=============================================================================
