------------------------------ MODULE MCNpuOps ------------------------------
(***************************************************************************)
(* Small instances of NpuOps: widths 1, 2 and 4 for rmsnorm, an activation *)
(* kernel of 3 elements, rope kernels padded to multiples of 2, square     *)
(* softmax of 2; what the disk holds ranges from nothing, over kernels     *)
(* without sequences and kernels built wrongly, to all that is built.      *)
(***************************************************************************)
EXTENDS NpuOps, TLC

MCFlashShape == <<2, 1, 2>>
MCMatmulShape == <<2, 2, 2>>

Empty == [xclbin |-> <<>>, seq |-> <<>>]
Right(s) == [shape |-> s, good |-> TRUE]
Wrong(s) == [shape |-> s, good |-> FALSE]
Alone(n, f) == [xclbin |-> n :> f, seq |-> <<>>]
Whole(n, f) == [xclbin |-> n :> f, seq |-> n :> f.shape]
Both(a, b) == [xclbin |-> a.xclbin @@ b.xclbin, seq |-> a.seq @@ b.seq]

MCGenericShape(o) ==
  CASE o = "rms" -> <<1>> [] o = "softmax" -> <<2, 2>> [] o \in {"silu", "gelu"} -> <<3>>
    [] o = "rope" -> <<2>> [] o = "flash" -> <<2, 1, 2>> [] o = "matmul" -> <<2, 2, 2>>

\* A kernel of the default shape: absent, without its sequence, wrong or right.
MCDefaults(o) ==
  LET s == MCGenericShape(o)
  IN {Empty, Alone(<<>>, Right(s)), Whole(<<>>, Wrong(s)), Whole(<<>>, Right(s))}

\* Kernels made for another shape, as build-kernels.sh makes them.
MCShaped(o) ==
  CASE o = "rms" -> {Whole(<<4>>, Right(<<4>>)), Whole(<<4>>, Wrong(<<4>>)), Alone(<<4>>, Right(<<4>>)),
                     Alone(<<2>>, Right(<<2>>))}
    [] o = "rope" -> {Whole(<<6>>, Right(<<6>>)), Whole(<<4>>, Right(<<4>>))}
    [] o = "flash" -> {Whole(<<1, 1, 2>>, Right(<<1, 1, 2>>))}
    [] o = "matmul" -> {Whole(<<"small">>, Right(<<"small">>)), Alone(<<"small">>, Right(<<"small">>))}
    [] OTHER -> {}

MCDisks(o) == MCDefaults(o) \cup {Both(a, b) : a \in MCDefaults(o), b \in MCShaped(o)}

MCSystem(o) == IF o = "rms" THEN <<2>> :> Right(<<2>>) ELSE <<>>

MCInstallable(o) ==
  CASE o = "matmul" -> {<<p>> : p \in Paths} [] o = "rms" -> {<<4>>} [] OTHER -> {}

MCCalls(o) ==
  CASE o \in {"silu", "gelu"} -> [size : {1, 3, 4, 7}, tiny : BOOLEAN]
    [] o = "rms" -> [size : {1, 2, 3, 4, 5}, eps : {"baked", "other"}, tiny : BOOLEAN]
    [] o = "rope" -> {c \in [pairs : {1, 2, 3}, heads : {1, 2, 3}, neox : BOOLEAN, batched : BOOLEAN] :
                        c.batched \/ c.heads = 1}
    [] o = "softmax" -> {[rows |-> r, cols |-> n] : r \in {1, 2}, n \in {1, 2}}
    [] o = "flash" -> [heads : {1, 2}, dim : {1}, len : {1, 2}, qpos : {-1, 0, 1},
                       mode : {"fused", "npu", "host"}]
    [] o = "matmul" -> [small : BOOLEAN, deep : BOOLEAN, wide : BOOLEAN]
=============================================================================
