---- MODULE MCBf16Matmul ----
(* Small instances of Bf16Matmul: shapes below, at and past the tile. *)
EXTENDS Bf16Matmul
MCShapes == [M : {1, 3}, N : {1, 3}, K : {1, 2, 3}] \cup {[M |-> 0, N |-> 1, K |-> 1]}
====
