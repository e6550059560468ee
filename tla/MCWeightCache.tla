---------------------------- MODULE MCWeightCache ----------------------------
(* Small instances of WeightCache: two processes and two tensors of a model *)
(* file that is replaced twice, at last by one of the size of the first; the *)
(* decoder knows one of the tensors.                                         *)
EXTENDS WeightCache, TLC

CONSTANTS p1, p2

MCFileSize(v) == IF v = 2 THEN 20 ELSE 10
MCType(t) == "Q4_K"
MCDataSize(t) == 144

Processes == Permutations({p1, p2})
=============================================================================
