-------------------------- MODULE MCMatmulPipeline --------------------------
(* Small instances of MatmulPipeline.  Tiles of 2 x 2, deep-K tiles of 4 and *)
(* wide tiles of 4; weights below, at and past those sizes.                  *)
EXTENDS MatmulPipeline

CONSTANTS q1, q2, q3, q4, u

MCKind(w) == IF w = u THEN "other" ELSE "int8"
MCPtr(w) == w
MCN(w) == IF w \in {q2, q3} THEN 3 ELSE 5
MCK(w) == CASE w = q1 -> 3 [] w = q3 -> 2 [] OTHER -> 5
=============================================================================
