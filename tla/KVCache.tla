------------------------------- MODULE KVCache -------------------------------
(***************************************************************************)
(* ggnpu::KVCache (src/runtime/kv_cache.cpp) at the granularity its only   *)
(* client uses: one row per (layer, position).  A row stands for the K and *)
(* the V of one position, which update_slab() copies the same way.         *)
(* Layers and positions count from 0, as in the code.                      *)
(***************************************************************************)
EXTENDS Integers, Sequences

CONSTANTS NLayers,   \* n_layers_
          NCtx,      \* n_ctx_
          Row,       \* what a row can hold
          NoRow      \* a zero-filled row

ASSUME KVCacheAssumption == NLayers \in Nat \ {0} /\ NCtx \in Nat /\ NoRow \in Row

VARIABLES rows,         \* keys_ and values_
          current_pos   \* current_pos_

kvVars == <<rows, current_pos>>

Layers == 0 .. NLayers - 1
Positions == 0 .. NCtx - 1

AtMost(n, bound) == IF n <= bound THEN n ELSE bound

\* The type of the cache: current_pos_ stays within the context.
KVTypeOK ==
  /\ rows \in [Layers -> [Positions -> Row]]
  /\ current_pos \in 0 .. NCtx

\* The constructor, and reset(): every row zero, position 0.
KVInit ==
  /\ rows = [l \in Layers |-> [p \in Positions |-> NoRow]]
  /\ current_pos = 0

\* Mutant: no clamp.
SetPositionUnclamped(p) == current_pos' = p

\* set_position() clamps to n_ctx_.
SetPosition(p) == current_pos' = AtMost(p, NCtx)

\* The early return of update_slab().
SlabRejected(layer, start, end) ==
  start >= end \/ start >= NCtx \/ layer >= NLayers

\* Mutant: the slab lands one position early.
UpdateSlabEarly(layer, start, end, slab) ==
  IF SlabRejected(layer, start, end)
  THEN UNCHANGED kvVars
  ELSE /\ rows' = [rows EXCEPT ![layer] =
                     [p \in Positions |->
                        IF start - 1 <= p /\ p < end - 1 THEN slab[p - start + 2]
                                                        ELSE rows[layer][p]]]
       /\ SetPosition(end)

\* update_slab(): slab[i] goes to position start + i - 1; what would fall past
\* n_ctx_ is dropped silently.
UpdateSlab(layer, start, end, slab) ==
  IF SlabRejected(layer, start, end)
  THEN UNCHANGED kvVars
  ELSE /\ rows' = [rows EXCEPT ![layer] =
                     [p \in Positions |->
                        IF start <= p /\ p < end THEN slab[p - start + 1]
                                                 ELSE rows[layer][p]]]
       /\ SetPosition(end)

\* key_buffer() / value_buffer(): null past the last position.
Mapped(p) == p < NCtx
=============================================================================
