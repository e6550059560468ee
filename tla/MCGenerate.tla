------------------------------ MODULE MCGenerate ------------------------------
(* Small instances of Generate.  The models are all the functions from the   *)
(* last two tokens to the next one.                                          *)
EXTENDS Generate

CONSTANTS a, b, e, MaxPrompt

MCToken == {a, b, e}
MCRow == MCToken \cup {NoRow}
Pairs == {a, b} \X {a, b}
MCWeights == [Pairs -> MCToken]

\* Models that end the text after one pair at most.
MCLateWeights == {w \in MCWeights : \A p, q \in Pairs : w[p] = e /\ w[q] = e => p = q}

Fold(t) == IF t = b THEN b ELSE a
MCGreedy(w, s) == IF s = <<>> THEN a
                  ELSE w[<<Fold(s[IF Len(s) = 1 THEN 1 ELSE Len(s) - 1]), Fold(s[Len(s)])>>]

MCPrompts == UNION {[1 .. n -> {a, b}] : n \in 1 .. MaxPrompt}

\* With every model, the prompts that start with b only rename those that start
\* with a; one more prompt leaves room for two tokens only.
MCHalfThePrompts == {p \in MCPrompts : p[1] = a} \cup {<<a, b, a, b>>}
=============================================================================
