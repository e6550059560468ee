----------------------------- MODULE GreedyDecode -----------------------------
(***************************************************************************)
(* What text generation at temperature 0 promises: starting from the       *)
(* prompt, append the model's greedy token for the sequence so far, one at *)
(* a time, until the end-of-sequence token, the token budget or the end of *)
(* the context window (with drafts, up to Slack positions before its end). *)
(* A run that hits an error may stop at any point; from the first lost     *)
(* product on, until it ends, nothing is promised of the tokens.           *)
(***************************************************************************)
EXTENDS Integers, Sequences

CONSTANTS Weights,        \* the models
          Greedy(_, _),   \* Greedy(w, s): the most likely token after s
          Token, Prompts, Eos, NCtx, MaxTokens,
          Slack           \* the positions that drafts may cost a run

VARIABLES weights, prompt, seq, status

gdVars == <<weights, prompt, seq, status>>

Produced == Len(seq) - Len(prompt)

\* The last token emitted sits at position Len(seq) - 1: once that position is
\* the context length, there is no room to feed it back.
Finished ==
  \/ Produced >= MaxTokens
  \/ /\ Produced > 0
     /\ seq[Len(seq)] = Eos \/ Len(seq) > NCtx

MayFinish == Finished \/ (Produced > 0 /\ Len(seq) > NCtx - Slack)

Init ==
  /\ weights \in Weights
  /\ prompt \in Prompts
  /\ seq = prompt
  /\ status = "running"

Emit ==
  /\ status = "running"
  /\ ~Finished
  /\ seq' = Append(seq, Greedy(weights, seq))
  /\ UNCHANGED <<weights, prompt, status>>

Stop ==
  /\ status = "running"
  /\ MayFinish
  /\ status' = "done"
  /\ UNCHANGED <<weights, prompt, seq>>

\* The last token and the end of the loop in one step (break after sampling).
EmitAndStop ==
  /\ status = "running"
  /\ ~Finished
  /\ seq' = Append(seq, Greedy(weights, seq))
  /\ MayFinish'
  /\ status' = "done"
  /\ UNCHANGED <<weights, prompt>>

\* A product is lost; from then on any token may come.
Spoil ==
  /\ status = "running"
  /\ status' = "spoiled"
  /\ UNCHANGED <<weights, prompt, seq>>

Garble ==
  /\ status = "spoiled"
  /\ ~Finished
  /\ \E t \in Token : seq' = Append(seq, t)
  /\ status' \in {"spoiled", "failed"}
  /\ UNCHANGED <<weights, prompt>>

Fail ==
  /\ status \in {"running", "spoiled"}
  /\ status' = "failed"
  /\ UNCHANGED <<weights, prompt, seq>>

Next == Emit \/ Stop \/ EmitAndStop \/ Spoil \/ Garble \/ Fail

Spec == Init /\ [][Next]_gdVars /\ WF_gdVars(Next)
=============================================================================
