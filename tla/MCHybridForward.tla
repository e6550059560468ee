------------------------- MODULE MCHybridForward -------------------------
EXTENDS HybridForward

Plain == [arch |-> "", tensors |-> <<>>, swa |-> <<>>, window |-> 0, heads |-> 2,
          kvHeads |-> 1, keyHeads |-> 1, valueHeads |-> 1, taps |-> 3, nextn |-> 0,
          router |-> <<>>, used |-> 0]

Own == {"attn_k", "inp_gate"}
Conv == {"shortconv.in_proj"}
Delta == {"ssm_conv1d"}
Attn == {"attn_k"}

(* Owners of both ranges, then borrowers of both; the last layer is not run. *)
Gemma == [Plain EXCEPT !.arch = "gemma4", !.window = 2, !.swa = <<1, 0, 1, 0>>,
                       !.tensors = <<Own, Own, {"inp_gate"}, {}, {}>>]

(* Two local owners before a global one, a borrower past the pattern; windows of one
   key, and none. *)
GemmaNarrow == [Gemma EXCEPT !.window = 1, !.swa = <<1, 1, 0>>,
                             !.tensors = <<Own, Attn, Attn, {}>>]
GemmaOpen == [GemmaNarrow EXCEPT !.window = 0]

Lfm2 == [Plain EXCEPT !.arch = "lfm2", !.heads = 4, !.kvHeads = 2,
                      !.tensors = <<Conv, Attn, Conv>>]
Lfm2Short == [Lfm2 EXCEPT !.taps = 2, !.kvHeads = 4, !.tensors = <<Attn, Conv, Attn>>]

Qwen35 == [Plain EXCEPT !.arch = "qwen35", !.keyHeads = 2, !.valueHeads = 4,
                        !.heads = 4, !.kvHeads = 2, !.nextn = 1,
                        !.tensors = <<Delta, Attn, Attn>>]
Qwen35Moe == [Qwen35 EXCEPT !.arch = "qwen35moe", !.taps = 2, !.nextn = 0,
                            !.keyHeads = 1, !.valueHeads = 2,
                            !.tensors = <<Delta, Delta>>, !.used = 2,
                            !.router = [t \in {"a", "b"} |->
                               IF t = "a" THEN <<2, 5, 3>> ELSE <<1, 4, 9>>]]

MCModels == {Gemma, GemmaNarrow, GemmaOpen, Lfm2, Lfm2Short, Qwen35, Qwen35Moe}
MCTokens == {"a", "b"}
MCPrompts == {<<"a">>, <<"b", "a">>, <<"a", "b", "a">>, <<"a", "b", "b", "a", "b", "a">>}
==========================================================================
