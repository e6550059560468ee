------------------------------ MODULE MCTokenizer ------------------------------
(* Model files and prompts for Tokenizer.                                     *)
EXTENDS Tokenizer

Strs(chars, n) == UNION {[1 .. m -> chars] : m \in 0 .. n}

Utf8s(texts) == {CptsToUtf8(t) : t \in texts}

Bytes256 == [b \in 1 .. 256 |-> ByteToUtf8[b - 1]]
ByteTokens == [b \in 1 .. 256 |-> ByteToken(b - 1)]

\* Quote, s, R, e, blank, line feed, digit, !, no-break space, acute accent, Han.
Mixed == {39, 115, 82, 101, 32, 10, 49, 33, 160, 769, 19968}

WordPrompts ==
  Utf8s(Strs(Mixed, 3) \cup [1 .. 4 -> {32, 10, 120, 33}] \cup [1 .. 4 -> {39, 108, 82, 101}]
          \cup [1 .. 5 -> {49, 120}] \cup {<<72, 105, 85, 112>>, <<97, 13, 10, 13, 10, 47, 98>>,
           <<33, 64110, 33>>, <<97, 64110, 19968>>, <<19968, 12288, 40960, 33>>})
  \cup {<<255, 97>>, <<195>>, <<97, 128, 98>>, <<226, 150>>, <<247, 191, 191, 191>>,
        <<255, 191, 191, 191>>}

WordPres == {"gpt-2", "llama-bpe", "qwen2", "qwen35", "tekken"}

WordFile(p) == [pre |-> p, model |-> "gpt2", tokens |-> Bytes256, bos_token_id |-> 0]

a == <<97>>
b == <<98>>
sp == <<32>>

\* Merges of a and b, in both orders of rank; the last file lacks a byte and a piece.
Pieces == Bytes256 \o <<a \o a, a \o b, b \o a, a \o b \o a, a \o a \o b>>
BpeFile(name, merges, tokens) ==
  [pre |-> name, model |-> "gpt2", tokens |-> tokens, merges |-> merges, bos_token_id |-> 1]
Merges1 == <<a \o sp \o a, a \o sp \o b, b \o sp \o a, a \o b \o sp \o a>>
Merges2 == <<b \o sp \o a, a \o sp \o b, a \o sp \o a, a \o a \o sp \o b, a \o sp \o b \o a, a>>
SpmPieces == ByteTokens \o <<a, b, a \o a, a \o b, b \o a, MetaSpace, MetaSpace \o a, a \o b \o a>>
SpmScores == [i \in 1 .. 256 |-> 0] \o <<-9, -9, -6, -1, -1, -9, -4, 0>>
SpmFile(tokens, scores) ==
  [model |-> "llama", tokens |-> tokens, scores |-> scores, eos_token_id |-> 2,
   token_type |-> [i \in 1 .. Len(tokens) |->
                    IF tokens[i] \in Range(ByteTokens) THEN "byte" ELSE "normal"]]

MergeFile(name) ==
  CASE name = "bpe" -> BpeFile("qwen2", Merges1, Pieces)
    [] name = "bpe_other_ranks" -> BpeFile("lfm2", Merges2, Pieces)
    [] name = "bpe_unknown_pre" -> BpeFile("new-model", Merges1, Pieces)
    [] name = "bpe_open" -> BpeFile("qwen2", Merges2, <<a, b, a \o a, b>>)
    [] name = "spm" -> SpmFile(SpmPieces, SpmScores)
    [] name = "spm_open" -> SpmFile(<<a, b, a \o b, <<60>>, MetaSpace>>, <<-2, -2, -1>>)
    [] name = "spm_no_prefix" ->
         [SpmFile(SpmPieces, SpmScores) EXCEPT !.model = "gemma"] @@ [add_space_prefix |-> FALSE]

MergeNames ==
  {"bpe", "bpe_other_ranks", "bpe_unknown_pre", "bpe_open", "spm", "spm_open", "spm_no_prefix"}

MergePrompts ==
  Strs({97, 98}, 6) \cup Strs({97, 32, 195}, 3) \cup Utf8s(Strs({97, 32, 233}, 3))
    \cup {<<97, 226, 150, 129, 98>>}

\* How texts are split, and how words are merged.
MCFiles == [f \in WordPres |-> WordFile(f)] @@ [f \in MergeNames |-> MergeFile(f)]
MCCases == (WordPres \X WordPrompts) \cup (MergeNames \X MergePrompts)
=============================================================================
