------------------------------- MODULE Tokenizer -------------------------------
(***************************************************************************)
(* src/cli/tokenizer.cpp: load_from_gguf(), encode() and decode().  The    *)
(* prompt is cut into words (PreTokenize) or normalized, each word is      *)
(* merged pair by pair through a priority queue over a linked list of      *)
(* symbols, and what is left is looked up in the vocabulary.  A string is  *)
(* a sequence of bytes.  Indices of symbols start at 1, and 0 is "none".   *)
(***************************************************************************)
EXTENDS PreTokenize

CONSTANTS
  Files,     \* a function from model files to their tokenizer metadata, a record of keys
  Cases,     \* pairs of a model file and a prompt
  Spare      \* the splitters no known model asks for

ASSUME CasesAreTexts ==
  /\ {case[1] : case \in Cases} \subseteq DOMAIN Files
  /\ \A case \in Cases : case[2] \in Seq(Byte)

ASSUME SpareSplitters == Spare \subseteq {"kimi_k2", "afmoe", "newlines"}

VARIABLES
  file,      \* the model file
  text,      \* the prompt
  pre,       \* the splitter of its pre-tokenizer, once loaded
  phase,     \* "load", "start", "cut", "word", "merge"; "done", "split", "threw" at the end
  cuts,      \* of a text that is cut into words
  words,     \* those not yet merged
  symbols,   \* the linked list of the current word
  queue,     \* work_queue: candidate pairs, possibly stale
  out        \* the tokens

vars == <<file, text, pre, phase, cuts, words, symbols, queue, out>>

MetaSpace == <<226, 150, 129>>
NoId == -1

-----------------------------------------------------------------------------
(* load_from_gguf()                                                         *)

Get(kv, key, default) == IF key \in DOMAIN kv THEN kv[key] ELSE default

\* The splitter of a tokenizer.ggml.pre; a name that is not known splits nothing.
PreType(name) ==
  CASE name \in {"llama-bpe", "llama3", "llama-v3", "lfm2"} -> "llama3"
    [] name = "tekken" -> "tekken"
    [] name = "qwen35" -> "qwen35"
    [] name \in {"qwen2", "deepseek-r1-qwen"} -> "qwen2"
    [] name \in {"gpt-2", "default"} -> "gpt2"
    [] OTHER -> "none"

\* The last of equal strings has the id; ids are positions from 0.
Vocab(pieces) == [p \in Range(pieces) |-> Max({i \in DOMAIN pieces : pieces[i] = p}) - 1]

\* A merge is "left right": what has no space is skipped.
Ranks(merges) ==
  LET spaces(m) == {k \in DOMAIN m : m[k] = Blank}
      pair(m) == <<SubSeq(m, 1, Min(spaces(m)) - 1), SubSeq(m, Min(spaces(m)) + 1, Len(m))>>
      valid == {i \in DOMAIN merges : spaces(merges[i]) # {}}
  IN [p \in {pair(merges[i]) : i \in valid} |-> Max({i \in valid : pair(merges[i]) = p}) - 1]

LoadFromGguf(kv) ==
  [pieces |-> Get(kv, "tokens", <<>>), vocab |-> Vocab(Get(kv, "tokens", <<>>)),
   ranks |-> Ranks(Get(kv, "merges", <<>>)), scores |-> Get(kv, "scores", <<>>),
   types |-> Get(kv, "token_type", <<>>), pre |-> PreType(Get(kv, "pre", "")),
   model |-> IF Get(kv, "model", "") # "gpt2" /\ Get(kv, "scores", <<>>) # <<>>
             THEN "unigram" ELSE "bpe",
   bos |-> Get(kv, "bos_token_id", NoId), eos |-> Get(kv, "eos_token_id", NoId),
   unk |-> Get(kv, "unknown_token_id", NoId), spacePrefix |-> Get(kv, "add_space_prefix", TRUE)]

Loaded == [f \in DOMAIN Files |-> LoadFromGguf(Files[f])]

\* The Tokenizer of this file.
tk == Loaded[file]

PieceToId(piece) == IF piece \in DOMAIN tk.vocab THEN tk.vocab[piece] ELSE NoId

FindBpeRank(left, right) ==
  IF <<left, right>> \in DOMAIN tk.ranks THEN tk.ranks[<<left, right>>] ELSE NoId

-----------------------------------------------------------------------------
(* The linked list and the queue of one word.                               *)

CharLen(s, i) == Min({Len(s) - i + 1, LenUtf8(s[i])})

\* The word, one symbol for each character its first bytes announce.
Symbols(word) ==
  LET from[i \in 1 .. Len(word) + 1] ==
        IF i > Len(word) THEN <<>>
        ELSE <<SubSeq(word, i, i + CharLen(word, i) - 1)>> \o from[i + CharLen(word, i)]
      chars == from[1]
  IN [k \in DOMAIN chars |->
        [text |-> chars[k], prev |-> k - 1, next |-> IF k = Len(chars) THEN 0 ELSE k + 1]]

Live(syms, k) == syms[k].text # <<>>

\* Two neighbours can be joined when they have a rank, or when their piece has a score.
Joinable(left, right) ==
  IF tk.model = "bpe" THEN FindBpeRank(left, right) # NoId
  ELSE LET id == PieceToId(left \o right) IN id # NoId /\ id < Len(tk.scores)

\* The key the queue is ordered by: the rank, or the score.
Priority(left, right) ==
  IF tk.model = "bpe" THEN FindBpeRank(left, right) ELSE tk.scores[PieceToId(left \o right) + 1]

\* add_new_bigram(): scores are compared the other way round than ranks.
NewBigram(syms, left, right) ==
  IF left = 0 \/ right = 0 \/ ~Joinable(syms[left].text, syms[right].text) THEN {}
  ELSE {[left |-> left, right |-> right, text |-> syms[left].text \o syms[right].text,
         priority |-> Priority(syms[left].text, syms[right].text)]}

Before(b, d) ==
  \/ IF tk.model = "bpe" THEN b.priority < d.priority ELSE b.priority > d.priority
  \/ b.priority = d.priority /\ b.left < d.left

AllBigrams(syms) == UNION {NewBigram(syms, k, k + 1) : k \in 1 .. Len(syms) - 1}

\* Mutant: a bigram is used as long as both of its symbols are there.
StaleIfGone(b) == ~Live(symbols, b.left) \/ ~Live(symbols, b.right)

\* A bigram whose symbols have been merged with others since it was queued.
Stale(b) ==
  \/ ~Live(symbols, b.left) \/ ~Live(symbols, b.right)
  \/ symbols[b.left].text \o symbols[b.right].text # b.text

\* Mutant: the symbol after the pair keeps the merged one as its predecessor.
JoinedForward(b) ==
  [k \in DOMAIN symbols |->
     IF k = b.left
     THEN [symbols[k] EXCEPT !.text = @ \o symbols[b.right].text, !.next = symbols[b.right].next]
     ELSE IF k = b.right THEN [symbols[k] EXCEPT !.text = <<>>]
     ELSE symbols[k]]

Joined(b) ==
  LET after == symbols[b.right].next
  IN [k \in DOMAIN symbols |->
        IF k = b.left THEN [symbols[k] EXCEPT !.text = @ \o symbols[b.right].text, !.next = after]
        ELSE IF k = b.right THEN [symbols[k] EXCEPT !.text = <<>>]
        ELSE IF k = after THEN [symbols[k] EXCEPT !.prev = b.left]
        ELSE symbols[k]]

\* The texts along the list.
Chain(syms) ==
  LET from[k \in 0 .. Len(syms)] ==
        IF k = 0 THEN <<>> ELSE <<syms[k].text>> \o from[syms[k].next]
  IN IF syms = <<>> THEN <<>> ELSE from[1]

-----------------------------------------------------------------------------
(* From symbols to tokens.                                                  *)

Hex(d) == IF d < 10 THEN 48 + d ELSE 55 + d

ByteToken(b) == <<60, 48, 120, Hex(b \div 16), Hex(b % 16), 62>>

\* Mutant: the bytes without a token of their own are left out.
TokensOfBytes(s) ==
  LET id == PieceToId(s)
      bytes == [k \in DOMAIN s |-> PieceToId(<<s[k]>>)]
  IN IF id # NoId THEN <<id>> ELSE SelectSeq(bytes, LAMBDA b : b # NoId)

\* A symbol the vocabulary does not have is emitted byte by byte: a byte that
\* is no piece either is dropped (BPE) or becomes the unknown token.
Tokens(s) ==
  LET id == PieceToId(s)
      bytes == [k \in DOMAIN s |->
                  PieceToId(IF tk.model = "bpe" THEN <<s[k]>> ELSE ByteToken(s[k]))]
  IN IF id # NoId THEN <<id>>
     ELSE IF tk.model = "bpe" THEN SelectSeq(bytes, LAMBDA b : b # NoId)
     ELSE [k \in DOMAIN bytes |-> IF bytes[k] = NoId THEN tk.unk ELSE bytes[k]]

-----------------------------------------------------------------------------
(* decode()                                                                 *)

\* decode_piece(): the longest character of the byte alphabet, else the byte itself.
DecodePiece(piece) ==
  LET widths(i) == {n \in 1 .. Min({4, Len(piece) - i + 1}) :
                      SubSeq(piece, i, i + n - 1) \in ByteStrings}
      from[i \in 1 .. Len(piece) + 1] ==
        IF i > Len(piece) THEN <<>>
        ELSE IF widths(i) = {} THEN <<piece[i]>> \o from[i + 1]
        ELSE LET n == Max(widths(i))
             IN <<Utf8ToByte[SubSeq(piece, i, i + n - 1)]>> \o from[i + n]
  IN from[1]

\* spm_decode_piece(): a byte token, or a piece with its meta-spaces turned back.
SpmDecodePiece(id) ==
  LET piece == tk.pieces[id + 1]
      byte == {b \in Byte : ByteToken(b) = piece}
      from[i \in Nat] ==
        IF i > Len(piece) THEN <<>>
        ELSE IF IsPrefix(MetaSpace, SubSeq(piece, i, Len(piece))) THEN <<Blank>> \o from[i + 3]
        ELSE <<piece[i]>> \o from[i + 1]
  IN IF id < Len(tk.types) /\ tk.types[id + 1] = "byte" /\ byte # {}
     THEN <<CHOOSE b \in byte : TRUE>>
     ELSE from[1]

\* One token; what has no piece is left out of the abstraction ("[UNK:id]").
Decode(id) ==
  IF id \notin 0 .. Len(tk.pieces) - 1 THEN <<>>
  ELSE IF tk.model = "unigram" THEN SpmDecodePiece(id)
  ELSE DecodePiece(tk.pieces[id + 1])

DecodeAll(ids) == FlattenSeq([k \in DOMAIN ids |-> Decode(ids[k])])

-----------------------------------------------------------------------------
Init ==
  /\ \E case \in Cases : file = case[1] /\ text = case[2]
  /\ pre = "none"
  /\ phase = "load"
  /\ cuts = <<>> /\ words = <<>> /\ symbols = <<>> /\ queue = {} /\ out = <<>>

Load ==
  /\ phase = "load"
  /\ pre' = tk.pre
  /\ phase' = "start"
  /\ UNCHANGED <<file, text, cuts, words, symbols, queue, out>>

\* A regular expression given: the words are in the alphabet of bytes.
Pretokenize ==
  /\ phase = "start"
  /\ tk.model = "bpe" /\ pre # "none" /\ text # <<>>
  /\ LET cpts == CptsFromUtf8(text)
         c == Classes(cpts)
     IN IF Unencodable(cpts)
        THEN phase' = "threw" /\ UNCHANGED <<cuts, words>>
        ELSE /\ cuts' = IF pre = "tekken" THEN RegexSplit(c, pre) ELSE Split(c, pre)
             /\ words' = Words(cpts, cuts')
             /\ phase' = "cut"
  /\ UNCHANGED <<file, text, pre, symbols, queue, out>>

\* unicode_regex_split() with a regular expression of a model ggnpu does not load.
SplitSpare ==
  /\ phase = "load"
  /\ \E name \in Spare :
       /\ pre' = name
       /\ cuts' = Split(Classes(CptsFromUtf8(text)), name)
  /\ text # <<>> /\ ~Unencodable(CptsFromUtf8(text))
  /\ words' = Words(CptsFromUtf8(text), cuts')
  /\ phase' = "split"
  /\ UNCHANGED <<file, text, symbols, queue, out>>

\* An unknown pre-tokenizer: the whole text is one word, its bytes as they are.
OneWord ==
  /\ phase = "start"
  /\ tk.model = "bpe" /\ (pre = "none" \/ text = <<>>)
  /\ words' = IF text = <<>> THEN <<>> ELSE <<text>>
  /\ phase' = "word"
  /\ UNCHANGED <<file, text, pre, cuts, symbols, queue, out>>

\* spm_tokenize(): spaces become meta-spaces, one of them put first.
Normalize ==
  /\ phase = "start"
  /\ tk.model = "unigram"
  /\ words' = IF text = <<>> THEN <<>>
              ELSE <<(IF tk.spacePrefix THEN MetaSpace ELSE <<>>)
                       \o FlattenSeq([k \in DOMAIN text |->
                                        IF text[k] = Blank THEN MetaSpace ELSE <<text[k]>>])>>
  /\ phase' = "word"
  /\ UNCHANGED <<file, text, pre, cuts, symbols, queue, out>>

BeginWords ==
  /\ phase = "cut"
  /\ phase' = "word"
  /\ UNCHANGED <<file, text, pre, cuts, words, symbols, queue, out>>

NextWord ==
  /\ phase = "word" /\ words # <<>>
  /\ symbols' = Symbols(Head(words))
  /\ queue' = AllBigrams(symbols')
  /\ words' = Tail(words)
  /\ phase' = "merge"
  /\ UNCHANGED <<file, text, pre, cuts, out>>

\* The best candidate is taken; nothing orders candidates of one symbol and one score.
Pop ==
  /\ phase = "merge"
  /\ \E b \in queue :
       /\ \A d \in queue : ~Before(d, b)
       /\ IF Stale(b)
          THEN queue' = queue \ {b} /\ UNCHANGED symbols
          ELSE LET syms == Joined(b)
               IN /\ symbols' = syms
                  /\ queue' = (queue \ {b}) \cup NewBigram(syms, syms[b.left].prev, b.left)
                                            \cup NewBigram(syms, b.left, syms[b.left].next)
  /\ UNCHANGED <<file, text, pre, phase, cuts, words, out>>

EmitWord ==
  /\ phase = "merge" /\ queue = {}
  /\ out' = out \o FlattenSeq([k \in DOMAIN Chain(symbols) |-> Tokens(Chain(symbols)[k])])
  /\ symbols' = <<>>
  /\ phase' = "word"
  /\ UNCHANGED <<file, text, pre, cuts, words, queue>>

\* encode(prompt, true, false), as main() calls it.
Finish ==
  /\ phase = "word" /\ words = <<>>
  /\ out' = (IF tk.bos >= 0 THEN <<tk.bos>> ELSE <<>>) \o out
  /\ phase' = "done"
  /\ UNCHANGED <<file, text, pre, cuts, words, symbols, queue>>

Done == phase \in {"done", "split", "threw"} /\ UNCHANGED vars

Next ==
  \/ Load \/ SplitSpare \/ Pretokenize \/ OneWord \/ Normalize \/ BeginWords
  \/ NextWord \/ Pop \/ EmitWord \/ Finish \/ Done

Spec == Init /\ [][Next]_vars

-----------------------------------------------------------------------------
(* Properties.                                                              *)

(* The assertion of _add_token() and no more: words are not empty, in       *)
(* order, and cover the text.                                               *)
CutsCover ==
  phase \in {"cut", "split"} =>
    /\ cuts # <<>> /\ Last(cuts) = Len(CptsFromUtf8(text)) + 1
    /\ cuts[1] > 1
    /\ \A k \in 2 .. Len(cuts) : cuts[k - 1] < cuts[k]

(* The splitters written by hand cut a text where the regular expression    *)
(* above each of them does (src/cli/unicode.cpp, "regex:" comments).        *)
SplitIsRegex ==
  (phase \in {"cut", "split"} /\ pre \notin {"kimi_k2", "afmoe"}) =>
    cuts = RegexSplit(Classes(CptsFromUtf8(text)), pre)

(* Han letters are in words of their own, whatever is around them: a cut is *)
(* at every place between one and a character that is none.  (A code point  *)
(* of a Han block without a character, U+FA6E, may be among symbols.)       *)
HanApart ==
  (phase = "split" /\ pre = "kimi_k2") =>
    LET cpts == CptsFromUtf8(text)
        letter(i) == "L" \in CptFlags(cpts[i])
    IN \A i \in 2 .. Len(cpts) :
         (/\ IsHan(cpts[i - 1]) # IsHan(cpts[i])
          /\ IsHan(cpts[i]) => letter(i)
          /\ IsHan(cpts[i - 1]) => letter(i - 1)) => i \in Range(cuts)

\* The texts of the live symbols, in the order of their places.
LiveTexts(syms) ==
  LET from[k \in 1 .. Len(syms) + 1] ==
        IF k > Len(syms) THEN <<>>
        ELSE (IF Live(syms, k) THEN <<syms[k].text>> ELSE <<>>) \o from[k + 1]
  IN from[1]

(* The list is the word: following next from the first symbol meets every   *)
(* live symbol, in their order, prev of a live symbol is the one before it, *)
(* and a candidate names two symbols in that order (tokenizer.cpp:304-325). *)
ListSpellsWord ==
  phase = "merge" =>
    /\ Chain(symbols) = LiveTexts(symbols)
    /\ \A k \in DOMAIN symbols :
         Live(symbols, k) /\ symbols[k].next # 0 => symbols[symbols[k].next].prev = k
    /\ \A b \in queue : b.left < b.right /\ b.right \in DOMAIN symbols

\* The pairs of neighbours that can be merged, by the place of the left one.
Mergeable(chain) ==
  {k \in 1 .. Len(chain) - 1 : Joinable(chain[k], chain[k + 1])}

Better(chain, k, l) ==
  LET p == Priority(chain[k], chain[k + 1])
      q == Priority(chain[l], chain[l + 1])
  IN (IF tk.model = "bpe" THEN p < q ELSE p > q) \/ (p = q /\ k < l)

Merged(chain, k) ==
  [i \in 1 .. Len(chain) - 1 |->
     IF i < k THEN chain[i] ELSE IF i = k THEN chain[k] \o chain[k + 1] ELSE chain[i + 1]]

(* What the queue of possibly stale candidates does is what byte-pair       *)
(* merging is: each merge joins the best pair of neighbours there is, the   *)
(* leftmost of equals, and a word is emitted when no pair can be joined.    *)
BestFirst ==
  [][phase = "merge" =>
       LET chain == Chain(symbols)
       IN /\ (phase' = "merge" /\ symbols' # symbols) =>
               \E k \in Mergeable(chain) :
                 /\ \A l \in Mergeable(chain) : ~Better(chain, l, k)
                 /\ Chain(symbols') = Merged(chain, k)
          /\ phase' # "merge" => Mergeable(chain) = {}]_vars

\* The vocabulary has what any text may need.
Closed ==
  IF tk.model = "bpe"
  THEN /\ ByteStrings \subseteq DOMAIN tk.vocab
       /\ \A p \in DOMAIN tk.ranks : p[1] \o p[2] \in DOMAIN tk.vocab
  ELSE \A b \in Byte : ByteToken(b) \in DOMAIN tk.vocab

\* An invalid byte before a blank takes the first byte of its meta-space with it.
ValidUtf8 == CptsToUtf8(CptsFromUtf8(text)) = text

HasMetaSpace == \E i \in DOMAIN text : IsPrefix(MetaSpace, SubSeq(text, i, Len(text)))

(* Decoding the tokens of a text gives the text back, invalid UTF-8         *)
(* replaced (BPE): nothing is lost on any path through the merges, with a   *)
(* vocabulary that has every byte and a known pre-tokenizer, or for a valid *)
(* text without meta-spaces of its own (unigram).                           *)
RoundTrip ==
  (phase = "done" /\ Closed /\ text # <<>>) =>
    LET body == IF tk.bos >= 0 THEN Tail(out) ELSE out
    IN IF tk.model = "bpe"
       THEN pre # "none" => DecodeAll(body) = CptsToUtf8(CptsFromUtf8(text))
       ELSE ValidUtf8 /\ ~HasMetaSpace =>
              DecodeAll(body) = (IF tk.spacePrefix THEN <<Blank>> ELSE <<>>) \o text

(* encode() throws on a code point past U+10FFFF only, which four bytes     *)
(* beginning with F4 to F7 can spell; any other invalid input is replaced.  *)
ThrowsOnlyPastUnicode ==
  phase = "threw" => \E i \in DOMAIN text : text[i] \in 244 .. 247
================================================================================
