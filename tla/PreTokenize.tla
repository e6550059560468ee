------------------------------ MODULE PreTokenize ------------------------------
(***************************************************************************)
(* unicode_regex_split() of src/cli/unicode.cpp: a text is cut into words  *)
(* before byte-pair merging.  For the regular expressions of the known     *)
(* models the code has splitters written by hand (Split); the others go to *)
(* std::regex, which sees a text whose non-ASCII characters are collapsed  *)
(* to their category (RegexSplit).  A position is an index of the sequence *)
(* of code points, a cut the position after a word.                        *)
(***************************************************************************)
EXTENDS Unicode

CR == 13
LF == 10
Blank == 32
Quote == 39

\* The positions of a text by the flags the splitters ask for.
Classes(cpts) ==
  LET flagged == [i \in DOMAIN cpts |-> CptFlags(cpts[i])]
      having(f) == {i \in DOMAIN cpts : f \in flagged[i]}
  IN [text |-> cpts, end |-> Len(cpts) + 1, all |-> DOMAIN cpts,
      letters |-> having("L"), numbers |-> having("N"), marks |-> having("M"),
      spaces |-> having("whitespace"),
      breaks |-> {i \in DOMAIN cpts : cpts[i] \in {CR, LF}},
      lines |-> {i \in DOMAIN cpts : cpts[i] = LF},
      blanks |-> {i \in DOMAIN cpts : cpts[i] = Blank},
      han |-> {i \in DOMAIN cpts : IsHan(cpts[i])}]

Others(c) == c.all \ (c.spaces \cup c.letters \cup c.numbers)

\* The end of the run of positions of P that begins at i, i itself if none does.
RunEnd(P, i) == CHOOSE j \in i .. i + Cardinality(P) :
  (i .. j - 1) \subseteq P /\ j \notin P

\* After an optional blank.
Skip(c, i) == IF i \in c.blanks THEN i + 1 ELSE i

-----------------------------------------------------------------------------
(* The rules, each with the cuts it makes from position i: none when it     *)
(* does not match.                                                          *)

\* Mutant: the last character of a contraction may be any.
ContractionShort(c, i, fold) ==
  LET at(k) == IF i + k \notin c.all THEN 0
               ELSE IF fold THEN ToLower(c.text[i + k]) ELSE c.text[i + k]
  IN IF i \notin c.all \/ c.text[i] # Quote THEN <<>>
     ELSE IF at(1) \in {\h73, \h74, \h6D, \h64} THEN <<i + 2>>
     ELSE IF at(1) \in {\h72, \h76, \h6C} /\ i + 2 \in c.all THEN <<i + 3>>
     ELSE <<>>

\* 's|'t|'re|'ve|'m|'ll|'d, in either case when fold.
Contraction(c, i, fold) ==
  LET at(k) == IF i + k \notin c.all THEN 0
               ELSE IF fold THEN ToLower(c.text[i + k]) ELSE c.text[i + k]
  IN IF i \notin c.all \/ c.text[i] # Quote THEN <<>>
     ELSE IF at(1) \in {\h73, \h74, \h6D, \h64} THEN <<i + 2>>
     ELSE IF <<at(1), at(2)>> \in {<<\h72, \h65>>, <<\h76, \h65>>, <<\h6C, \h6C>>} THEN <<i + 3>>
     ELSE <<>>

\* A run of P with a blank before it or not.
SpacedRun(c, i, P) == IF Skip(c, i) \in P THEN <<RunEnd(P, Skip(c, i))>> ELSE <<>>

\* A run of P with one character before it that is no number and no line break.
PrefixedRun(c, i, P) ==
  IF i \notin c.breaks \cup c.numbers /\ (i \in P \/ i + 1 \in P)
  THEN <<RunEnd(P, i + 1)>> ELSE <<>>

Digit(c, i) == IF i \in c.numbers THEN <<i + 1>> ELSE <<>>

\* Mutant: _add_token() keeps the empty word it is asked for after a last group of three.
DigitsOfThreeAndNone(c, i) ==
  LET e == RunEnd(c.numbers, i)
  IN IF i \notin c.numbers THEN <<>>
     ELSE [k \in 1 .. (e - i) \div 3 + 1 |-> IF i + 3 * k <= e THEN i + 3 * k ELSE e]

\* A run of digits in groups of three from the left.
DigitsOfThree(c, i) ==
  LET e == RunEnd(c.numbers, i)
  IN [k \in 1 .. (e - i + 2) \div 3 |-> IF i + 3 * k <= e THEN i + 3 * k ELSE e]

\* A run of P and the line breaks after it; at the end of the text a blank alone.
SymbolsAndBreaks(c, i, P) ==
  IF Skip(c, i) \in P \cup {c.end} THEN <<RunEnd(c.breaks, RunEnd(P, Skip(c, i)))>> ELSE <<>>

\* The last line break of a run of white space.
Breaks(c, i) ==
  LET inRun == c.breaks \cap (i .. RunEnd(c.spaces, i) - 1)
  IN IF inRun = {} THEN <<>> ELSE <<Max(inRun) + 1>>

\* White space up to the last one before a character that is none.
SpacesBefore(c, i) ==
  LET e == RunEnd(c.spaces, i)
  IN IF e > i + 1 /\ e # c.end THEN <<e - 1>> ELSE <<>>

Spaces(c, i) == IF i \in c.spaces THEN <<RunEnd(c.spaces, i)>> ELSE <<>>

Han(c, i) == IF i \in c.han THEN <<RunEnd(c.han, i)>> ELSE <<>>

\* Mutant: Han characters are letters like others.
KimiWordAnyLetter(c, i) ==
  LET leads == i \notin c.breaks \cup c.letters \cup c.numbers /\ i + 1 \in c.letters
      e == RunEnd(c.letters, IF leads THEN i + 1 ELSE i)
      suffix == Contraction(c, e, TRUE)
  IN IF ~leads /\ i \notin c.letters THEN <<>> ELSE IF suffix = <<>> THEN <<e>> ELSE suffix

\* Letters that are not Han, one character before them, a contraction after them.
KimiWord(c, i) ==
  LET P == c.letters \ c.han
      leads == i \notin c.breaks \cup c.letters \cup c.numbers /\ i + 1 \in P
      e == RunEnd(P, IF leads THEN i + 1 ELSE i)
      suffix == Contraction(c, e, TRUE)
  IN IF ~leads /\ i \notin P THEN <<>> ELSE IF suffix = <<>> THEN <<e>> ELSE suffix

Lines(c, i) == <<IF i \in c.lines THEN RunEnd(c.lines, i) ELSE RunEnd(c.all \ c.lines, i)>>

-----------------------------------------------------------------------------
(* The splitters.                                                           *)

Gpt2(c, i) == <<
  Contraction(c, i, FALSE), SpacedRun(c, i, c.letters), SpacedRun(c, i, c.numbers),
  SpacedRun(c, i, Others(c)), SpacesBefore(c, i), Spaces(c, i) >>

Llama3(c, i) == <<
  Contraction(c, i, TRUE), PrefixedRun(c, i, c.letters), DigitsOfThree(c, i),
  SymbolsAndBreaks(c, i, Others(c)), Breaks(c, i), SpacesBefore(c, i), Spaces(c, i) >>

Qwen2(c, i) == <<
  Contraction(c, i, TRUE), PrefixedRun(c, i, c.letters), Digit(c, i),
  SymbolsAndBreaks(c, i, Others(c)), Breaks(c, i), SpacesBefore(c, i), Spaces(c, i) >>

Qwen35(c, i) == <<
  Contraction(c, i, TRUE), PrefixedRun(c, i, c.letters \cup c.marks), Digit(c, i),
  SymbolsAndBreaks(c, i, Others(c) \ c.marks), Breaks(c, i), SpacesBefore(c, i), Spaces(c, i) >>

KimiK2(c, i) == <<
  Han(c, i), KimiWord(c, i), DigitsOfThree(c, i),
  IF Skip(c, i) \in Others(c) THEN SymbolsAndBreaks(c, i, Others(c)) ELSE <<>>,
  Breaks(c, i), SpacesBefore(c, i), Spaces(c, i) >>

\* Digits in groups of three from the right; what is between stays with the next digits.
DigitsFromTheRight(c, i) ==
  LET ends == {j + 1 : j \in {k \in c.numbers : (RunEnd(c.numbers, k) - 1 - k) % 3 = 0}}
  IN <<Min({e \in ends \cup {c.end} : e > i})>>

\* unicode_regex_split_custom(): the rules of the splitter a regular expression has.
Rules(c, i, name) ==
  CASE name = "gpt2" -> Gpt2(c, i)
    [] name = "llama3" -> Llama3(c, i)
    [] name = "qwen2" -> Qwen2(c, i)
    [] name = "qwen35" -> Qwen35(c, i)
    [] name = "kimi_k2" -> KimiK2(c, i)
    [] name = "newlines" -> <<Lines(c, i)>>
    [] name = "afmoe" -> <<DigitsFromTheRight(c, i)>>

\* The cuts the first rule that matches makes at i; a character no rule matches is a word.
CutsAt(c, i, name) ==
  LET rules == Rules(c, i, name)
      matching == {k \in DOMAIN rules : rules[k] # <<>>}
  IN IF matching = {} THEN <<i + 1>> ELSE rules[Min(matching)]

\* The cuts from the first position, again from the last of them.
Split(c, name) ==
  LET from[i \in 1 .. c.end] ==
        LET cuts == CutsAt(c, i, name) IN IF i = c.end THEN <<>> ELSE cuts \o from[Last(cuts)]
  IN from[1]

-----------------------------------------------------------------------------
(* The regular expressions, as std::regex reads them: alternatives tried in *)
(* order, each a sequence of items repeated as often as lets the rest       *)
(* match, and a set of positions that must not follow.                      *)

Item(set, min, max) == [set |-> set, min |-> min, max |-> max]
One(set) == Item(set, 1, 1)
Opt(set) == Item(set, 0, 1)
Plus(set) == Item(set, 1, Cardinality(set))
Star(set) == Item(set, 0, Cardinality(set))

\* The end of the match of items at i, 0 if there is none.
MatchEnd(items, unless, i) ==
  LET from[k \in 1 .. Len(items) + 1] ==
        IF k > Len(items) THEN [j \in Nat |-> IF j \in unless THEN 0 ELSE j]
        ELSE [j \in Nat |->
                LET most == Min({items[k].max, RunEnd(items[k].set, j) - j})
                    good == {n \in items[k].min .. most : from[k + 1][j + n] # 0}
                IN IF good = {} THEN 0 ELSE from[k + 1][j + Max(good)]]
  IN from[1][i]

Character(c, cpts) == {i \in c.all : c.text[i] \in cpts}

\* 's|'t|... with both cases of a letter when fold.
Contracted(c, fold) ==
  LET letter(l) == Character(c, IF fold THEN {l, l - 32} ELSE {l})
      quote == One(Character(c, {Quote}))
  IN << <<quote, One(letter(\h73))>>, <<quote, One(letter(\h74))>>,
        <<quote, One(letter(\h72)), One(letter(\h65))>>,
        <<quote, One(letter(\h76)), One(letter(\h65))>>, <<quote, One(letter(\h6D))>>,
        <<quote, One(letter(\h6C)), One(letter(\h6C))>>, <<quote, One(letter(\h64))>> >>

\* The regular expressions of Tokenizer::pretokenize() and of the other splitters.
Regex(c, name) ==
  LET L == c.letters
      marked == L \cup c.marks
      before == c.all \ (c.breaks \cup L \cup c.numbers)
      slash == Character(c, {\h2F})
      symbols(set, after) == <<Opt(c.blanks), Plus(set), Star(after)>>
      white == << <<Star(c.spaces), Plus(c.breaks)>> >>
      digits == IF name = "llama3" THEN Item(c.numbers, 1, 3) ELSE One(c.numbers)
      words == IF name = "qwen35" THEN marked ELSE L
  IN CASE name = "gpt2" ->
            Contracted(c, FALSE) \o
            << <<Opt(c.blanks), Plus(L)>>, <<Opt(c.blanks), Plus(c.numbers)>>,
               <<Opt(c.blanks), Plus(Others(c))>> >>
       [] name \in {"llama3", "qwen2", "qwen35"} ->
            Contracted(c, TRUE) \o << <<Opt(before), Plus(words)>>, <<digits>>,
               symbols(Others(c) \ (words \cap c.marks), c.breaks) >> \o white
       [] name = "tekken" ->
            << <<Opt(before), Star(marked), Plus(marked)>>,
               <<Opt(before), Plus(marked), Star(marked)>>,
               <<One(c.numbers)>>, symbols(Others(c), c.breaks \cup slash) >> \o white
       [] name = "newlines" -> << <<Plus(c.all \ c.lines)>>, <<Plus(c.lines)>> >>

Patterns(regex) == [k \in DOMAIN regex |-> [items |-> regex[k], unless |-> {}]]

\* The alternatives, white space last: all of a run but its end, if a word follows.
Alternatives(c, name) ==
  LET spaces == [items |-> <<Plus(c.spaces)>>, unless |-> {}]
      before == [spaces EXCEPT !.unless = c.all \ c.spaces]
  IN Patterns(Regex(c, name)) \o
       CASE name = "newlines" -> <<>>
         [] name = "gpt2" -> <<before>>
         [] name \notin {"newlines", "gpt2"} -> <<before, spaces>>

\* The end of the first alternative that matches at i; what none matches is a word.
FirstMatch(alternatives, i) ==
  LET ends == [k \in DOMAIN alternatives |->
                 MatchEnd(alternatives[k].items, alternatives[k].unless, i)]
      matching == {k \in DOMAIN ends : ends[k] # 0}
  IN IF matching = {} THEN i + 1 ELSE ends[Min(matching)]

MatchAt(c, name, i) == FirstMatch(Alternatives(c, name), i)

\* unicode_regex_split_stl(): the cuts after the matches and before them.
RegexSplit(c, name) ==
  LET from[i \in 1 .. c.end] ==
        LET e == MatchAt(c, name, i) IN IF i = c.end THEN <<>> ELSE <<e>> \o from[e]
  IN from[1]

\* The words between the cuts, in UTF-8, each byte as a character of its own.
Words(cpts, cuts) ==
  [k \in DOMAIN cuts |->
     ByteEncoded(CptsToUtf8(SubSeq(cpts, IF k = 1 THEN 1 ELSE cuts[k - 1], cuts[k] - 1)))]

\* unicode_regex_split() throws std::invalid_argument on such a code point.
Unencodable(cpts) == \E i \in DOMAIN cpts : cpts[i] > \h10FFFF
=============================================================================
