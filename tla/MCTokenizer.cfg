SPECIFICATION Spec
CONSTANTS
  Files <- MCFiles
  Cases <- MCCases
  Spare = {"kimi_k2", "afmoe", "newlines"}
INVARIANTS CutsCover SplitIsRegex HanApart ListSpellsWord RoundTrip ThrowsOnlyPastUnicode
PROPERTIES BestFirst
