SPECIFICATION Spec
CONSTANTS
  Sources <- MCLanguage
  GrammarSources <- MCLanguage
  Longest = 8
  MaxTail = 1
INVARIANTS
  AcceptsOnlySentences
PROPERTIES
  RejectsNoSentence
CHECK_DEADLOCK FALSE
