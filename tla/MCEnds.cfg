SPECIFICATION FairSpec
CONSTANTS
  Sources <- MCEnds
  GrammarSources <- None
  Longest = 0
  MaxTail = 1
PROPERTIES
  Ends
CHECK_DEADLOCK FALSE
