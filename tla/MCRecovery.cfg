SPECIFICATION FairSpec
CONSTANTS
  Sources <- MCRecovery
  GrammarSources <- None
  Longest = 0
  MaxTail = 3
INVARIANTS
  MutedOnlyWhileSkipping
  TokensInOrder
  AssertionsHold
  RegexIsScanned
PROPERTIES
  RecoveryStopsInPlace
  Ends
CHECK_DEADLOCK FALSE
