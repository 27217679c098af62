SPECIFICATION FairSpec
CONSTANTS
  Interactive = FALSE
  Nodes <- MCNodes
  Input <- MCInput
  Commands <- MCCommands
  MaxNodes = 4
  MaxStatements = 1
INVARIANTS
  NamesAreUnambiguous
  NothingIsLost
  TypesAreFinal
  PreviousIsFirst
  QueuedOnce
  NoFault
  StartsAsAnalyzed
PROPERTIES
  IsLifecycle
CHECK_DEADLOCK FALSE
