SPECIFICATION Spec
CONSTANTS
  Interactive = TRUE
  Nodes <- MCNodes
  Input <- MCSymbols
  Commands <- MCCommands
  MaxNodes = 4
  MaxStatements = 2
INVARIANTS
  TypeOK
  OnlyClashesFault
  InitializedOnce
PROPERTIES
  KeepsOrder
CHECK_DEADLOCK FALSE
