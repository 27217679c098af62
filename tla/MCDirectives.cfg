SPECIFICATION Spec
CONSTANTS
  Setups <- MCSetups
  MaxSources = 9
  MaxEnds = 2
INVARIANTS
  LocationsAreRight
  ProgramIsRead
  ReportsAreRight
  TokensAreStable
PROPERTIES
  ReadReturns
CHECK_DEADLOCK FALSE
