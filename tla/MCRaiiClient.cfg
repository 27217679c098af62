SPECIFICATION MCSpec
CONSTANTS
  Globals    <- MCGlobals
  Locals     <- MCLocals
  RefCounted <- MCRefCounted
  SimpleCode <- MCSimpleCode
  InvokeCode <- MCInvokeCode
  Handles = {1, 2, 3}
  MaxBlocks = 3
  MaxCode = 2
  MaxScopes = 2
INVARIANTS
  TypeOK
  TempsExclusive
  DerefExact
  AssertionsHold
  CleanupChain
PROPERTIES
  LandingPadsExact
  FinishedBlocksStay
CHECK_DEADLOCK FALSE
