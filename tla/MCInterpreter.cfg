SPECIFICATION MCSpec
CONSTANTS
  Globals    <- MCGlobals
  Locals     <- MCLocals
  RefCounted <- MCRefCounted
  VarType    <- MCVarType
  Functions  <- MCStatementFunctions
  CalleeType <- MCCalleeType
  Literals = {"", "x"}
  Callees    <- MCCallees
  NameOf     <- MCNameOf
  Signature  <- MCSignature
  Addresses = {}
  Temps = {}
  Unimplemented = {"ConstNothing", "RefDecNoexcept", "ResumeUnwind"}
  MaxChanges = 1
  Inputs = {}
  MaxInputs = 0
INVARIANTS
  CleanupIsExecuted
CHECK_DEADLOCK FALSE
