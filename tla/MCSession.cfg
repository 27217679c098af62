SPECIFICATION SessionSpec
CONSTANTS
  Globals    <- MCGlobals
  Locals     <- MCLocals
  RefCounted <- MCRefCounted
  VarType    <- MCVarType
  Functions  = {}
  CalleeType <- MCCalleeType
  Literals = {"", "x"}
  Callees    <- MCCallees
  NameOf     <- MCNameOf
  Signature  <- MCSignature
  Addresses = {}
  Temps = {}
  Unimplemented = {"ConstNothing", "RefDecNoexcept", "ResumeUnwind"}
  MaxChanges = 1
  Inputs <- MCReturnInputs
  MaxInputs = 3
INVARIANTS
  LocalsNeedRelease
CHECK_DEADLOCK FALSE
