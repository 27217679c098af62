SPECIFICATION MCSpec
CONSTANTS
  Globals    <- MCGlobals
  Locals     <- MCLocals
  RefCounted <- MCRefCounted
  VarType    <- MCVarType
  Functions  <- MCTryFunctions
  CalleeType <- MCCalleeType
  Literals = {"", "x"}
  Callees    <- MCCallees
  NameOf     <- MCNameOf
  Signature  <- MCSignature
  Addresses = {}
  Temps = {}
  Unimplemented = {"ConstNothing"}
  MaxChanges = 1
  Inputs = {}
  MaxInputs = 0
INVARIANTS
  TryCatches
CHECK_DEADLOCK FALSE
