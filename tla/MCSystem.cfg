SPECIFICATION MCSpec
CONSTANTS
  Globals    <- MCGlobals
  Locals     <- MCLocals
  RefCounted <- MCRefCounted
  VarType    <- MCVarType
  Functions  <- MCFunctions
  CalleeType <- MCCalleeType
  Literals = {"", "x"}
  Callees    <- MCCallees
  NameOf     <- MCNameOf
  Signature  <- MCSignature
  Addresses = {}
  Temps = {}
  Unimplemented = {"ConstNothing"}
  MaxChanges = 2
  Inputs <- MCInputs
  MaxInputs = 3
INVARIANTS
  NoFault
  ReferencesBalance
  LocksProtect
PROPERTIES
  Ends
CHECK_DEADLOCK FALSE
