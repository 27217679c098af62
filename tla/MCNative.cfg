SPECIFICATION NativeSpec
CONSTANTS
  Globals    <- MCGlobals
  Locals     <- MCLocals
  RefCounted <- MCRefCounted
  VarType    <- MCVarType
  Functions  <- MCExecutedFunctions
  Literals = {"", "x"}
  Callees    <- MCCallees
  NameOf     <- MCNameOf
  Signature  <- MCSignature
  Addresses = {1, 2, 3, 4, 5, 6, 7, 8, 9, 10, 11, 12}
  Temps = {1, 2, 3, 4, 5, 6, 7}
INVARIANTS
  CodeIsCompilable
  CompiledOnce
  SameExecution
PROPERTIES
  IsClient
CHECK_DEADLOCK FALSE
