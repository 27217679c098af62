----------------------------- MODULE NativeProofs -----------------------------
(***************************************************************************)
(* Proofs about Native.  A function on its way from the analyzer to native *)
(* code does, in every step, what CompilerNext of FunctionCompilerProofs   *)
(* allows, as long as the analyzer makes code that is Compilable; so the   *)
(* theorems of FunctionCompilerProofs hold for it.                         *)
(***************************************************************************)
EXTENDS Native, TLAPS
CP == INSTANCE FunctionCompilerProofs

LEMMA StartsAsCompiler == NativeInit => CP!CompilerInit
BY DEF NativeInit, C!CompilerInit, CP!CompilerInit, C!NotRunning, CP!NotRunning,
       C!NoValue, CP!NoValue, C!Place, CP!Place

(* FunctionCompiler is an instance of Native and, by way of its proofs, of *)
(* this module: the definitions are the same.                              *)
(* FunctionCompiler is an instance of Native and, by way of its proofs, of *)
(* this module: the definitions are the same.                              *)
(* FunctionCompiler is an instance of Native and, by way of its proofs, of *)
(* this module: the definitions are the same.                              *)
(* FunctionCompiler is an instance of Native and, by way of its proofs, of *)
(* this module: the definitions are the same.                              *)
LEMMA SameCode == C!Compilable => CP!Compilable
BY DEF C!Place, CP!Place, C!CodePlaces, CP!CodePlaces, C!CodeAt, CP!CodeAt,
       C!IsPad, CP!IsPad, C!NamesExist, CP!NamesExist, C!ReadsAreLocal,
       CP!ReadsAreLocal, C!WrittenBefore, CP!WrittenBefore, C!Compilable,
       CP!Compilable, C!NoBlock, CP!NoBlock, C!NoTemp, CP!NoTemp,
       C!Terminator, CP!Terminator, C!Throwing, CP!Throwing, C!Instruction,
       CP!Instruction, C!Kind, CP!Kind, C!Name, CP!Name, C!NoName, CP!NoName

LEMMA SameConstruct == C!Construct => CP!Construct
BY DEF C!Construct, CP!Construct, C!NoValue, CP!NoValue, C!Place, CP!Place,
       C!codeVars, CP!codeVars

LEMMA SameTakeBlock == C!TakeBlock => CP!TakeBlock
BY DEF C!TakeBlock, CP!TakeBlock, C!Visitor, CP!Visitor, C!NoTemp, CP!NoTemp,
       C!NoValue, CP!NoValue, C!Place, CP!Place, C!codeVars, CP!codeVars,
       C!Last, CP!Last, C!Front, CP!Front

LEMMA SameVisitSimple == C!VisitSimple => CP!VisitSimple
BY DEF C!VisitSimple, CP!VisitSimple, C!Active, CP!Active, C!Compiling,
       CP!Compiling, C!Current, CP!Current, C!Here, CP!Here, C!Top, CP!Top,
       C!Place, CP!Place, C!Last, CP!Last, C!codeVars, CP!codeVars,
       C!Operands, CP!Operands, C!AppendNative, CP!AppendNative,
       C!NativeInstruction, CP!NativeInstruction, C!NextValue, CP!NextValue,
       C!Advanced, CP!Advanced, C!Front, CP!Front, C!Bind, CP!Bind,
       C!Terminator, CP!Terminator, C!NoBlock, CP!NoBlock, C!NoTemp, CP!NoTemp

LEMMA SameVisitTerminator == C!VisitTerminator => CP!VisitTerminator
BY DEF C!VisitTerminator, CP!VisitTerminator, C!Active, CP!Active,
       C!Compiling, CP!Compiling, C!Current, CP!Current, C!Here, CP!Here,
       C!Top, CP!Top, C!Place, CP!Place, C!Last, CP!Last, C!codeVars,
       CP!codeVars, C!Operands, CP!Operands, C!AppendNative, CP!AppendNative,
       C!NativeInstruction, CP!NativeInstruction, C!Advanced, CP!Advanced,
       C!Front, CP!Front, C!mapBlock, CP!mapBlock, C!newBlock, CP!newBlock,
       C!MappedState, CP!MappedState, C!Terminator, CP!Terminator

LEMMA SameMakeInvoke == C!makeInvoke => CP!makeInvoke
BY DEF C!makeInvoke, CP!makeInvoke, C!Active, CP!Active, C!Compiling,
       CP!Compiling, C!Current, CP!Current, C!Here, CP!Here, C!Top, CP!Top,
       C!Place, CP!Place, C!Last, CP!Last, C!codeVars, CP!codeVars,
       C!Operands, CP!Operands, C!AppendNative, CP!AppendNative,
       C!NativeInstruction, CP!NativeInstruction, C!NextValue, CP!NextValue,
       C!Advanced, CP!Advanced, C!Front, CP!Front, C!NoBlock, CP!NoBlock,
       C!compileNow, CP!compileNow, C!SetInsertPoint, CP!SetInsertPoint,
       C!Visitor, CP!Visitor

LEMMA SameEndVisitor == C!EndVisitor => CP!EndVisitor
BY DEF C!EndVisitor, CP!EndVisitor, C!Active, CP!Active, C!Top, CP!Top,
       C!Last, CP!Last, C!Bind, CP!Bind, C!Front, CP!Front, C!NoTemp,
       CP!NoTemp, C!codeVars, CP!codeVars

LEMMA SameVisitOther == C!VisitOther => CP!VisitOther
BY DEF C!VisitOther, CP!VisitOther, C!Active, CP!Active, C!Compiling,
       CP!Compiling, C!Current, CP!Current, C!Top, CP!Top, C!Last, CP!Last,
       C!codeVars, CP!codeVars

LEMMA SameStart == C!Start => CP!Start
BY DEF C!Start, CP!Start, C!Compiled, CP!Compiled, C!NotRunning,
       CP!NotRunning, C!Begin, CP!Begin, C!NoValue, CP!NoValue, C!Place,
       CP!Place, C!codeVars, CP!codeVars

LEMMA SameExecute == C!Execute => CP!Execute
BY DEF C!Execute, CP!Execute, C!At, CP!At, C!Source, CP!Source, C!GoTo,
       CP!GoTo, C!Following, CP!Following, C!Place, CP!Place, C!EndsBlock,
       CP!EndsBlock, C!NoBlock, CP!NoBlock, C!NoTemp, CP!NoTemp, C!Written,
       CP!Written, C!codeVars, CP!codeVars

LEMMA SameCompletion == CP!WellFormed /\ CP!CompiledOnce => CompiledOnce
<1>1. CP!WellFormed => C!WellFormed
  BY DEF C!WellFormed, CP!WellFormed, C!Done, CP!Done, C!Begin, CP!Begin,
         C!NativePlaces, CP!NativePlaces, C!NativeAt, CP!NativeAt, C!Place,
         CP!Place, C!EndsBlock, CP!EndsBlock, C!ToSet, CP!ToSet, C!Throwing,
         CP!Throwing
<1>2. CP!CompiledOnce => C!CompiledOnce
  <2>1. \A S : C!Cardinality(S) = CP!Cardinality(S)
    BY DEF C!Cardinality, CP!Cardinality
  <2>2. C!Reached = CP!Reached
    BY DEF C!Reached, CP!Reached, C!Within, CP!Within, C!More, CP!More,
           C!Successors, CP!Successors, C!ToSet, CP!ToSet, C!NoBlock,
           CP!NoBlock
  <2>3. /\ C!CodePlaces = CP!CodePlaces
        /\ \A p : C!CodeAt(p) = CP!CodeAt(p)
        /\ \A p : C!MadeFrom(p) = CP!MadeFrom(p)
        /\ \A b : C!IsPad(b) <=> CP!IsPad(b)
        /\ C!Done <=> CP!Done
    BY DEF C!CodePlaces, CP!CodePlaces, C!CodeAt, CP!CodeAt, C!IsPad,
           CP!IsPad, C!MadeFrom, CP!MadeFrom, C!NativePlaces, CP!NativePlaces,
           C!NativeAt, CP!NativeAt, C!Place, CP!Place, C!Done, CP!Done,
           C!Begin, CP!Begin
  <2> QED
    BY <2>1, <2>2, <2>3 DEF C!CompiledOnce, CP!CompiledOnce
<1> QED
  BY <1>1, <1>2 DEF CompiledOnce

LEMMA SameExecutions == CP!SameExecution => SameExecution
BY DEF SameExecution, C!SameExecution, CP!SameExecution, C!At, CP!At, C!Source, CP!Source,
       C!NativeAt, CP!NativeAt

(* Every step is one that CompilerNext allows. *)
LEMMA StepsAsCompiler ==
    ASSUME CodeIsCompilable, [NativeNext]_<<builderVars, pass2Vars, nativeVars>>
    PROVE  [CP!CompilerNext]_<<CP!codeVars, CP!compilerVars>>
<1>1. CASE TranslateStep
  <2>1. phase = "none" /\ UNCHANGED CP!compilerVars
    BY <1>1 DEF TranslateStep, nativeVars, CP!compilerVars
  <2> QED
    BY <2>1 DEF CP!CompilerNext
<1>2. CASE UnknownType
  BY <1>2 DEF UnknownType, CP!CompilerNext
<1>3. CASE CompileFunction
  <2>1. C!Compilable /\ C!Construct
    BY <1>3 DEF CompileFunction, CodeIsCompilable
  <2>2. CP!Compilable /\ CP!Construct
    BY <2>1, SameCode, SameConstruct
  <2> QED
    BY <2>2 DEF CP!CompilerNext
<1>4. CASE NativeStep
  <2>1. C!Compile => CP!Compile
    BY SameTakeBlock, SameVisitSimple, SameVisitTerminator, SameMakeInvoke,
       SameEndVisitor, SameVisitOther DEF C!Compile, CP!Compile
  <2>2. CP!Compile \/ CP!Start \/ CP!Execute
    BY <1>4, <2>1, SameStart, SameExecute DEF NativeStep
  <2> QED
    BY <2>2 DEF CP!CompilerNext
<1>5. CASE UNCHANGED <<builderVars, pass2Vars, nativeVars>>
  <2>1. UNCHANGED builderVars /\ UNCHANGED nativeVars
    BY <1>5
  <2>2. UNCHANGED CP!codeVars /\ UNCHANGED CP!compilerVars
    BY <2>1 DEF builderVars, nativeVars, CP!codeVars, CP!compilerVars
  <2> QED
    BY <2>2
<1> QED
  BY <1>1, <1>2, <1>3, <1>4, <1>5 DEF NativeNext

LEMMA IsCompiler == NativeSpec /\ []CodeIsCompilable => CP!CompilerSpec
<1>1. NativeInit => CP!CompilerInit
  BY StartsAsCompiler DEF NativeInit
<1>2. CodeIsCompilable /\ [NativeNext]_<<builderVars, pass2Vars, nativeVars>>
        => [CP!CompilerNext]_<<CP!codeVars, CP!compilerVars>>
  BY StepsAsCompiler
<1> QED
  BY <1>1, <1>2, PTL DEF NativeSpec, CP!CompilerSpec

-----------------------------------------------------------------------------
(* Whichever calls throw, the native code of a function executes the       *)
(* instructions that the interpreter executes, in the same order and with  *)
(* operands that are computed on this path: though FunctionCompiler.h      *)
(* binds a temporary to the value that it has compiled last. *)
THEOREM NativeExecutesSame == NativeSpec /\ []CodeIsCompilable => []SameExecution
<1>1. CP!CompilerSpec => []CP!SameExecution
  BY CP!NativeExecutesSame
<1>2. CP!SameExecution => SameExecution
  BY SameExecutions
<1> QED
  BY <1>1, <1>2, IsCompiler, PTL

(* The native code is what LLVM's verifier accepts, and every instruction  *)
(* that can be reached is in it: once, and in a landing pad once for each  *)
(* instruction that leads there. *)
THEOREM NativeIsComplete == NativeSpec /\ []CodeIsCompilable => []CompiledOnce
<1>1. CP!CompilerSpec => []CP!WellFormed
  BY CP!NativeIsWellFormed
<1>2. CP!CompilerSpec => []CP!CompiledOnce
  BY CP!NativeIsComplete
<1>3. CP!WellFormed /\ CP!CompiledOnce => CompiledOnce
  BY SameCompletion
<1> QED
  BY <1>1, <1>2, <1>3, IsCompiler, PTL
=============================================================================
