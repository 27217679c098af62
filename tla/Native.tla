-------------------------------- MODULE Native --------------------------------
(***************************************************************************)
(* A function on its way from the second pass of the analyzer to native    *)
(* code.  CodeGen (lib/cg/CodeGen.cpp) declares the global variables       *)
(* first, and knows no type but string.                                    *)
(***************************************************************************)
EXTENDS Pass2

VARIABLES native, blockMap, queue, temps, visitors, phase, machine
C == INSTANCE FunctionCompiler

nativeVars == <<native, blockMap, queue, temps, visitors, phase, machine>>

NativeInit == Init /\ C!CompilerInit

TranslateStep == phase = "none" /\ Next /\ UNCHANGED nativeVars

(* CodeGen::type(), for the type of each global variable *)
UsedGlobals ==
    {g \in Globals : \E b \in DOMAIN blocks : \E k \in DOMAIN blocks[b] :
        blocks[b][k].name = g}
UnknownType ==
    /\ Translated /\ phase = "none"
    /\ \E g \in UsedGlobals : VarType[g] # "string"
    /\ phase' = "notImplemented"
    /\ UNCHANGED <<builderVars, pass2Vars, native, blockMap, queue, temps, visitors,
                   machine>>
CompileFunction ==
    /\ Translated /\ \A g \in UsedGlobals : VarType[g] = "string"
    /\ C!Construct
    /\ UNCHANGED <<builderVars, pass2Vars>>

NativeStep == (C!Compile \/ C!Start \/ C!Execute) /\ UNCHANGED <<builderVars, pass2Vars>>

NativeNext == TranslateStep \/ UnknownType \/ CompileFunction \/ NativeStep
NativeSpec == NativeInit /\ [][NativeNext]_<<builderVars, pass2Vars, nativeVars>>

(* What the analyzer makes, for any of the functions, is code that the     *)
(* compiler can translate.  Above all, whatever an instruction reads has   *)
(* been written before: in its own block or, for a landing pad, in the     *)
(* block of every instruction that leads there, before that instruction.   *)
(* So the native code, which binds a temporary to the last value compiled, *)
(* computes what the interpreter does with its frame of temporaries.       *)
CodeIsCompilable == Translated => C!Compilable

(* The properties of FunctionCompiler, for the functions of the analyzer: *)
(* the native code is a function that LLVM accepts, and complete ... *)
CompiledOnce  == C!WellFormed /\ C!CompiledOnce
(* ... and it does what the intermediate code does. *)
SameExecution == C!SameExecution
=============================================================================
