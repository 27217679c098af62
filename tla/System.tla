------------------------------- MODULE System -------------------------------
(***************************************************************************)
(* The analyzer and the machine together: a function is translated, then   *)
(* its code is executed once (Analyzer::analyze(), then in::interpret() or *)
(* the native code).  Global variables that the function does not          *)
(* initialize itself have a value, and the caller passes a value for each  *)
(* parameter and keeps its own reference to it until the call is over.     *)
(***************************************************************************)
EXTENDS Pass2

CONSTANTS Unimplemented, MaxChanges,
          CalleeType      \* the return type of each function that is called

VARIABLES code, pc, temps, locals, globals, heap, held, unwinding, outcome,
          result, changes,
          arguments       \* the values that the caller passed

machineVars == <<code, pc, temps, locals, globals, heap, held, unwinding,
                 outcome, result, changes>>
vars == <<builderVars, pass2Vars, machineVars, arguments>>

LiteralSeq == SetToSeq(Literals)

M == INSTANCE Machine WITH Literals <- LiteralSeq

-----------------------------------------------------------------------------
SystemInit ==
    /\ Init
    /\ code = <<>> /\ pc = [b |-> 1, i |-> 1]
    /\ temps = <<>> /\ locals = <<>> /\ globals = <<>> /\ held = <<>>
    /\ heap = <<>> /\ unwinding = FALSE
    /\ outcome = "idle" /\ result = M!Null /\ changes = 0
    /\ arguments = <<>>

TranslateStep == Next /\ UNCHANGED <<machineVars, arguments>>

(* What a variable of a type may hold. *)
Contents(type) ==
    CASE type = "any"    -> {"nothing", "string", "int"}
      [] type = "string" -> {"string"}
      [] type = "int"    -> {"plain"}

(* The function's own globals are not initialized yet. *)
Initialized == Globals \ {function.init[i].name : i \in DOMAIN function.init}

(* Each variable that has a value has an address, used or not. *)
Start ==
    LET names == SetToSeq(Initialized) \o function.params
        n     == Len(LiteralSeq)
    IN \E c \in [DOMAIN names -> {"nothing", "string", "int", "plain"}] :
        LET value(v) ==
                IF ~\E i \in DOMAIN names : names[i] = v THEN M!Unset
                ELSE LET i == CHOOSE i \in DOMAIN names : names[i] = v
                     IN  CASE c[i] = "nothing" -> M!Null
                           [] c[i] = "plain"   -> M!Plain
                           [] OTHER            -> n + i
        IN /\ Translated /\ outcome = "idle"
           /\ \A i \in DOMAIN names : c[i] \in Contents(VarType[names[i]])
           /\ outcome' = "running"
           /\ code' = blocks
           /\ heap' = [i \in 1..n |-> M!NewObject("string")]
                   \o [i \in DOMAIN names |-> [type |-> c[i],
                           refs |-> IF c[i] \in {"string", "int"} THEN 1 ELSE 0]]
           /\ temps' = [t \in 1..tempCount |-> M!Unset]
           /\ locals' = [v \in Locals |-> value(v)]
           /\ globals' = [g \in Globals |-> value(g)]
           /\ held' = [g \in Globals |-> "no"]
           /\ arguments' = [i \in DOMAIN function.params |-> value(function.params[i])]
           /\ UNCHANGED <<pc, unwinding, result, changes, builderVars, pass2Vars>>

MachineStep ==
    /\ M!Execute(CalleeType)
    /\ UNCHANGED <<builderVars, pass2Vars, arguments>>

OtherActivation ==
    /\ \E g \in Globals : M!Interfere(g)
    /\ UNCHANGED <<builderVars, pass2Vars, arguments>>

SystemNext == TranslateStep \/ Start \/ MachineStep \/ OtherActivation

(* The machine, which runs in one thread, is not suspended for ever. *)
SystemSpec == SystemInit /\ [][SystemNext]_vars /\ WF_machineVars(MachineStep)

-----------------------------------------------------------------------------
(* No object is used after it has been deleted, no variable before it has  *)
(* a value, no assertion of the run-time system fails and no lock is taken *)
(* twice or released by someone else: whatever is thrown, and whatever     *)
(* others do to the global variables.                                      *)
NoFault == outcome # "fault"

(* The local variables of the scopes that are open where the code that is  *)
(* built goes on: none after a function (its parameters stay on the stack, *)
(* below any scope), those of the top level in a session. *)
LocalsInScope ==
    {localsStack[j].lv : j \in {j \in DOMAIN localsStack :
        \E i \in 1..j - 1 : localsStack[i].lv = NoName}} \ {NoName}

(* The references that the rest of the program has to an object: one of    *)
(* the environment to a literal, one of each global variable and argument, *)
(* one of the caller to the result, one of each local variable in scope.   *)
Expected(a) ==
    Cardinality({g \in Globals : globals[g] = a})
    + Cardinality({i \in DOMAIN arguments : arguments[i] = a})
    + (IF a <= Len(LiteralSeq) THEN 1 ELSE 0) + (IF result = a THEN 1 ELSE 0)
    + (IF outcome = "returned"
       THEN Cardinality({v \in LocalsInScope : locals[v] = a}) ELSE 0)

(* When the function has returned or been left by an exception, and after  *)
(* each statement of a session, it has released every reference it took    *)
(* and none that it did not take: nothing leaks (the release of            *)
(* temporaries and locals, on every path).                                 *)
ReferencesBalance ==
    outcome \in {"returned", "unwound"} =>
        \A a \in DOMAIN heap : heap[a].refs = Expected(a)

HeldLocks == {g \in Globals : held[g] # "no"}

(* A global variable is read under its lock and written under its write    *)
(* lock, as GlobalVariable demands; while a lock is held no other one is   *)
(* taken, no function called and no reference dropped (a destructor may    *)
(* run anything), so locks cannot be waited for in a circle; none is left  *)
(* behind, by an exception neither.                                        *)
LocksProtect ==
    /\ M!Running /\ pc.i <= Len(code[pc.b]) =>
        LET ins == M!Current
        IN  /\ ins.op = "GlobalGet" => held[ins.name] # "no"
            /\ ins.op = "GlobalSet" => held[ins.name] = "write"
            /\ ins.op \in {"GlobalReadLock", "GlobalWriteLock", "InvokeFunction",
                           "RefDec", "RefDecNoexcept"} => HeldLocks = {}
    /\ outcome \in {"returned", "unwound"} => HeldLocks = {}

(* A function that has been translated returns or is left by an exception: *)
(* the blocks that landing pads and branches lead to form no circle.       *)
Ends == M!Running ~> ~M!Running
-----------------------------------------------------------------------------
(* What comments of the code say and the code does not do.                 *)

(* "the code between the start of the lpad block and either rethrow/resume *)
(* or jump to user's catch block" can be executed (FunctionInterpreter.h). *)
CleanupIsExecuted == unwinding => outcome # "unimplemented"

(* The catch body is "the statement to execute if an exception is thrown   *)
(* in the try block" (TryStatement.h): an exception does not leave a       *)
(* function whose code is in a try block and whose catch body throws none. *)
TryCatches == outcome # "unwound"
=============================================================================
