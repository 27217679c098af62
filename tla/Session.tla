------------------------------- MODULE Session -------------------------------
(***************************************************************************)
(* The loop of qorec's interactive mode (tools/qorec/Interactive.cpp): one *)
(* builder and one frame for the whole session.  Each statement is         *)
(* translated where the last one ended and its code is executed at once,   *)
(* from the block in which it began.  The scope that the session has       *)
(* opened, with the variables declared at the top level, is left at the    *)
(* end of the input only.                                                  *)
(*                                                                         *)
(* The declarations themselves are those of Declarations; here a global    *)
(* variable that has been declared gets the initializer of its type.       *)
(***************************************************************************)
EXTENDS System, Pass1

CONSTANTS Inputs,   \* the statements that may be read, as syntax trees
          MaxInputs \* no statement is read after so many

VARIABLES entry,        \* IBuilder::entry
          topScope,     \* the BlockScope of the session, in the InteractiveScope
          initializers, \* of global variables, not taken yet
          inputs        \* the number of statements read, or Over

sessionVars == <<entry, topScope, initializers, inputs>>
systemVars  == <<builderVars, pass2Vars, machineVars, arguments>>
frameVars == <<code, pc, temps, locals, globals, heap, held, unwinding, result,
               changes, arguments>>

Over == -1

TopLevel == [params |-> <<>>, type |-> "nothing", init |-> <<>>,
             body |-> Compound(<<>>)]

(* interactive(), up to the loop *)
SessionInit ==
    /\ BuilderInit
    /\ function = TopLevel /\ todo = <<Mark>>
    /\ code = <<>> /\ pc = [b |-> 1, i |-> 1]
    /\ temps = <<>> /\ locals = [v \in Locals |-> M!Unset]
    /\ globals = [g \in Globals |-> M!Unset] /\ held = [g \in Globals |-> "no"]
    /\ heap = [i \in 1..Len(LiteralSeq) |-> M!NewObject("string")]
    /\ unwinding = FALSE /\ outcome = "idle" /\ result = M!Null /\ changes = 0
    /\ arguments = <<>>
    /\ entry = 1 /\ topScope = Enter(Scope(<<>>, {}, "nothing")) /\ initializers = <<>> /\ inputs = 0

(* The session waits for a declaration or a statement. *)
AtPrompt ==
    /\ Translated /\ inputs # Over
    /\ outcome = "idle" \/ outcome = "returned"

GetEntry == Call0("getEntryForInteractiveMode")

DeclareGlobal == \E g \in Globals \ topScope.globals :
    /\ AtPrompt /\ inputs < MaxInputs
    /\ topScope' = [topScope EXCEPT !.globals = @ \cup {g}]
    /\ initializers' = Append(initializers,
           GlobalVariableInitialization(g, DefaultFor(VarType[g])))
    /\ UNCHANGED <<systemVars, entry, inputs>>

(* What the first pass refuses ends the program, and is not read here. *)
ReadStatement ==
    \E input \in Inputs : \E read \in {analyzeNode(input, topScope)} :
        /\ AtPrompt /\ inputs < MaxInputs /\ read.scope.ok
        /\ inputs' = inputs + 1
        /\ topScope' = read.scope
        /\ initializers' = <<>>
        /\ todo' = [i \in DOMAIN initializers |-> Analyze(initializers[i])]
                       \o <<Analyze(read.tree), GetEntry>>
        /\ outcome' = "idle" /\ UNCHANGED <<builderVars, function, frameVars, entry>>

(* The end of the input: the scope is left, and that code executed. *)
EndSession ==
    /\ AtPrompt /\ inputs > 0
    /\ inputs' = Over
    /\ todo' = <<Unmark, GetEntry>>
    /\ outcome' = "idle"
    /\ UNCHANGED <<builderVars, function, frameVars, entry, topScope, initializers>>

(* createRetVoidInteractive(), which releases no local; then the interpreter *)
(* is at the block in which the code begins. *)
getEntryForInteractiveMode ==
    /\ Running /\ Head(todo) = GetEntry
    /\ todo' = Tail(todo)
    /\ IF isTerminated
       THEN NotImplemented /\ UNCHANGED <<machineVars, entry>>
       ELSE /\ blocks' = Append([blocks EXCEPT ![currentBlock] = Append(@, RetVoid)], <<>>)
            /\ entry' = Len(blocks')
            /\ currentBlock' = entry'
            /\ outcome' = "running" /\ code' = blocks' /\ pc' = [b |-> entry, i |-> 1]
            /\ temps' = temps \o [t \in 1..tempCount - Len(temps) |-> M!Unset]
            /\ UNCHANGED <<tempCount, freeTemps, derefTemps, localsStack, unlockLValue,
                           helpers, loop, status, locals, globals, heap, held,
                           unwinding, result, changes>>
    /\ UNCHANGED <<function, arguments, topScope, initializers, inputs>>

SessionNext ==
    \/ DeclareGlobal \/ ReadStatement \/ EndSession \/ getEntryForInteractiveMode
    \/ (TranslateStep \/ MachineStep \/ OtherActivation) /\ UNCHANGED sessionVars

-----------------------------------------------------------------------------
(* The builder "maintains the information about values (temps or local     *)
(* variables) that need their reference count decreased" (Builder.h):      *)
(* after each statement, the variables on its stack hold a reference.      *)
LocalsNeedRelease ==
    outcome = "returned" => \A v \in LocalsInScope :
        locals[v] = M!Null \/ M!Alive(locals[v])
=============================================================================
