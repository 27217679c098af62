-------------------------------- MODULE Pass2 --------------------------------
(***************************************************************************)
(* The second pass of the analyzer: FunctionScope::analyze() and the       *)
(* visitors of ExpressionAnalyzerPass2 and StatementAnalyzerPass2, which   *)
(* translate a function to code by calls to the builder.                   *)
(*                                                                         *)
(* "todo" is what the C++ call stack still has to do: a sequence of calls  *)
(* (tasks).  A visitor is the sequence of calls it makes, destructors      *)
(* included; it replaces its own task at the head of todo.  A step is one  *)
(* call of the builder.  As in Builder, some definitions have a slip next  *)
(* to them, which the model does not use.  TempHelper objects have the addresses 1, 2...: d  *)
(* is the "dest" of a visitor and its other objects are above it.          *)
(***************************************************************************)
EXTENDS Builder, Syntax

CONSTANTS Functions,  \* the functions to translate: [params, type, init, body]
          Literals,   \* the string literals
          Callees,    \* the names of the functions that are called
          Addresses,  \* the addresses of TempHelper objects
          Temps       \* the temporaries that their code uses

ASSUME TypesAssumption ==
    /\ VarType \in [Globals \cup Locals -> Type]
    /\ RefCounted = {v \in Locals : isRefCounted(VarType[v])}

VARIABLES
  function,   \* the function that is translated
  todo        \* what is left to do

pass2Vars == <<function, todo>>

(* h and x: addresses or blocks; ins: an instruction over addresses; node: *)
(* an expression or a statement. *)
Task(call, h, x, ins, node) ==
    [call |-> call, h |-> h, x |-> x, ins |-> ins, node |-> node]

Call0(call)        == Task(call, 0, 0, RetVoid, NoExpr)
Call1(call, h)     == Task(call, h, 0, RetVoid, NoExpr)
CallIns(call, ins) == Task(call, 0, 0, ins, NoExpr)
CallNode(call, node) == Task(call, 0, 0, RetVoid, node)

New(h)        == Call1("TempHelper", h)
Wrap(h, c)    == Task("TempHelperExternal", h, c, RetVoid, NoExpr)
Needed(h)     == Call1("derefNeeded", h)
Done(h)       == Call1("derefDone", h)
Destroy(h)    == Call1("~TempHelper", h)
Open(e)       == CallNode("LValue", e)
Close(e)      == CallNode("~LValue", e)
Emit(ins)     == CallIns("create", ins)
Invoke(ins, canThrow) ==
    CallIns(IF canThrow THEN "createInvoke" ELSE "createInvokeNoexcept", ins)
CreateReturn(ins) == CallIns("createRet", ins)
Push(v)       == CallNode("localsPush", LocalVariableRef(v))
Mark          == Call0("LocalsStackMarker")
Unmark        == Call0("~LocalsStackMarker")
NewBlock      == Call0("createBlock")
SetBlock(b)   == Call1("setCurrentBlock", b)
Fail          == Call0("notImplemented")
Visit(e, d)   == Task("visitExpression", d, 0, RetVoid, e)
Analyze(s)    == CallNode("visitStatement", s)
Join(b, s)    == Task("join", b, 0, RetVoid, s) \* the rest of visit(If), visit(Try)
Finish(b)     == Call1("finish", b)         \* ... after their last branch
EndFunction   == Call0("end")               \* the rest of analyze()

When(c, tasks) == IF c THEN tasks ELSE <<>>

refCounted(e) == isRefCounted(e.type)

-----------------------------------------------------------------------------
(* Expressions. *)

(* evaluate() whose object keeps the reference. *)
evaluateKept(c, e) == <<Wrap(c + 1, c), Visit(e, c + 1), Destroy(c + 1)>>

(* evaluate(): an object for the expression whose dest wraps the temporary *)
(* of the object at c, and its destructor. *)
evaluate(c, e) == <<Wrap(c + 1, c), Visit(e, c + 1), Done(c + 1), Destroy(c + 1)>>

(* eval() without a destination *)
evalDiscard(e) == <<New(1), Visit(e, 1), Destroy(1)>>

noSideEffect(d) == When(~helpers[d].external, <<Fail>>)

consumeDest(d) == IF helpers[d].external THEN <<Emit(RefInc(d))>> ELSE <<Done(d)>>

(* The old value released before the lvalue is unlocked. *)
visitAssignmentReleasing(e, d) ==
    LET left == e.args[1]
    IN  evaluate(d, e.args[2]) \o
        IF refCounted(left)
        THEN <<Needed(d), New(d + 1), Open(left),
               Emit(LValueGet(left.name, d + 1)), Needed(d + 1)>>
             \o consumeDest(d)
             \o <<Emit(LValueSet(left.name, d)), Destroy(d + 1), Close(left)>>
        ELSE <<Open(left), Emit(LValueSet(left.name, d)), Close(left)>>

visitAssignment(e, d) ==
    LET left == e.args[1]
    IN  evaluate(d, e.args[2]) \o
        IF refCounted(left)
        THEN <<Needed(d), New(d + 1), Open(left),
               Emit(LValueGet(left.name, d + 1)), Needed(d + 1)>>
             \o consumeDest(d)
             \o <<Emit(LValueSet(left.name, d)), Close(left), Destroy(d + 1)>>
        ELSE <<Open(left), Emit(LValueSet(left.name, d)), Close(left)>>

visitCompoundAssignment(e, d) ==
    LET left  == e.args[1]
        right == d + 1
        old   == d + 2
    IN  <<New(right)>> \o evaluate(right, e.args[2])
        \o When(refCounted(e.args[2]), <<Needed(right)>>)
        \o <<New(old), Open(left), Emit(LValueGet(left.name, old)),
             Invoke(InvokeBinaryOperator(d, e.name, old, right),
                    BinaryOperator[e.name].canThrow)>>
        \o When(refCounted(left), <<Needed(d), Needed(old)>> \o consumeDest(d))
        \o <<Emit(LValueSet(left.name, d)), Close(left),
             Destroy(old), Destroy(right)>>

(* The arguments are not released. *)
visitFunctionCallKeeping(e, d) ==
    LET n == Len(e.args)
        arg(i) == <<New(d + i)>> \o evaluate(d + i, e.args[i])
    IN  FlattenSeq([i \in 1..n |-> arg(i)])
        \o <<Invoke(InvokeFunction(d, e.name, [i \in 1..n |-> d + i]), TRUE)>>
        \o When(refCounted(e), <<Needed(d)>>)
        \o [i \in 1..n |-> Destroy(d + i)]

(* The i-th argument is at d + i; the vector destroys the first one first. *)
visitFunctionCall(e, d) ==
    LET n == Len(e.args)
        arg(i) == <<New(d + i)>> \o evaluate(d + i, e.args[i])
                      \o When(refCounted(e.args[i]), <<Needed(d + i)>>)
    IN  FlattenSeq([i \in 1..n |-> arg(i)])
        \o <<Invoke(InvokeFunction(d, e.name, [i \in 1..n |-> d + i]), TRUE)>>
        \o When(refCounted(e), <<Needed(d)>>)
        \o [i \in 1..n |-> Destroy(d + i)]

visitGlobalVariableRef(e, d) ==
    noSideEffect(d)
    \o <<Emit(GlobalReadLock(e.name)), Emit(GlobalGet(d, e.name))>>
    \o When(refCounted(e), <<Emit(RefInc(d))>>)
    \o <<Emit(GlobalReadUnlock(e.name))>>

visitInvokeBinaryOperator(e, d) ==
    noSideEffect(d)
    \o <<New(d + 1)>> \o evaluate(d + 1, e.args[1])
    \o When(refCounted(e.args[1]), <<Needed(d + 1)>>)
    \o <<New(d + 2)>> \o evaluate(d + 2, e.args[2])
    \o When(refCounted(e.args[2]), <<Needed(d + 2)>>)
    \o <<Invoke(InvokeBinaryOperator(d, e.name, d + 1, d + 2),
                BinaryOperator[e.name].canThrow)>>
    \o When(refCounted(e), <<Needed(d)>>)
    \o <<Destroy(d + 2), Destroy(d + 1)>>

(* The conversion of the destination instead of the operand. *)
visitInvokeConversionOfDest(e, d) ==
    noSideEffect(d)
    \o <<New(d + 1)>> \o evaluate(d + 1, e.args[1])
    \o When(refCounted(e.args[1]), <<Needed(d + 1)>>)
    \o <<Invoke(InvokeConversion(d, e.name, d), Conversion[e.name].canThrow)>>
    \o When(refCounted(e), <<Needed(d)>>)
    \o <<Destroy(d + 1)>>

visitInvokeConversion(e, d) ==
    noSideEffect(d)
    \o <<New(d + 1)>> \o evaluate(d + 1, e.args[1])
    \o When(refCounted(e.args[1]), <<Needed(d + 1)>>)
    \o <<Invoke(InvokeConversion(d, e.name, d + 1), Conversion[e.name].canThrow)>>
    \o When(refCounted(e), <<Needed(d)>>)
    \o <<Destroy(d + 1)>>

visitLocalVariableInit(e, d) ==
    evaluate(d, e.args[1])
    \o When(refCounted(e), consumeDest(d))
    \o <<Emit(LocalSet(e.name, d))>>
    \o When(refCounted(e), <<Push(e.name)>>)

(* No reference of its own. *)
visitLocalVariableRefBorrowed(e, d) ==
    noSideEffect(d) \o <<Emit(LocalGet(d, e.name))>>

visitLocalVariableRef(e, d) ==
    noSideEffect(d) \o <<Emit(LocalGet(d, e.name))>>
    \o When(refCounted(e), <<Emit(RefInc(d))>>)

visitExpression(e, d) ==
    CASE e.kind = "Assignment"           -> visitAssignment(e, d)
      [] e.kind = "CompoundAssignment"   -> visitCompoundAssignment(e, d)
      [] e.kind = "FunctionCall"         -> visitFunctionCall(e, d)
      [] e.kind = "GlobalVariableRef"    -> visitGlobalVariableRef(e, d)
      [] e.kind = "IntLiteral"           -> noSideEffect(d) \o <<Emit(ConstInt(d))>>
      [] e.kind = "InvokeBinaryOperator" -> visitInvokeBinaryOperator(e, d)
      [] e.kind = "InvokeConversion"     -> visitInvokeConversion(e, d)
      [] e.kind = "LocalVariableInit"    -> visitLocalVariableInit(e, d)
      [] e.kind = "LocalVariableRef"     -> visitLocalVariableRef(e, d)
      [] e.kind = "NothingLiteral"       -> noSideEffect(d) \o <<Emit(ConstNothing(d))>>
      [] e.kind = "StringLiteralRef"     ->
            noSideEffect(d) \o <<Emit(ConstString(d, e.name)), Emit(RefInc(d))>>

-----------------------------------------------------------------------------
(* Statements. *)

visitIf(s) ==
    LET trueBlock  == Len(blocks) + 1
        falseBlock == Len(blocks) + 2
    IN  <<NewBlock, NewBlock, New(1)>> \o evaluate(1, s.exprs[1])
        \o <<Emit(Branch(1, trueBlock, falseBlock)), Destroy(1)>>
        \o IF Len(s.stmts) = 1
           THEN <<SetBlock(trueBlock), Analyze(s.stmts[1]), Finish(falseBlock)>>
           ELSE <<SetBlock(falseBlock), Analyze(s.stmts[2]),
                  Join(trueBlock, s.stmts[1])>>

visitReturn(s) ==
    IF s.exprs = <<>> THEN <<CreateReturn(RetVoid)>>
    ELSE <<New(1)>> \o evaluate(1, s.exprs[1])
         \o When(refCounted(s.exprs[1]), <<Needed(1)>>)
         \o <<CreateReturn(Ret(1)), Done(1), Destroy(1)>>

visitTry(s) ==
    <<NewBlock, Analyze(s.stmts[1]), Join(Len(blocks) + 1, s.stmts[2])>>

visitStatement(s) ==
    CASE s.kind = "Compound" ->
            <<Mark>> \o [i \in 1..Len(s.stmts) |-> Analyze(s.stmts[i])] \o <<Unmark>>
      [] s.kind = "Expression" -> evalDiscard(s.exprs[1])
      [] s.kind = "GlobalVariableInitialization" ->
            <<New(1)>> \o evaluate(1, s.exprs[1])
            \o <<Emit(GlobalInit(s.name, 1)), Destroy(1)>>
      [] s.kind = "If"     -> visitIf(s)
      [] s.kind = "Return" -> visitReturn(s)
      [] s.kind = "Try"    -> visitTry(s)

(* A branch has been translated: its end, if it can be reached, jumps to a *)
(* new block, in which the statement will continue. *)
join(b, s) ==
    LET cont == IF isTerminated THEN NoBlock ELSE Len(blocks) + 1
    IN  When(cont # NoBlock, <<NewBlock, Emit(Jump(cont))>>)
        \o <<SetBlock(b), Analyze(s), Finish(cont)>>

finish(b) ==
    LET cont == IF b = NoBlock THEN Len(blocks) + 1 ELSE b
    IN  IF isTerminated THEN When(b # NoBlock, <<SetBlock(b)>>)
        ELSE When(b = NoBlock, <<NewBlock>>) \o <<Emit(Jump(cont)), SetBlock(cont)>>

(* FunctionScope::analyze(): each parameter takes a reference of its own   *)
(* to its value; then the initializers, the body and the return. *)
analyze(f) ==
    LET param(v) == When(isRefCounted(VarType[v]),
                         <<New(1), Emit(LocalGet(1, v)), Emit(RefInc(1)), Push(v),
                           Destroy(1)>>)
    IN  FlattenSeq([i \in 1..Len(f.params) |-> param(f.params[i])])
        \o [i \in 1..Len(f.init) |-> Analyze(f.init[i])]
        \o <<Analyze(f.body), EndFunction>>

(* A function that ends without the return of its value is not supported   *)
(* (QORE_UNREACHABLE). *)
endFunction ==
    CASE isTerminated -> <<>>
      [] ~isTerminated /\ function.type = "nothing" -> <<CreateReturn(RetVoid)>>
      [] OTHER -> <<Fail>>

-----------------------------------------------------------------------------
Init ==
    /\ BuilderInit
    /\ function \in Functions
    /\ todo = analyze(function)

(* The instruction over the temporaries of the objects it names. *)
Resolve(ins) ==
    LET temp(h) == IF h = 0 THEN NoTemp ELSE helpers[h].temp
    IN  [ins EXCEPT !.dest = temp(@), !.args = [i \in DOMAIN @ |-> temp(@[i])]]

(* The tasks that are replaced by others without a call of the builder. *)
Expansion(t) ==
    CASE t.call = "visitExpression" -> visitExpression(t.node, t.h)
      [] t.call = "visitStatement"  -> visitStatement(t.node)
      [] t.call = "join"            -> join(t.h, t.node)
      [] t.call = "finish"          -> finish(t.h)
      [] t.call = "end"             -> endFunction

Expand ==
    /\ Head(todo).call \in {"visitExpression", "visitStatement", "join", "finish",
                            "end"}
    /\ todo' = Expansion(Head(todo)) \o Tail(todo)
    /\ UNCHANGED builderVars

IsLValue(e) == e.kind \in {"GlobalVariableRef", "LocalVariableRef"}

(* The call of the builder at the head of todo. *)
CallBuilder(t) ==
    \/ t.call = "TempHelper" /\ NewTemp(t.h)
    \/ t.call = "TempHelperExternal" /\ WrapTemp(t.h, helpers[t.x].temp)
    \/ t.call = "derefNeeded" /\ derefNeeded(t.h)
    \/ t.call = "derefDone" /\ derefDone(t.h)
    \/ t.call = "~TempHelper" /\ DestroyTemp(t.h)
    \/ t.call = "LValue" /\ IF IsLValue(t.node) THEN OpenLValue(t.node.name)
                            ELSE NotImplemented
    \/ t.call = "~LValue" /\ CloseLValue(t.node.name)
    \/ t.call = "create" /\ Create(Resolve(t.ins))
    \/ t.call = "createInvoke" /\ CreateInvoke(Resolve(t.ins), TRUE)
    \/ t.call = "createInvokeNoexcept" /\ CreateInvoke(Resolve(t.ins), FALSE)
    \/ t.call = "createRet" /\ CreateRet(Resolve(t.ins))
    \/ t.call = "localsPush" /\ localsPush(t.node.name)
    \/ t.call = "LocalsStackMarker" /\ PushMarker(NoBlock)
    \/ t.call = "~LocalsStackMarker" /\ PopMarker
    \/ t.call = "createBlock" /\ createBlock
    \/ t.call = "setCurrentBlock" /\ setCurrentBlock(t.h)
    \/ t.call = "notImplemented" /\ NotImplemented

Running == status = "ok" /\ loop.kind = "none" /\ todo # <<>>

Translate ==
    /\ Running /\ UNCHANGED function
    /\ Expand \/ (CallBuilder(Head(todo)) /\ todo' = Tail(todo))

LoopStep == (PopStep \/ RetStep \/ RetDone) /\ UNCHANGED pass2Vars

Next == Translate \/ LoopStep

Spec == Init /\ [][Next]_<<builderVars, pass2Vars>>

(* The function has been translated. *)
Translated == todo = <<>> /\ loop.kind = "none" /\ status = "ok"
-----------------------------------------------------------------------------
(* The analyzer is a client of the builder: its visitors, whatever they    *)
(* are nested in, use the builder in a way that RaiiClient allows.  The    *)
(* evaluations under way are known by the objects that wrap a temporary of *)
(* their caller. *)

External == {h \in DOMAIN helpers : helpers[h].external}

SimpleCode ==
    LET T == Temps
    IN  {ConstInt(t) : t \in T} \cup {ConstNothing(t) : t \in T}
        \cup {RefInc(t) : t \in T}
        \cup {ConstString(t, s) : t \in T, s \in Literals}
        \cup {LocalGet(t, v) : t \in T, v \in Locals}
        \cup {LocalSet(v, t) : t \in T, v \in Locals}
        \cup UNION {{GlobalGet(t, g), GlobalSet(g, t), GlobalInit(g, t),
                     GlobalReadLock(g), GlobalReadUnlock(g)} :
                        t \in T, g \in Globals}

InvokeCode ==
    LET T == Temps
    IN  {InvokeBinaryOperator(d, o, l, r) :
            d \in T, o \in DOMAIN BinaryOperator, l \in T, r \in T}
        \cup {InvokeConversion(d, c, t) :
                 d \in T, c \in DOMAIN Conversion, t \in T}
        \cup {InvokeFunction(d, g, ts) :
                 d \in T, g \in Callees, ts \in SeqOf(T, 2)}

Client == INSTANCE RaiiClient WITH
    Handles <- Addresses,
    MaxBlocks <- 99, MaxCode <- 99, MaxScopes <- 99,
    frames <- SetToSortSeq(External, <)

IsClient == Client!Spec
=============================================================================
