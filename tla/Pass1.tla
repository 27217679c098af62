-------------------------------- MODULE Pass1 --------------------------------
(***************************************************************************)
(* The first pass over the body of a function: what the names in a syntax  *)
(* tree mean (FunctionScope, BlockScope), which function is called with    *)
(* which conversions, and in which order it is all looked at.  The trees   *)
(* it makes are those of Syntax.  A local variable that is created is one  *)
(* of the variables of its name and type that the function does not have   *)
(* yet.                                                                    *)
(***************************************************************************)
EXTENDS Syntax, SequencesExt

CONSTANTS NameOf,     \* the identifier of each local variable
          Signature   \* the return and parameter types of each function

(* The syntax tree of the parser.  parts: the subexpressions, then the     *)
(* statements. *)
Node(kind, id, type, parts) == [kind |-> kind, id |-> id, type |-> type, parts |-> parts]
Inner(kind, parts)          == Node(kind, NoName, NoName, parts)

NameExpression(id)                == Node("Name", id, NoName, <<>>)
LiteralExpression(token, id)      == Node(token, id, NoName, <<>>)
VarDeclExpression(id, type, init) == Node("VarDecl", id, type, init)
CallExpression(callee, args)      == Node("Call", callee, NoName, args)
BinaryExpression(l, r)            == Inner("Binary", <<l, r>>)
AssignmentExpression(op, l, r)    == Inner(op, <<l, r>>)

ExpressionStatement(e)   == Inner("Expression", <<e>>)
CompoundStatement(stmts) == Inner("Compound", stmts)
ReturnStatement(e)       == Inner("Return", e)
IfStatement(c, branches) == Inner("If", <<c>> \o branches)
TryStatement(b, c)       == Inner("Try", <<b, c>>)

(* Where the pass is: "inner" are the block scopes, the current one last,  *)
(* "args" the parameters of the function scope (identifier -> variable),   *)
(* "locals" the variables created, "globals" those that can be found;      *)
(* ~ok: the process has ended (QORE_NOT_IMPLEMENTED, QORE_UNREACHABLE). *)
Scope(args, globals, returnType) ==
    [inner |-> <<>>, args |-> args, locals |-> {args[n] : n \in DOMAIN args},
     globals |-> globals, returnType |-> returnType, ok |-> TRUE]

Result(tree, scope) == [tree |-> tree, scope |-> scope]
Evaluated(e, scope) == Result(e, [scope EXCEPT !.ok = @ /\ e # NoExpr])

(* The variables that there are bound how many can be created. *)
Unused(scope, id, type) ==
    {v \in DOMAIN NameOf \ scope.locals : NameOf[v] = id /\ VarType[v] = type}
createLocalVariable(scope, id, type) == CHOOSE v \in Unused(scope, id, type) : TRUE

(* BlockScope::declareLocalVariable() *)
isDeclared(scope, id) == id \in DOMAIN Last(scope.inner)
declareLocalVariable(scope, id, type) ==
    LET lv == createLocalVariable(scope, id, type)
    IN  [scope EXCEPT !.inner[Len(scope.inner)] = (id :> lv) @@ @,
                      !.locals = @ \cup {lv}]

(* resolveSymbol() of the block scopes, the function and the namespace *)
Containing(scope, id) == {b \in DOMAIN scope.inner : id \in DOMAIN scope.inner[b]}
FunctionGroup(id) == Expr("FunctionGroup", "<function group>", id, <<>>)

resolveName(scope, id) ==
    LET B == Containing(scope, id)
    IN  CASE B # {} -> LocalVariableRef(scope.inner[Max(B)][id])
          [] B = {} /\ id \in DOMAIN scope.args -> LocalVariableRef(scope.args[id])
          [] B = {} /\ id \notin DOMAIN scope.args /\ id \in scope.globals ->
                GlobalVariableRef(id)
          [] B = {} /\ id \notin DOMAIN scope.args \cup scope.globals
                /\ id \in DOMAIN Signature -> FunctionGroup(id)
          [] OTHER -> NoExpr

(* FunctionGroup::resolveOverload() of a group with one function *)
resolveOverload(callee, args) ==
    LET params    == Signature[callee.name].params
        converted == [i \in DOMAIN args |-> Convert(args[i], params[i])]
    IN  IF callee.kind # "FunctionGroup" \/ Len(args) # Len(params)
           \/ NoExpr \in ToSet(converted) THEN NoExpr
        ELSE Call(callee.name, Signature[callee.name].type, converted)

-----------------------------------------------------------------------------
(* ExpressionAnalyzerPass1::visit() and StatementAnalyzerPass1::visit().   *)
(* What is not listed is not implemented.                                  *)
RECURSIVE evalNode(_, _), evalNodes(_, _), analyzeNode(_, _), analyzeNodes(_, _)

(* One after the other, in the scope that the ones before have left *)
Then(before, r) == Result(Append(before.tree, r.tree), r.scope)

evalNodes(nodes, scope) ==
    LET before == evalNodes(Front(nodes), scope)
    IN  IF nodes = <<>> THEN Result(<<>>, scope)
        ELSE Then(before, evalNode(Last(nodes), before.scope))

analyzeNodes(nodes, scope) ==
    LET before == analyzeNodes(Front(nodes), scope)
    IN  IF nodes = <<>> THEN Result(<<>>, scope)
        ELSE Then(before, analyzeNode(Last(nodes), before.scope))

(* The variable is in scope before its initializer. *)
visitVarDecl(node, scope) ==
    LET declared == declareLocalVariable(scope, node.id, node.type)
        lv       == Last(declared.inner)[node.id]
        init     == evalNode(node.parts[1], declared)
    IN  CASE isDeclared(scope, node.id) \/ Unused(scope, node.id, node.type) = {} ->
                Evaluated(NoExpr, scope)
          [] ~isDeclared(scope, node.id) /\ node.parts = <<>> ->
                Evaluated(VarDeclDefault(lv), declared)
          [] OTHER -> Evaluated(VarDecl(lv, init.tree), init.scope)

evalNode(node, scope) ==
    LET parts == evalNodes(node.parts, scope)
    IN  CASE node.kind = "VarDecl" -> visitVarDecl(node, scope)
          [] node.kind = "Name"    -> Evaluated(resolveName(scope, node.id), scope)
          [] node.kind = "String"  -> Evaluated(StringLiteral(node.id), scope)
          [] node.kind = "Integer" -> Evaluated(IntLiteral, scope)
          [] node.kind = "Binary"  ->
                Evaluated(Binary(parts.tree[1], parts.tree[2]), parts.scope)
          [] node.kind = "Assign"  ->
                Evaluated(Assign(parts.tree[1], parts.tree[2]), parts.scope)
          [] node.kind = "AssignPlus" ->
                Evaluated(AssignPlus(parts.tree[1], parts.tree[2]), parts.scope)
          [] node.kind = "Call"    ->   \* the callee after the arguments
                Evaluated(resolveOverload(resolveName(parts.scope, node.id), parts.tree),
                          parts.scope)

Enter(scope)        == [scope EXCEPT !.inner = Append(@, <<>>)]
Leave(after, scope) == [after EXCEPT !.inner = scope.inner]

analyzeWithNewBlock(node, scope) ==
    LET r == analyzeNode(node, Enter(scope))
    IN  Result(r.tree, Leave(r.scope, scope))

visitReturnNode(node, scope) ==
    LET e == evalNode(node.parts[1], scope)
    IN  CASE (node.parts = <<>>) # (scope.returnType = "nothing") ->
                Result(ReturnVoid, [scope EXCEPT !.ok = FALSE])
          [] node.parts = <<>> /\ scope.returnType = "nothing" -> Result(ReturnVoid, scope)
          [] OTHER -> LET s == ReturnValue(e.tree, scope.returnType)
                      IN  Result(s, Evaluated(s.exprs[1], e.scope).scope)

visitIfNode(node, scope) ==
    LET cond == evalNode(node.parts[1], Enter(scope))
        b1   == analyzeWithNewBlock(node.parts[2], cond.scope)
        b2   == analyzeWithNewBlock(node.parts[3], b1.scope)
        s    == IF Len(node.parts) = 2 THEN If(cond.tree, b1.tree)
                ELSE IfElse(cond.tree, b1.tree, b2.tree)
        last == IF Len(node.parts) = 2 THEN b1 ELSE b2
    IN  Result(s, Leave(Evaluated(s.stmts[1].exprs[1], last.scope).scope, scope))

analyzeNode(node, scope) ==
    LET e     == evalNode(node.parts[1], scope)
        body  == analyzeNodes(node.parts, Enter(scope))
        try   == analyzeWithNewBlock(node.parts[1], scope)
        catch == analyzeWithNewBlock(node.parts[2], try.scope)
    IN  CASE node.kind = "Expression" -> Result(Expression(e.tree), e.scope)
          [] node.kind = "Compound"   ->
                Result(Compound(body.tree), Leave(body.scope, scope))
          [] node.kind = "Return"     -> visitReturnNode(node, scope)
          [] node.kind = "If"         -> visitIfNode(node, scope)
          [] node.kind = "Try"        ->
                Result(Try(try.tree, catch.tree), catch.scope)

-----------------------------------------------------------------------------
(* FunctionScope::analyze(), the beginning: of parameters with the same    *)
(* name the last one is found.  routine: [params, type, init, body]; its   *)
(* params are [id, type]. *)
paramsScope(routine, globals) ==
    LET P == routine.params
        add(scope, i) ==
            LET lv == createLocalVariable(scope, P[i].id, P[i].type)
            IN  [scope EXCEPT !.args = (P[i].id :> lv) @@ @, !.locals = @ \cup {lv}]
    IN  FoldLeft(add, Scope(<<>>, globals, routine.type), [i \in DOMAIN P |-> i])

analyzeRoutine(routine, globals) ==
    LET scope == paramsScope(routine, globals)
        body  == analyzeNode(routine.body, scope)
        ids   == SetToSeq(DOMAIN scope.args)
    IN  [params |-> [i \in DOMAIN ids |-> scope.args[ids[i]]], type |-> routine.type,
         init |-> routine.init, body |-> body.tree, ok |-> body.scope.ok]
=============================================================================
