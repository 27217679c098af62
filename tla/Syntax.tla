------------------------------- MODULE Syntax -------------------------------
(***************************************************************************)
(* The temporary representation of a function between the two passes of    *)
(* the analyzer (include/qore/comp/sem/expr and stmt), built the way the   *)
(* first pass does: a visitor of pass 1 is an operator that is given the   *)
(* results for the children of its node.  Names are resolved.              *)
(***************************************************************************)
EXTENDS Types

CONSTANT VarType   \* the type of each variable, a function from names

(* args: the subexpressions, from left to right. *)
Expr(kind, type, name, args) ==
    [kind |-> kind, type |-> type, name |-> name, args |-> args]

(* What pass 1 makes of an expression it cannot translate: the process     *)
(* ends (QORE_NOT_IMPLEMENTED). *)
NoExpr == Expr("none", "nothing", NoName, <<>>)

IntLiteral           == Expr("IntLiteral", "int", NoName, <<>>)
StringLiteral(s)     == Expr("StringLiteralRef", "string", s, <<>>)
NothingLiteral       == Expr("NothingLiteral", "nothing", NoName, <<>>)
GlobalVariableRef(g) == Expr("GlobalVariableRef", VarType[g], g, <<>>)
LocalVariableRef(v)  == Expr("LocalVariableRef", VarType[v], v, <<>>)

InvokeConversionExpr(c, e) ==
    Expr("InvokeConversion", Conversion[c].to, c, <<e>>)

InvokeBinaryOperatorExpr(o, l, r) ==
    Expr("InvokeBinaryOperator", BinaryOperator[o].result, o, <<l, r>>)

(* ExpressionAnalyzerPass1::convert() *)
Convert(e, type) ==
    LET c == FindConversion(e.type, type)
    IN  CASE e = NoExpr \/ c = Unsupported -> NoExpr
          [] e # NoExpr /\ c = NoName -> e
          [] OTHER -> InvokeConversionExpr(c, e)

(* visit(ast::BinaryExpression): whatever the operator is, it is resolved  *)
(* as a plus. *)
Binary(l, r) ==
    LET o  == FindPlus(l.type, r.type)
        l2 == Convert(l, BinaryOperator[o].left)
        r2 == Convert(r, BinaryOperator[o].right)
    IN  IF o = Unsupported \/ NoExpr \in {l2, r2} THEN NoExpr
        ELSE InvokeBinaryOperatorExpr(o, l2, r2)

(* visit(ast::AssignmentExpression), for = and for +=: any expression may  *)
(* stand on the left. *)
Assign(l, e) ==
    LET r == Convert(e, l.type)
    IN  IF NoExpr \in {l, r} THEN NoExpr
        ELSE Expr("Assignment", l.type, NoName, <<l, r>>)

AssignPlus(l, e) ==
    LET o == FindPlusEquals(l.type)
        r == Convert(e, BinaryOperator[o].right)
    IN  IF o = Unsupported \/ NoExpr \in {l, r} THEN NoExpr
        ELSE Expr("CompoundAssignment", l.type, o, <<l, r>>)

(* visit(ast::VarDeclExpression) with an initializer *)
VarDecl(v, e) ==
    LET init == Convert(e, VarType[v])
    IN  IF init = NoExpr THEN NoExpr
        ELSE Expr("LocalVariableInit", VarType[v], v, <<init>>)

(* ... and without: the default value, as it is. Core::defaultFor() *)
DefaultFor(type) ==
    CASE type = "string" -> StringLiteral("")
      [] type = "int"    -> IntLiteral
      [] type \notin {"string", "int"} /\ acceptsNothing(type) -> NothingLiteral
      [] OTHER -> NoExpr

VarDeclDefault(v) ==
    Expr("LocalVariableInit", VarType[v], v, <<DefaultFor(VarType[v])>>)

(* visit(ast::CallExpression) of a function and its converted arguments    *)
(* (see Pass1 for how they are found). *)
Call(f, type, args) == Expr("FunctionCall", type, f, args)

-----------------------------------------------------------------------------
(* Statements: name is the global variable, exprs and stmts the parts. *)
Stmt(kind, name, exprs, stmts) ==
    [kind |-> kind, name |-> name, exprs |-> exprs, stmts |-> stmts]

Compound(stmts) == Stmt("Compound", NoName, <<>>, stmts)
Expression(e)   == Stmt("Expression", NoName, <<e>>, <<>>)
GlobalVariableInitialization(g, e) ==
    Stmt("GlobalVariableInitialization", g, <<e>>, <<>>)
Try(body, catch) ==
    Stmt("Try", NoName, <<>>, <<Compound(<<body>>), Compound(<<catch>>)>>)
ReturnVoid      == Stmt("Return", NoName, <<>>, <<>>)

(* visit(ast::ReturnStatement) in a function with this return type *)
ReturnValue(e, type) == Stmt("Return", NoName, <<Convert(e, type)>>, <<>>)

(* visit(ast::IfStatement): each branch is a scope of its own, and so is   *)
(* the statement with the variables declared in its condition. *)
If(cond, b1) ==
    Compound(<<Stmt("If", NoName, <<Convert(cond, "softbool")>>,
                    <<Compound(<<b1>>)>>)>>)
IfElse(cond, b1, b2) ==
    Compound(<<Stmt("If", NoName, <<Convert(cond, "softbool")>>,
                    <<Compound(<<b1>>), Compound(<<b2>>)>>)>>)
=============================================================================
