------------------------------ MODULE Programs ------------------------------
(***************************************************************************)
(* Functions for the runs of Pass2 and System, as syntax trees that the    *)
(* first pass analyzes.  "gs" and "gi" are global variables, "p" is a      *)
(* parameter.  A name with a ' stands for another variable of that name.   *)
(***************************************************************************)
EXTENDS Pass1

MCGlobals    == {"gs", "gi"}
MCLocals     == {"p", "s", "s'", "i", "t", "t'", "a", "gs'"}
MCNameOf     == [v \in MCLocals |-> CASE v \in {"s", "s'"} -> "s"
                                      [] v \in {"t", "t'"} -> "t"
                                      [] v = "gs'"         -> "gs"
                                      [] OTHER             -> v]
MCVarType    == [v \in MCGlobals \cup MCLocals |->
                    CASE v \in {"gs", "s", "s'", "t", "t'", "gs'"} -> "string"
                      [] v \in {"gi", "i"} -> "int"
                      [] v \in {"p", "a"} -> "any"]
MCRefCounted == MCLocals \ {"i"}

Takes(type, params) == [type |-> type, params |-> params]
MCSignature  == [f0 |-> Takes("string", <<>>), f1 |-> Takes("string", <<"any">>),
                 f2 |-> Takes("string", <<"any", "any">>),
                 n0 |-> Takes("int", <<>>), n1 |-> Takes("int", <<"any">>),
                 n2 |-> Takes("int", <<"string", "softstring">>),
                 m1 |-> Takes("int", <<"softint">>)]
MCCalleeType == [c \in DOMAIN MCSignature |-> MCSignature[c].type]
MCCallees    == DOMAIN MCSignature

-----------------------------------------------------------------------------
(* Short names for the nodes of syntax trees *)
gs == NameExpression("gs")
gi == NameExpression("gi")
p  == NameExpression("p")
s  == NameExpression("s")
i  == NameExpression("i")
t  == NameExpression("t")
a  == NameExpression("a")
x  == LiteralExpression("String", "x")
one     == LiteralExpression("Integer", NoName)
f(args) == CallExpression(<<"f0", "f1", "f2">>[Len(args) + 1], args)
n(args) == CallExpression(<<"n0", "n1", "n2">>[Len(args) + 1], args)
m(arg)  == CallExpression("m1", <<arg>>)

Plus(l, r)           == BinaryExpression(l, r)
Set(l, e)            == AssignmentExpression("Assign", l, e)
Add(l, e)            == AssignmentExpression("AssignPlus", l, e)
StringVar(id, e)     == VarDeclExpression(id, "string", <<e>>)
IntVar(id, e)        == VarDeclExpression(id, "int", <<e>>)
AnyVar(id, e)        == VarDeclExpression(id, "any", <<e>>)
DefaultVar(id, type) == VarDeclExpression(id, type, <<>>)

Do(e)          == ExpressionStatement(e)
Block(stmts)   == CompoundStatement(stmts)
Return(e)      == ReturnStatement(<<e>>)
Returns        == ReturnStatement(<<>>)
When1(c, b)    == IfStatement(c, <<b>>)
When2(c, b, d) == IfStatement(c, <<b, d>>)
Guarded(b, c)  == TryStatement(b, c)

Routine(params, type, init, body) ==
    [params |-> params, type |-> type, init |-> init, body |-> Block(body)]

P == <<[id |-> "p", type |-> "any"]>>
Sub(body)         == Routine(<<>>, "nothing", <<>>, body)
SubOf(params, body)  == Routine(params, "nothing", <<>>, body)
StringSub(params, body) == Routine(params, "string", <<>>, body)

(* What the first pass makes of those it does not refuse. *)
Analyzed(routines) ==
    {r \in {analyzeRoutine(routine, MCGlobals) : routine \in routines} : r.ok}

-----------------------------------------------------------------------------
(* Every expression without operands, and every operation with them: each  *)
(* operand is a literal, a local or global variable or a call. *)
Simple == {x, s, gs, p, f(<<>>), one, gi}

Operations(E) ==
    {Plus(l, r) : l \in Simple, r \in E}
    \cup {Set(l, e) : l \in {gs, s, gi, p}, e \in E}
    \cup {Add(l, e) : l \in {gs, s, gi, p}, e \in E}
    \cup {StringVar("t", e) : e \in E}
    \cup {f(<<e, s>>) : e \in E} \cup {n(<<x, e>>) : e \in E}

(* Operations whose operands are operations that need a temporary, a lock, *)
(* a scope or a conversion themselves. *)
Nested == {
    Set(gs, Set(s, gs)), Add(gs, Add(s, gs)), Add(p, Add(p, gi)),
    Set(p, f(<<Set(gs, s), gs>>)), Plus(StringVar("t", f(<<>>)), Set(gs, t)),
    f(<<StringVar("t", gs), Add(t, t)>>), Plus(Plus(p, gi), f(<<Plus(s, s)>>)),
    n(<<x, Set(gi, n(<<p>>))>>), Set(gi, m(gs))}

(* sub fn(any p) { string s = "x"; e; } *)
ExpressionFunction(e) == SubOf(P, <<Do(StringVar("s", x)), Do(e)>>)

(* An expression without a side effect is assigned to something. *)
Used(e) ==
    IF e.kind \in {"Assign", "AssignPlus", "Call", "VarDecl"} THEN e ELSE Set(p, e)

ExpressionFunctions ==
    {ExpressionFunction(e) : e \in Simple \cup Nested}
    \cup {ExpressionFunction(Used(e)) :
             e \in Simple \cup Operations(Simple) \cup Nested}

(* Fewer operands, for the code that is executed twice (MCNative). *)
ExecutedFunctions ==
    {ExpressionFunction(Used(e)) :
        e \in Simple \cup Operations({gs, p, gi}) \cup Nested}

(* Scopes, branches, returns and what follows them. *)
StatementFunctions == {
    StringSub(<<>>, <<Do(StringVar("s", x)),
                      Block(<<Do(StringVar("t", f(<<s>>))), Return(t)>>)>>),
    StringSub(P, <<Do(StringVar("s", gs)), When1(gi, Return(s)), Do(Set(s, f(<<p>>))),
                   Return(s)>>),
    StringSub(P, <<When2(n(<<>>), Return(p), Return(f(<<p>>)))>>),
    SubOf(P, <<When2(gi, Do(StringVar("s", f(<<p>>))), Do(StringVar("t", gs))),
               When1(Plus(gi, n(<<gs>>)), Do(Set(gs, x)))>>),
    Sub(<<Do(StringVar("s", f(<<>>))),
          When2(gi, Returns, Block(<<Do(StringVar("t", s)), Returns>>))>>),
    Sub(<<When1(n(<<StringVar("s", x)>>), Do(Set(gs, s))), Returns, Do(gs)>>),
    StringSub(<<>>, <<When1(gi, Return(gs))>>),
    StringSub(P, <<Do(IntVar("i", n(<<>>))),
          When2(i, Do(StringVar("s", f(<<p>>))),
                   Block(<<Do(StringVar("t", gs)), Return(t)>>)),
          When1(Plus(i, n(<<gs>>)), Do(Set(gs, x))), Return(gs)>>),
    Sub(<<Do(IntVar("i", gi)), Guarded(Do(StringVar("s", f(<<>>))), Do(Set(gi, i)))>>),
    Sub(<<Guarded(Do(f(<<gs>>)), Returns), Do(Set(gs, x))>>),
    Sub(<<Guarded(Returns, Returns)>>),
    Sub(<<Do(DefaultVar("a", "any")), Do(Set(gs, x))>>),
    Sub(<<Do(DefaultVar("s", "string")), Do(AnyVar("a", gi)), Do(Add(a, s))>>),
    Routine(<<>>, "nothing",
        <<GlobalVariableInitialization("gs", DefaultFor("string")),
          GlobalVariableInitialization("gi", DefaultFor("int"))>>,
        <<Do(StringVar("s", gs)), Do(Add(gs, s))>>)}

(* One name, several variables: an inner one, one after the other, one of  *)
(* each branch, one instead of a global variable or a parameter; the last  *)
(* one of two parameters; and a variable out of its scope, to be refused.  *)
ShadowingFunctions == {
    StringSub(<<>>, <<Do(StringVar("s", x)),
                      Block(<<Do(StringVar("s", gs)), Do(Set(gs, s))>>), Return(s)>>),
    Sub(<<Block(<<Do(StringVar("t", gs))>>),
          Block(<<Do(StringVar("t", x)), Do(Set(gs, t))>>)>>),
    Sub(<<When2(n(<<StringVar("s", gs)>>), Do(StringVar("s", x)), Do(Add(s, s))),
          Do(Set(gs, x))>>),
    Sub(<<Do(StringVar("s", x)), When1(n(<<StringVar("s", f(<<gs>>))>>), Do(Add(gs, s))),
          Do(Set(gs, s))>>),
    Sub(<<Do(StringVar("gs", x)), Do(Set(gs, f(<<>>))), Returns>>),
    Sub(<<When2(gi, Do(StringVar("t", x)), Do(Set(gs, t)))>>),
    Sub(<<Guarded(Do(StringVar("t", f(<<>>))), Do(Set(gs, t)))>>),
    SubOf(<<[id |-> "s", type |-> "string"]>>,
          <<When1(gi, Do(StringVar("s", x))), Do(Set(gs, s))>>),
    SubOf(<<[id |-> "s", type |-> "string"], [id |-> "s", type |-> "string"]>>,
          <<Do(Add(gs, s))>>)}

MCFunctions ==
    Analyzed(ExpressionFunctions \cup StatementFunctions \cup ShadowingFunctions)
MCExecutedFunctions ==
    Analyzed(ExecutedFunctions \cup StatementFunctions \cup ShadowingFunctions)
MCStatementFunctions == Analyzed(StatementFunctions)

(* Everything that may throw is in the try block. *)
MCTryFunctions == Analyzed({
    Sub(<<Guarded(Do(Set(gs, e)), Do(Set(gi, one)))>>) :
        e \in {x, f(<<>>), f(<<gs>>), Plus(gs, x)}})
=============================================================================
