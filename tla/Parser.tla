------------------------------- MODULE Parser -------------------------------
(***************************************************************************)
(* The parser: recursive descent over tokens, with one token of lookahead, *)
(* a recorder that lets it read some tokens again (TokenQueue), and the    *)
(* recovery after an error.                                                *)
(*                                                                         *)
(* A function of the parser is the sequence of steps it takes, in the      *)
(* order of the code; where it looks at the next token it is a Call, which *)
(* is replaced by the steps that follow for this token.  "todo" is thus    *)
(* the C++ stack.  Types of tokens the parser treats alike are one here;   *)
(* commas, semicolons and braces have their names of TokenType.            *)
(* What it builds of the tokens is left out.                               *)
(* Some definitions have a slip above them, which the model does not use.  *)
(***************************************************************************)
EXTENDS Integers, Sequences, FiniteSets, SequencesExt, FiniteSetsExt

CONSTANTS Sources, \* [types, length, session]: the sources there may be, by the
                   \* types of their tokens and the number of tokens at most,
                   \* and whether parseDeclOrStmt() or parseScript() reads them
          MaxTail  \* bound: the tokens after that of the first error

ASSUME ParserAssumption ==
    /\ \A s \in Sources : s.length \in Nat /\ s.session \in BOOLEAN
    /\ MaxTail \in Nat \ {0}

VARIABLES
  source,     \* one of Sources
  scanned,    \* history: what has been scanned, as long as there is no error
  last,       \* the number of tokens scanned
  limit,      \* bound on it
  ended,      \* the scanner has met the end
  parsed,     \* the position of the last token that is consumed for good
  queue,      \* TokenQueue::queue
  token, hasToken,
  recording,  \* there is a recorder
  recorded,   \* its tokens
  todo,       \* the steps still to be taken
  failed,     \* something has been reported: an error, or that modules are ignored
  disabledCounter, \* of DiagManager
  suppressed, \* something has been reported while diagnostics were disabled
  skipped,    \* history: the types of the tokens that the recovery under way
              \* has consumed
  status      \* "running" or "assert"

sourceVars   == <<source, scanned, last, limit, ended>>
tokenVars    == <<queue, token, hasToken>>
recorderVars == <<recording, recorded, parsed>>
diagVars     == <<failed, disabledCounter, suppressed, skipped>>
vars == <<sourceVars, tokenVars, recorderVars, todo, diagVars, status>>

-----------------------------------------------------------------------------
(* Steps *)

Step(op, arg1, arg2) == <<op, arg1, arg2>>
Match(type)      == Step("match", type, "recoverDoNothing")
MatchOrSkip(type) == Step("match", type, "recoverSkipToSemicolon")
Call(f)          == Step("call", f, "")
CallWith(f, arg) == Step("call", f, arg)
Consume          == Step("consume", "", "")
EnsureToken      == Step("ensureToken", "", "")
Report           == Step("report", "", "")
Disable          == Step("disable", "", "")
Enable           == Step("enable", "", "")
ReadRegex        == Step("readRegex", "", "")
Record           == Step("record", "", "")
Stop             == Step("stop", "", "")
Rewind           == Step("rewind", "", "")
DestroyRecorder  == Step("destroyRecorder", "", "")

(* recoverSkipToCurlyRight(), recoverSkipToSemicolon(): DisableDiag is an   *)
(* object of theirs, which each way out of the loop destroys.              *)
MutedForGood(loop) == <<Disable, loop>>
Muted(loop)        == <<Disable, loop, Enable>>
SkipToCurlyRight   == Muted(Step("skip", "curlyRight", 0))
SkipToSemicolon    == Muted(Step("skip", "semicolon", 0))

Modifier    == {"static", "private"}
StartOfName == {"id", "::"}

(* Names and types *)
name(t) == CASE t = "::" -> <<Call("names")>>
             [] t = "id" -> <<Consume, Call("names")>>
             [] OTHER    -> <<Report>>
names(t) == IF t = "::" THEN <<Consume, Call("identifier")>> ELSE <<>>
identifier(t) == IF t = "id" THEN <<Consume, Call("names")>> ELSE <<Report>>
Name == <<Call("name")>>

type(t) == IF t = "*" THEN <<Consume>> \o Name ELSE Name
Type == <<Call("type")>>

modifiers(t, mods) ==
    CASE t \in Modifier \cap mods -> <<Report, Consume, CallWith("modifiers", mods)>>
      [] t \in Modifier \ mods    -> <<Consume, CallWith("modifiers", mods \cup {t})>>
      [] OTHER                    -> <<>>
Modifiers == <<CallWith("modifiers", {})>>

-----------------------------------------------------------------------------
(* Expressions.  The operators of binary expressions, the loosest first.   *)
(* Both assignment operators and those that only occur as a prefix stand   *)
(* for several.                                                            *)

Levels == <<{"||"}, {"&&"}, {"|"}, {"^"}, {"&"}, {"<", ">", "==", "!=", "=~"},
            {"instanceof"}, {"<<"}, {"+"}, {"*", "/"}>>
InstanceofLevel == 7

(* A level and those that bind tighter: first an operand, then loops       *)
BinaryExpr(level) ==
    <<Call("prefixExpr")>>
    \o [i \in 1..(Len(Levels) - level + 1) |->
            CallWith("operators", Len(Levels) - i + 1)]

RegexAfterToken == <<EnsureToken, ReadRegex>>
Regex           == <<ReadRegex>>

operators(t, level) ==
    LET operand == CASE t = "=~"         -> Regex
                     [] t = "instanceof" -> Name
                     [] OTHER            -> BinaryExpr(level + 1)
    IN  IF t \in Levels[level]
        THEN <<Consume>> \o operand \o <<CallWith("operators", level)>>
        ELSE <<>>

CoalescingExpr == BinaryExpr(1) \o <<Call("coalescing")>>
coalescing(t)  == IF t = "??" THEN <<Consume>> \o CoalescingExpr ELSE <<>>

CondExpr       == CoalescingExpr \o <<Call("conditional")>>
AssignmentExpr == CondExpr \o <<Call("assignment")>>
Expression     == AssignmentExpr

conditional(t) == IF t = "?"
                  THEN <<Consume>> \o Expression \o <<Match(":")>> \o CondExpr
                  ELSE <<>>
assignment(t)  == IF t \in {"=", "+="} THEN <<Consume>> \o AssignmentExpr ELSE <<>>

(* What follows an expression in a list of them *)
moreExprs(t) == IF t = "comma"
                THEN <<Consume>> \o Expression \o <<Call("moreExprs")>>
                ELSE <<>>

ArgList == <<Match("("), Call("args")>>
args(t) == IF t = ")" THEN <<Match(")")>>
           ELSE Expression \o <<Call("moreExprs"), Match(")")>>

prefixExpr(t) ==
    CASE t \in {"+", "!", "++"} -> <<Consume, Call("prefixExpr")>>
      [] t = "exists" -> <<Consume>> \o BinaryExpr(InstanceofLevel)
      [] t = "map"    -> <<Consume>> \o Expression \o <<Call("moreExprs")>>
      [] OTHER        -> <<Call("primaryExpr"), Call("postfix")>>

(* The loop of postfixExpr() *)
postfix(t) ==
    CASE t = "("  -> ArgList \o <<Call("postfix")>>
      [] t = "["  -> <<Consume>> \o Expression \o <<Match("]"), Call("postfix")>>
      [] t = "curlyLeft" ->
           <<Consume>> \o Expression \o <<Match("curlyRight"), Call("postfix")>>
      [] t = "."  -> <<Consume, Call("access"), Call("postfix")>>
      [] t = "++" -> <<Consume, Call("postfix")>>
      [] OTHER    -> <<>>
access(t) ==
    CASE t = "("  -> <<Consume>> \o Expression \o <<Match(")")>>
      [] t \in {"id", "string", "$1"} -> <<Consume>>
      [] OTHER    -> <<Report>>

(* ( key : value, ... ) or { key : value, ... }, after the first key *)
Hash(end) == <<Match(":")>> \o Expression \o <<CallWith("moreElements", end)>>
moreElements(t, end) ==
    IF t = "comma" THEN <<Consume, CallWith("element", end)>> ELSE <<Match(end)>>
element(t, end) == IF t = end THEN <<Match(end)>> ELSE Expression \o Hash(end)

(* ( element, ... ), after the first element *)
list(t) == IF t = "comma" THEN <<Consume, Call("listElement")>> ELSE <<Match(")")>>
listElement(t) == IF t = ")" THEN <<Match(")")>> ELSE Expression \o <<Call("list")>>

Block == <<Match("curlyLeft"), Call("statements")>>

ParamList  == <<Match("("), Call("params")>>
Param      == Type \o <<Match("id"), Call("paramDefault")>>
params(t)  == IF t \in {")", "eof"} THEN <<Match(")")>> ELSE Param
paramDefault(t) == IF t = "=" THEN <<Consume>> \o Expression \o <<Call("moreParams")>>
                   ELSE <<Call("moreParams")>>
moreParams(t)   == IF t = "comma" THEN <<Consume>> \o Param ELSE <<Match(")")>>

Routine == ParamList \o Block
Closure == <<Match("sub")>> \o Routine

VarDecl        == <<Consume, Call("initializer")>>
initializer(t) == IF t = "=" THEN <<Consume>> \o AssignmentExpr ELSE <<>>

(* A token no expression begins with is dropped, whatever it is. *)
ErrorExpression == <<Report, Consume>>

CastExpr == <<Consume, Match("<")>> \o Type \o <<Match(">"), Match("(")>>
            \o Expression \o <<Match(")")>>

primaryExpr(t) ==
    CASE t \in {"1", "$1"}   -> <<Consume>>
      [] t \in Modifier      -> Modifiers \o <<Call("closureType")>>
      [] t = "sub"           -> Closure
      [] t = "*"             -> Type \o <<Call("afterAsterisk")>>
      [] t \in StartOfName   -> Name \o <<Call("afterNameExpr")>>
      [] t = "("             -> <<Match("("), Call("paren")>>
      [] t = "curlyLeft"             -> <<Match("curlyLeft"), Call("curly")>>
      [] t = "cast"          -> CastExpr
      [] t = "new"           -> <<Consume>> \o Name \o ArgList
      [] t = "string"        -> <<Consume, Call("strings")>>
      [] OTHER               -> ErrorExpression
closureType(t)   == IF t = "sub" THEN Closure ELSE Type \o Closure
afterAsterisk(t) == CASE t = "sub" -> Closure
                      [] t = "id"  -> VarDecl
                      [] OTHER     -> <<Report, Consume>>
afterNameExpr(t) == CASE t = "sub" -> Closure
                      [] t = "id"  -> VarDecl
                      [] OTHER     -> <<>>
paren(t) == IF t = ")" THEN <<Consume>> ELSE Expression \o <<Call("parenRest")>>
parenRest(t) == CASE t = ":" -> Hash(")")
                  [] t = "comma" -> <<Call("list")>>
                  [] OTHER   -> <<Match(")")>>
curly(t)   == IF t = "curlyRight" THEN <<Consume>>
              ELSE Expression \o Hash("curlyRight")
strings(t) == IF t = "string" THEN <<Consume, Call("strings")>> ELSE <<>>

-----------------------------------------------------------------------------
(* Statements *)

Statement      == <<Call("statement")>>
ExpressionStmt == Expression \o <<MatchOrSkip("semicolon")>>
InParens(steps) == <<Match("(")>> \o steps \o <<Match(")")>>

statementsToBrace(t) == IF t = "curlyRight" THEN <<Match("curlyRight")>>
                        ELSE <<Call("statement"), Call("statements")>>
statements(t) == IF t \in {"curlyRight", "eof"} THEN <<Match("curlyRight")>>
                 ELSE <<Call("statement"), Call("statements")>>

(* An expression that may be left out before a token *)
optional(t, end) == IF t = end THEN <<>> ELSE Expression
Optional(end)    == <<CallWith("optional", end)>>

ReturnStmt  == <<Match("return")>> \o Optional("semicolon")
               \o <<MatchOrSkip("semicolon")>>
IfStmt      == <<Match("if")>> \o InParens(Expression) \o Statement \o <<Call("else")>>
else(t)     == IF t = "else" THEN <<Consume>> \o Statement ELSE <<>>
TryStmt     == <<Match("try")>> \o Statement \o <<Match("catch")>>
               \o InParens(Type \o <<Match("id")>>) \o Statement
ForeachStmt == <<Match("foreach")>> \o Type \o <<Match("id"), Match("in")>>
               \o InParens(Expression) \o Statement
ThrowStmt   == <<Match("throw")>> \o Expression
               \o <<Call("moreExprs"), Match("semicolon")>>
WhileStmt   == <<Match("while")>> \o InParens(Expression) \o Statement
DoWhileStmt == <<Match("do")>> \o Statement \o <<Match("while")>>
               \o InParens(Expression) \o <<Match("semicolon")>>
ForStmt     == <<Match("for")>>
               \o InParens(Optional("semicolon") \o <<Match("semicolon")>>
                           \o Optional("semicolon") \o <<Match("semicolon")>>
                           \o Optional(")"))
               \o Statement

SwitchStmt  == <<Match("switch")>> \o InParens(Expression)
               \o <<Match("curlyLeft"), Call("cases")>>
cases(t) ==
    CASE t = "curlyRight"       -> <<Consume>>
      [] t = "case"    -> <<Consume, Call("caseValue"), Match(":"), Call("caseBody")>>
      [] t = "default" -> <<Consume, Match(":"), Call("caseBody")>>
      [] OTHER         -> <<Report>> \o SkipToCurlyRight \o <<Consume>>
caseValue(t) == IF t \in {"<", ">", "=="} THEN <<Consume>> \o Expression ELSE Expression
caseBody(t)  == IF t \in {"default", "case", "curlyRight"} THEN <<Call("cases")>>
                ELSE <<Call("statement"), Call("caseBody")>>

statement(t) ==
    CASE t = "semicolon"       -> <<Consume>>
      [] t = "curlyLeft"       -> Block
      [] t = "return"  -> ReturnStmt
      [] t = "if"      -> IfStmt
      [] t = "try"     -> TryStmt
      [] t = "foreach" -> ForeachStmt
      [] t = "throw"   -> ThrowStmt
      [] t = "break"   -> <<Consume, Match("semicolon")>>
      [] t = "on_exit" -> <<Consume>> \o Statement
      [] t = "while"   -> WhileStmt
      [] t = "do"      -> DoWhileStmt
      [] t = "for"     -> ForStmt
      [] t = "switch"  -> SwitchStmt
      [] OTHER         -> ExpressionStmt

-----------------------------------------------------------------------------
(* Declarations *)

Constant  == <<Match("const")>> \o Name \o <<Match("=")>> \o Expression
             \o <<Match("semicolon")>>
GlobalVariable == <<Consume>> \o Type \o Name \o <<Match("semicolon")>>
Function  == Name \o Routine

Method    == ParamList \o <<CallWith("baseCtors", ":")>>
baseCtors(t, separator) ==
    IF t = separator
    THEN <<Consume>> \o Name \o ArgList \o <<CallWith("baseCtors", "comma")>>
    ELSE <<Call("methodBody")>>
methodBody(t) == IF t = "semicolon" THEN <<Consume>> ELSE Block

ClassDecl == <<Match("class")>> \o Name \o <<CallWith("superclasses", "inherits")>>
superclasses(t, separator) ==
    IF t = separator
    THEN <<Consume>> \o Modifiers \o Name \o <<CallWith("superclasses", "comma")>>
    ELSE <<Call("classBody")>>
classBody(t) == IF t = "curlyLeft" THEN <<Consume, Call("classMembers")>>
                ELSE <<Match("semicolon")>>
classMembers(t) ==
    IF t = "curlyRight" THEN <<Consume>>
    ELSE Modifiers \o <<CallWith("classMember", t \in Modifier)>>
classMember(t, modified) ==
    CASE t = "curlyLeft" /\ modified ->
           <<Match("curlyLeft"), Call("fields"), Call("classMembers")>>
      [] t = "*" -> Type \o Name \o Method \o <<Call("classMembers")>>
      [] t \in StartOfName -> Name \o <<Call("methodName"), Call("classMembers")>>
      [] OTHER -> <<Report>> \o SkipToCurlyRight \o <<Consume>>
methodName(t) == IF t \in StartOfName THEN Name \o Method ELSE Method

(* classMemberList() *)
fields(t) == IF t = "curlyRight" THEN <<Match("curlyRight")>>
             ELSE Modifiers \o <<Call("field")>>
field(t)  == IF t = "const" THEN Constant \o <<Call("fields")>>
             ELSE Type \o <<Match("id"), Call("fieldInit")>>
fieldInit(t) ==
    (CASE t = "=" -> <<Consume>> \o Expression
       [] t = "(" -> ArgList
       [] OTHER   -> <<>>) \o <<Match("semicolon"), Call("fields")>>

NamespaceDecl == <<Match("namespace")>> \o Name \o <<Call("namespaceBody")>>
namespaceBody(t) ==
    IF t = "curlyLeft" THEN <<Consume, Call("namespaceMembers")>>
    ELSE <<Match("semicolon")>>

(* namespaceMember(), at top level or in a namespace.  When it has found a *)
(* declaration the loop of a namespace goes on, when it has not the parser *)
(* tries a statement, or leaves the namespace. *)
NamespaceMember(topLevel) ==
    <<Record>> \o Modifiers \o <<CallWith("memberKind", topLevel)>>

namespaceOpen(t) ==
    IF t \in {"curlyRight", "eof"} THEN <<Consume>> ELSE NamespaceMember(FALSE)
namespaceMembers(t) ==
    CASE t = "curlyRight"   -> <<Consume>>
      [] t = "eof" -> <<Report>>
      [] OTHER     -> NamespaceMember(FALSE)

Found(steps, topLevel) ==
    <<Stop>> \o steps \o <<DestroyRecorder>>
    \o (IF topLevel THEN <<>> ELSE <<Call("namespaceMembers")>>)
NotRewound(topLevel) ==
    <<DestroyRecorder>>
    \o (IF topLevel THEN Statement
        ELSE <<EnsureToken, Report>> \o SkipToCurlyRight \o <<Consume>>)
NotFound(topLevel) ==
    <<Rewind, DestroyRecorder>>
    \o (IF topLevel THEN Statement
        ELSE <<EnsureToken, Report>> \o SkipToCurlyRight \o <<Consume>>)

memberKind(t, topLevel) ==
    CASE t = "namespace" -> Found(NamespaceDecl, topLevel)
      [] t = "our"   -> Found(GlobalVariable, topLevel)
      [] t = "const" -> Found(Constant, topLevel)
      [] t = "class" -> Found(ClassDecl, topLevel)
      [] t = "sub"   -> <<Consume, CallWith("functionOrClosure", topLevel)>>
      [] t = "*"     -> Type \o <<CallWith("afterType", topLevel)>>
      [] t \in StartOfName -> Name \o <<CallWith("afterName", topLevel)>>
      [] OTHER       -> NotFound(topLevel)
functionOrClosure(t, topLevel) ==
    IF t \in StartOfName THEN Found(Function, topLevel) ELSE NotFound(topLevel)
afterType(t, topLevel) ==
    CASE t = "sub" -> <<Consume, CallWith("functionOrClosure", topLevel)>>
      [] t \in StartOfName -> Name \o <<CallWith("functionOrVariable", topLevel)>>
      [] OTHER -> NotFound(topLevel)
functionOrVariable(t, topLevel) ==
    IF t = "(" THEN Found(Routine, topLevel) ELSE NotFound(topLevel)
functionAnyway(t, topLevel) ==
    IF t = "(" THEN Found(Routine, topLevel) ELSE afterType(t, topLevel)
afterName(t, topLevel) ==
    IF t = "(" /\ ~topLevel THEN Found(Routine, topLevel) ELSE afterType(t, topLevel)

(* The loops over a script and over an interactive session *)
parseScript(t) ==
    CASE t = "eof"    -> <<>>
      [] t = "module" -> <<Consume, Match("id"), Match("curlyLeft")>> \o SkipToCurlyRight
                         \o <<Report, Consume, Call("parseScript")>>
      [] OTHER        -> NamespaceMember(TRUE) \o <<Call("parseScript")>>
parseDeclOrStmt(t) ==
    IF t = "eof" THEN <<>> ELSE NamespaceMember(TRUE) \o <<Call("parseDeclOrStmt")>>

Steps(f, arg, t) ==
    CASE f = "name"          -> name(t)
      [] f = "names"         -> names(t)
      [] f = "identifier"    -> identifier(t)
      [] f = "type"          -> type(t)
      [] f = "modifiers"     -> modifiers(t, arg)
      [] f = "operators"     -> operators(t, arg)
      [] f = "coalescing"    -> coalescing(t)
      [] f = "conditional"   -> conditional(t)
      [] f = "assignment"    -> assignment(t)
      [] f = "moreExprs"     -> moreExprs(t)
      [] f = "args"          -> args(t)
      [] f = "prefixExpr"    -> prefixExpr(t)
      [] f = "postfix"       -> postfix(t)
      [] f = "access"        -> access(t)
      [] f = "moreElements"  -> moreElements(t, arg)
      [] f = "element"       -> element(t, arg)
      [] f = "list"          -> list(t)
      [] f = "listElement"   -> listElement(t)
      [] f = "params"        -> params(t)
      [] f = "paramDefault"  -> paramDefault(t)
      [] f = "moreParams"    -> moreParams(t)
      [] f = "initializer"   -> initializer(t)
      [] f = "primaryExpr"   -> primaryExpr(t)
      [] f = "closureType"   -> closureType(t)
      [] f = "afterAsterisk" -> afterAsterisk(t)
      [] f = "afterNameExpr" -> afterNameExpr(t)
      [] f = "paren"         -> paren(t)
      [] f = "parenRest"     -> parenRest(t)
      [] f = "curly"         -> curly(t)
      [] f = "strings"       -> strings(t)
      [] f = "statements"    -> statements(t)
      [] f = "optional"      -> optional(t, arg)
      [] f = "else"          -> else(t)
      [] f = "cases"         -> cases(t)
      [] f = "caseValue"     -> caseValue(t)
      [] f = "caseBody"      -> caseBody(t)
      [] f = "statement"     -> statement(t)
      [] f = "baseCtors"     -> baseCtors(t, arg)
      [] f = "methodBody"    -> methodBody(t)
      [] f = "superclasses"  -> superclasses(t, arg)
      [] f = "classBody"     -> classBody(t)
      [] f = "classMembers"  -> classMembers(t)
      [] f = "classMember"   -> classMember(t, arg)
      [] f = "methodName"    -> methodName(t)
      [] f = "fields"        -> fields(t)
      [] f = "field"         -> field(t)
      [] f = "fieldInit"     -> fieldInit(t)
      [] f = "namespaceBody"    -> namespaceBody(t)
      [] f = "namespaceMembers" -> namespaceMembers(t)
      [] f = "memberKind"         -> memberKind(t, arg)
      [] f = "functionOrClosure"  -> functionOrClosure(t, arg)
      [] f = "afterType"          -> afterType(t, arg)
      [] f = "functionOrVariable" -> functionOrVariable(t, arg)
      [] f = "afterName"          -> afterName(t, arg)
      [] f = "parseScript"        -> parseScript(t)
      [] f = "parseDeclOrStmt"    -> parseDeclOrStmt(t)

-----------------------------------------------------------------------------
(* Tokens *)

TokenOf(kind, position) == [type |-> kind, at |-> position]
NoToken == TokenOf("none", 0)

Lookahead == IF hasToken THEN <<token>> ELSE <<>>

AtStep(op) == status = "running" /\ todo # <<>> /\ Head(todo)[1] = op
arg1 == Head(todo)[2]
arg2 == Head(todo)[3]

(* At a step that begins with ensureToken(), before and after it *)
LooksAhead(op) == AtStep(op) /\ hasToken
MustRead ==
    /\ ~hasToken
    /\ \E op \in {"call", "match", "skip", "ensureToken"} : AtStep(op)

Continue(steps) == todo' = steps \o Tail(todo)

(* assert() *)
Require(condition) == status' = IF condition THEN status ELSE "assert"

(* Parser::report(), DiagManager::process(): a report gets lost while      *)
(* diagnostics are disabled.  (What the scanner says of the tokens that    *)
(* are skipped is lost too; it has no effect here.)  History: what has     *)
(* been scanned is of interest until the first error. *)
Error ==
    /\ failed' = (failed \/ disabledCounter = 0)
    /\ suppressed' = (suppressed \/ disabledCounter > 0)
    /\ scanned' = <<>>
    /\ limit' = IF failed THEN limit ELSE Min({source.length, last + MaxTail})
    /\ UNCHANGED <<source, disabledCounter, skipped>>

(* DirectiveProcessor::read() gives the next token; at the end, eof for    *)
(* ever. *)
AtEnd  == ended' = TRUE /\ UNCHANGED last
OneMore == ~ended /\ last < limit /\ last' = last + 1 /\ UNCHANGED ended
Seen(kind) == scanned' = IF failed THEN <<>> ELSE Append(scanned, kind)

(* TokenQueue::read(): what was unread comes first. *)
Scan ==
    /\ MustRead /\ queue = <<>>
    /\ \/ /\ \E kind \in source.types : Seen(kind) /\ token' = TokenOf(kind, last + 1)
          /\ OneMore
       \/ /\ token' = TokenOf("eof", last + 1)
          /\ AtEnd
          /\ UNCHANGED scanned
    /\ hasToken' = TRUE
    /\ UNCHANGED <<source, limit, queue, recorderVars, todo, diagVars, status>>

Dequeue ==
    /\ MustRead /\ queue # <<>>
    /\ token' = Head(queue)
    /\ queue' = Tail(queue)
    /\ hasToken' = TRUE
    /\ UNCHANGED <<sourceVars, recorderVars, todo, diagVars, status>>

(* consume() *)
consume ==
    /\ Require(hasToken)
    /\ hasToken' = FALSE
    /\ IF recording
       THEN recorded' = Append(recorded, token) /\ UNCHANGED parsed
       ELSE parsed' = token.at /\ UNCHANGED recorded
    /\ UNCHANGED <<sourceVars, queue, token, recording>>

-----------------------------------------------------------------------------
(* Actions: one step of the parser *)

Decide ==
    /\ LooksAhead("call")
    /\ Continue(Steps(arg1, arg2, token.type))
    /\ UNCHANGED <<sourceVars, tokenVars, recorderVars, diagVars, status>>

Take ==
    /\ AtStep("consume")
    /\ consume
    /\ Continue(<<>>)
    /\ UNCHANGED diagVars

(* match() *)
MatchToken ==
    /\ LooksAhead("match") /\ token.type = arg1
    /\ consume
    /\ Continue(<<>>)
    /\ UNCHANGED diagVars

Mismatch ==
    /\ LooksAhead("match") /\ token.type # arg1
    /\ Error
    /\ Continue(IF arg2 = "recoverSkipToSemicolon" THEN SkipToSemicolon ELSE <<>>)
    /\ UNCHANGED <<last, ended, tokenVars, recorderVars, status>>

ReportError ==
    /\ AtStep("report")
    /\ Require(hasToken)
    /\ Error
    /\ Continue(<<>>)
    /\ UNCHANGED <<last, ended, tokenVars, recorderVars>>

Ensured ==
    /\ LooksAhead("ensureToken")
    /\ Continue(<<>>)
    /\ UNCHANGED <<sourceVars, tokenVars, recorderVars, diagVars, status>>

(* DiagManager::disable(), enable() *)
DisableDiagnostics ==
    /\ AtStep("disable")
    /\ disabledCounter' = disabledCounter + 1
    /\ Continue(<<>>)
    /\ UNCHANGED <<sourceVars, tokenVars, recorderVars, failed, suppressed, skipped,
                   status>>

EnableDiagnostics ==
    /\ AtStep("enable")
    /\ Require(disabledCounter > 0)
    /\ disabledCounter' = disabledCounter - 1
    /\ skipped' = <<>>
    /\ Continue(<<>>)
    /\ UNCHANGED <<sourceVars, tokenVars, recorderVars, failed, suppressed>>

(* recoverSkipToCurlyRight() and recoverSkipToSemicolon(): the loop, with  *)
(* the number of open braces *)
Skip(cnt) == <<Step("skip", arg1, cnt)>>
LeaveBracesEarly(cnt) == IF cnt - 1 = 0 THEN <<>> ELSE Skip(cnt - 1)
LeaveBraces(cnt)      == IF cnt = 0 THEN <<>> ELSE Skip(cnt - 1)

SkipToken ==
    /\ LooksAhead("skip") /\ token.type # "eof"
    /\ ~(arg1 = "curlyRight" /\ token.type = "curlyRight" /\ arg2 = 0)
    /\ consume
    /\ Continue(
        CASE token.type = "curlyLeft" -> Skip(arg2 + 1)
          [] token.type = "curlyRight" -> LeaveBraces(arg2)
          [] token.type = "semicolon" /\ arg1 = "semicolon" /\ arg2 = 0 -> <<>>
          [] OTHER -> Skip(arg2))
    /\ skipped' = Append(skipped, token.type)
    /\ UNCHANGED <<failed, disabledCounter, suppressed>>

SkipEnds ==
    /\ LooksAhead("skip")
    /\ \/ token.type = "eof"
       \/ arg1 = "curlyRight" /\ token.type = "curlyRight" /\ arg2 = 0
    /\ Continue(<<>>)
    /\ UNCHANGED <<sourceVars, tokenVars, recorderVars, diagVars, status>>

(* The regular expression after =~ is read from the queue, that is from    *)
(* the source if the queue is empty.  The scanner complains about          *)
(* anything else, and skips some of it. *)
ReadRegexToken ==
    /\ AtStep("readRegex")
    /\ Continue(<<>>)
    /\ IF queue # <<>>
       THEN /\ queue' = Tail(queue)
            /\ parsed' = Head(queue).at
            /\ UNCHANGED <<sourceVars, diagVars>>
       ELSE /\ \/ OneMore /\ Seen("regex") /\ UNCHANGED <<source, limit, diagVars>>
               \/ OneMore /\ Error
               \/ AtEnd /\ Error
            /\ parsed' = last + 1
            /\ UNCHANGED queue
    /\ UNCHANGED <<token, hasToken, recording, recorded, status>>

(* Recorder::Recorder() *)
BeginRecording ==
    /\ AtStep("record")
    /\ Require(~recording)
    /\ recording' = TRUE /\ recorded' = <<>>
    /\ Continue(<<>>)
    /\ UNCHANGED <<sourceVars, tokenVars, parsed, diagVars>>

(* Recorder::stop() *)
StopRecording ==
    /\ AtStep("stop")
    /\ Require(recording)
    /\ recording' = FALSE /\ recorded' = <<>>
    /\ parsed' = IF recorded = <<>> THEN parsed ELSE Last(recorded).at
    /\ Continue(<<>>)
    /\ UNCHANGED <<sourceVars, tokenVars, diagVars>>

(* Recorder::rewind(): the lookahead is recorded too. *)
UnreadWithoutLookahead == recorded
UnreadTokens           == recorded \o Lookahead

RewindRecording ==
    /\ AtStep("rewind")
    /\ Require(recording)
    /\ queue' = UnreadTokens \o queue
    /\ hasToken' = FALSE
    /\ recording' = FALSE /\ recorded' = <<>>
    /\ Continue(<<>>)
    /\ UNCHANGED <<sourceVars, token, parsed, diagVars>>

(* Recorder::~Recorder() *)
EndRecording ==
    /\ AtStep("destroyRecorder")
    /\ Require(~recording)
    /\ Continue(<<>>)
    /\ UNCHANGED <<sourceVars, tokenVars, recorderVars, diagVars>>

Init ==
    /\ source \in Sources
    /\ scanned = <<>> /\ last = 0 /\ limit = source.length /\ ended = FALSE
    /\ queue = <<>> /\ token = NoToken /\ hasToken = FALSE
    /\ recording = FALSE /\ recorded = <<>> /\ parsed = 0
    /\ todo = <<Call(IF source.session THEN "parseDeclOrStmt" ELSE "parseScript")>>
    /\ failed = FALSE /\ disabledCounter = 0 /\ suppressed = FALSE
    /\ skipped = <<>>
    /\ status = "running"

Next ==
    \/ Scan \/ Dequeue
    \/ Decide \/ Take \/ MatchToken \/ Mismatch \/ ReportError \/ Ensured
    \/ DisableDiagnostics \/ EnableDiagnostics
    \/ SkipToken \/ SkipEnds \/ ReadRegexToken
    \/ BeginRecording \/ StopRecording \/ RewindRecording \/ EndRecording

Spec == Init /\ [][Next]_vars

(* The parser runs in one thread that waits for nothing but its source,    *)
(* which is a file. *)
FairSpec == Spec /\ WF_vars(Next)

-----------------------------------------------------------------------------
(* Properties. *)

(* Diagnostics are disabled while the recovery skips tokens and at no      *)
(* other time, whichever way its loop is left and wherever the error was   *)
(* (the comment of DiagManager::enable(): "Must be called as many times as *)
(* disable()"), so that nothing the parser has to say is suppressed.       *)
MutedOnlyWhileSkipping ==
    /\ ~suppressed
    /\ disabledCounter > 0 =>
          /\ disabledCounter = 1
          /\ Head(todo)[1] \in {"skip", "enable"}

(* The braces opened less those closed, and whether a recovery that began  *)
(* before these tokens may stop at the last of them: at the end of the     *)
(* source, at the brace that closes the block it began in, and the one     *)
(* that looks for a semicolon at a semicolon of this block. *)
Depth(types) ==
    Cardinality({i \in DOMAIN types : types[i] = "curlyLeft"})
    - Cardinality({i \in DOMAIN types : types[i] = "curlyRight"})
IsEnd(until, types) ==
    \/ Last(types) = "eof"
    \/ Depth(types) = -1
    \/ until = "semicolon" /\ Last(types) = "semicolon" /\ Depth(types) = 0

(* Recovery stops at the first such token, whatever blocks the tokens      *)
(* before it open and close.  recoverSkipToCurlyRight() leaves the brace   *)
(* to its caller; recoverSkipToSemicolon() takes what it stops at, the     *)
(* brace of the enclosing block too (see qtif/parser/recovery-             *)
(* semicolon.qtif); the end of the source is left by both. *)
RecoveryStopsInPlace ==
    [][AtStep("skip") /\ todo' = Tail(todo) =>
        LET seen == IF hasToken' THEN Append(skipped', token'.type) ELSE skipped'
        IN  /\ IsEnd(arg1, seen)
            /\ \A n \in 1..(Len(seen) - 1) : ~IsEnd(arg1, SubSeq(seen, 1, n))
            /\ hasToken' <=> arg1 = "curlyRight" \/ Last(seen) = "eof"]_vars

(* The tokens that are recorded, looked at or unread are those that follow *)
(* what has been parsed, in the order of the source: with all the reading  *)
(* ahead and the going back of namespaceMember(), none is lost and none is *)
(* parsed twice.  (Only eof is there as often as one likes.)               *)
TokensInOrder ==
    LET pending == recorded \o Lookahead \o queue
        position(i) == IF parsed + i <= last THEN parsed + i ELSE last + 1
    IN  /\ \A i \in 1..Len(pending) : pending[i].at = position(i)
        /\ ~ended => parsed + Len(pending) = last

(* consume() and report() have a token, and there is one recorder at a     *)
(* time, which is stopped or rewound before it is destroyed: no assertion  *)
(* of Parser fails. *)
AssertionsHold == status # "assert"

(* A regular expression is read from the source, in the mode for regular   *)
(* expressions: nothing after the operator =~ has been read before, though *)
(* namespaceMember() may have read the operator and all before it.         *)
RegexIsScanned == AtStep("readRegex") => queue = <<>> /\ ~hasToken

(* The parser reaches the end of each source: parseScript() returns the    *)
(* parsed script, as its comment says.                                     *)
Ends == <>(todo = <<>>)
=============================================================================
