------------------------------ MODULE Grammar ------------------------------
(***************************************************************************)
(* The language that the comments of lib/comp/Parser-*.cpp and grammar.y   *)
(* describe, up to a length, as the reference for Parser.  Operators of    *)
(* equal standing for the language are one token, as in Parser, and their  *)
(* levels are those that can be told apart.  Where a sentence has two      *)
(* readings the comments of the parser choose one: a statement that begins *)
(* with a brace is a block, and a type, a name and a parenthesis at top    *)
(* level begin a function.                                                 *)
(***************************************************************************)
EXTENDS Integers, Sequences, FiniteSets, SequencesExt

CONSTANT Longest \* the length of the longest sentences

(* The empty right-hand side is <<>>. *)
Rules == [
  Name    |-> {<<"Names">>, <<"::", "Names">>},
  Names   |-> {<<"id">>, <<"id", "::", "Names">>},
  Type    |-> {<<"Name">>, <<"*", "Name">>},
  Mods    |-> {<<>>, <<"static">>, <<"private">>,
               <<"static", "private">>, <<"private", "static">>},
  Expr    |-> {<<"Cond">>, <<"Cond", "=", "Expr">>},
  Cond    |-> {<<"Log">>, <<"Log", "??", "Coal">>,
               <<"Log", "?", "Expr", ":", "Cond">>},
  Coal    |-> {<<"Log">>, <<"Log", "??", "Coal">>},
  Log     |-> {<<"Rel">>, <<"Log", "||", "Rel">>},
  Rel     |-> {<<"Inst">>, <<"Rel", "==", "Inst">>, <<"Rel", "<", "Inst">>,
               <<"Rel", ">", "Inst">>, <<"Rel", "=~", "regex">>},
  Inst    |-> {<<"Add">>, <<"Inst", "instanceof", "Name">>},
  Add     |-> {<<"Prefix">>, <<"Add", "+", "Prefix">>, <<"Add", "*", "Prefix">>},
  Prefix  |-> {<<"Postfix">>, <<"+", "Prefix">>, <<"!", "Prefix">>, <<"++", "Prefix">>,
               <<"exists", "Inst">>, <<"map", "List">>},
  Postfix |-> {<<"Primary">>, <<"Postfix", "Args">>,
               <<"Postfix", "++">>, <<"Postfix", "[", "Expr", "]">>,
               <<"Postfix", "curlyLeft", "Expr", "curlyRight">>,
               <<"Postfix", ".", "id">>, <<"Postfix", ".", "(", "Expr", ")">>},
  Args    |-> {<<"(", ")">>, <<"(", "List", ")">>},
  List    |-> {<<"Expr">>, <<"List", "comma", "Expr">>},
  Hash    |-> {<<"Hashes">>, <<"Hashes", "comma">>},
  Hashes  |-> {<<"Expr", ":", "Expr">>, <<"Hashes", "comma", "Expr", ":", "Expr">>},
  Primary |-> {<<"1">>, <<"Name">>, <<"Type", "id">>,
               <<"Mods", "Type", "sub", "Params", "Block">>,
               <<"Mods", "sub", "Params", "Block">>,
               <<"(", "Expr", ")">>, <<"(", "List", "comma", ")">>,
               <<"(", "List", ")">>, <<"(", "Hash", ")">>, <<"(", ")">>,
               <<"curlyLeft", "curlyRight">>, <<"curlyLeft", "Hash", "curlyRight">>,
               <<"cast", "<", "Type", ">", "(", "Expr", ")">>,
               <<"new", "Name", "Args">>},
  Params  |-> {<<"(", ")">>, <<"(", "Param", ")">>},
  Param   |-> {<<"Param1">>, <<"Param1", "comma", "Param">>},
  Param1  |-> {<<"Type", "id">>, <<"Type", "id", "=", "Expr">>},
  Block   |-> {<<"curlyLeft", "Stmts", "curlyRight">>},
  Stmts   |-> {<<>>, <<"Stmts", "Stmt">>},
  Opt     |-> {<<>>, <<"Expr">>},
  Stmt    |-> {<<"semicolon">>, <<"Block">>, <<"ExprNoBrace", "semicolon">>,
               <<"try", "Stmt", "catch", "(", "Type", "id", ")", "Stmt">>,
               <<"throw", "List", "semicolon">>, <<"break", "semicolon">>,
               <<"on_exit", "Stmt">>,
               <<"if", "(", "Expr", ")", "Stmt">>,
               <<"if", "(", "Expr", ")", "Stmt", "else", "Stmt">>,
               <<"while", "(", "Expr", ")", "Stmt">>,
               <<"do", "Stmt", "while", "(", "Expr", ")", "semicolon">>,
               <<"for", "(", "Opt", "semicolon", "Opt", "semicolon", "Opt", ")",
                 "Stmt">>,
               <<"return", "Opt", "semicolon">>},
  Decl    |-> {<<"namespace", "Name", "curlyLeft", "Members", "curlyRight">>,
               <<"namespace", "Name", "semicolon">>,
               <<"our", "Type", "Names", "semicolon">>,
               <<"const", "Name", "=", "Expr", "semicolon">>,
               <<"Type", "sub", "Name", "Params", "Block">>,
               <<"sub", "Name", "Params", "Block">>,
               <<"Type", "Names", "Params", "Block">>},
  Members |-> {<<>>, <<"Members", "Mods", "Decl">>,
               <<"Members", "Mods", "Name", "Params", "Block">>},
  Script  |-> {<<>>, <<"Script", "Mods", "Decl">>, <<"Script", "TopStmt">>}]

Symbols == DOMAIN Rules

(* Two more, for those strings of another that have one reading *)
Restricted == {"ExprNoBrace", "TopStmt"}

Has(table, symbol, n, s) == Len(s) = n /\ s \in table[symbol][n]
BeginsFunction(table, s) ==
    \E i \in 1..Len(s), j \in 1..Len(s) :
        /\ i < j /\ j < Len(s) /\ s[j + 1] = "("
        /\ SubSeq(s, 1, i) \in table["Type"][i]
        /\ SubSeq(s, i + 1, j) \in table["Names"][j - i]

(* The strings of length n of a symbol.  The table has those of all        *)
(* shorter lengths, and some of this one. *)
Of(table, symbol, n) ==
    CASE symbol \in Symbols       -> table[symbol][n]
      [] symbol = "ExprNoBrace"   -> {s \in table["Expr"][n] : Head(s) # "curlyLeft"}
      [] symbol = "TopStmt"       -> {s \in table["Stmt"][n] : ~BeginsFunction(table, s)}
      [] OTHER -> IF n = 1 THEN {<<symbol>>} ELSE {}

RECURSIVE Strings(_, _, _)
Strings(table, rhs, n) ==
    IF rhs = <<>> THEN IF n = 0 THEN {<<>>} ELSE {}
    ELSE LET first(i) == Of(table, Head(rhs), i)
         IN  UNION {{a \o b : a \in first(i), b \in Strings(table, Tail(rhs), n - i)} :
                    i \in {i \in 0..n : first(i) # {}}}

(* One more round: what the rules, those whose tokens there are, make of   *)
(* the strings known *)
RulesOf(symbol, tokens) ==
    {rhs \in Rules[symbol] : ToSet(rhs) \subseteq Symbols \cup Restricted \cup tokens}
Round(table, tokens, n) ==
    [symbol \in Symbols |->
        [table[symbol] EXCEPT ![n] =
            @ \cup UNION {Strings(table, rhs, n) : rhs \in RulesOf(symbol, tokens)}]]

(* Rounds until there is nothing new of this length *)
RECURSIVE Saturate(_, _, _)
Saturate(table, tokens, n) ==
    LET more == Round(table, tokens, n)
    IN  IF more = table THEN table ELSE Saturate(more, tokens, n)

(* Length by length *)
NoStrings == [symbol \in Symbols |-> [n \in 0..Longest |-> {}]]

RECURSIVE UpTo(_, _)
UpTo(tokens, n) ==
    IF n < 0 THEN NoStrings ELSE Saturate(UpTo(tokens, n - 1), tokens, n)

Sentences(tokens, length) ==
    LET table == UpTo(tokens, length)
    IN  UNION {table["Script"][n] : n \in 0..length}
BeginningsOf(sentences) ==
    UNION {{SubSeq(s, 1, i) : i \in 0..Len(s)} : s \in sentences}
=============================================================================
