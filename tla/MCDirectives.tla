----------------------------- MODULE MCDirectives -----------------------------
(* Texts for the scanner, files for the directive processor. *)
EXTENDS Directives

(* The texts of at most n pieces. *)
TextsOf(pieces, n) ==
    LET texts[k \in 0..n] ==
            IF k = 0 THEN {""}
            ELSE texts[k - 1] \cup {t \o p : t \in texts[k - 1], p \in pieces}
    IN  texts[n]

NoFiles == [file \in {} |-> ""]
Script(text, modes) ==
    [main |-> text, files |-> NoFiles, lines |-> <<>>, modes |-> modes]

(* Operators and words; strings; comments; lines and columns; numbers. *)
NormalTexts ==
    TextsOf({"=", "!", "~", "<", ">", "?"}, 4)
    \cup TextsOf({"\"", "\\", "'", "a", "\n"}, 5)
    \cup TextsOf({"/", "*", "#", "a", "\n"}, 5)
    \cup TextsOf({"\n", "\r", "\t", " a", "%", "'"}, 4)
    \cup TextsOf({"0", "x", "f", "g", "$", "_"}, 4)
    \cup TextsOf({"+", "-", "*", "&", "|", "^", "%", ":", "/"}, 3)
    \cup TextsOf({";", ".", "[", "]", "(", ")", "{", "}", ",", "$", "#", "@", "\f"}, 2)
    \cup TextsOf({"if", "in", "_", "1", " ", "my"}, 3)
(* 64 tabs reach column 257. *)
Tabs == LET tabs[n \in 0..64] == IF n = 0 THEN "" ELSE tabs[n - 1] \o "\t"
        IN  tabs[63]
WideTexts == {"a" \o Tabs \o t : t \in TextsOf({"a ", "\t", "\n", "%"}, 3)}
Scripts ==
    {Script(t, {"Normal"}) : t \in NormalTexts \cup WideTexts}
    \cup {Script(t, {"Regex"}) : t \in
             TextsOf({"/", "\\", "s", "a"}, 5) \cup TextsOf({"/", "t", "r", "m", "x"}, 4)}
    \cup {Script(t, Mode) : t \in TextsOf({"/", "\\", "*", "a"}, 3)}

(* Files: "c" does not include, "b" may, "d" does not exist. *)
Files ==
    {[b |-> b, c |-> c] :
        b \in {"'", "a\n%include c", "%include c #\n;", "/*", "%include d\na"},
        c \in {"", "\f;\n"}}
Program(text, files) ==
    [main |-> text, files |-> files, lines |-> <<>>, modes |-> {"Normal"}]
Including ==
    {Program(t, files) : files \in Files,
        t \in TextsOf({"%include b\n", "%include 'c'\r", "a\n", " %\n%y"}, 3)}
(* Every argument of a directive; a regular expression across the end of a *)
(* file; files that include themselves. *)
Arguments ==
    {Program("%include" \o t, [b |-> "a;"]) :
        t \in TextsOf({" ", "#", "/*", "*/", "\"", "b", "'", "\n"}, 4)}
    \cup {[Program(t \o "\n%include b\n/a/", [b |-> b]) EXCEPT
             !.modes = {"Normal", "Regex"}] : t \in {"", "a"}, b \in {"", "a", "/"}}
    \cup {Program("%include b\na", [b |-> b, c |-> "a\n%include b"]) :
             b \in {"a\n%include b\na", "%include c"}}

(* Lines of the standard input; the last one may have no line feed. *)
Line == {"a\n", "\n", "'\n", "/*\n", "*/ a\r\n", "\t%include b\n", "%include b\n",
         "=~"}
Session(l, modes) ==
    [main |-> "", files |-> [b |-> "a\n;"], lines |-> l, modes |-> modes]
Sessions ==
    {Session(<<k, l, n>>, {"Normal"}) : k, l, n \in Line}
    \cup {Session(<<k, l>>, {"Normal", "Regex"}) : k, l \in {"a\n", "'\n", "/*\n", "=~"}}
    \cup {Session(<<>>, Mode)}

MCSetups == Scripts \cup Including \cup Arguments \cup Sessions
=============================================================================
