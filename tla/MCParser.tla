------------------------------ MODULE MCParser ------------------------------
(* Sources for the parser, and the language it should accept. *)
EXTENDS Parser, Grammar

CONSTANT GrammarSources \* those of Sources whose language is compared

Source(types, length, session) ==
    [types |-> types, length |-> length, session |-> session]

(* Parts of the language: expressions with their brackets, operators, types *)
(* between other things, statements, declarations *)
MCLanguage == {
    Source({"id", "1", "(", ")", "comma", "+", "=", ":", "semicolon",
            "curlyLeft", "curlyRight", "=~"}, 6, FALSE),
    Source({"id", "(", ")", "[", "]", ".", "semicolon", "!", "++", "==", "<",
            "instanceof", "?", ":", "??", "exists", "map"}, 5, TRUE),
    Source({"cast", "<", ">", "new", "try", "catch", "id", "(", ")",
            "semicolon"}, 8, FALSE),
    Source({"if", "else", "do", "while", "for", "return", "throw", "break",
            "on_exit", "id", "(", ")", "semicolon"}, 7, FALSE),
    Source({"namespace", "our", "const", "sub", "static", "id", "::", "*",
            "1", "=", "(", ")", "curlyLeft", "curlyRight",
            "semicolon"}, 6, TRUE)}

(* Declarations at top level, in namespaces and in classes, and statements, *)
(* without what the run for the ends shows *)
MCRecovery == {
    Source({"namespace", "our", "const", "sub", "static", "id", "::", "*",
            "1", "=", "(", ")", "curlyLeft", "curlyRight", "semicolon"}, 5, FALSE),
    Source({"module", "class", "inherits", "id", "(", ")", "curlyLeft", "curlyRight",
            "semicolon", ":", "comma"}, 7, FALSE),
    Source({"foreach", "in", "id", "=~", "(", ")", "curlyLeft", "curlyRight",
            "semicolon"}, 6, TRUE)}

(* A case without an end, and a group of members *)
MCEnds == {
    Source({"switch", "case", "1", "(", ")", "curlyLeft", ":"}, 8, FALSE),
    Source({"class", "private", "id", "curlyLeft", "curlyRight",
            "semicolon"}, 5, FALSE)}

None == {}

SentencesOf == [s \in GrammarSources |-> Sentences(s.types \cup {"regex"}, s.length)]
Beginnings  == [s \in GrammarSources |-> BeginningsOf(SentencesOf[s])]

(* What the parser accepts without an error is a sentence of the grammar   *)
(* that its comments give.                                                 *)
AcceptsOnlySentences == todo = <<>> /\ ~failed => scanned \in SentencesOf[source]

(* The first error is reported only when what has been scanned does not    *)
(* begin a sentence, or when the source ends and is no sentence: the       *)
(* parser accepts each sentence, though it decides on one token and, for   *)
(* declarations, on those it has recorded.                                 *)
RejectsNoSentence ==
    [][failed' /\ ~failed /\ ~AtStep("readRegex") =>
         scanned \notin (IF ended THEN SentencesOf ELSE Beginnings)[source]]_vars
=============================================================================
