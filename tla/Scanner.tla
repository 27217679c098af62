------------------------------- MODULE Scanner -------------------------------
(***************************************************************************)
(* The scanner (lib/comp/Scanner.cpp): one attempt to read a token.  The   *)
(* type of an operator, a separator or a keyword is its text.              *)
(***************************************************************************)
EXTENDS Source

CharsOf(text) == {SubSeq(text, k, k) : k \in 1..Len(text)}
Digit    == CharsOf("0123456789")
HexDigit == Digit \cup CharsOf("abcdefABCDEF")
Letter   == CharsOf("abcdefghijklmnopqrstuvwxyzABCDEFGHIJKLMNOPQRSTUVWXYZ")
Whitespace    == {" ", "\t"}
Newline       == {"\r", "\n"}
RegexModifier == CharsOf("gisxm")
Escape        == "\\"
Backquote     == "@"     \* stands for it: a string of TLA+ cannot hold one

Keywords == {"abstract", "background", "break", "case", "cast", "catch", "chomp",
    "class", "const", "continue", "default", "delete", "deprecated", "do",
    "elements", "else", "exists", "extract", "False", "final", "foldl", "foldr",
    "for", "foreach", "if", "in", "inherits", "instanceof", "keys", "map",
    "module", "new", "namespace", "NOTHING", "NULL", "on_error", "on_exit",
    "on_success", "our", "pop", "private", "public", "push", "remove", "rethrow",
    "return", "select", "self", "shift", "splice", "static", "sub", "switch",
    "synchronized", "thread_exit", "throw", "trim", "True", "try", "unshift",
    "while", "my"}

(* The operators and separators.  Whatever begins one of them is one, and  *)
(* the nested tests of the code read as far as they can.                   *)
Punctuation == {"+", "++", "+=", "-", "--", "-=", ";", "{", "}", "(", ")", "[",
    "]", ".", "^", "^=", "&", "&&", "&=", "|", "||", "|=", "=", "==", "===",
    "=~", ",", "!", "!=", "!==", "!~", "?", "??", "?*", "~", "\\", "*", "*=",
    ":", "::", "/", "/=", "%", "%=", "<", "<<", "<<=", "<>", "<=", "<=>", ">",
    ">>", ">>=", ">="}

(* What a function of the scanner does to the source, the type it returns  *)
(* and the diagnostics it reports.  "None" is no token.                    *)
Result(src, type, reports) == [src |-> src, type |-> type, reports |-> reports]
Found(src, type)           == Result(src, type, <<>>)
-----------------------------------------------------------------------------
(* Quotes, comments and slashes. *)
(* The offsets from k on whose character is escaped: by a backslash that   *)
(* is not escaped itself. *)
EscapedByAny(data, from) ==
    {k \in from..Len(data) : k > from /\ CharAt(data, k - 1) = Escape}
Escaped(data, from) ==
    LET esc[k \in from..Len(data)] ==
            k > from /\ CharAt(data, k - 1) = Escape /\ ~esc[k - 1]
    IN  {k \in from..Len(data) : esc[k]}

(* readString(), at the opening quote. *)
readString(src) ==
    LET quote == peek(src)
        from  == src.ptr + 1
        ends  == {k \in from..Len(src.data) - 1 : CharAt(src.data, k) = quote}
                    \ (IF quote = "\"" THEN Escaped(src.data, from) ELSE {})
    IN  IF ends = {}
        THEN Result(ReadTo(src, Len(src.data)), "String", <<"UnendedStringLiteral">>)
        ELSE Found(ReadTo(src, Min(ends) + 1), "String")

(* readLineComment(), behind the #; the newline is left. *)
readLineComment(src) == ReadUntil(src, Newline)

(* readBlockComment(), between / and *; the slash of a "/*/" ends it... *)
readBlockCommentShort(src) ==
    LET ends == {k \in src.ptr + 1..Len(src.data) - 1 :
                    CharAt(src.data, k) = "/" /\ CharAt(src.data, k - 1) = "*"}
    IN  IF ends = {}
        THEN Result(ReadTo(src, Len(src.data)), "None", <<"UnendedBlockComment">>)
        ELSE Found(ReadTo(src, Min(ends) + 1), "None")
(* ... and does not. *)
readBlockComment(src) ==
    LET ends == {k \in src.ptr + 2..Len(src.data) - 1 :
                    CharAt(src.data, k) = "/" /\ CharAt(src.data, k - 1) = "*"}
    IN  IF ends = {}
        THEN Result(ReadTo(src, Len(src.data)), "None", <<"UnendedBlockComment">>)
        ELSE Found(ReadTo(src, Min(ends) + 1), "None")

(* readSimpleRegex(), behind the first slash of so many parts. *)
readSimpleRegex(src, parts) ==
    LET slashes == {k \in src.ptr..Len(src.data) - 1 : CharAt(src.data, k) = "/"}
                      \ Escaped(src.data, src.ptr)
        ends    == {k \in slashes : Cardinality({j \in slashes : j <= k}) = parts}
    IN  IF ends = {}
        THEN Result(ReadTo(src, Len(src.data)), "EndOfFile",
                    <<"ExpectedRegularExpression">>)
        ELSE Found(ReadWhile(ReadTo(src, Min(ends) + 1), RegexModifier), "Regex")

(* readRegex() *)
Complained(result) ==
    [result EXCEPT !.reports = <<"ExpectedRegularExpression">> \o @]
readRegex(src0) ==
    LET c     == peek(src0)
        src   == Read(src0)
        trans == c = "t" /\ peek(src) = "r"
        rest  == IF trans THEN Read(src) ELSE src
        parts == CASE c \in {"m", "x"} -> 1
                   [] c = "s" \/ trans -> 2
                   [] OTHER -> 0
    IN  CASE c = NUL -> Complained(Found(src, "EndOfFile"))
          [] c = "/" -> readSimpleRegex(src, 1)
          [] c = "t" /\ peek(src) = "/" -> Complained(readSimpleRegex(Read(src), 2))
          [] OTHER ->
                IF parts = 0 THEN Complained(Found(rest, "Regex"))
                ELSE IF peek(rest) = "/" THEN readSimpleRegex(Read(rest), parts)
                ELSE Complained(Found(Read(rest), "Regex"))
-----------------------------------------------------------------------------
(* Words and numbers, the first character of which has been read. *)
readIdentifier(src) ==
    LET end  == ReadWhile(src, Letter \cup Digit \cup {"_"})
        word == getMarkedString(end)
    IN  Found(end, IF word \in Keywords THEN word ELSE "Identifier")

handleDigit(src) == Found(ReadWhile(src, Digit), "Integer")

readHexLiteral(src) ==
    LET end == ReadWhile(Read(src), HexDigit)
    IN  Result(end, "Integer",
               IF getMarkedLength(end) < 3 THEN <<"InvalidHexLiteral">> ELSE <<>>)

readImplicitArg(src) ==
    LET end == ReadWhile(src, Digit)
    IN  CASE peek(src) = "$" -> Found(Read(src), "$$")
          [] peek(src) = "#" -> Found(Read(src), "$#")
          [] peek(src) \in Digit -> Found(end, "ImplicitArg")
          [] OTHER -> Result(src, "None", <<"InvalidCharacter">>)

readParseDirective(src) ==
    Found(ReadUntil(src, Newline \cup Whitespace), "ParseDirective")

readPunctuation(src) ==
    LET longer == {k \in src.ptr..Len(src.data) :
                      \A j \in src.ptr..k :
                          Substring(src.data, src.mark, j) \in Punctuation}
        end    == ReadTo(src, Max(longer))
    IN  Found(end, getMarkedString(end))

(* readInternal(); its parameter: may a slash begin a regular expression? *)
readInternal(src0, regex) ==
    LET c   == peek(src0)
        src == Read(src0)
    IN  CASE c = NUL -> Found(src, "EndOfFile")
          [] c = "$" -> readImplicitArg(src)
          [] c = "#" -> Found(readLineComment(src), "None")
          [] c = "/" /\ regex -> readSimpleRegex(src, 1)
          [] c = "/" /\ ~regex /\ peek(src) = "*" -> readBlockComment(src)
          [] c = "%" /\ wasFirstOnLine(src) -> readParseDirective(src)
          [] c \in {"\"", "'"} -> readString(unread(src))
          [] c = Backquote -> [readString(unread(src)) EXCEPT !.type = "BackquotedString"]
          [] c = "0" /\ peek(src) = "x" -> readHexLiteral(src)
          [] c \in Digit /\ ~(c = "0" /\ peek(src) = "x") -> handleDigit(src)
          [] c \in Letter \cup {"_"} -> readIdentifier(src)
          [] c \in Punctuation
                /\ ~(c = "/" /\ (regex \/ peek(src) = "*"))
                /\ ~(c = "%" /\ wasFirstOnLine(src)) -> readPunctuation(src)
          [] c \notin {NUL, "$", "#", "\"", "'", Backquote, "_"} \cup Digit \cup Letter
                       \cup Punctuation ->
                Result(src, "None", <<"InvalidCharacter">>)

(* ITokenStream::Mode, and one iteration of Scanner::read() *)
Mode == {"Normal", "NormalOrSimpleRegex", "Regex"}
Attempt(src0, mode) ==
    LET src == setMark(ReadWhile(src0, Whitespace \cup Newline))
    IN  IF mode = "Regex" THEN readRegex(src)
        ELSE readInternal(src, mode = "NormalOrSimpleRegex")
=============================================================================
