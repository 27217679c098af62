------------------------------ MODULE Directives ------------------------------
(***************************************************************************)
(* The stream of tokens that the parser reads: the directive processor     *)
(* with its stack of sources (lib/comp/DirectiveProcessor.cpp), the        *)
(* sources it opens (lib/comp/SourceManager.cpp) and the lines that the    *)
(* interactive mode appends (StdinWrapper, tools/qorec/Interactive.cpp).   *)
(*                                                                         *)
(* One step is one attempt of the scanner to read a token, with what the   *)
(* directive processor does with its result.  "items" is a history of what *)
(* the scanner returned, directives and the ends of included files, too;   *)
(* "origin" of where each source was included.                             *)
(***************************************************************************)
EXTENDS Scanner, SequencesExt

CONSTANTS
  Setups,      \* [main, files, lines, modes]: the text the process begins
               \* with, the files it may include (a function from names), the
               \* lines of the standard input, the modes of the parser
  MaxSources,  \* the sources opened
  MaxEnds      \* how often the parser reads the end

VARIABLES
  setup,
  lines,       \* lines of the standard input that have not been read
  sources,     \* SourceManager::sources, in the order of their creation
  stack,       \* srcStack: indices of sources, the top last
  mode,        \* the mode of the call of read() in progress, or "idle"
  reports,     \* the diagnostics: [id, source, offset, location]
  items,       \* [source, mode, type, offset, end, location]
  origin       \* [parent, at, file] of each source

vars == <<setup, lines, sources, stack, mode, reports, items, origin>>

Quote == {"\"", "'"}
Located(src, source, ids) ==
    [i \in DOMAIN ids |-> [id |-> ids[i], source |-> source, offset |-> src.mark,
                           location |-> src.markLocation]]
-----------------------------------------------------------------------------
(* SourceManager: NUL characters of a file become blanks. *)
NulByte == "\f"     \* stands for it
Cleaned(text) ==
    LET prefix[k \in 0..Len(text)] ==
            IF k = 0 THEN ""
            ELSE prefix[k - 1] \o (IF CharAt(text, k - 1) = NulByte THEN " "
                                   ELSE CharAt(text, k - 1))
    IN  prefix[Len(text)]
CreateReports(source, text) ==
    IF Cleaned(text) = text THEN <<>>
    ELSE Located(NewSource(""), source, <<"NulCharactersIgnored">>)

Init ==
    /\ setup \in Setups
    /\ lines = setup.lines
    /\ sources = <<NewSource(Cleaned(setup.main))>>
    /\ stack = <<1>>
    /\ mode = "idle"
    /\ reports = CreateReports(1, setup.main)
    /\ items = <<>>
    /\ origin = <<[parent |-> 0, at |-> 0, file |-> "main"]>>
-----------------------------------------------------------------------------
(* processDirective(): one iteration of the loop that reads the argument.  *)
(* A comment is left out, a block comment is a blank, a string may hold    *)
(* both. *)
ArgumentStep(state) ==
    LET c   == peek(state.src)
        src == Read(state.src)
        comment == readBlockComment(src)
        string  == readString(setMark(unread(src)))
        Reported(result) ==
            state.reports \o Located(result.src, state.source, result.reports)
    IN  CASE c \in Newline \cup {NUL} -> state
          [] c = "#" -> [state EXCEPT !.src = readLineComment(src)]
          [] c = "/" /\ peek(src) = "*" ->
                [state EXCEPT !.src = comment.src, !.arg = @ \o " ",
                              !.reports = Reported(comment)]
          [] c \in Quote ->
                [state EXCEPT !.src = string.src, !.reports = Reported(string),
                              !.arg = @ \o getMarkedString(string.src)]
          [] OTHER -> [state EXCEPT !.src = src, !.arg = @ \o c]

(* The whole argument, from a source behind the name of the directive. *)
Argument(src, source) ==
    LET run[n \in Nat] ==
            IF n = 0 THEN [src |-> src, source |-> source, arg |-> "", reports |-> <<>>]
            ELSE ArgumentStep(run[n - 1])
    IN  run[Len(src.data) - src.ptr]

(* util::trim(); the quotes around the name of a file *)
Trimmed(arg) ==
    LET used == {k \in 1..Len(arg) : SubSeq(arg, k, k) \notin Whitespace}
    IN  IF used = {} THEN "" ELSE SubSeq(arg, Min(used), Max(used))
Unquoted(arg) ==
    LET first == SubSeq(arg, 1, 1)
    IN  IF first \in Quote /\ first = SubSeq(arg, Len(arg), Len(arg))
        THEN SubSeq(arg, 2, Len(arg) - 1)
        ELSE arg
-----------------------------------------------------------------------------
(* DirectiveProcessor::read() *)
(* The parser calls it. *)
Call(m) ==
    /\ mode = "idle" /\ m \in setup.modes
    /\ Cardinality({i \in DOMAIN items : items[i].type = "EndOfFile"
                        /\ items[i].source = 1}) < MaxEnds + Len(setup.lines)
    /\ mode' = m
    /\ UNCHANGED <<setup, lines, sources, stack, reports, items, origin>>

Top == Last(stack)
Scanned == Attempt(sources[Top], mode)
Item(result, end) ==
    [source |-> Top, mode |-> mode, type |-> result.type,
     offset |-> result.src.mark, end |-> end, location |-> result.src.markLocation]

(* The source has been read up to where result leaves it. *)
Advance(result) ==
    /\ sources' = [sources EXCEPT ![Top] = result.src]
    /\ reports' = reports \o Located(result.src, Top, result.reports)

(* A comment or an invalid character: Scanner::read() goes on. *)
SkipStep ==
    /\ Scanned.type = "None"
    /\ Advance(Scanned)
    /\ UNCHANGED <<setup, lines, stack, mode, items, origin>>

(* The token is returned to the parser; at the end of the text only if no  *)
(* source is open that includes it, and no complete line follows on the    *)
(* standard input. *)
AtEnd    == Scanned.type = "EndOfFile"
Complete(line) == SubSeq(line, Len(line), Len(line)) = "\n"
NextLine == lines # <<>> /\ Complete(Head(lines))
ReturnToken ==
    /\ Scanned.type \notin {"None", "ParseDirective"}
    /\ AtEnd => Len(stack) = 1 /\ ~NextLine
    /\ Advance(Scanned)
    /\ items' = Append(items, Item(Scanned, Scanned.src.ptr))
    /\ mode' = "idle"
    /\ lines' = IF AtEnd /\ lines # <<>> THEN Tail(lines) ELSE lines
    /\ UNCHANGED <<setup, stack, origin>>

(* The end of an included file. *)
PopSource ==
    /\ AtEnd /\ Len(stack) > 1
    /\ Advance(Scanned)
    /\ items' = Append(items, Item(Scanned, Scanned.src.ptr))
    /\ stack' = Front(stack)
    /\ UNCHANGED <<setup, lines, mode, origin>>

(* StdinWrapper::read(): the next line, and read() is called again. *)
AppendLine ==
    /\ AtEnd /\ Len(stack) = 1 /\ NextLine
    /\ sources' = [sources EXCEPT ![1] = append(Scanned.src, Head(lines))]
    /\ reports' = reports \o Located(Scanned.src, 1, Scanned.reports)
    /\ items' = Append(items, Item(Scanned, Scanned.src.ptr))
    /\ lines' = Tail(lines)
    /\ UNCHANGED <<setup, stack, mode, origin>>

(* processDirective(): the file is pushed, and the place in the source that *)
(* includes it is kept, as that source is not a copy. *)
Pushed(new) == Append(stack, new)
OpenedFromCopy(argument, text) == Append(sources, NewSource(Cleaned(text)))
Opened(argument, text) ==
    Append([sources EXCEPT ![Top] = argument.src], NewSource(Cleaned(text)))

Directives == {"%include"}
createFromFile(file, name, argument, location) ==
    LET exists == file \in DOMAIN setup.files
        text   == IF exists THEN setup.files[file] ELSE ""
        new    == Len(sources) + 1
    IN  /\ sources' = Opened(argument, text)
        /\ stack' = Pushed(new)
        /\ origin' = Append(origin, [parent |-> Top, at |-> name.offset, file |-> file])
        /\ reports' = reports \o argument.reports
              \o (IF exists THEN <<>>
                  ELSE <<[id |-> "ScriptFileIoError", source |-> Top,
                          offset |-> name.offset, location |-> location]>>)
              \o CreateReports(new, text)

ProcessDirective ==
    LET directive == getMarkedString(Scanned.src)
        argument  == Argument(Scanned.src, Top)
        arg       == Trimmed(argument.arg)
        item      == Item(Scanned, argument.src.ptr)
        Refuse(id) ==
            /\ sources' = [sources EXCEPT ![Top] = argument.src]
            /\ reports' = Append(reports \o argument.reports,
                                 [id |-> id, source |-> Top, offset |-> item.offset,
                                  location |-> item.location])
            /\ UNCHANGED <<stack, origin>>
    IN  /\ Scanned.type = "ParseDirective"
        /\ items' = Append(items, item)
        /\ \/ directive \notin Directives /\ Refuse("UnknownDirective")
           \/ directive \in Directives /\ arg = "" /\ Refuse("MissingArgument")
           \/ /\ directive \in Directives /\ arg # "" /\ Len(sources) < MaxSources
              /\ createFromFile(Unquoted(arg), item, argument, item.location)
        /\ UNCHANGED <<setup, lines, mode>>

Step ==
    /\ mode # "idle"
    /\ SkipStep \/ ReturnToken \/ PopSource \/ AppendLine \/ ProcessDirective
Next == (\E m \in Mode : Call(m)) \/ Step
(* The process is not suspended for ever while it reads a token.  This is  *)
(* the weak fairness of Step with the states in which it is enabled written *)
(* out: TLC evaluates ENABLED without remembering any value.                *)
Reading  == mode # "idle" /\ Len(sources) < MaxSources
Fairness == <>[]Reading => []<><<Step>>_vars
Spec == Init /\ [][Next]_vars /\ Fairness
-----------------------------------------------------------------------------
Text(item) == Substring(sources[item.source].data, item.offset, item.end)
Reported(item) ==
    {i \in DOMAIN reports : /\ reports[i].source = item.source
                            /\ reports[i].offset = item.offset
                            /\ reports[i].id \notin {"NulCharactersIgnored",
                                    "InvalidCharacter", "UnendedBlockComment"}}
(* The item before the i-th one in the same source, 0 if it is the first. *)
Previous(i) ==
    LET J == {j \in 1..i - 1 : items[j].source = items[i].source}
    IN  IF J = {} THEN 0 ELSE Max(J)
Passed(i) == IF Previous(i) = 0 THEN 0 ELSE items[Previous(i)].end

(* Where the character at offset k is: a line ends with a line feed, a     *)
(* carriage return or both, tab stops are four columns apart, and whatever *)
(* is beyond column 255 is reported there. *)
LineEnds(text, k) ==
    {j \in 0..k - 1 : CharAt(text, j) = "\n"
                        \/ (CharAt(text, j) = "\r" /\ CharAt(text, j + 1) # "\n")}
LineOf(text, k) == 1 + Cardinality(LineEnds(text, k))
ColumnOf(text, k) ==
    LET start == Max({0} \cup {j + 1 : j \in LineEnds(text, k)})
        column[j \in start..k] ==
            IF j = start THEN 1
            ELSE LET c == column[j - 1]
                 IN  IF CharAt(text, j - 1) = "\t"
                     THEN Min({n \in c + 1..c + 4 : n % 4 = 1})
                     ELSE c + 1
    IN  Min({column[k], 255})

(* The line and the column of every token, and of every diagnostic, are    *)
(* those of its text (Source::read(), unread(), append(), the packing in   *)
(* SourceLocation). *)
LocationsAreRight ==
    LET Right(x) ==
            LET text == sources[x.source].data
            IN  /\ getLine(x.location) = LineOf(text, x.offset)
                /\ getColumn(x.location) = ColumnOf(text, x.offset)
    IN  /\ \A i \in DOMAIN items : Right(items[i])
        /\ \A i \in DOMAIN reports : Right(reports[i])

(* A directive is what begins a line. *)
DirectivesBeginLines ==
    \A i \in DOMAIN items : items[i].mode # "Regex" =>
        (items[i].type = "ParseDirective"
            <=> /\ CharAt(Text(items[i]), 0) = "%"
                /\ getColumn(items[i].location) = 1)

(* What lies between two tokens of a source, from one offset to another:   *)
(* blanks, comments, and what has been reported: invalid characters and a  *)
(* comment that goes on to the end of the text.                            *)
BlockCommentEnds(text, k) ==
    {j \in k + 4..Len(text) : Substring(text, j - 2, j) = "*/"}
LineCommentEnd(text, k) ==
    Min({j \in k..Len(text) : CharAt(text, j) \in Newline \cup {NUL}})
IsGap(source, from, to, atEnd) ==
    LET text == sources[source].data
        Complaint(id, k) ==
            \E i \in DOMAIN reports : /\ reports[i].id = id /\ reports[i].offset = k
                                      /\ reports[i].source = source
        gap[k \in 0..Len(text)] ==
            CASE k >= to -> k = to
              [] k < to /\ CharAt(text, k) \in Whitespace \cup Newline -> gap[k + 1]
              [] k < to /\ CharAt(text, k) = "#" -> gap[LineCommentEnd(text, k)]
              [] k < to /\ Substring(text, k, Min({k + 2, Len(text)})) = "/*" ->
                    LET E == BlockCommentEnds(text, k)
                    IN  IF Complaint("UnendedBlockComment", k) THEN atEnd
                        ELSE E # {} /\ gap[Min(E)]
              [] OTHER -> Complaint("InvalidCharacter", k) /\ gap[k + 1]
    IN  gap[from]
(* Every character of every source is in exactly one token or directive,   *)
(* or in blanks and comments between them, or has been reported, and an    *)
(* included file is left only at its end: nothing is skipped or read twice *)
(* (the loops of Scanner, the stack of DirectiveProcessor).                *)
NothingIsSkipped ==
    /\ \A i \in DOMAIN items : IsGap(items[i].source, Passed(i), items[i].offset,
                                     items[i].type = "EndOfFile")
    /\ \A n \in DOMAIN sources :
            ~Contains(stack, n) => sources[n].ptr = Len(sources[n].data)

(* The place of an item in the whole program: the offsets of the           *)
(* directives that lead to its source, then its own offset.                *)
PathOf(item) ==
    LET path[n \in DOMAIN sources] ==
            IF n = 1 THEN <<>> ELSE Append(path[origin[n].parent], origin[n].at)
    IN  Append(path[item.source], item.offset)
Before(s, t) ==
    \/ Len(s) < Len(t) /\ SubSeq(t, 1, Len(s)) = s
    \/ \E k \in DOMAIN s \cap DOMAIN t :
            s[k] < t[k] /\ SubSeq(s, 1, k - 1) = SubSeq(t, 1, k - 1)
(* The tokens come in the order of the program in which every %include is  *)
(* replaced by the file: what is read from a file comes after the          *)
(* directive and before what follows it (the stack of sources, each of     *)
(* which keeps its place). *)
TokensInProgramOrder ==
    \A i \in 1..Len(items) - 1 :
        \/ Before(PathOf(items[i]), PathOf(items[i + 1]))
        \/ items[i].type = "EndOfFile"
              /\ items[i].source = 1 /\ items[i + 1].source = 1
              /\ items[i].offset <= items[i + 1].offset

(* The program is read whole and in order, and its directives are found. *)
ProgramIsRead == NothingIsSkipped /\ TokensInProgramOrder /\ DirectivesBeginLines

(* Does a text, read alone, show that its token is not whole?              *)
BackslashesBefore(text, k) ==
    k - Min({j \in 0..k : \A l \in j..k - 1 : CharAt(text, l) = Escape})
Unescaped(text, k) == BackslashesBefore(text, k) % 2 = 0
ClosedString(text) ==
    /\ Len(text) > 1
    /\ CharAt(text, Len(text) - 1) = CharAt(text, 0)
    /\ CharAt(text, 0) = "\"" => Unescaped(text, Len(text) - 1)
Slashes(text) ==
    {k \in 0..Len(text) - 1 : CharAt(text, k) = "/" /\ Unescaped(text, k)}
WholeRegex(text) ==
    \/ CharAt(text, 0) \in {"/", "m", "x"} /\ Cardinality(Slashes(text)) = 2
    \/ CharAt(text, 0) = "s" /\ Cardinality(Slashes(text)) = 3
    \/ Substring(text, 0, Min({2, Len(text)})) = "tr" /\ Cardinality(Slashes(text)) = 3
Whole(item) ==
    CASE item.type \in {"String", "BackquotedString"} -> ClosedString(Text(item))
      [] item.type = "Integer" -> Text(item) # "0x"
      [] item.type = "Regex"   -> WholeRegex(Text(item))
      [] item.type = "EndOfFile" -> item.mode # "Regex" /\ Text(item) = ""
      [] OTHER -> TRUE
(* A token that is not whole (a string or a regular expression without its *)
(* end, 0x without digits) is reported, at its place, and no other token   *)
(* is. *)
ReportsAreRight ==
    \A i \in DOMAIN items : items[i].type # "ParseDirective" =>
        (Reported(items[i]) # {}
            <=> \E j \in DOMAIN items : /\ items[j].source = items[i].source
                                        /\ items[j].offset = items[i].offset
                                        /\ ~Whole(items[j]))

(* A token is the same whether it is read now or when more lines have been *)
(* appended: in an interactive session a line end ends every token that is *)
(* whole, so the tokens are those of all lines together (readIdentifier()  *)
(* and the others stop at the end of the text as they do at the newline).  *)
TokensAreStable ==
    \A i \in DOMAIN items :
        Reported(items[i]) = {} /\ items[i].type # "EndOfFile" =>
            LET item  == items[i]
                again == Attempt([NewSource(sources[item.source].data) EXCEPT
                                     !.ptr = item.offset], item.mode)
            IN  /\ again.type = item.type
                /\ item.type = "ParseDirective" \/ again.src.ptr = item.end
                /\ again.reports = <<>>

(* Which files a file may include: those it names. *)
Names(text, file) ==
    \E k \in 0..Len(text) - Len(file) : Substring(text, k, k + Len(file)) = file
Includes(text) == {file \in DOMAIN setup.files : Names(text, file)}
Reaches ==
    LET within[n \in Nat] ==
            IF n = 0 THEN {p \in (DOMAIN setup.files) \X (DOMAIN setup.files) :
                               p[2] \in Includes(setup.files[p[1]])}
            ELSE within[n - 1] \cup {p \in (DOMAIN setup.files) \X (DOMAIN setup.files) :
                    \E f \in DOMAIN setup.files :
                        <<p[1], f>> \in within[n - 1] /\ <<f, p[2]>> \in within[n - 1]}
    IN  within[Cardinality(DOMAIN setup.files)]
Acyclic == \A f \in DOMAIN setup.files : <<f, f>> \notin Reaches
(* If no file includes itself, through others neither, every call of read() *)
(* returns: the includes end, and after each of them the including source   *)
(* goes on behind the directive.                                            *)
ReadReturns == Acyclic => (mode # "idle" ~> mode = "idle")
=============================================================================
