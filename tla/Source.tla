-------------------------------- MODULE Source --------------------------------
(***************************************************************************)
(* The text of a script with a place in it (include/qore/comp/Source.h,    *)
(* include/qore/core/SourceLocation.h).  A text is a string, a character a *)
(* string of length 1; NUL, the end, is the empty string.  Offsets begin   *)
(* at 0, as in the code.                                                   *)
(***************************************************************************)
EXTENDS Integers, Sequences, FiniteSets, FiniteSetsExt

NUL == ""
CharAt(text, k) == IF k < Len(text) THEN SubSeq(text, k + 1, k + 1) ELSE NUL
Substring(text, from, to) == SubSeq(text, from + 1, to)

(* SourceLocation: line and column packed in one int. *)
SourceLocation(line, column) ==
    line * 256 + (IF column > 255 THEN 255 ELSE column)
getLine(location)   == location \div 256
getColumn(location) == location % 256

NewSource(text) ==
    [data |-> text, ptr |-> 0, line |-> 1, column |-> 1, mark |-> 0,
     markLocation |-> SourceLocation(1, 1)]

peek(src) == CharAt(src.data, src.ptr)
tabSize   == 4

(* A carriage return that counts as the end of a line before a line feed, too. *)
EndsLineAlways(src) == peek(src) \in {"\n", "\r"}
EndsLine(src) ==
    peek(src) = "\n" \/ (peek(src) = "\r" /\ CharAt(src.data, src.ptr + 1) # "\n")

Read(src) ==
    IF peek(src) = NUL THEN src
    ELSE [src EXCEPT
            !.ptr  = @ + 1,
            !.line = IF EndsLine(src) THEN @ + 1 ELSE @,
            !.column = CASE EndsLine(src) -> 1
                         [] peek(src) = "\t" -> @ + (tabSize - ((@ - 1) % tabSize))
                         [] OTHER -> @ + 1]

(* unread(): the character that was read is no blank. *)
unread(src) == [src EXCEPT !.ptr = @ - 1, !.column = @ - 1]

(* Read() until the pointer is at k. *)
ReadTo(src, k) ==
    LET at[j \in src.ptr..k] == IF j = src.ptr THEN src ELSE Read(at[j - 1])
    IN  at[k]

(* Read() while the next character is one of C, is none of C. *)
ReadWhile(src, C) ==
    ReadTo(src, Min({k \in src.ptr..Len(src.data) : CharAt(src.data, k) \notin C}))
ReadUntil(src, C) ==
    ReadTo(src, Min({k \in src.ptr..Len(src.data) : CharAt(src.data, k) \in C \cup {NUL}}))

setMark(src) ==
    [src EXCEPT !.mark = src.ptr,
                !.markLocation = SourceLocation(src.line, src.column)]
getMarkedString(src) == Substring(src.data, src.mark, src.ptr)
getMarkedLength(src) == src.ptr - src.mark

(* Is the last character that was read the first one of its line? *)
wasFirstAfterLineFeed(src) ==
    src.ptr = 1 \/ CharAt(src.data, src.ptr - 2) = "\n"
wasFirstOnLine(src) ==
    src.ptr = 1 \/ CharAt(src.data, src.ptr - 2) \in {"\n", "\r"}

(* The line without its line feed, and with it. *)
appendChopped(src, string) ==
    [src EXCEPT !.data = @ \o SubSeq(string, 1, Len(string) - 1)]
append(src, string) == [src EXCEPT !.data = @ \o string]
=============================================================================
