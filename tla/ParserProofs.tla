----------------------------- MODULE ParserProofs -----------------------------
(***************************************************************************)
(* The parser keeps the order of the tokens and its recovery stops in its  *)
(* place, whatever the sources are: what the steps on its stack may rely   *)
(* on, and what the tokens are that have been skipped.                     *)
(***************************************************************************)
EXTENDS Parser, SequenceLemmas

-----------------------------------------------------------------------------
(* What may be on the stack. *)

(* Functions of the parser that may be called with or without a recorder,  *)
(* those of namespaceMember() that are called with one, and the others     *)
NameFunctions == {"name", "names", "identifier", "type"}
MemberFunctions ==
    {"memberKind", "functionOrClosure", "afterType", "functionOrVariable", "afterName"}
OtherFunctions ==
    {"coalescing", "conditional", "assignment", "moreExprs", "args", "prefixExpr",
     "postfix", "access", "list", "listElement", "params", "paramDefault",
     "moreParams", "initializer", "primaryExpr", "closureType", "afterAsterisk",
     "afterNameExpr", "paren", "parenRest", "curly", "strings", "statements", "else",
     "cases", "caseValue", "caseBody", "statement", "methodBody", "classBody",
     "classMembers", "methodName", "fields", "field", "fieldInit", "namespaceBody",
     "namespaceMembers", "parseScript", "parseDeclOrStmt"}
ListFunctions      == {"moreElements", "element", "optional"}
SeparatedFunctions == {"baseCtors", "superclasses"}

(* Types of tokens the parser matches, and those that end or begin a part  *)
(* that may be left out *)
Matched ==
    {"(", ")", ":", "<", "=", ">", "]", "catch", "class", "const", "curlyLeft",
     "curlyRight", "do", "for", "foreach", "id", "if", "in", "namespace", "return",
     "semicolon", "sub", "switch", "throw", "try", "while"}
Ending     == {")", "curlyRight", "semicolon"}
Separators == {":", "inherits", "comma"}

ModifierCalls == {"call"} \X {"modifiers"} \X SUBSET Modifier
NameCalls     == ({"call"} \X NameFunctions \X {""}) \cup ModifierCalls
MemberCalls   == {"call"} \X MemberFunctions \X BOOLEAN
OtherCalls    == ({"call"} \X OtherFunctions \X {""})
                 \cup ({"call"} \X ListFunctions \X Ending)
                 \cup ({"call"} \X SeparatedFunctions \X Separators)
                 \cup ({"call"} \X {"operators"} \X (1..Len(Levels)))
                 \cup ({"call"} \X {"classMember"} \X BOOLEAN)
Matches  == {"match"} \X Matched \X {"recoverDoNothing", "recoverSkipToSemicolon"}
SkipStep(end, cnt) == Step("skip", end, cnt)
Skips    == {"skip"} \X {"curlyRight", "semicolon"} \X Nat

(* Steps that need nothing of the steps before and after them *)
Neutral == NameCalls \cup OtherCalls \cup Matches \cup {DestroyRecorder}
ParserSteps == Neutral \cup MemberCalls \cup Skips
                 \cup {Consume, Report, EnsureToken, Disable, Enable, Record}

(* The i-th step of s stands where it may: a token is looked at before it  *)
(* is consumed, what is disabled is enabled again, what is recorded is     *)
(* left to a function that stops or rewinds the recorder.                  *)
Linked(s, i) ==
    /\ s[i][1] \in {"consume", "report"} =>
         i = 1 \/ s[i - 1][1] \in {"report", "enable", "ensureToken"}
    /\ s[i][1] = "disable" =>
         i + 2 <= Len(s) /\ s[i + 1] = SkipStep("curlyRight", 0) /\ s[i + 2] = Enable
    /\ s[i][1] = "skip" => i > 1 /\ s[i - 1] = Disable
    /\ s[i][1] = "enable" => i > 2 /\ s[i - 2] = Disable
    /\ s[i][1] = "record" =>
         i + 2 <= Len(s) /\ s[i + 1] \in ModifierCalls /\ s[i + 2] \in MemberCalls
    /\ s[i] \in MemberCalls => i > 2 /\ s[i - 2] = Record

(* What may be executed when there is a token, and what may be executed    *)
(* anyway *)
Enter  == {s \in Seq(ParserSteps) : \A i \in 1..Len(s) : Linked(s, i)}
Closed == {s \in Enter : s = <<>> \/ s[1][1] \notin {"consume", "report"}}

(* What ends in a step after which a token may be consumed *)
Opening == {s \in Enter : s # <<>> /\ s[Len(s)][1] \in {"report", "enable", "ensureToken"}}

(* What follows while a member is read with a recorder: calls of functions *)
(* for names, and the function that stops or rewinds the recorder          *)
Recorded == {s \o Cons(c, r) : s \in Seq(NameCalls), c \in MemberCalls, r \in Closed}

(* The tokens that may be recorded: what may precede the names of a member *)
Prefix == Modifier \cup StartOfName \cup {"sub", "*"}

Quiet     == disabledCounter = 0
Executing == /\ ~recording /\ Quiet
             /\ todo \in Enter /\ (todo \in Closed \/ hasToken)
RegexNext(r) == /\ ~recording /\ Quiet /\ hasToken /\ token.type = "=~"
                /\ r \in Closed /\ todo = Cons(Consume, Cons(ReadRegex, r))
RegexHere(r) == /\ ~recording /\ Quiet /\ ~hasToken /\ queue = <<>>
                /\ r \in Closed /\ todo = Cons(ReadRegex, r)
Muting(r)   == /\ ~recording /\ Quiet /\ r \in Closed
               /\ todo = Cons(Disable, Cons(SkipStep("semicolon", 0), Cons(Enable, r)))
Skipping(end, cnt, r) ==
    /\ ~recording /\ disabledCounter = 1
    /\ end \in {"curlyRight", "semicolon"} /\ cnt \in Nat
    /\ r \in Enter /\ (r \in Closed \/ end = "curlyRight")
    /\ todo = Cons(SkipStep(end, cnt), Cons(Enable, r))
Unmuting(r) == /\ ~recording /\ disabledCounter = 1
               /\ r \in Enter /\ (r \in Closed \/ hasToken)
               /\ todo = Cons(Enable, r)
Stopping(r) == /\ recording /\ Quiet /\ hasToken
               /\ r \in Enter /\ todo = Cons(Stop, r)
Rewinding(r) == /\ recording /\ Quiet
                /\ r \in Closed /\ todo = Cons(Rewind, r)
Reading(r) ==
    /\ recording /\ Quiet /\ r \in Recorded
    /\ \/ todo = r
       \/ hasToken /\ token.type \in Prefix /\ todo = Cons(Consume, r)
       \/ hasToken /\ todo = Cons(Report, r)
       \/ hasToken /\ token.type \in Prefix /\ todo = Cons(Report, Cons(Consume, r))

StackInv ==
    \/ Executing
    \/ \E r : RegexNext(r)
    \/ \E r : RegexHere(r)
    \/ \E r : Muting(r)
    \/ \E end, cnt, r : Skipping(end, cnt, r)
    \/ \E r : Unmuting(r)
    \/ \E r : Stopping(r)
    \/ \E r : Rewinding(r)
    \/ \E r : Reading(r)

-----------------------------------------------------------------------------
(* Sequences of steps. *)

(* What each kind of step is *)
LEMMA KindLemma ==
    /\ \A x \in Neutral :
         x[1] \in {"call", "match", "destroyRecorder"} /\ x \notin MemberCalls
    /\ \A x \in MemberCalls : x[1] = "call"
    /\ \A x \in ModifierCalls : x \in NameCalls
    /\ \A x \in NameCalls : x[1] = "call" /\ x \in Neutral
    /\ \A x \in Skips : x[1] = "skip"
    /\ \A x \in ParserSteps :
         \/ x \in Neutral \cup MemberCalls \cup Skips
         \/ x \in {Consume, Report, EnsureToken, Disable, Enable, Record}
    /\ Neutral \subseteq ParserSteps
<1>1. \A x \in NameCalls : x[1] = "call" /\ x[2] \in NameFunctions \cup {"modifiers"}
  BY DEF NameCalls, ModifierCalls
<1>2. \A x \in MemberCalls : x[1] = "call" /\ x[2] \in MemberFunctions
  BY DEF MemberCalls
<1>3. \A x \in OtherCalls :
        /\ x[1] = "call"
        /\ x[2] \in OtherFunctions \cup ListFunctions \cup SeparatedFunctions
                      \cup {"operators", "classMember"}
  BY DEF OtherCalls
<1>4. \A x \in Matches : x[1] = "match" BY DEF Matches
<1>5. \A x \in Skips : x[1] = "skip" BY DEF Skips
<1>6. DestroyRecorder[1] = "destroyRecorder" BY DEF DestroyRecorder, Step
<1>7. (NameFunctions \cup {"modifiers"}) \cap MemberFunctions = {}
  BY DEF NameFunctions, MemberFunctions
<1>8. (OtherFunctions \cup ListFunctions \cup SeparatedFunctions
         \cup {"operators", "classMember"}) \cap MemberFunctions = {}
  BY DEF OtherFunctions, ListFunctions, SeparatedFunctions, MemberFunctions
<1>9. \A x \in ModifierCalls : x \in NameCalls BY DEF NameCalls
<1>10. \A x \in Neutral :
         x[1] \in {"call", "match", "destroyRecorder"} /\ x \notin MemberCalls
  BY <1>1, <1>2, <1>3, <1>4, <1>6, <1>7, <1>8 DEF Neutral
<1> QED BY <1>1, <1>2, <1>5, <1>9, <1>10 DEF ParserSteps, Neutral

LEMMA StepLemma ==
    /\ Consume[1] = "consume" /\ Report[1] = "report" /\ EnsureToken[1] = "ensureToken"
    /\ Disable[1] = "disable" /\ Enable[1] = "enable" /\ Record[1] = "record"
    /\ Stop[1] = "stop" /\ Rewind[1] = "rewind" /\ ReadRegex[1] = "readRegex"
    /\ DestroyRecorder[1] = "destroyRecorder"
BY DEF Consume, Report, EnsureToken, Disable, Enable, Record, Stop, Rewind, ReadRegex,
       DestroyRecorder, Step

LEMMA NeutralIsClosed == Seq(Neutral) \subseteq Closed
<1> SUFFICES ASSUME NEW s \in Seq(Neutral) PROVE s \in Closed OBVIOUS
<1>1. \A i \in 1..Len(s) : s[i] \in Neutral BY ElementOfSeq
<1>2. s \in Seq(ParserSteps) BY KindLemma, SeqDef, ElementOfSeq
<1>3. \A i \in 1..Len(s) : Linked(s, i) BY <1>1, KindLemma, StepLemma DEF Linked
<1>4. s # <<>> => s[1] \in Neutral BY <1>1, EmptySeq
<1> QED BY <1>2, <1>3, <1>4, KindLemma DEF Enter, Closed

(* A step that stands where it may in s does so in t, which is alike around *)
(* it.                                                                     *)
LEMMA LinkedLemma ==
  ASSUME NEW s, NEW t, NEW i \in Nat, NEW j \in Nat, Len(s) \in Nat, Len(t) \in Nat,
         Linked(s, i), t[j] = s[i],
         i > 1 => j > 1 /\ t[j - 1] = s[i - 1],
         i > 2 => j > 2 /\ t[j - 2] = s[i - 2],
         i + 2 <= Len(s) =>
           j + 2 <= Len(t) /\ t[j + 1] = s[i + 1] /\ t[j + 2] = s[i + 2],
         i = 1 => \/ j = 1 \/ s[i][1] \notin {"consume", "report"}
                  \/ t[j - 1][1] \in {"report", "enable", "ensureToken"},
         i >= 1
  PROVE  Linked(t, j)
<1>1. ASSUME t[j][1] \in {"consume", "report"}
      PROVE  j = 1 \/ t[j - 1][1] \in {"report", "enable", "ensureToken"}
  <2>1. i = 1 \/ s[i - 1][1] \in {"report", "enable", "ensureToken"} BY <1>1 DEF Linked
  <2> QED BY <2>1, <1>1
<1>2. ASSUME t[j][1] = "disable"
      PROVE  j + 2 <= Len(t) /\ t[j + 1] = SkipStep("curlyRight", 0) /\ t[j + 2] = Enable
  <2>1. i + 2 <= Len(s) /\ s[i + 1] = SkipStep("curlyRight", 0) /\ s[i + 2] = Enable
    BY <1>2 DEF Linked
  <2> QED BY <2>1
<1>3. ASSUME t[j][1] = "skip" PROVE j > 1 /\ t[j - 1] = Disable
  <2>1. i > 1 /\ s[i - 1] = Disable BY <1>3 DEF Linked
  <2> QED BY <2>1
<1>4. ASSUME t[j][1] = "enable" PROVE j > 2 /\ t[j - 2] = Disable
  <2>1. i > 2 /\ s[i - 2] = Disable BY <1>4 DEF Linked
  <2> QED BY <2>1
<1>5. ASSUME t[j][1] = "record"
      PROVE  j + 2 <= Len(t) /\ t[j + 1] \in ModifierCalls /\ t[j + 2] \in MemberCalls
  <2>1. i + 2 <= Len(s) /\ s[i + 1] \in ModifierCalls /\ s[i + 2] \in MemberCalls
    BY <1>5 DEF Linked
  <2> QED BY <2>1
<1>6. ASSUME t[j] \in MemberCalls PROVE j > 2 /\ t[j - 2] = Record
  <2>1. i > 2 /\ s[i - 2] = Record BY <1>6 DEF Linked
  <2> QED BY <2>1
<1> QED BY <1>1, <1>2, <1>3, <1>4, <1>5, <1>6 DEF Linked

LEMMA JoinLemma ==
  ASSUME NEW s \in Enter, NEW r \in Enter, r \in Closed \/ s \in Opening
  PROVE  /\ s \o r \in Enter
         /\ s \in Closed => s \o r \in Closed
         /\ r \in Opening => s \o r \in Opening
<1> DEFINE t == s \o r
<1>1. /\ s \in Seq(ParserSteps) /\ r \in Seq(ParserSteps)
      /\ Len(s) \in Nat /\ Len(r) \in Nat
  BY LenProperties DEF Enter, Closed
<1>2. /\ t \in Seq(ParserSteps) /\ Len(t) = Len(s) + Len(r)
      /\ \A i \in 1..Len(s) : t[i] = s[i]
      /\ \A i \in 1..Len(r) : t[Len(s) + i] = r[i]
  BY <1>1, ConcatProperties
<1>3. /\ \A i \in 1..Len(s) : Linked(s, i)
      /\ \A i \in 1..Len(r) : Linked(r, i)
      /\ r # <<>> => \/ r[1][1] \notin {"consume", "report"}
                     \/ s # <<>> /\ s[Len(s)][1] \in {"report", "enable", "ensureToken"}
  BY DEF Enter, Closed, Opening
<1> HIDE DEF t
<1>4. ASSUME NEW i \in 1..Len(s) PROVE Linked(t, i)
  <2>1. Linked(s, i) /\ t[i] = s[i] BY <1>2, <1>3
  <2>2. i \in Nat /\ i >= 1 /\ i <= Len(s) BY <1>1
  <2>3. i > 1 => t[i - 1] = s[i - 1]
    <3>1. i > 1 => i - 1 \in 1..Len(s) BY <2>2, <1>1
    <3> QED BY <3>1, <1>2
  <2>4. i > 2 => t[i - 2] = s[i - 2]
    <3>1. i > 2 => i - 2 \in 1..Len(s) BY <2>2, <1>1
    <3> QED BY <3>1, <1>2
  <2>5. i + 2 <= Len(s) =>
          i + 2 <= Len(t) /\ t[i + 1] = s[i + 1] /\ t[i + 2] = s[i + 2]
    <3>1. i + 2 <= Len(s) => i + 1 \in 1..Len(s) /\ i + 2 \in 1..Len(s) BY <2>2, <1>1
    <3> QED BY <3>1, <2>2, <1>1, <1>2
  <2>6. Len(t) \in Nat BY <1>1, <1>2
  <2> QED BY ONLY <2>1, <2>2, <2>3, <2>4, <2>5, <2>6, <1>1, LinkedLemma
<1>5. ASSUME NEW j \in 1..Len(r) PROVE Linked(t, Len(s) + j)
  <2> DEFINE i == Len(s) + j
  <2>1. Linked(r, j) /\ t[i] = r[j] BY <1>2, <1>3
  <2>2. /\ j \in Nat /\ j >= 1 /\ j <= Len(r) /\ i \in Nat
        /\ j > 1 => i > 1 /\ i - 1 = Len(s) + (j - 1) /\ j - 1 \in 1..Len(r)
        /\ j > 2 => i > 2 /\ i - 2 = Len(s) + (j - 2) /\ j - 2 \in 1..Len(r)
        /\ j + 2 <= Len(r) => /\ i + 1 = Len(s) + (j + 1) /\ j + 1 \in 1..Len(r)
                              /\ i + 2 = Len(s) + (j + 2) /\ j + 2 \in 1..Len(r)
                              /\ i + 2 <= Len(s) + Len(r)
    BY <1>1
  <2> HIDE DEF i
  <2>3. j > 1 => i > 1 /\ t[i - 1] = r[j - 1] BY <2>2, <1>2
  <2>4. j > 2 => i > 2 /\ t[i - 2] = r[j - 2] BY <2>2, <1>2
  <2>5. j + 2 <= Len(r) =>
          i + 2 <= Len(t) /\ t[i + 1] = r[j + 1] /\ t[i + 2] = r[j + 2]
    BY <2>2, <1>2
  <2>6. j = 1 => \/ r[j][1] \notin {"consume", "report"}
                 \/ t[i - 1][1] \in {"report", "enable", "ensureToken"}
    <3> SUFFICES ASSUME j = 1, r[j][1] \in {"consume", "report"}
                 PROVE  t[i - 1][1] \in {"report", "enable", "ensureToken"}
      OBVIOUS
    <3>1. r # <<>> BY <1>1, EmptySeq
    <3>2. s # <<>> /\ s[Len(s)][1] \in {"report", "enable", "ensureToken"} BY <3>1, <1>3
    <3>3. Len(s) \in 1..Len(s) BY <3>2, <1>1, EmptySeq
    <3>4. t[Len(s)] = s[Len(s)] BY <3>3, <1>2
    <3>5. i - 1 = Len(s) BY <1>1 DEF i
    <3> QED BY <3>2, <3>4, <3>5
  <2>7. Len(t) \in Nat BY <1>1, <1>2
  <2>8. Linked(t, i)
    BY <2>1, <2>2, <2>3, <2>4, <2>5, <2>6, <2>7, <1>1, LinkedLemma
  <2> QED BY <2>8 DEF i
<1>6. ASSUME NEW i \in 1..Len(t) PROVE Linked(t, i)
  <2>1. i \in 1..Len(s) \/ (i - Len(s) \in 1..Len(r) /\ i = Len(s) + (i - Len(s)))
    BY <1>1, <1>2
  <2> QED BY <2>1, <1>4, <1>5
<1>7. ASSUME s \in Closed PROVE t = <<>> \/ t[1][1] \notin {"consume", "report"}
  <2>1. CASE s = <<>>
    <3>1. t = r BY <2>1, <1>1 DEF t
    <3>2. s \notin Opening BY <2>1 DEF Opening
    <3> QED BY <3>1, <3>2 DEF Closed
  <2>2. CASE s # <<>>
    <3>1. 1 \in 1..Len(s) /\ t[1] = s[1] BY <2>2, <1>1, <1>2, EmptySeq
    <3> QED BY <3>1, <2>2, <1>7 DEF Closed
  <2> QED BY <2>1, <2>2
<1>8. ASSUME r \in Opening
      PROVE  t # <<>> /\ t[Len(t)][1] \in {"report", "enable", "ensureToken"}
  <2>1. r # <<>> /\ r[Len(r)][1] \in {"report", "enable", "ensureToken"}
    BY <1>8 DEF Opening
  <2>2. Len(r) \in 1..Len(r) BY <2>1, <1>1, EmptySeq
  <2>3. t[Len(s) + Len(r)] = r[Len(r)] BY <2>2, <1>2
  <2>4. Len(t) # 0 BY <2>2, <1>1, <1>2
  <2> QED BY <2>1, <2>3, <2>4, <1>2
<1>9. t \in Enter BY <1>2, <1>6 DEF Enter
<1> QED BY <1>7, <1>8, <1>9 DEF Closed, Opening, t

(* Short sequences *)
LEMMA PairLemma == \A x, y : <<x, y>> = <<x>> \o <<y>>
<1> SUFFICES ASSUME NEW x, NEW y PROVE <<x, y>> = <<x>> \o <<y>> OBVIOUS
<1> DEFINE U == {x, y}
           v == <<x>> \o <<y>>
           w == <<x, y>>
<1>1. <<y>> \in Seq(U) /\ Len(<<y>>) = 1 /\ <<x>> \in Seq(U) /\ Len(<<x>>) = 1 OBVIOUS
<1>2. v \in Seq(U) /\ Len(v) = 2 /\ v[1] = x /\ v[1 + 1] = y
  BY <1>1, ConcatProperties
<1>3. w \in Seq(U) /\ Len(w) = 2 /\ w[1] = x /\ w[2] = y OBVIOUS
<1> HIDE DEF v, w
<1>4. \A i \in 1..2 : v[i] = w[i] BY <1>2, <1>3
<1>5. v = w BY <1>2, <1>3, <1>4, SeqEqual
<1> QED BY <1>5 DEF v, w

LEMMA TripleIsConcat == \A x, y, z : <<x, y, z>> = <<x>> \o <<y, z>>
<1> SUFFICES ASSUME NEW x, NEW y, NEW z PROVE <<x, y, z>> = <<x>> \o <<y, z>> OBVIOUS
<1> DEFINE U == {x, y, z}
           v == <<x>> \o <<y, z>>
           w == <<x, y, z>>
<1>1. <<y, z>> \in Seq(U) /\ Len(<<y, z>>) = 2 /\ <<x>> \in Seq(U) /\ Len(<<x>>) = 1 OBVIOUS
<1>2. v \in Seq(U) /\ Len(v) = 3 /\ v[1] = x /\ v[1 + 1] = y /\ v[1 + 2] = z
  BY <1>1, ConcatProperties
<1>3. w \in Seq(U) /\ Len(w) = 3 /\ w[1] = x /\ w[2] = y /\ w[3] = z OBVIOUS
<1> HIDE DEF v, w
<1>4. \A i \in 1..3 : v[i] = w[i] BY <1>2, <1>3
<1>5. v = w BY <1>2, <1>3, <1>4, SeqEqual
<1> QED BY <1>5 DEF v, w

LEMMA ConsParts ==
  ASSUME NEW S, NEW x, NEW r \in Seq(S), NEW c, c = Cons(x, r)
  PROVE  c # <<>> /\ Head(c) = x /\ Tail(c) = r
<1> DEFINE T == S \cup {x}
<1>1. PICK s : s = <<x>> /\ s \in Seq(T) /\ Len(s) = 1 /\ s[1] = x
  <2>1. <<x>> \in Seq(T) /\ Len(<<x>>) = 1 /\ <<x>>[1] = x OBVIOUS
  <2> QED BY <2>1
<1>2. r \in Seq(T) /\ Len(r) \in Nat BY SeqMonotonic, LenProperties
<1> HIDE DEF T
<1>3. /\ c \in Seq(T) /\ Len(c) = 1 + Len(r) /\ c[1] = x
      /\ \A i \in 1..Len(r) : c[1 + i] = r[i]
  BY <1>1, <1>2, ConcatProperties DEF Cons
<1>4. c # <<>> /\ Head(c) = x BY <1>2, <1>3, EmptySeq
<1>5. Tail(c) = r
  <2>1. /\ Tail(c) \in Seq(T) /\ Len(Tail(c)) = Len(r)
        /\ \A i \in 1..Len(r) : Tail(c)[i] = c[i + 1]
    BY <1>2, <1>3, <1>4, HeadTailProperties
  <2>2. \A i \in 1..Len(r) : Tail(c)[i] = r[i] BY <2>1, <1>2, <1>3
  <2> QED BY <2>1, <2>2, <1>2, SeqEqual
<1> QED BY <1>4, <1>5

LEMMA ConcatFour ==
  ASSUME NEW S, NEW a \in Seq(S), NEW b \in Seq(S), NEW c \in Seq(S), NEW r \in Seq(S)
  PROVE  (a \o (b \o c)) \o r = a \o (b \o (c \o r))
<1>1. b \o c \in Seq(S) BY ConcatProperties
<1>2. (a \o (b \o c)) \o r = a \o ((b \o c) \o r) BY SMTT(30), <1>1, ConcatAssociative
<1>3. (b \o c) \o r = b \o (c \o r) BY ConcatAssociative
<1> QED BY <1>2, <1>3

(* What is left of a sequence of steps may be executed too when nothing    *)
(* that is left belongs to what is gone. *)
LEMMA RestLemma ==
  ASSUME NEW s \in Enter, NEW r \in Seq(ParserSteps), NEW k \in 1..Len(s),
         Len(r) = Len(s) - k, \A i \in 1..Len(r) : r[i] = s[i + k],
         s[k] \notin {Disable, Record}, k > 1 => s[k - 1] \notin {Disable, Record}
  PROVE  /\ r \in Enter
         /\ s[k][1] \notin {"report", "enable", "ensureToken"} => r \in Closed
<1>1. /\ s \in Seq(ParserSteps) /\ Len(s) \in Nat /\ Len(r) \in Nat /\ k \in Nat /\ k >= 1
      /\ \A i \in 1..Len(s) : Linked(s, i)
  BY LenProperties DEF Enter
<1>2. ASSUME NEW j \in 1..Len(r) PROVE Linked(r, j)
  <2>1. PICK i \in Nat : i = j + k /\ i \in 1..Len(s) /\ i > 1 /\ j >= 1 /\ j \in Nat
    BY <1>1
  <2>2. Linked(s, i) /\ r[j] = s[i] BY <1>1, <2>1
  <2>3. ASSUME r[j][1] \in {"consume", "report"}
        PROVE  j = 1 \/ r[j - 1][1] \in {"report", "enable", "ensureToken"}
    <3>1. s[i - 1][1] \in {"report", "enable", "ensureToken"}
      BY ONLY <2>1, <2>2, <2>3 DEF Linked
    <3>2. j > 1 => j - 1 \in 1..Len(r) /\ (j - 1) + k = i - 1 BY SMTT(30), <1>1, <2>1
    <3> QED BY SMTT(30), <3>1, <3>2, <2>1
  <2>4. ASSUME r[j][1] = "disable"
        PROVE  /\ j + 2 <= Len(r) /\ r[j + 1] = SkipStep("curlyRight", 0)
               /\ r[j + 2] = Enable
    <3>1. i + 2 <= Len(s) /\ s[i + 1] = SkipStep("curlyRight", 0) /\ s[i + 2] = Enable
      BY ONLY <2>1, <2>2, <2>4 DEF Linked
    <3>2. /\ j + 1 \in 1..Len(r) /\ j + 2 \in 1..Len(r)
          /\ (j + 1) + k = i + 1 /\ (j + 2) + k = i + 2 /\ j + 2 <= Len(r)
      <4>1. i + 2 <= Len(s) BY <3>1
      <4> QED BY ONLY <4>1, <1>1, <2>1, Len(r) = Len(s) - k
    <3> QED BY <3>1, <3>2
  <2>5. ASSUME r[j][1] = "skip" PROVE j > 1 /\ r[j - 1] = Disable
    <3>1. s[i - 1] = Disable BY ONLY <2>1, <2>2, <2>5 DEF Linked
    <3>2. j # 1
      <4>1. ASSUME j = 1 PROVE FALSE
        <5>1. i - 1 = k BY <4>1, <2>1, <1>1
        <5> QED BY <5>1, <3>1
      <4> QED BY <4>1
    <3>3. j - 1 \in 1..Len(r) /\ (j - 1) + k = i - 1 /\ j > 1 BY <3>2, <1>1, <2>1
    <3>4. r[j - 1] = s[(j - 1) + k] BY <3>3
    <3> QED BY <3>1, <3>3, <3>4
  <2>6. ASSUME r[j][1] = "enable" PROVE j > 2 /\ r[j - 2] = Disable
    <3>1. i > 2 /\ s[i - 2] = Disable BY ONLY <2>1, <2>2, <2>6 DEF Linked
    <3>2. j # 1
      <4>1. ASSUME j = 1 PROVE FALSE
        <5>1. i - 2 = k - 1 /\ k > 1 BY <4>1, <3>1, <2>1, <1>1
        <5> QED BY <5>1, <3>1
      <4> QED BY <4>1
    <3>3. j # 2
      <4>1. ASSUME j = 2 PROVE FALSE
        <5>1. i - 2 = k BY <4>1, <2>1, <1>1
        <5> QED BY <5>1, <3>1
      <4> QED BY <4>1
    <3>4. j - 2 \in 1..Len(r) /\ (j - 2) + k = i - 2 /\ j > 2 BY <3>2, <3>3, <1>1, <2>1
    <3> QED BY <3>1, <3>4
  <2>7. ASSUME r[j][1] = "record"
        PROVE  j + 2 <= Len(r) /\ r[j + 1] \in ModifierCalls /\ r[j + 2] \in MemberCalls
    <3>1. i + 2 <= Len(s) /\ s[i + 1] \in ModifierCalls /\ s[i + 2] \in MemberCalls
      BY ONLY <2>1, <2>2, <2>7 DEF Linked
    <3>2. /\ j + 1 \in 1..Len(r) /\ j + 2 \in 1..Len(r)
          /\ (j + 1) + k = i + 1 /\ (j + 2) + k = i + 2 /\ j + 2 <= Len(r)
      <4>1. i + 2 <= Len(s) BY <3>1
      <4> QED BY ONLY <4>1, <1>1, <2>1, Len(r) = Len(s) - k
    <3> QED BY <3>1, <3>2
  <2>8. ASSUME r[j] \in MemberCalls PROVE j > 2 /\ r[j - 2] = Record
    <3>1. i > 2 /\ s[i - 2] = Record BY ONLY <2>1, <2>2, <2>8 DEF Linked
    <3>2. j # 1
      <4>1. ASSUME j = 1 PROVE FALSE
        <5>1. i - 2 = k - 1 /\ k > 1 BY <4>1, <3>1, <2>1, <1>1
        <5> QED BY <5>1, <3>1
      <4> QED BY <4>1
    <3>3. j # 2
      <4>1. ASSUME j = 2 PROVE FALSE
        <5>1. i - 2 = k BY <4>1, <2>1, <1>1
        <5> QED BY <5>1, <3>1
      <4> QED BY <4>1
    <3>4. j - 2 \in 1..Len(r) /\ (j - 2) + k = i - 2 /\ j > 2 BY <3>2, <3>3, <1>1, <2>1
    <3> QED BY <3>1, <3>4
  <2> QED BY <2>3, <2>4, <2>5, <2>6, <2>7, <2>8 DEF Linked
<1>3. r \in Enter BY <1>2 DEF Enter
<1>4. ASSUME s[k][1] \notin {"report", "enable", "ensureToken"} PROVE r \in Closed
  <2> SUFFICES ASSUME r # <<>>, r[1][1] \in {"consume", "report"} PROVE FALSE
    BY <1>3 DEF Closed
  <2>1. 1 \in 1..Len(r) BY <1>1, EmptySeq
  <2>2. PICK i \in Nat : i = 1 + k /\ i \in 1..Len(s) BY <2>1, <1>1
  <2>3. Linked(s, i) /\ s[i] = r[1] /\ i # 1 /\ i - 1 = k BY <2>1, <2>2, <1>1
  <2>4. s[i - 1][1] \in {"report", "enable", "ensureToken"}
    BY ONLY <2>3, r[1][1] \in {"consume", "report"} DEF Linked
  <2> QED BY <2>3, <2>4, <1>4
<1> QED BY <1>3, <1>4

LEMMA HeadAndTail ==
  ASSUME NEW S, NEW s \in Seq(S), s # <<>>
  PROVE  /\ s = Cons(Head(s), Tail(s)) /\ Head(s) = s[1] /\ s[1] \in S
         /\ Tail(s) \in Seq(S) /\ Len(Tail(s)) = Len(s) - 1
         /\ \A i \in 1..Len(Tail(s)) : Tail(s)[i] = s[i + 1]
<1>1. Len(s) \in Nat /\ Len(s) # 0 BY LenProperties, EmptySeq
<1>2. /\ Head(s) \in S /\ Tail(s) \in Seq(S) /\ Head(s) = s[1]
      /\ Len(Tail(s)) = Len(s) - 1
      /\ \A i \in 1..Len(Tail(s)) : Tail(s)[i] = s[i + 1]
  <2>1. 1 \in 1..Len(s) BY <1>1
  <2>2. s[1] \in S BY <2>1, ElementOfSeq
  <2> QED BY <2>2, HeadTailProperties
<1>3. PICK x, r : x = Head(s) /\ r = Tail(s) OBVIOUS
<1>4. /\ x \in S /\ r \in Seq(S) /\ x = s[1] /\ Len(r) = Len(s) - 1 /\ Len(r) \in Nat
      /\ \A i \in 1..Len(r) : r[i] = s[i + 1]
  BY <1>2, <1>3, LenProperties
<1>5. PICK c : c = Cons(x, r) OBVIOUS
<1>6. /\ c \in Seq(S) /\ Len(c) = Len(s) /\ c[1] = x
      /\ \A i \in 1..Len(r) : c[i + 1] = r[i]
  <2>1. PICK h : h = <<x>> /\ h \in Seq(S) /\ Len(h) = 1 /\ h[1] = x
    <3>1. <<x>> \in Seq(S) /\ Len(<<x>>) = 1 /\ <<x>>[1] = x BY <1>4
    <3> QED BY <3>1
  <2>2. c = h \o r BY <1>5, <2>1 DEF Cons
  <2>3. c \in Seq(S) /\ Len(c) = 1 + Len(r) /\ c[1] = x
        /\ \A i \in 1..Len(r) : c[1 + i] = r[i]
    BY ONLY <1>4, <2>1, <2>2, ConcatProperties
  <2>4. 1 + Len(r) = Len(s) BY <1>1, <1>4
  <2>5. \A i \in 1..Len(r) : 1 + i = i + 1 BY <1>4
  <2> QED BY <2>3, <2>4, <2>5
<1>7. ASSUME NEW i \in 1..Len(s) PROVE c[i] = s[i]
  <2>1. CASE i = 1 BY <2>1, <1>4, <1>6
  <2>2. CASE i # 1
    <3>1. i - 1 \in 1..Len(r) /\ (i - 1) + 1 = i BY <2>2, <1>1, <1>4
    <3>2. c[(i - 1) + 1] = r[i - 1] /\ r[i - 1] = s[(i - 1) + 1] BY <3>1, <1>4, <1>6
    <3> QED BY <3>1, <3>2
  <2> QED BY <2>1, <2>2
<1>8. c = s BY <1>6, <1>7, SeqEqual
<1> QED BY <1>2, <1>3, <1>4, <1>5, <1>8

(* Two more steps follow. *)
LEMMA ThreeSteps ==
  ASSUME NEW s \in Enter, NEW x, NEW r \in Seq(ParserSteps), s = Cons(x, r),
         Len(r) = Len(s) - 1, \A i \in 1..Len(r) : r[i] = s[i + 1], Len(s) >= 3
  PROVE  \E q \in Seq(ParserSteps) :
           /\ r = Cons(s[2], Cons(s[3], q)) /\ 3 \in 1..Len(s)
           /\ Len(q) = Len(s) - 3 /\ \A i \in 1..Len(q) : q[i] = s[i + 3]
<1>1. /\ Len(s) \in Nat /\ Len(r) \in Nat BY LenProperties DEF Enter
<1>2. r # <<>> /\ 1 \in 1..Len(r) /\ 2 \in 1..Len(r)
  <2>1. Len(r) >= 2 BY <1>1
  <2> QED BY <2>1, <1>1, EmptySeq
<1>3. r[1] = s[2] /\ r[2] = s[3]
  <2>1. r[1] = s[1 + 1] /\ r[2] = s[2 + 1] BY <1>2
  <2> QED BY <2>1
<1>4. PICK t \in Seq(ParserSteps) :
        /\ r = Cons(r[1], t) /\ Len(t) = Len(r) - 1
        /\ \A i \in 1..Len(t) : t[i] = r[i + 1]
  <2>1. /\ r = Cons(r[1], Tail(r)) /\ Tail(r) \in Seq(ParserSteps)
        /\ Len(Tail(r)) = Len(r) - 1
        /\ \A i \in 1..Len(Tail(r)) : Tail(r)[i] = r[i + 1]
    BY <1>2, HeadAndTail
  <2> QED BY <2>1
<1>5. Len(t) \in Nat /\ Len(t) = Len(s) - 2 BY <1>1, <1>4, LenProperties
<1>6. t # <<>> /\ 1 \in 1..Len(t)
  <2>1. Len(t) >= 1 BY <1>1, <1>5
  <2> QED BY <2>1, <1>5, EmptySeq
<1>7. t[1] = s[3]
  <2>1. t[1] = r[1 + 1] BY SMTT(30), <1>4, <1>6
  <2> QED BY <2>1, <1>3
<1>8. PICK q \in Seq(ParserSteps) :
        /\ t = Cons(t[1], q) /\ Len(q) = Len(t) - 1
        /\ \A i \in 1..Len(q) : q[i] = t[i + 1]
  <2>1. /\ t = Cons(t[1], Tail(t)) /\ Tail(t) \in Seq(ParserSteps)
        /\ Len(Tail(t)) = Len(t) - 1
        /\ \A i \in 1..Len(Tail(t)) : Tail(t)[i] = t[i + 1]
    BY <1>6, HeadAndTail
  <2> QED BY <2>1
<1>9. Len(q) \in Nat /\ Len(q) = Len(s) - 3 BY <1>1, <1>5, <1>8, LenProperties
<1>10. ASSUME NEW i \in 1..Len(q) PROVE q[i] = s[i + 3]
  <2>1. /\ i \in Nat /\ i + 1 \in 1..Len(t) /\ (i + 1) + 1 \in 1..Len(r)
        /\ ((i + 1) + 1) + 1 = i + 3
    BY <1>1, <1>4, <1>5, <1>8, <1>9
  <2>2. q[i] = t[i + 1] BY <1>8
  <2>3. t[i + 1] = r[(i + 1) + 1] BY <2>1, <1>4
  <2>4. r[(i + 1) + 1] = s[((i + 1) + 1) + 1] BY <2>1
  <2> QED BY <2>1, <2>2, <2>3, <2>4
<1>11. r = Cons(s[2], Cons(s[3], q)) BY <1>3, <1>4, <1>7, <1>8
<1>12. 3 \in 1..Len(s) BY <1>1
<1> QED BY <1>9, <1>10, <1>11, <1>12

(* What the first of a sequence of steps is, and what follows it *)
FirstOf(x, r) ==
    \/ x \in Neutral \cup {Consume} /\ r \in Closed
    \/ x \in {Report, EnsureToken} /\ r \in Enter
    \/ x = Disable /\ \E q \in Enter : r = Cons(SkipStep("curlyRight", 0), Cons(Enable, q))
    \/ x = Record /\ \E m \in ModifierCalls, c \in MemberCalls, q \in Closed :
                       r = Cons(m, Cons(c, q))

LEMMA FirstStep ==
  ASSUME NEW s \in Enter, s # <<>>
  PROVE  \E x, r : /\ s = Cons(x, r) /\ s[1] = x /\ r \in Seq(ParserSteps)
                   /\ FirstOf(x, r)
<1>1. s \in Seq(ParserSteps) /\ Len(s) \in Nat /\ Len(s) # 0 /\ 1 \in 1..Len(s)
  <2>1. s \in Seq(ParserSteps) BY DEF Enter
  <2>2. Len(s) \in Nat /\ Len(s) # 0 BY <2>1, LenProperties, EmptySeq
  <2> QED BY <2>1, <2>2
<1>2. Linked(s, 1) BY SMTT(30), <1>1 DEF Enter
<1>3. PICK x, r : /\ x = s[1] /\ s = Cons(x, r) /\ x \in ParserSteps
                  /\ r \in Seq(ParserSteps) /\ Len(r) = Len(s) - 1
                  /\ \A i \in 1..Len(r) : r[i] = s[i + 1]
  <2>1. /\ s = Cons(s[1], Tail(s)) /\ s[1] \in ParserSteps
        /\ Tail(s) \in Seq(ParserSteps) /\ Len(Tail(s)) = Len(s) - 1
        /\ \A i \in 1..Len(Tail(s)) : Tail(s)[i] = s[i + 1]
    BY <1>1, HeadAndTail
  <2> QED BY <2>1
<1>4. x \notin MemberCalls /\ x[1] \notin {"skip", "enable"}
  BY ONLY <1>2, <1>3 DEF Linked
<1>5. x \in Neutral \/ x \in {Consume, Report, EnsureToken, Disable, Record}
  BY <1>3, <1>4, KindLemma, StepLemma
<1>6. FirstOf(x, r)
  <2>1. CASE x \in Neutral \cup {Consume, Report, EnsureToken}
    <3>1. s[1] \notin {Disable, Record} BY <1>3, <2>1, KindLemma, StepLemma
    <3>2. /\ r \in Enter
          /\ s[1][1] \notin {"report", "enable", "ensureToken"} => r \in Closed
      <4>1. ~(1 > 1) OBVIOUS
      <4> QED BY <1>1, <1>3, <3>1, <4>1, RestLemma
    <3> QED BY <1>3, <2>1, <3>2, KindLemma, StepLemma DEF FirstOf
  <2>2. ASSUME x \in {Disable, Record} PROVE Len(s) >= 3
    <3>1. x[1] = "disable" \/ x[1] = "record" BY <2>2, StepLemma
    <3>2. 1 + 2 <= Len(s) BY ONLY <1>2, <1>3, <3>1 DEF Linked
    <3> QED BY <3>2, <1>1
  <2>3. ASSUME x \in {Disable, Record}
        PROVE  \E q \in Seq(ParserSteps) :
                 /\ r = Cons(s[2], Cons(s[3], q)) /\ 3 \in 1..Len(s)
                 /\ Len(q) = Len(s) - 3 /\ \A i \in 1..Len(q) : q[i] = s[i + 3]
    BY <1>3, <2>2, <2>3, ThreeSteps
  <2>4. ASSUME NEW q \in Seq(ParserSteps), 3 \in 1..Len(s), Len(q) = Len(s) - 3,
               \A i \in 1..Len(q) : q[i] = s[i + 3],
               s[2] \notin {Disable, Record}, s[3] \notin {Disable, Record}
        PROVE  /\ q \in Enter
               /\ s[3][1] \notin {"report", "enable", "ensureToken"} => q \in Closed
    <3>1. s[3 - 1] \notin {Disable, Record} BY <2>4
    <3> QED BY <2>4, <3>1, RestLemma
  <2>5. CASE x = Disable
    <3>1. PICK q \in Seq(ParserSteps) :
                 /\ r = Cons(s[2], Cons(s[3], q)) /\ 3 \in 1..Len(s)
                 /\ Len(q) = Len(s) - 3 /\ \A i \in 1..Len(q) : q[i] = s[i + 3]
      BY <2>3, <2>5
    <3>2. s[1 + 1] = SkipStep("curlyRight", 0) /\ s[1 + 2] = Enable
      BY ONLY <1>2, <1>3, <2>5, StepLemma DEF Linked
    <3>3. s[2] = SkipStep("curlyRight", 0) /\ s[3] = Enable BY <3>2
    <3>4. s[2][1] = "skip" BY <3>3 DEF SkipStep, Step
    <3>5. s[2] \notin {Disable, Record} /\ s[3] \notin {Disable, Record}
      BY <3>3, <3>4, StepLemma
    <3>6. q \in Enter BY <2>4, <3>1, <3>5
    <3> QED BY <2>5, <3>1, <3>3, <3>6 DEF FirstOf
  <2>6. CASE x = Record
    <3>1. PICK q \in Seq(ParserSteps) :
                 /\ r = Cons(s[2], Cons(s[3], q)) /\ 3 \in 1..Len(s)
                 /\ Len(q) = Len(s) - 3 /\ \A i \in 1..Len(q) : q[i] = s[i + 3]
      BY <2>3, <2>6
    <3>2. s[1 + 1] \in ModifierCalls /\ s[1 + 2] \in MemberCalls
      BY ONLY <1>2, <1>3, <2>6, StepLemma DEF Linked
    <3>3. s[2] \in ModifierCalls /\ s[3] \in MemberCalls BY <3>2
    <3>4. s[2][1] = "call" /\ s[3][1] = "call" BY <3>3, KindLemma
    <3>5. s[2] \notin {Disable, Record} /\ s[3] \notin {Disable, Record}
      BY <3>4, StepLemma
    <3>6. q \in Closed BY <2>4, <3>1, <3>4, <3>5
    <3> QED BY <2>6, <3>1, <3>3, <3>6 DEF FirstOf
  <2> QED BY <1>5, <2>1, <2>5, <2>6
<1> QED BY <1>3, <1>6

-----------------------------------------------------------------------------
(* What the functions of the parser are built from. *)

LEMMA CallLemma ==
    /\ \A f \in NameFunctions : Call(f) \in NameCalls
    /\ \A mods \in SUBSET Modifier : CallWith("modifiers", mods) \in ModifierCalls
    /\ \A f \in MemberFunctions, b \in BOOLEAN : CallWith(f, b) \in MemberCalls
    /\ \A f \in NameFunctions \cup OtherFunctions : Call(f) \in Neutral
    /\ \A f \in ListFunctions, end \in Ending : CallWith(f, end) \in Neutral
    /\ \A f \in SeparatedFunctions, t \in Separators : CallWith(f, t) \in Neutral
    /\ \A level \in 1..Len(Levels) : CallWith("operators", level) \in Neutral
    /\ \A b \in BOOLEAN : CallWith("classMember", b) \in Neutral
    /\ \A mods \in SUBSET Modifier : CallWith("modifiers", mods) \in Neutral
    /\ \A t \in Matched : Match(t) \in Neutral /\ MatchOrSkip(t) \in Neutral
    /\ DestroyRecorder \in Neutral
<1>1. \A f \in NameFunctions : Call(f) \in NameCalls BY DEF Call, Step, NameCalls
<1>2. \A f \in OtherFunctions : Call(f) \in OtherCalls BY DEF Call, Step, OtherCalls
<1>3. /\ \A f \in ListFunctions, end \in Ending : CallWith(f, end) \in OtherCalls
      /\ \A f \in SeparatedFunctions, t \in Separators : CallWith(f, t) \in OtherCalls
  BY DEF CallWith, Step, OtherCalls
<1>4. \A level \in 1..Len(Levels) : CallWith("operators", level) \in OtherCalls
  BY DEF CallWith, Step, OtherCalls
<1>5. \A b \in BOOLEAN : CallWith("classMember", b) \in OtherCalls
  BY DEF CallWith, Step, OtherCalls
<1>6. \A mods \in SUBSET Modifier : CallWith("modifiers", mods) \in ModifierCalls
  BY DEF CallWith, Step, ModifierCalls
<1>7. \A t \in Matched : Match(t) \in Matches /\ MatchOrSkip(t) \in Matches
  BY DEF Match, MatchOrSkip, Step, Matches
<1>8. \A f \in MemberFunctions, b \in BOOLEAN : CallWith(f, b) \in MemberCalls
  BY DEF CallWith, Step, MemberCalls
<1>9. DestroyRecorder \in Neutral BY DEF Neutral
<1>10. \A x \in ModifierCalls : x \in NameCalls BY DEF NameCalls
<1> QED BY <1>1, <1>2, <1>3, <1>4, <1>5, <1>6, <1>7, <1>8, <1>9, <1>10 DEF Neutral

(* A step that needs nothing may stand anywhere. *)
LEMMA SingleLemma ==
    /\ \A x \in Neutral : <<x>> \in Closed
    /\ <<Consume>> \in Enter
    /\ <<Report>> \in Opening
    /\ <<EnsureToken>> \in Closed /\ <<EnsureToken>> \in Opening
    /\ <<>> \in Closed
    /\ Closed \subseteq Enter /\ Opening \subseteq Enter
<1>1. ASSUME NEW x \in Neutral PROVE <<x>> \in Closed
  <2>1. <<x>> \in Seq(Neutral) OBVIOUS
  <2> QED BY <2>1, NeutralIsClosed
<1>2. ASSUME NEW x \in {Consume, Report, EnsureToken}
      PROVE  <<x>> \in Enter /\ <<x>>[1] = x /\ Len(<<x>>) = 1
  <2>1. x \in ParserSteps BY DEF ParserSteps
  <2>2. x[1] \in {"consume", "report", "ensureToken"} BY StepLemma
  <2>3. x \notin MemberCalls BY <2>2, KindLemma
  <2> DEFINE s == <<x>>
  <2>4. s \in Seq(ParserSteps) /\ Len(s) = 1 /\ s[1] = x BY <2>1
  <2> HIDE DEF s
  <2>5. Linked(s, 1) BY <2>2, <2>3, <2>4 DEF Linked
  <2>6. s \in Enter BY <2>4, <2>5 DEF Enter
  <2> QED BY <2>4, <2>6 DEF s
<1>3. <<>> \in Closed
  <2>1. <<>> \in Seq(Neutral) OBVIOUS
  <2> QED BY <2>1, NeutralIsClosed
<1>4. <<Report>> \in Opening BY <1>2, StepLemma DEF Opening
<1>5. <<EnsureToken>> \in Opening /\ <<EnsureToken>> \in Closed
  BY <1>2, StepLemma DEF Opening, Closed
<1> QED BY <1>1, <1>2, <1>3, <1>4, <1>5 DEF Closed, Opening

(* What is put together of steps *)
LEMMA EnterLemma ==
    /\ \A s \in Enter, r \in Closed : s \o r \in Enter
    /\ \A s, r \in Closed : s \o r \in Closed
    /\ \A s \in Opening, r \in Enter : s \o r \in Enter
    /\ \A x, y \in Neutral : <<x, y>> \in Closed
    /\ \A x, y, z \in Neutral : <<x, y, z>> \in Closed
    /\ \A x \in Neutral : <<Consume, x>> \in Enter /\ <<Report, Consume, x>> \in Enter
    /\ \A x, y \in Neutral : <<Consume, x, y>> \in Enter
    /\ <<Report, Consume>> \in Enter
    /\ <<EnsureToken, Report>> \in Closed /\ <<EnsureToken, Report>> \in Opening
<1>1. \A s \in Enter, r \in Closed : s \o r \in Enter BY JoinLemma, SingleLemma
<1>2. \A s, r \in Closed : s \o r \in Closed BY JoinLemma, SingleLemma
<1>3. \A s \in Opening, r \in Enter : s \o r \in Enter BY JoinLemma, SingleLemma
<1>4. \A x, y \in Neutral : <<x, y>> \in Closed BY <1>2, SingleLemma, PairLemma
<1>5. \A x, y, z \in Neutral : <<x, y, z>> \in Closed
  BY <1>2, <1>4, SingleLemma, TripleIsConcat
<1>6. \A x \in Neutral : <<Consume, x>> \in Enter BY <1>1, SingleLemma, PairLemma
<1>7. \A x \in Neutral : <<Report, Consume, x>> \in Enter
  BY <1>3, <1>6, SingleLemma, TripleIsConcat
<1>8. \A x, y \in Neutral : <<Consume, x, y>> \in Enter
  BY <1>1, <1>4, SingleLemma, TripleIsConcat
<1>9. <<Report, Consume>> \in Enter BY <1>3, SingleLemma, PairLemma
<1>10. <<EnsureToken, Report>> \in Closed /\ <<EnsureToken, Report>> \in Opening
  <2>1. <<EnsureToken, Report>> = <<EnsureToken>> \o <<Report>> BY PairLemma
  <2> QED BY <2>1, SingleLemma, JoinLemma
<1> QED BY <1>1, <1>2, <1>3, <1>4, <1>5, <1>6, <1>7, <1>8, <1>9, <1>10

LEMMA ExpressionParts ==
    /\ Name \in Closed /\ Type \in Closed /\ Modifiers \in Closed
    /\ \A level \in 1..Len(Levels) + 1 : BinaryExpr(level) \in Closed
    /\ CoalescingExpr \in Closed /\ CondExpr \in Closed
    /\ AssignmentExpr \in Closed /\ Expression \in Closed
    /\ ArgList \in Closed
    /\ \A end \in {")", "curlyRight"} : Hash(end) \in Closed
    /\ Len(Levels) = 10
<1>1. Name \in Closed /\ Type \in Closed
  BY CallLemma, SingleLemma DEF Name, Type, NameFunctions
<1>2. Modifiers \in Closed BY CallLemma, SingleLemma DEF Modifiers
<1>3. Len(Levels) = 10 BY DEF Levels
<1>4. ASSUME NEW level \in 1..Len(Levels) + 1 PROVE BinaryExpr(level) \in Closed
  <2> DEFINE n == Len(Levels) - level + 1
             loops == [i \in 1..n |-> CallWith("operators", Len(Levels) - i + 1)]
  <2>1. n \in Nat /\ \A i \in 1..n : Len(Levels) - i + 1 \in 1..Len(Levels) BY <1>3
  <2>2. \A i \in 1..n : CallWith("operators", Len(Levels) - i + 1) \in Neutral
    BY <2>1, CallLemma
  <2>3. loops \in [1..n -> Neutral] BY <2>2
  <2>4. loops \in Seq(Neutral) BY ZenonT(40), <2>1, <2>3, SeqDef
  <2>5. loops \in Closed BY <2>4, NeutralIsClosed
  <2>6. <<Call("prefixExpr")>> \in Closed BY CallLemma, SingleLemma DEF OtherFunctions
  <2> HIDE DEF loops
  <2>7. <<Call("prefixExpr")>> \o loops \in Closed BY <2>5, <2>6, EnterLemma
  <2> QED BY <2>7 DEF loops, BinaryExpr
<1>5. CoalescingExpr \in Closed
  <2>1. BinaryExpr(1) \in Closed BY <1>3, <1>4
  <2> QED BY <2>1, CallLemma, SingleLemma, EnterLemma DEF CoalescingExpr, OtherFunctions
<1>6. CondExpr \in Closed
  BY <1>5, CallLemma, SingleLemma, EnterLemma DEF CondExpr, OtherFunctions
<1>7. AssignmentExpr \in Closed
  BY <1>6, CallLemma, SingleLemma, EnterLemma DEF AssignmentExpr, OtherFunctions
<1>8. Expression \in Closed BY <1>7 DEF Expression
<1>9. ArgList \in Closed BY CallLemma, EnterLemma DEF ArgList, OtherFunctions, Matched
<1>10. ASSUME NEW end \in {")", "curlyRight"} PROVE Hash(end) \in Closed
  BY <1>8, CallLemma, SingleLemma, EnterLemma DEF Hash, ListFunctions, Ending, Matched
<1> QED BY <1>1, <1>2, <1>3, <1>4, <1>5, <1>6, <1>7, <1>8, <1>9, <1>10

LEMMA StatementParts ==
    /\ Block \in Closed /\ ParamList \in Closed /\ Param \in Closed
    /\ Routine \in Closed /\ Closure \in Closed /\ Statement \in Closed
    /\ ExpressionStmt \in Closed
    /\ \A steps \in Closed : InParens(steps) \in Closed
    /\ \A end \in Ending : Optional(end) \in Closed
    /\ VarDecl \in Enter /\ ErrorExpression \in Enter /\ CastExpr \in Enter
    /\ SkipToCurlyRight \in Closed /\ SkipToCurlyRight \in Opening
<1>1. Block \in Closed BY CallLemma, EnterLemma DEF Block, OtherFunctions, Matched
<1>2. ParamList \in Closed BY CallLemma, EnterLemma DEF ParamList, OtherFunctions, Matched
<1>3. Param \in Closed
  BY ExpressionParts, CallLemma, EnterLemma DEF Param, OtherFunctions, Matched
<1>4. Routine \in Closed BY <1>1, <1>2, EnterLemma DEF Routine
<1>5. Closure \in Closed BY <1>4, CallLemma, SingleLemma, EnterLemma DEF Closure, Matched
<1>6. Statement \in Closed BY CallLemma, SingleLemma DEF Statement, OtherFunctions
<1>7. ExpressionStmt \in Closed
  BY ExpressionParts, CallLemma, SingleLemma, EnterLemma DEF ExpressionStmt, Matched
<1>8. \A steps \in Closed : InParens(steps) \in Closed
  BY CallLemma, SingleLemma, EnterLemma DEF InParens, Matched
<1>9. \A end \in Ending : Optional(end) \in Closed
  BY CallLemma, SingleLemma DEF Optional, ListFunctions
<1>10. VarDecl \in Enter BY CallLemma, EnterLemma DEF VarDecl, OtherFunctions
<1>11. ErrorExpression \in Enter BY EnterLemma DEF ErrorExpression
<1>12. CastExpr \in Enter
  <2>1. /\ <<Consume, Match("<")>> \in Enter
        /\ <<Match(">"), Match("(")>> \in Closed /\ <<Match(")")>> \in Closed
    BY CallLemma, SingleLemma, EnterLemma DEF Matched
  <2>2. Type \in Closed /\ Expression \in Closed BY ExpressionParts
  <2> QED BY <2>1, <2>2, EnterLemma DEF CastExpr
<1>13. SkipToCurlyRight \in Closed /\ SkipToCurlyRight \in Opening
  <2> DEFINE skip == SkipStep("curlyRight", 0)
             s == <<Disable, skip, Enable>>
  <2>1. SkipToCurlyRight = s BY DEF SkipToCurlyRight, Muted, SkipStep
  <2>2. skip \in Skips /\ skip[1] = "skip" BY DEF SkipStep, Step, Skips
  <2>3. {Disable, skip, Enable} \subseteq ParserSteps BY <2>2 DEF ParserSteps
  <2> HIDE DEF skip
  <2>4. /\ s \in Seq(ParserSteps) /\ Len(s) = 3
        /\ s[1] = Disable /\ s[2] = skip /\ s[3] = Enable
    BY <2>3
  <2> HIDE DEF s
  <2>5. Disable[1] = "disable" /\ Enable[1] = "enable" BY StepLemma
  <2>6. Disable \notin MemberCalls /\ Enable \notin MemberCalls /\ skip \notin MemberCalls
    BY <2>2, <2>5, KindLemma
  <2>7. Linked(s, 1)
    <3>1. s[1 + 1] = SkipStep("curlyRight", 0) /\ s[1 + 2] = Enable /\ 1 + 2 <= Len(s)
      BY <2>4 DEF skip
    <3> QED BY <3>1, <2>4, <2>5, <2>6 DEF Linked
  <2>8. Linked(s, 2)
    <3>1. s[2 - 1] = Disable BY <2>4
    <3> QED BY <3>1, <2>2, <2>4, <2>6 DEF Linked
  <2>9. Linked(s, 3)
    <3>1. s[3 - 2] = Disable BY <2>4
    <3> QED BY <3>1, <2>4, <2>5, <2>6 DEF Linked
  <2>10. s \in Enter /\ s # <<>>
    <3>1. \A i \in 1..Len(s) : i = 1 \/ i = 2 \/ i = 3 BY <2>4
    <3>2. \A i \in 1..Len(s) : Linked(s, i) BY <3>1, <2>7, <2>8, <2>9
    <3>3. s # <<>> BY <2>4, EmptySeq
    <3> QED BY <3>2, <3>3, <2>4 DEF Enter
  <2> QED BY <2>1, <2>4, <2>5, <2>10 DEF Closed, Opening
<1> QED BY <1>1, <1>2, <1>3, <1>4, <1>5, <1>6, <1>7, <1>8, <1>9, <1>10, <1>11, <1>12, <1>13

-----------------------------------------------------------------------------
(* What the functions of the parser do when there is a token. *)

(* Those for names, also while something is recorded *)
NameResult(steps, t) ==
    \E s \in Seq(NameCalls) :
        \/ steps = s
        \/ t \in Prefix /\ steps = <<Consume>> \o s
        \/ steps = <<Report>> \o s
        \/ t \in Prefix /\ steps = <<Report>> \o (<<Consume>> \o s)

LEMMA NameFunctionsLemma ==
  ASSUME NEW t
  PROVE  /\ NameResult(name(t), t) /\ NameResult(names(t), t)
         /\ NameResult(identifier(t), t) /\ NameResult(type(t), t)
         /\ \A mods \in SUBSET Modifier : NameResult(modifiers(t, mods), t)
<1>1. ASSUME NEW x \in NameCalls PROVE <<x>> \in Seq(NameCalls) OBVIOUS
<1>2. <<>> \in Seq(NameCalls) OBVIOUS
<1>3. \A f \in NameFunctions : <<Call(f)>> \in Seq(NameCalls) BY <1>1, CallLemma
<1>4. /\ <<Call("name")>> \in Seq(NameCalls) /\ <<Call("names")>> \in Seq(NameCalls)
      /\ <<Call("identifier")>> \in Seq(NameCalls)
  BY <1>3 DEF NameFunctions
<1>5. {"id", "::", "*"} \subseteq Prefix /\ Modifier \subseteq Prefix
  BY DEF Prefix, StartOfName
<1>6. <<Consume>> \o <<>> = <<Consume>> /\ <<Report>> \o <<>> = <<Report>>
  BY SingleLemma, ConcatEmptySeq DEF Enter, Opening
<1>7. NameResult(name(t), t)
  <2>1. CASE t = "::" BY <2>1, <1>4 DEF name, NameResult
  <2>2. CASE t = "id"
    <3>1. name(t) = <<Consume>> \o <<Call("names")>> BY <2>2, PairLemma DEF name
    <3> QED BY <3>1, <2>2, <1>4, <1>5 DEF NameResult
  <2>3. CASE t \notin {"::", "id"}
    <3>1. name(t) = <<Report>> \o <<>> BY <2>3, <1>6 DEF name
    <3> QED BY <3>1, <1>2 DEF NameResult
  <2> QED BY <2>1, <2>2, <2>3
<1>8. NameResult(names(t), t)
  <2>1. CASE t = "::"
    <3>1. names(t) = <<Consume>> \o <<Call("identifier")>> BY <2>1, PairLemma DEF names
    <3> QED BY <3>1, <2>1, <1>4, <1>5 DEF NameResult
  <2>2. CASE t # "::" BY <2>2, <1>2 DEF names, NameResult
  <2> QED BY <2>1, <2>2
<1>9. NameResult(identifier(t), t)
  <2>1. CASE t = "id"
    <3>1. identifier(t) = <<Consume>> \o <<Call("names")>>
      BY <2>1, PairLemma DEF identifier
    <3> QED BY <3>1, <2>1, <1>4, <1>5 DEF NameResult
  <2>2. CASE t # "id"
    <3>1. identifier(t) = <<Report>> \o <<>> BY <2>2, <1>6 DEF identifier
    <3> QED BY <3>1, <1>2 DEF NameResult
  <2> QED BY <2>1, <2>2
<1>10. NameResult(type(t), t)
  <2>1. CASE t = "*" BY <2>1, <1>4, <1>5 DEF type, Name, NameResult
  <2>2. CASE t # "*" BY <2>2, <1>4 DEF type, Name, NameResult
  <2> QED BY <2>1, <2>2
<1>11. ASSUME NEW mods \in SUBSET Modifier PROVE NameResult(modifiers(t, mods), t)
  <2>1. \A m \in SUBSET Modifier : <<CallWith("modifiers", m)>> \in Seq(NameCalls)
    BY <1>1, CallLemma, KindLemma
  <2>2. CASE t \in Modifier \cap mods
    <3>1. modifiers(t, mods) = <<Report, Consume, CallWith("modifiers", mods)>>
      BY <2>2 DEF modifiers
    <3>2. modifiers(t, mods)
            = <<Report>> \o (<<Consume>> \o <<CallWith("modifiers", mods)>>)
      <4>1. PICK c : c = CallWith("modifiers", mods) OBVIOUS
      <4>2. <<Report, Consume, c>> = <<Report>> \o <<Consume, c>> BY TripleIsConcat
      <4>3. <<Consume, c>> = <<Consume>> \o <<c>> BY PairLemma
      <4> QED BY ONLY <3>1, <4>1, <4>2, <4>3
    <3> QED BY <3>2, <2>1, <2>2, <1>5 DEF NameResult
  <2>3. CASE t \in Modifier \ mods
    <3>1. modifiers(t, mods) = <<Consume, CallWith("modifiers", mods \cup {t})>>
      BY <2>3 DEF modifiers
    <3>2. modifiers(t, mods) = <<Consume>> \o <<CallWith("modifiers", mods \cup {t})>>
      BY <3>1, PairLemma
    <3>3. mods \cup {t} \in SUBSET Modifier BY <2>3
    <3> QED BY <3>2, <3>3, <2>1, <2>3, <1>5 DEF NameResult
  <2>4. CASE t \notin Modifier BY <2>4, <1>2 DEF modifiers, NameResult
  <2> QED BY <2>2, <2>3, <2>4
<1> QED BY <1>7, <1>8, <1>9, <1>10, <1>11

LEMMA NameResultIsEnter ==
  ASSUME NEW steps, NEW t, NameResult(steps, t)
  PROVE  steps \in Enter
<1>1. PICK s \in Seq(NameCalls) : \/ steps = s
                                  \/ steps = <<Consume>> \o s
                                  \/ steps = <<Report>> \o s
                                  \/ steps = <<Report>> \o (<<Consume>> \o s)
  BY DEF NameResult
<1>2. s \in Seq(Neutral) BY KindLemma, SeqMonotonic
<1>3. s \in Closed BY <1>2, NeutralIsClosed
<1>4. <<Consume>> \o s \in Enter BY <1>3, EnterLemma, SingleLemma
<1> QED BY <1>1, <1>3, <1>4, EnterLemma, SingleLemma

LEMMA OperatorsLemma ==
  ASSUME NEW t, NEW level \in 1..Len(Levels)
  PROVE  \/ operators(t, level) \in Enter
         \/ /\ t = "=~"
            /\ operators(t, level)
                 = <<Consume>> \o <<ReadRegex>> \o <<CallWith("operators", level)>>
<1>1. <<CallWith("operators", level)>> \in Closed BY CallLemma, SingleLemma
<1>2. CASE t \notin Levels[level] BY <1>2, SingleLemma DEF operators
<1>3. CASE t \in Levels[level] /\ t = "=~" BY <1>3 DEF operators, Regex
<1>4. CASE t \in Levels[level] /\ t = "instanceof"
  <2>1. operators(t, level) = <<Consume>> \o Name \o <<CallWith("operators", level)>>
    BY <1>4 DEF operators
  <2> QED BY <2>1, <1>1, ExpressionParts, SingleLemma, EnterLemma
<1>5. CASE t \in Levels[level] /\ t \notin {"=~", "instanceof"}
  <2>1. operators(t, level)
          = <<Consume>> \o BinaryExpr(level + 1) \o <<CallWith("operators", level)>>
    BY <1>5 DEF operators
  <2>2. BinaryExpr(level + 1) \in Closed BY ExpressionParts
  <2> QED BY <2>1, <2>2, <1>1, SingleLemma, EnterLemma
<1> QED BY <1>2, <1>3, <1>4, <1>5

LEMMA FourLemma == \A w, x, y, z : <<w, x>> \o <<y, z>> = <<w, x, y, z>>
<1> SUFFICES ASSUME NEW w, NEW x, NEW y, NEW z
             PROVE  <<w, x>> \o <<y, z>> = <<w, x, y, z>>
  OBVIOUS
<1> DEFINE U == {w, x, y, z}
           u == <<w, x>> \o <<y, z>>
           v == <<w, x, y, z>>
<1>1. /\ <<w, x>> \in Seq(U) /\ Len(<<w, x>>) = 2
      /\ <<y, z>> \in Seq(U) /\ Len(<<y, z>>) = 2
  OBVIOUS
<1>2. u \in Seq(U) /\ Len(u) = 4 /\ u[1] = w /\ u[2] = x /\ u[3] = y /\ u[4] = z
  BY <1>1, ConcatProperties
<1>3. v \in Seq(U) /\ Len(v) = 4 /\ v[1] = w /\ v[2] = x /\ v[3] = y /\ v[4] = z
  OBVIOUS
<1> HIDE DEF u, v
<1>4. \A i \in 1..4 : u[i] = v[i] BY <1>2, <1>3
<1>5. u = v BY <1>2, <1>3, <1>4, SeqEqual
<1> QED BY <1>5 DEF u, v

(* After the recovery the token it has met is consumed. *)
LEMMA RecoveryLemma ==
  ASSUME SkipToCurlyRight \in Closed, SkipToCurlyRight \in Opening
  PROVE  /\ <<Report>> \o SkipToCurlyRight \o <<Consume>> \in Enter
         /\ <<EnsureToken, Report>> \o SkipToCurlyRight \o <<Consume>> \in Closed
<1>1. /\ <<Report>> \o SkipToCurlyRight \in Opening
      /\ <<EnsureToken, Report>> \o SkipToCurlyRight \in Opening
      /\ <<EnsureToken, Report>> \o SkipToCurlyRight \in Closed
  BY SingleLemma, EnterLemma, JoinLemma
<1> QED BY <1>1, SingleLemma, JoinLemma

(* Those for expressions *)
LEMMA ExpressionFunctions ==
  ASSUME NEW t
  PROVE  /\ coalescing(t) \in Enter
         /\ conditional(t) \in Enter
         /\ assignment(t) \in Enter
         /\ moreExprs(t) \in Enter
         /\ args(t) \in Enter
         /\ prefixExpr(t) \in Enter
         /\ postfix(t) \in Enter
         /\ access(t) \in Enter
         /\ list(t) \in Enter
         /\ listElement(t) \in Enter
         /\ params(t) \in Enter
         /\ paramDefault(t) \in Enter
         /\ moreParams(t) \in Enter
         /\ initializer(t) \in Enter
         /\ primaryExpr(t) \in Enter
         /\ closureType(t) \in Enter
         /\ afterAsterisk(t) \in Enter
         /\ afterNameExpr(t) \in Enter
         /\ paren(t) \in Enter
         /\ parenRest(t) \in Enter
         /\ curly(t) \in Enter
         /\ strings(t) \in Enter
<1>1. coalescing(t) \in Enter
  BY ExpressionParts, StatementParts, CallLemma, SingleLemma, EnterLemma
  DEF coalescing, OtherFunctions, ListFunctions, Ending, Matched
<1>2. conditional(t) \in Enter
  BY ExpressionParts, StatementParts, CallLemma, SingleLemma, EnterLemma
  DEF conditional, OtherFunctions, ListFunctions, Ending, Matched
<1>3. assignment(t) \in Enter
  BY ExpressionParts, StatementParts, CallLemma, SingleLemma, EnterLemma
  DEF assignment, OtherFunctions, ListFunctions, Ending, Matched
<1>4. moreExprs(t) \in Enter
  BY ExpressionParts, StatementParts, CallLemma, SingleLemma, EnterLemma
  DEF moreExprs, OtherFunctions, ListFunctions, Ending, Matched
<1>5. args(t) \in Enter
  BY ExpressionParts, StatementParts, CallLemma, SingleLemma, EnterLemma
  DEF args, OtherFunctions, ListFunctions, Ending, Matched
<1>6. prefixExpr(t) \in Enter
  <2>1. /\ <<Consume, Call("prefixExpr")>> \in Enter
        /\ <<Call("moreExprs")>> \in Closed
        /\ <<Call("primaryExpr"), Call("postfix")>> \in Closed
    BY CallLemma, SingleLemma, EnterLemma DEF OtherFunctions
  <2>2. <<Consume>> \o Expression \o <<Call("moreExprs")>> \in Enter
    BY <2>1, ExpressionParts, SingleLemma, EnterLemma
  <2>3. <<Consume>> \o BinaryExpr(InstanceofLevel) \in Enter
    BY ExpressionParts, SingleLemma, EnterLemma DEF InstanceofLevel
  <2> QED BY <2>1, <2>2, <2>3, SingleLemma DEF prefixExpr
<1>7. postfix(t) \in Enter
  BY ExpressionParts, StatementParts, CallLemma, SingleLemma, EnterLemma
  DEF postfix, OtherFunctions, ListFunctions, Ending, Matched
<1>8. access(t) \in Enter
  BY ExpressionParts, StatementParts, CallLemma, SingleLemma, EnterLemma
  DEF access, OtherFunctions, ListFunctions, Ending, Matched
<1>9. list(t) \in Enter
  BY ExpressionParts, StatementParts, CallLemma, SingleLemma, EnterLemma
  DEF list, OtherFunctions, ListFunctions, Ending, Matched
<1>10. listElement(t) \in Enter
  BY ExpressionParts, StatementParts, CallLemma, SingleLemma, EnterLemma
  DEF listElement, OtherFunctions, ListFunctions, Ending, Matched
<1>11. params(t) \in Enter
  BY ExpressionParts, StatementParts, CallLemma, SingleLemma, EnterLemma
  DEF params, OtherFunctions, ListFunctions, Ending, Matched
<1>12. paramDefault(t) \in Enter
  BY ExpressionParts, StatementParts, CallLemma, SingleLemma, EnterLemma
  DEF paramDefault, OtherFunctions, ListFunctions, Ending, Matched
<1>13. moreParams(t) \in Enter
  BY ExpressionParts, StatementParts, CallLemma, SingleLemma, EnterLemma
  DEF moreParams, OtherFunctions, ListFunctions, Ending, Matched
<1>14. initializer(t) \in Enter
  BY ExpressionParts, StatementParts, CallLemma, SingleLemma, EnterLemma
  DEF initializer, OtherFunctions, ListFunctions, Ending, Matched
<1>15. primaryExpr(t) \in Enter
  BY ExpressionParts, StatementParts, CallLemma, SingleLemma, EnterLemma
  DEF primaryExpr, OtherFunctions, ListFunctions, Ending, Matched
<1>16. closureType(t) \in Enter
  BY ExpressionParts, StatementParts, CallLemma, SingleLemma, EnterLemma
  DEF closureType, OtherFunctions, ListFunctions, Ending, Matched
<1>17. afterAsterisk(t) \in Enter
  BY ExpressionParts, StatementParts, CallLemma, SingleLemma, EnterLemma
  DEF afterAsterisk, OtherFunctions, ListFunctions, Ending, Matched
<1>18. afterNameExpr(t) \in Enter
  BY ExpressionParts, StatementParts, CallLemma, SingleLemma, EnterLemma
  DEF afterNameExpr, OtherFunctions, ListFunctions, Ending, Matched
<1>19. paren(t) \in Enter
  BY ExpressionParts, StatementParts, CallLemma, SingleLemma, EnterLemma
  DEF paren, OtherFunctions, ListFunctions, Ending, Matched
<1>20. parenRest(t) \in Enter
  BY ExpressionParts, StatementParts, CallLemma, SingleLemma, EnterLemma
  DEF parenRest, OtherFunctions, ListFunctions, Ending, Matched
<1>21. curly(t) \in Enter
  BY ExpressionParts, StatementParts, CallLemma, SingleLemma, EnterLemma
  DEF curly, OtherFunctions, ListFunctions, Ending, Matched
<1>22. strings(t) \in Enter
  BY ExpressionParts, StatementParts, CallLemma, SingleLemma, EnterLemma
  DEF strings, OtherFunctions, ListFunctions, Ending, Matched
<1> QED
  BY <1>1, <1>2, <1>3, <1>4, <1>5, <1>6, <1>7, <1>8, <1>9, <1>10, <1>11, <1>12, <1>13,
     <1>14, <1>15, <1>16, <1>17, <1>18, <1>19, <1>20, <1>21, <1>22

(* Those for statements *)
LEMMA StatementFunctions ==
  ASSUME NEW t
  PROVE  /\ statements(t) \in Enter
         /\ else(t) \in Enter
         /\ cases(t) \in Enter
         /\ caseValue(t) \in Enter
         /\ caseBody(t) \in Enter
         /\ statement(t) \in Enter
<1>1. statements(t) \in Enter
  BY ExpressionParts, StatementParts, CallLemma, SingleLemma, EnterLemma
  DEF statements, OtherFunctions, ListFunctions, Ending, Matched
<1>2. else(t) \in Enter
  BY ExpressionParts, StatementParts, CallLemma, SingleLemma, EnterLemma
  DEF else, OtherFunctions, ListFunctions, Ending, Matched
<1>3. cases(t) \in Enter
  <2>1. /\ <<Consume, Match(":"), Call("caseBody")>> \in Enter
        /\ <<Consume, Call("caseValue")>> \in Enter
        /\ <<Match(":"), Call("caseBody")>> \in Closed
    BY CallLemma, SingleLemma, EnterLemma DEF OtherFunctions, Matched
  <2>2. <<Consume, Call("caseValue"), Match(":"), Call("caseBody")>> \in Enter
    <3>1. <<Consume, Call("caseValue")>> \o <<Match(":"), Call("caseBody")>>
            = <<Consume, Call("caseValue"), Match(":"), Call("caseBody")>>
      BY FourLemma
    <3> QED BY <3>1, <2>1, EnterLemma
  <2>3. <<Report>> \o SkipToCurlyRight \o <<Consume>> \in Enter
    BY StatementParts, RecoveryLemma
  <2> QED BY <2>1, <2>2, <2>3, SingleLemma DEF cases
<1>4. caseValue(t) \in Enter
  BY ExpressionParts, StatementParts, CallLemma, SingleLemma, EnterLemma
  DEF caseValue, OtherFunctions, ListFunctions, Ending, Matched
<1>5. caseBody(t) \in Enter
  BY ExpressionParts, StatementParts, CallLemma, SingleLemma, EnterLemma
  DEF caseBody, OtherFunctions, ListFunctions, Ending, Matched
<1>6. statement(t) \in Enter
  <2>1. /\ Expression \in Closed /\ Type \in Closed
        /\ Statement \in Closed /\ Block \in Closed /\ ExpressionStmt \in Closed
        /\ InParens(Expression) \in Closed
    BY ExpressionParts, StatementParts
  <2>2. \A m \in Matched : <<Match(m)>> \in Closed /\ <<MatchOrSkip(m)>> \in Closed
    BY CallLemma, SingleLemma
  <2>3. \A m, n \in Matched : <<Match(m), Match(n)>> \in Closed
    BY CallLemma, EnterLemma
  <2>4. ReturnStmt \in Closed
    BY <2>2, StatementParts, EnterLemma DEF ReturnStmt, Matched, Ending
  <2>5. IfStmt \in Closed
    <3>1. <<Call("else")>> \in Closed BY CallLemma, SingleLemma DEF OtherFunctions
    <3> QED BY <3>1, <2>1, <2>2, EnterLemma DEF IfStmt, Matched
  <2>6. TryStmt \in Closed
    <3>1. InParens(Type \o <<Match("id")>>) \in Closed
      BY <2>1, <2>2, StatementParts, EnterLemma DEF Matched
    <3> QED BY <3>1, <2>1, <2>2, EnterLemma DEF TryStmt, Matched
  <2>7. ForeachStmt \in Closed
    BY <2>1, <2>2, <2>3, EnterLemma DEF ForeachStmt, Matched
  <2>8. ThrowStmt \in Closed
    <3>1. <<Call("moreExprs"), Match("semicolon")>> \in Closed
      BY CallLemma, EnterLemma DEF OtherFunctions, Matched
    <3> QED BY <3>1, <2>1, <2>2, EnterLemma DEF ThrowStmt, Matched
  <2>9. WhileStmt \in Closed BY <2>1, <2>2, EnterLemma DEF WhileStmt, Matched
  <2>10. DoWhileStmt \in Closed BY <2>1, <2>2, EnterLemma DEF DoWhileStmt, Matched
  <2>11. ForStmt \in Closed
    <3>1. Optional("semicolon") \in Closed /\ Optional(")") \in Closed
      BY StatementParts DEF Ending
    <3>2. Optional("semicolon") \o <<Match("semicolon")>> \o Optional("semicolon")
            \o <<Match("semicolon")>> \o Optional(")") \in Closed
      BY <3>1, <2>2, EnterLemma DEF Matched
    <3>3. InParens(Optional("semicolon") \o <<Match("semicolon")>> \o Optional("semicolon")
                     \o <<Match("semicolon")>> \o Optional(")")) \in Closed
      BY <3>2, StatementParts
    <3> QED BY <3>3, <2>1, <2>2, EnterLemma DEF ForStmt, Matched
  <2>12. SwitchStmt \in Closed
    <3>1. <<Match("curlyLeft"), Call("cases")>> \in Closed
      BY CallLemma, EnterLemma DEF OtherFunctions, Matched
    <3> QED BY <3>1, <2>1, <2>2, EnterLemma DEF SwitchStmt, Matched
  <2>13. <<Consume, Match("semicolon")>> \in Enter /\ <<Consume>> \o Statement \in Enter
    BY <2>1, CallLemma, SingleLemma, EnterLemma DEF Matched
  <2> QED
    BY <2>1, <2>4, <2>5, <2>6, <2>7, <2>8, <2>9, <2>10, <2>11, <2>12, <2>13, SingleLemma
    DEF statement
<1> QED BY <1>1, <1>2, <1>3, <1>4, <1>5, <1>6

LEMMA NamespaceMemberIsClosed ==
  ASSUME NEW b \in BOOLEAN
  PROVE  NamespaceMember(b) \in Closed
<1> DEFINE m == CallWith("modifiers", {})
           c == CallWith("memberKind", b)
           s == <<Record, m, c>>
<1>1. m \in ModifierCalls /\ c \in MemberCalls BY CallLemma DEF MemberFunctions
<1>2. NamespaceMember(b) = s
  <2>1. <<Record>> \o <<m>> = <<Record, m>> BY PairLemma
  <2>2. <<Record, m>> \o <<c>> = s
    <3> DEFINE U == {Record, m, c}
               v == <<Record, m>> \o <<c>>
    <3>1. <<Record, m>> \in Seq(U) /\ Len(<<Record, m>>) = 2 OBVIOUS
    <3>2. <<c>> \in Seq(U) /\ Len(<<c>>) = 1 OBVIOUS
    <3>3. v \in Seq(U) /\ Len(v) = 3 /\ v[1] = Record /\ v[2] = m /\ v[3] = c
      BY <3>1, <3>2, ConcatProperties
    <3>4. s \in Seq(U) /\ Len(s) = 3 /\ s[1] = Record /\ s[2] = m /\ s[3] = c OBVIOUS
    <3> HIDE DEF v, s
    <3>5. \A i \in 1..3 : v[i] = s[i] BY <3>3, <3>4
    <3>6. v = s BY <3>3, <3>4, <3>5, SeqEqual
    <3> QED BY <3>6 DEF v
  <2> HIDE DEF m, c
  <2> QED BY <2>1, <2>2 DEF NamespaceMember, Modifiers, m, c
<1>3. /\ Record \in ParserSteps /\ m \in ParserSteps /\ c \in ParserSteps
      /\ Record[1] = "record" /\ m[1] = "call" /\ c[1] = "call"
      /\ Record \notin MemberCalls /\ m \notin MemberCalls
  <2>1. m \in Neutral /\ m \notin MemberCalls /\ m[1] = "call" BY <1>1, KindLemma
  <2>2. c[1] = "call" /\ Record[1] = "record" BY <1>1, KindLemma, StepLemma
  <2>3. Record \notin MemberCalls BY <2>2, KindLemma
  <2> QED BY <1>1, <2>1, <2>2, <2>3 DEF ParserSteps
<1> HIDE DEF m, c
<1>4. /\ s \in Seq(ParserSteps) /\ Len(s) = 3 /\ s[1] = Record /\ s[2] = m /\ s[3] = c
  BY <1>3
<1> HIDE DEF s
<1>5. Linked(s, 1)
  <2>1. s[1 + 1] = m /\ s[1 + 2] = c /\ 1 + 2 <= Len(s) BY <1>4
  <2> QED BY <2>1, <1>1, <1>3, <1>4 DEF Linked
<1>6. Linked(s, 2) BY <1>3, <1>4 DEF Linked
<1>7. Linked(s, 3)
  <2>1. s[3 - 2] = Record BY <1>4
  <2> QED BY <2>1, <1>3, <1>4 DEF Linked
<1>8. \A i \in 1..Len(s) : Linked(s, i)
  <2>1. \A i \in 1..Len(s) : i = 1 \/ i = 2 \/ i = 3 BY <1>4
  <2> QED BY <2>1, <1>5, <1>6, <1>7
<1> QED BY <1>2, <1>3, <1>4, <1>8 DEF Enter, Closed

LEMMA DeclarationParts ==
    /\ Constant \in Closed /\ GlobalVariable \in Enter /\ Function \in Closed
    /\ Method \in Closed /\ ClassDecl \in Closed /\ NamespaceDecl \in Closed
    /\ \A b \in BOOLEAN : NamespaceMember(b) \in Closed
<1>1. /\ Name \in Closed /\ Type \in Closed /\ Expression \in Closed
      /\ Routine \in Closed /\ ParamList \in Closed
  BY ExpressionParts, StatementParts
<1>2. \A m \in Matched : <<Match(m)>> \in Closed BY CallLemma, SingleLemma
<1>3. Constant \in Closed BY <1>1, <1>2, EnterLemma DEF Constant, Matched
<1>4. GlobalVariable \in Enter
  BY <1>1, <1>2, SingleLemma, EnterLemma DEF GlobalVariable, Matched
<1>5. Function \in Closed BY <1>1, EnterLemma DEF Function
<1>6. /\ <<CallWith("baseCtors", ":")>> \in Closed
      /\ <<CallWith("superclasses", "inherits")>> \in Closed
      /\ <<Call("namespaceBody")>> \in Closed
  BY CallLemma, SingleLemma DEF SeparatedFunctions, Separators, OtherFunctions
<1>7. Method \in Closed BY <1>1, <1>6, EnterLemma DEF Method
<1>8. ClassDecl \in Closed BY <1>1, <1>2, <1>6, EnterLemma DEF ClassDecl, Matched
<1>9. NamespaceDecl \in Closed BY <1>1, <1>2, <1>6, EnterLemma DEF NamespaceDecl, Matched
<1> QED BY <1>3, <1>4, <1>5, <1>7, <1>8, <1>9, NamespaceMemberIsClosed

(* Those for declarations *)
LEMMA DeclarationFunctions ==
  ASSUME NEW t
  PROVE  /\ \A separator \in Separators : baseCtors(t, separator) \in Enter
         /\ methodBody(t) \in Enter
         /\ \A separator \in Separators : superclasses(t, separator) \in Enter
         /\ classBody(t) \in Enter /\ classMembers(t) \in Enter
         /\ \A b \in BOOLEAN : classMember(t, b) \in Enter
         /\ methodName(t) \in Enter
         /\ fields(t) \in Enter /\ field(t) \in Enter /\ fieldInit(t) \in Enter
         /\ namespaceBody(t) \in Enter /\ namespaceMembers(t) \in Enter
         /\ parseScript(t) \in Enter /\ parseDeclOrStmt(t) \in Enter
<1>1. /\ Name \in Closed /\ Type \in Closed /\ Modifiers \in Closed /\ ArgList \in Closed
      /\ Expression \in Closed /\ Block \in Closed /\ Method \in Closed
      /\ Constant \in Closed
  BY ExpressionParts, StatementParts, DeclarationParts
<1>2. \A m \in Matched : <<Match(m)>> \in Closed BY CallLemma, SingleLemma
<1>3. \A f \in OtherFunctions : <<Call(f)>> \in Closed /\ <<Consume, Call(f)>> \in Enter
  BY CallLemma, SingleLemma, EnterLemma
<1>4. \A f \in SeparatedFunctions : <<CallWith(f, "comma")>> \in Closed
  BY CallLemma, SingleLemma DEF Separators
<1>5. ASSUME NEW separator \in Separators PROVE baseCtors(t, separator) \in Enter
  <2>1. <<Consume>> \o Name \o ArgList \o <<CallWith("baseCtors", "comma")>> \in Enter
    BY <1>1, <1>4, SingleLemma, EnterLemma DEF SeparatedFunctions
  <2>2. <<Call("methodBody")>> \in Enter BY <1>3, SingleLemma DEF OtherFunctions
  <2> QED BY <2>1, <2>2 DEF baseCtors
<1>6. methodBody(t) \in Enter BY <1>1, SingleLemma DEF methodBody
<1>7. ASSUME NEW separator \in Separators PROVE superclasses(t, separator) \in Enter
  <2>1. <<Consume>> \o Modifiers \o Name \o <<CallWith("superclasses", "comma")>> \in Enter
    BY <1>1, <1>4, SingleLemma, EnterLemma DEF SeparatedFunctions
  <2>2. <<Call("classBody")>> \in Enter BY <1>3, SingleLemma DEF OtherFunctions
  <2> QED BY <2>1, <2>2 DEF superclasses
<1>8. classBody(t) \in Enter
  BY <1>2, <1>3, SingleLemma DEF classBody, OtherFunctions, Matched
<1>9. classMembers(t) \in Enter
  <2> DEFINE b == t \in Modifier
  <2>1. b \in BOOLEAN OBVIOUS
  <2> HIDE DEF b
  <2>2. <<CallWith("classMember", b)>> \in Closed BY <2>1, CallLemma, SingleLemma
  <2> QED BY <2>2, <1>1, SingleLemma, EnterLemma DEF classMembers, b
<1>10. ASSUME NEW b \in BOOLEAN PROVE classMember(t, b) \in Enter
  <2>1. <<Match("curlyLeft"), Call("fields"), Call("classMembers")>> \in Enter
    BY CallLemma, SingleLemma, EnterLemma DEF OtherFunctions, Matched
  <2>2. Type \o Name \o Method \o <<Call("classMembers")>> \in Enter
    BY <1>1, <1>3, SingleLemma, EnterLemma DEF OtherFunctions
  <2>3. Name \o <<Call("methodName"), Call("classMembers")>> \in Enter
    BY <1>1, CallLemma, SingleLemma, EnterLemma DEF OtherFunctions
  <2>4. <<Report>> \o SkipToCurlyRight \o <<Consume>> \in Enter
    BY StatementParts, RecoveryLemma
  <2> QED BY <2>1, <2>2, <2>3, <2>4 DEF classMember
<1>11. methodName(t) \in Enter BY <1>1, SingleLemma, EnterLemma DEF methodName
<1>12. fields(t) \in Enter
  BY <1>1, <1>2, <1>3, SingleLemma, EnterLemma DEF fields, OtherFunctions, Matched
<1>13. field(t) \in Enter
  <2>1. <<Match("id"), Call("fieldInit")>> \in Closed
    BY CallLemma, EnterLemma DEF OtherFunctions, Matched
  <2> QED BY <2>1, <1>1, <1>3, SingleLemma, EnterLemma DEF field, OtherFunctions
<1>14. fieldInit(t) \in Enter
  <2>1. <<Match("semicolon"), Call("fields")>> \in Closed
    BY CallLemma, EnterLemma DEF OtherFunctions, Matched
  <2>2. <<Consume>> \o Expression \in Enter BY <1>1, SingleLemma, EnterLemma
  <2>3. CASE t = "="
    BY <2>1, <2>2, <2>3, EnterLemma DEF fieldInit
  <2>4. CASE t = "(" BY <2>1, <2>4, <1>1, SingleLemma, EnterLemma DEF fieldInit
  <2>5. CASE t \notin {"=", "("}
    BY <2>1, <2>5, SingleLemma, EnterLemma DEF fieldInit
  <2> QED BY <2>3, <2>4, <2>5
<1>15. namespaceBody(t) \in Enter
  BY <1>2, <1>3, SingleLemma DEF namespaceBody, OtherFunctions, Matched
<1>16. namespaceMembers(t) \in Enter
  BY DeclarationParts, SingleLemma DEF namespaceMembers
<1>17. parseScript(t) \in Enter
  <2>1. NamespaceMember(TRUE) \o <<Call("parseScript")>> \in Enter
    BY <1>3, DeclarationParts, SingleLemma, EnterLemma DEF OtherFunctions
  <2>2. <<Consume, Match("id"), Match("curlyLeft")>> \o SkipToCurlyRight
           \o <<Report, Consume, Call("parseScript")>> \in Enter
    <3>1. <<Consume, Match("id"), Match("curlyLeft")>> \in Enter
      BY CallLemma, EnterLemma DEF Matched
    <3>2. <<Consume, Match("id"), Match("curlyLeft")>> \o SkipToCurlyRight \in Opening
      BY <3>1, StatementParts, SingleLemma, JoinLemma
    <3>3. <<Report, Consume, Call("parseScript")>> \in Enter
      BY CallLemma, EnterLemma DEF OtherFunctions
    <3> QED BY <3>2, <3>3, EnterLemma
  <2> QED BY <2>1, <2>2, SingleLemma DEF parseScript
<1>18. parseDeclOrStmt(t) \in Enter
  BY <1>3, DeclarationParts, SingleLemma, EnterLemma DEF parseDeclOrStmt, OtherFunctions
<1> QED BY <1>5, <1>6, <1>7, <1>8, <1>9, <1>10, <1>11, <1>12, <1>13, <1>14, <1>15, <1>16,
           <1>17, <1>18

(* Those that look for a declaration with a recorder: they go on with      *)
(* names, stop the recorder or rewind it. *)
MemberResult(steps, t) ==
    \/ \E s \in Seq(NameCalls), c \in MemberCalls : steps = s \o <<c>>
    \/ \E c \in MemberCalls : t \in Prefix /\ steps = <<Consume, c>>
    \/ \E r \in Enter : steps = <<Stop>> \o r
    \/ \E r \in Closed : steps = <<Rewind>> \o r

LEMMA FoundLemma ==
  ASSUME NEW steps \in Enter, NEW b \in BOOLEAN, NEW t
  PROVE  MemberResult(Found(steps, b), t)
<1> DEFINE rest == IF b THEN <<>> ELSE <<Call("namespaceMembers")>>
           found == steps \o <<DestroyRecorder>> \o rest
<1>1. rest \in Closed BY CallLemma, SingleLemma DEF OtherFunctions
<1>2. <<DestroyRecorder>> \in Closed BY CallLemma, SingleLemma
<1>3. steps \o <<DestroyRecorder>> \in Enter /\ found \in Enter BY <1>1, <1>2, EnterLemma
<1>4. Found(steps, b) = <<Stop>> \o found
  <2> DEFINE S == ParserSteps \cup {Stop}
  <2>1. <<Stop>> \in Seq(S) OBVIOUS
  <2>2. /\ steps \in Seq(S) /\ <<DestroyRecorder>> \in Seq(S) /\ rest \in Seq(S)
        /\ steps \o <<DestroyRecorder>> \in Seq(S)
    BY <1>1, <1>2, <1>3, SeqMonotonic DEF Enter, Closed
  <2> HIDE DEF rest, S
  <2>3. Found(steps, b) = ((<<Stop>> \o steps) \o <<DestroyRecorder>>) \o rest
    BY DEF Found, rest
  <2>4. (<<Stop>> \o steps) \o <<DestroyRecorder>>
          = <<Stop>> \o (steps \o <<DestroyRecorder>>)
    BY <2>1, <2>2, ConcatAssociative
  <2>5. (<<Stop>> \o (steps \o <<DestroyRecorder>>)) \o rest
          = <<Stop>> \o ((steps \o <<DestroyRecorder>>) \o rest)
    BY <2>1, <2>2, ConcatAssociative
  <2> QED BY <2>3, <2>4, <2>5
<1> QED BY <1>3, <1>4 DEF MemberResult

LEMMA NotFoundLemma ==
  ASSUME NEW b \in BOOLEAN, NEW t
  PROVE  MemberResult(NotFound(b), t)
<1> DEFINE rest == IF b THEN Statement
                   ELSE <<EnsureToken, Report>> \o SkipToCurlyRight \o <<Consume>>
           lost == <<DestroyRecorder>> \o rest
<1>1. rest \in Closed BY StatementParts, RecoveryLemma
<1>2. <<DestroyRecorder>> \in Closed BY CallLemma, SingleLemma
<1>3. lost \in Closed BY <1>1, <1>2, EnterLemma
<1>4. NotFound(b) = <<Rewind>> \o lost
  <2> DEFINE S == ParserSteps \cup {Rewind}
  <2>1. <<Rewind>> \in Seq(S) OBVIOUS
  <2>2. <<DestroyRecorder>> \in Seq(S) /\ rest \in Seq(S)
    BY <1>1, <1>2, SeqMonotonic DEF Enter, Closed
  <2> HIDE DEF rest, S
  <2>3. NotFound(b) = <<Rewind, DestroyRecorder>> \o rest BY DEF NotFound, rest
  <2>4. <<Rewind, DestroyRecorder>> = <<Rewind>> \o <<DestroyRecorder>> BY PairLemma
  <2>5. (<<Rewind>> \o <<DestroyRecorder>>) \o rest
          = <<Rewind>> \o (<<DestroyRecorder>> \o rest)
    BY <2>1, <2>2, ConcatAssociative
  <2> QED BY <2>3, <2>4, <2>5
<1> QED BY <1>3, <1>4 DEF MemberResult

(* Those that read a member: each result is one of the four of MemberResult *)
LEMMA MemberFunctionsLemma ==
  ASSUME NEW t, NEW b \in BOOLEAN
  PROVE  /\ MemberResult(memberKind(t, b), t) /\ MemberResult(functionOrClosure(t, b), t)
         /\ MemberResult(afterType(t, b), t) /\ MemberResult(functionOrVariable(t, b), t)
         /\ MemberResult(afterName(t, b), t)
<1>1. /\ NamespaceDecl \in Enter /\ GlobalVariable \in Enter /\ Constant \in Enter
      /\ ClassDecl \in Enter /\ Function \in Enter /\ Routine \in Enter
  BY DeclarationParts, StatementParts, SingleLemma
<1>2. \A steps \in Enter : MemberResult(Found(steps, b), t) BY FoundLemma
<1>3. MemberResult(NotFound(b), t) BY NotFoundLemma
<1>4. \A f \in MemberFunctions : CallWith(f, b) \in MemberCalls BY CallLemma
<1>5. /\ CallWith("functionOrClosure", b) \in MemberCalls
      /\ CallWith("afterType", b) \in MemberCalls
      /\ CallWith("afterName", b) \in MemberCalls
      /\ CallWith("functionOrVariable", b) \in MemberCalls
  BY <1>4 DEF MemberFunctions
<1>6. "sub" \in Prefix BY DEF Prefix
<1>7. Name \in Seq(NameCalls) /\ Type \in Seq(NameCalls)
  <2>1. Call("name") \in NameCalls /\ Call("type") \in NameCalls
    BY CallLemma DEF NameFunctions
  <2> QED BY <2>1 DEF Name, Type
<1>8. \A c \in MemberCalls : /\ MemberResult(Name \o <<c>>, t)
                             /\ MemberResult(Type \o <<c>>, t)
                             /\ t = "sub" => MemberResult(<<Consume, c>>, t)
  BY <1>6, <1>7 DEF MemberResult
<1>9. MemberResult(memberKind(t, b), t)
  BY <1>1, <1>2, <1>3, <1>5, <1>8 DEF memberKind
<1>10. MemberResult(functionOrClosure(t, b), t)
  BY <1>1, <1>2, <1>3 DEF functionOrClosure
<1>11. MemberResult(afterType(t, b), t) BY <1>3, <1>5, <1>8 DEF afterType
<1>12. MemberResult(functionOrVariable(t, b), t)
  BY <1>1, <1>2, <1>3 DEF functionOrVariable
<1>13. MemberResult(afterName(t, b), t) BY <1>1, <1>2, <1>11 DEF afterName
<1> QED BY <1>9, <1>10, <1>11, <1>12, <1>13

(* A call is replaced by what its function does. *)
LEMMA NameSteps ==
  ASSUME NEW x \in NameCalls, NEW t
  PROVE  NameResult(Steps(x[2], x[3], t), t)
<1>1. CASE x \in {"call"} \X NameFunctions \X {""}
  <2>1. x[2] \in NameFunctions /\ x[3] = "" BY <1>1
  <2>2. CASE x[2] = "name" BY <2>1, <2>2, NameFunctionsLemma DEF Steps
  <2>3. CASE x[2] = "names" BY <2>1, <2>3, NameFunctionsLemma DEF Steps
  <2>4. CASE x[2] = "identifier" BY <2>1, <2>4, NameFunctionsLemma DEF Steps
  <2>5. CASE x[2] = "type" BY <2>1, <2>5, NameFunctionsLemma DEF Steps
  <2> QED BY <2>1, <2>2, <2>3, <2>4, <2>5 DEF NameFunctions
<1>2. CASE x \in ModifierCalls
  <2>1. x[2] = "modifiers" /\ x[3] \in SUBSET Modifier BY <1>2 DEF ModifierCalls
  <2>2. Steps(x[2], x[3], t) = modifiers(t, x[3]) BY <2>1 DEF Steps
  <2> QED BY <2>1, <2>2, NameFunctionsLemma
<1> QED BY <1>1, <1>2 DEF NameCalls

LEMMA MemberSteps ==
  ASSUME NEW x \in MemberCalls, NEW t
  PROVE  MemberResult(Steps(x[2], x[3], t), t)
<1>1. x[2] \in MemberFunctions /\ x[3] \in BOOLEAN BY DEF MemberCalls
<1>2. PICK b \in BOOLEAN : b = x[3] BY <1>1
<1>3. CASE x[2] = "memberKind"
  <2>1. Steps(x[2], b, t) = memberKind(t, b) BY <1>3 DEF Steps
  <2> QED BY <2>1, <1>2, MemberFunctionsLemma
<1>4. CASE x[2] = "functionOrClosure"
  <2>1. Steps(x[2], b, t) = functionOrClosure(t, b) BY <1>4 DEF Steps
  <2> QED BY <2>1, <1>2, MemberFunctionsLemma
<1>5. CASE x[2] = "afterType"
  <2>1. Steps(x[2], b, t) = afterType(t, b) BY <1>5 DEF Steps
  <2> QED BY <2>1, <1>2, MemberFunctionsLemma
<1>6. CASE x[2] = "functionOrVariable"
  <2>1. Steps(x[2], b, t) = functionOrVariable(t, b) BY <1>6 DEF Steps
  <2> QED BY <2>1, <1>2, MemberFunctionsLemma
<1>7. CASE x[2] = "afterName"
  <2>1. Steps(x[2], b, t) = afterName(t, b) BY <1>7 DEF Steps
  <2> QED BY <2>1, <1>2, MemberFunctionsLemma
<1> QED BY <1>1, <1>3, <1>4, <1>5, <1>6, <1>7 DEF MemberFunctions

LEMMA FunctionSteps ==
  ASSUME NEW f \in OtherFunctions, NEW t
  PROVE  Steps(f, "", t) \in Enter
<1>1. CASE f = "coalescing" BY <1>1, ExpressionFunctions DEF Steps
<1>2. CASE f = "conditional" BY <1>2, ExpressionFunctions DEF Steps
<1>3. CASE f = "assignment" BY <1>3, ExpressionFunctions DEF Steps
<1>4. CASE f = "moreExprs" BY <1>4, ExpressionFunctions DEF Steps
<1>5. CASE f = "args" BY <1>5, ExpressionFunctions DEF Steps
<1>6. CASE f = "prefixExpr" BY <1>6, ExpressionFunctions DEF Steps
<1>7. CASE f = "postfix" BY <1>7, ExpressionFunctions DEF Steps
<1>8. CASE f = "access" BY <1>8, ExpressionFunctions DEF Steps
<1>9. CASE f = "list" BY <1>9, ExpressionFunctions DEF Steps
<1>10. CASE f = "listElement" BY <1>10, ExpressionFunctions DEF Steps
<1>11. CASE f = "params" BY <1>11, ExpressionFunctions DEF Steps
<1>12. CASE f = "paramDefault" BY <1>12, ExpressionFunctions DEF Steps
<1>13. CASE f = "moreParams" BY <1>13, ExpressionFunctions DEF Steps
<1>14. CASE f = "initializer" BY <1>14, ExpressionFunctions DEF Steps
<1>15. CASE f = "primaryExpr" BY <1>15, ExpressionFunctions DEF Steps
<1>16. CASE f = "closureType" BY <1>16, ExpressionFunctions DEF Steps
<1>17. CASE f = "afterAsterisk" BY <1>17, ExpressionFunctions DEF Steps
<1>18. CASE f = "afterNameExpr" BY <1>18, ExpressionFunctions DEF Steps
<1>19. CASE f = "paren" BY <1>19, ExpressionFunctions DEF Steps
<1>20. CASE f = "parenRest" BY <1>20, ExpressionFunctions DEF Steps
<1>21. CASE f = "curly" BY <1>21, ExpressionFunctions DEF Steps
<1>22. CASE f = "strings" BY <1>22, ExpressionFunctions DEF Steps
<1>23. CASE f = "statements" BY <1>23, StatementFunctions DEF Steps
<1>24. CASE f = "else" BY <1>24, StatementFunctions DEF Steps
<1>25. CASE f = "cases" BY <1>25, StatementFunctions DEF Steps
<1>26. CASE f = "caseValue" BY <1>26, StatementFunctions DEF Steps
<1>27. CASE f = "caseBody" BY <1>27, StatementFunctions DEF Steps
<1>28. CASE f = "statement" BY <1>28, StatementFunctions DEF Steps
<1>29. CASE f = "methodBody" BY <1>29, DeclarationFunctions DEF Steps
<1>30. CASE f = "classBody" BY <1>30, DeclarationFunctions DEF Steps
<1>31. CASE f = "classMembers" BY <1>31, DeclarationFunctions DEF Steps
<1>32. CASE f = "methodName" BY <1>32, DeclarationFunctions DEF Steps
<1>33. CASE f = "fields" BY <1>33, DeclarationFunctions DEF Steps
<1>34. CASE f = "field" BY <1>34, DeclarationFunctions DEF Steps
<1>35. CASE f = "fieldInit" BY <1>35, DeclarationFunctions DEF Steps
<1>36. CASE f = "namespaceBody" BY <1>36, DeclarationFunctions DEF Steps
<1>37. CASE f = "namespaceMembers" BY <1>37, DeclarationFunctions DEF Steps
<1>38. CASE f = "parseScript" BY <1>38, DeclarationFunctions DEF Steps
<1>39. CASE f = "parseDeclOrStmt" BY <1>39, DeclarationFunctions DEF Steps
<1> QED
  BY <1>1, <1>2, <1>3, <1>4, <1>5, <1>6, <1>7, <1>8, <1>9, <1>10, <1>11, <1>12, 
     <1>13, <1>14, <1>15, <1>16, <1>17, <1>18, <1>19, <1>20, <1>21, <1>22, <1>23, 
     <1>24, <1>25, <1>26, <1>27, <1>28, <1>29, <1>30, <1>31, <1>32, <1>33, <1>34, 
     <1>35, <1>36, <1>37, <1>38, <1>39
  DEF OtherFunctions

LEMMA OtherSteps ==
  ASSUME NEW x \in OtherCalls, NEW t
  PROVE  \/ Steps(x[2], x[3], t) \in Enter
         \/ /\ t = "=~"
            /\ \E y \in Neutral :
                 Steps(x[2], x[3], t) = <<Consume>> \o <<ReadRegex>> \o <<y>>
<1>1. CASE x \in {"call"} \X OtherFunctions \X {""}
  <2>1. x[2] \in OtherFunctions /\ x[3] = "" BY <1>1
  <2> QED BY <2>1, FunctionSteps
<1>2. CASE x \in {"call"} \X ListFunctions \X Ending
  <2>1. x[2] \in ListFunctions /\ x[3] \in Ending BY <1>2
  <2>2. PICK end \in Ending : end = x[3] BY <2>1
  <2>3. /\ \A f \in ListFunctions : <<CallWith(f, end)>> \in Closed
        /\ <<Match(end)>> \in Closed
    BY CallLemma, SingleLemma DEF Ending, Matched
  <2>4. <<Consume>> \in Enter /\ <<>> \in Enter /\ <<Match(end)>> \in Enter
    BY <2>3, SingleLemma
  <2>5. CASE x[2] = "moreElements"
    <3>1. Steps(x[2], end, t) = moreElements(t, end) BY <2>5 DEF Steps
    <3>2. <<Consume, CallWith("element", end)>> \in Enter
      BY <2>3, <2>4, EnterLemma, PairLemma DEF ListFunctions
    <3> QED BY <3>1, <3>2, <2>2, <2>4 DEF moreElements
  <2>6. CASE x[2] = "element"
    <3>1. Steps(x[2], end, t) = element(t, end) BY <2>6 DEF Steps
    <3>2. Expression \o Hash(end) \in Enter
      <4>1. Hash(end) \in Closed
        <5>1. <<Match(":")>> \in Closed BY CallLemma, SingleLemma DEF Matched
        <5> QED BY <5>1, <2>3, ExpressionParts, EnterLemma DEF Hash, ListFunctions
      <4> QED BY <4>1, ExpressionParts, SingleLemma, EnterLemma
    <3> QED BY <3>1, <3>2, <2>2, <2>4 DEF element
  <2>7. CASE x[2] = "optional"
    <3>1. Steps(x[2], end, t) = optional(t, end) BY <2>7 DEF Steps
    <3> QED BY <3>1, <2>2, <2>4, ExpressionParts, SingleLemma DEF optional
  <2> QED BY <2>1, <2>5, <2>6, <2>7 DEF ListFunctions
<1>3. CASE x \in {"call"} \X SeparatedFunctions \X Separators
  <2>1. x[2] \in SeparatedFunctions /\ x[3] \in Separators BY <1>3
  <2>2. PICK separator \in Separators : separator = x[3] BY <2>1
  <2>3. CASE x[2] = "baseCtors"
    <3>1. Steps(x[2], separator, t) = baseCtors(t, separator) BY <2>3 DEF Steps
    <3> QED BY <3>1, <2>2, DeclarationFunctions
  <2>4. CASE x[2] = "superclasses"
    <3>1. Steps(x[2], separator, t) = superclasses(t, separator) BY <2>4 DEF Steps
    <3> QED BY <3>1, <2>2, DeclarationFunctions
  <2> QED BY <2>1, <2>3, <2>4 DEF SeparatedFunctions
<1>4. CASE x \in {"call"} \X {"operators"} \X (1..Len(Levels))
  <2>1. x[2] = "operators" /\ x[3] \in 1..Len(Levels) BY <1>4
  <2>2. PICK level \in 1..Len(Levels) : level = x[3] BY <2>1
  <2>3. Steps(x[2], level, t) = operators(t, level) BY <2>1 DEF Steps
  <2> QED BY <2>2, <2>3, OperatorsLemma, CallLemma
<1>5. CASE x \in {"call"} \X {"classMember"} \X BOOLEAN
  <2>1. x[2] = "classMember" /\ x[3] \in BOOLEAN BY <1>5
  <2>2. PICK b \in BOOLEAN : b = x[3] BY <2>1
  <2>3. Steps(x[2], b, t) = classMember(t, b) BY <2>1 DEF Steps
  <2> QED BY <2>2, <2>3, DeclarationFunctions
<1> QED BY <1>1, <1>2, <1>3, <1>4, <1>5 DEF OtherCalls

-----------------------------------------------------------------------------
(* While a member is read with a recorder *)

LEMMA ConsJoin ==
  ASSUME NEW S, NEW s \in Seq(S), NEW x \in S, NEW r \in Seq(S)
  PROVE  /\ Cons(x, r) \in Seq(S)
         /\ (s \o <<x>>) \o r = s \o Cons(x, r)
         /\ Cons(x, s) \o r = Cons(x, s \o r)
         /\ (<<x>> \o s) \o r = Cons(x, s \o r)
<1>1. PICK h : h = <<x>> /\ h \in Seq(S)
  <2>1. <<x>> \in Seq(S) OBVIOUS
  <2> QED BY <2>1
<1>2. h \o r \in Seq(S) BY <1>1, ConcatProperties
<1>3. (s \o h) \o r = s \o (h \o r) BY <1>1, ConcatAssociative
<1>4. (h \o s) \o r = h \o (s \o r) BY <1>1, ConcatAssociative
<1> QED BY <1>1, <1>2, <1>3, <1>4 DEF Cons

LEMMA RecordedLemma ==
    /\ Recorded \subseteq Seq(ParserSteps)
    /\ \A c \in MemberCalls, r \in Closed : Cons(c, r) \in Recorded
    /\ \A s \in Seq(NameCalls), b \in Recorded : s \o b \in Recorded
    /\ \A s \in Seq(NameCalls), c \in MemberCalls, r \in Closed :
         (s \o <<c>>) \o r \in Recorded
    /\ \A n \in NameCalls, b \in Recorded : Cons(n, b) \in Recorded
<1>0. \A s \in Seq(NameCalls), c \in MemberCalls, r \in Closed :
        s \o Cons(c, r) \in Recorded
  BY DEF Recorded
<1>1. NameCalls \subseteq ParserSteps /\ MemberCalls \subseteq ParserSteps
  BY KindLemma DEF ParserSteps
<1>2. Seq(NameCalls) \subseteq Seq(ParserSteps) BY <1>1, SeqMonotonic
<1>3. Closed \subseteq Seq(ParserSteps) BY DEF Closed, Enter
<1>4. \A c \in MemberCalls, r \in Closed : Cons(c, r) \in Seq(ParserSteps)
  <2> TAKE c \in MemberCalls, r \in Closed
  <2>1. c \in ParserSteps /\ r \in Seq(ParserSteps) BY <1>1, <1>3
  <2>2. <<>> \in Seq(ParserSteps) OBVIOUS
  <2> QED BY <2>1, <2>2, ConsJoin
<1>5. Recorded \subseteq Seq(ParserSteps)
  <2> SUFFICES ASSUME NEW b \in Recorded PROVE b \in Seq(ParserSteps) OBVIOUS
  <2>1. PICK s \in Seq(NameCalls), c \in MemberCalls, r \in Closed : b = s \o Cons(c, r)
    BY DEF Recorded
  <2>2. s \in Seq(ParserSteps) /\ Cons(c, r) \in Seq(ParserSteps) BY <1>2, <1>4
  <2> QED BY <2>1, <2>2, ConcatProperties
<1>6. ASSUME NEW s \in Seq(NameCalls), NEW b \in Recorded PROVE s \o b \in Recorded
  <2>1. PICK u \in Seq(NameCalls), c \in MemberCalls, r \in Closed : b = u \o Cons(c, r)
    BY DEF Recorded
  <2>2. s \o (u \o Cons(c, r)) = (s \o u) \o Cons(c, r)
    <3>1. /\ s \in Seq(ParserSteps) /\ u \in Seq(ParserSteps)
          /\ Cons(c, r) \in Seq(ParserSteps)
      BY <1>2, <1>4
    <3> QED BY <3>1, ConcatAssociative
  <2>3. s \o u \in Seq(NameCalls) BY ConcatProperties
  <2>4. (s \o u) \o Cons(c, r) \in Recorded BY <2>3, <1>0
  <2> QED BY <2>1, <2>2, <2>4
<1>7. ASSUME NEW s \in Seq(NameCalls), NEW c \in MemberCalls, NEW r \in Closed
      PROVE  (s \o <<c>>) \o r \in Recorded
  <2>1. s \in Seq(ParserSteps) /\ c \in ParserSteps /\ r \in Seq(ParserSteps)
    BY <1>1, <1>2, <1>3
  <2>2. (s \o <<c>>) \o r = s \o Cons(c, r) BY ONLY <2>1, ConcatAssociative DEF Cons
  <2> QED BY <2>2, <1>0
<1>8. ASSUME NEW c \in MemberCalls, NEW r \in Closed PROVE Cons(c, r) \in Recorded
  <2>1. <<>> \in Seq(NameCalls) OBVIOUS
  <2>2. <<>> \o Cons(c, r) = Cons(c, r) BY <1>4, ConcatEmptySeq
  <2>3. <<>> \o Cons(c, r) \in Recorded BY <2>1, <1>0
  <2> QED BY <2>2, <2>3
<1>9. ASSUME NEW n \in NameCalls, NEW b \in Recorded PROVE Cons(n, b) \in Recorded
  <2>1. <<n>> \in Seq(NameCalls) OBVIOUS
  <2> QED BY <2>1, <1>6 DEF Cons
<1> QED BY <1>5, <1>6, <1>7, <1>8, <1>9

LEMMA FirstRecorded ==
  ASSUME NEW b \in Recorded
  PROVE  \E x, r : /\ b = Cons(x, r) /\ r \in Seq(ParserSteps)
                   /\ \/ x \in MemberCalls /\ r \in Closed
                      \/ x \in NameCalls /\ r \in Recorded
<1>1. PICK s \in Seq(NameCalls), c \in MemberCalls, q \in Closed : b = s \o Cons(c, q)
  BY DEF Recorded
<1>2. /\ q \in Seq(ParserSteps) /\ c \in ParserSteps /\ NameCalls \subseteq ParserSteps
      /\ Cons(c, q) \in Recorded /\ Cons(c, q) \in Seq(ParserSteps)
  <2>1. Cons(c, q) \in Recorded BY RecordedLemma
  <2> QED BY <2>1, RecordedLemma, KindLemma DEF ParserSteps, Closed, Enter
<1>3. CASE s = <<>>
  <2>1. b = Cons(c, q) BY <1>1, <1>2, <1>3, ConcatEmptySeq
  <2> QED BY <2>1, <1>2
<1>4. CASE s # <<>>
  <2>1. PICK n \in NameCalls, t \in Seq(NameCalls) : s = Cons(n, t)
    <3>1. s = Cons(Head(s), Tail(s)) /\ Head(s) \in NameCalls /\ Tail(s) \in Seq(NameCalls)
      BY <1>4, HeadAndTail
    <3> QED BY <3>1
  <2>2. t \in Seq(ParserSteps) /\ n \in ParserSteps BY <1>2, SeqMonotonic
  <2>3. b = Cons(n, t \o Cons(c, q))
    <3>1. PICK k : k = Cons(c, q) /\ k \in Seq(ParserSteps) BY <1>2
    <3>2. Cons(n, t) \o k = Cons(n, t \o k) BY ONLY <2>2, <3>1, ConcatAssociative DEF Cons
    <3> QED BY <1>1, <2>1, <3>1, <3>2
  <2>4. t \o Cons(c, q) \in Recorded BY <1>2, RecordedLemma
  <2>5. t \o Cons(c, q) \in Seq(ParserSteps) BY <2>4, RecordedLemma
  <2> QED BY <2>3, <2>4, <2>5
<1> QED BY <1>3, <1>4

-----------------------------------------------------------------------------
(* What the next step is, and what is left to do after it *)

Free  == ~recording /\ Quiet
Taped == recording /\ Quiet

Top(x, r) ==
    \/ Free /\ x \in Neutral /\ r \in Closed
    \/ Free /\ hasToken /\ x = Consume /\ r \in Closed
    \/ /\ Free /\ hasToken /\ token.type = "=~" /\ x = Consume
       /\ \E q \in Closed : r = Cons(ReadRegex, q)
    \/ Free /\ hasToken /\ x = Report /\ r \in Enter
    \/ Free /\ x = EnsureToken /\ r \in Enter
    \/ /\ Free /\ x = Disable
       /\ \E end \in {"curlyRight", "semicolon"}, q \in Enter :
            /\ q \in Closed \/ end = "curlyRight"
            /\ r = Cons(SkipStep(end, 0), Cons(Enable, q))
    \/ Free /\ x = Record /\ r \in Recorded
    \/ Free /\ ~hasToken /\ queue = <<>> /\ x = ReadRegex /\ r \in Closed
    \/ /\ ~recording /\ disabledCounter = 1
       /\ \E end \in {"curlyRight", "semicolon"}, cnt \in Nat, q \in Enter :
            /\ q \in Closed \/ end = "curlyRight"
            /\ x = SkipStep(end, cnt) /\ r = Cons(Enable, q)
    \/ /\ ~recording /\ disabledCounter = 1 /\ x = Enable
       /\ r \in Enter /\ (r \in Closed \/ hasToken)
    \/ Taped /\ hasToken /\ x = Stop /\ r \in Enter
    \/ Taped /\ x = Rewind /\ r \in Closed
    \/ Taped /\ x \in MemberCalls /\ r \in Closed
    \/ Taped /\ x \in NameCalls /\ r \in Recorded
    \/ Taped /\ hasToken /\ token.type \in Prefix /\ x = Consume /\ r \in Recorded
    \/ Taped /\ hasToken /\ x = Report /\ r \in Recorded
    \/ /\ Taped /\ hasToken /\ token.type \in Prefix /\ x = Report
       /\ \E q \in Recorded : r = Cons(Consume, q)

StackSteps == ParserSteps \cup {Stop, Rewind, ReadRegex}

LEMMA ConsInSteps ==
  ASSUME NEW x \in StackSteps, NEW r \in Seq(StackSteps)
  PROVE  Cons(x, r) \in Seq(StackSteps)
<1>1. <<>> \in Seq(StackSteps) OBVIOUS
<1> QED BY <1>1, ConsJoin

LEMMA StackParts ==
    /\ {Consume, Report, EnsureToken, Disable, Enable, Record, Stop, Rewind, ReadRegex}
         \subseteq StackSteps
    /\ \A end \in {"curlyRight", "semicolon"}, cnt \in Nat :
         SkipStep(end, cnt) \in StackSteps
    /\ Enter \subseteq Seq(StackSteps) /\ Closed \subseteq Seq(StackSteps)
    /\ Recorded \subseteq Seq(StackSteps) /\ Seq(ParserSteps) \subseteq Seq(StackSteps)
    /\ Closed \subseteq Enter
<1>1. \A end \in {"curlyRight", "semicolon"}, cnt \in Nat : SkipStep(end, cnt) \in Skips
  BY DEF SkipStep, Step, Skips
<1>2. Seq(ParserSteps) \subseteq Seq(StackSteps) BY SeqMonotonic DEF StackSteps
<1> QED BY <1>1, <1>2, RecordedLemma DEF StackSteps, ParserSteps, Enter, Closed

LEMMA TopLemma ==
  ASSUME StackInv, todo # <<>>
  PROVE  /\ todo \in Seq(StackSteps)
         /\ Tail(todo) \in Seq(StackSteps)
         /\ Top(Head(todo), Tail(todo))
<1>1. ASSUME NEW x \in StackSteps, NEW r \in Seq(StackSteps), todo = Cons(x, r), Top(x, r)
      PROVE  /\ todo \in Seq(StackSteps)
             /\ Tail(todo) \in Seq(StackSteps)
             /\ Top(Head(todo), Tail(todo))
  <2>1. Head(todo) = x /\ Tail(todo) = r BY <1>1, ConsParts
  <2>2. todo \in Seq(StackSteps) BY <1>1, ConsInSteps
  <2> QED BY <1>1, <2>1, <2>2
<1>2. CASE Executing
  <2>1. todo \in Enter /\ Free BY <1>2 DEF Executing, Free
  <2>2. PICK x, r : /\ todo = Cons(x, r) /\ todo[1] = x /\ r \in Seq(ParserSteps)
                    /\ FirstOf(x, r)
    BY <2>1, FirstStep
  <2>3. x \in {Consume, Report} => hasToken BY <1>2, <2>2, StepLemma DEF Executing, Closed
  <2>4. CASE x = Record /\ \E m \in ModifierCalls, c \in MemberCalls, q \in Closed :
                             r = Cons(m, Cons(c, q))
    <3>1. r \in Recorded BY <2>4, RecordedLemma, KindLemma
    <3>2. Top(x, r) BY <2>1, <2>4, <3>1 DEF Top
    <3> QED BY <1>1, <2>2, <2>4, <3>2, StackParts
  <2>5. CASE x # Record
    <3>1. Top(x, r) BY <2>1, <2>2, <2>3, <2>5 DEF FirstOf, Top
    <3>2. x \in StackSteps BY <2>2, <2>5, StackParts DEF FirstOf, StackSteps, ParserSteps
    <3> QED BY <1>1, <2>2, <3>1, <3>2, StackParts
  <2>6. x # Record \/ \E m \in ModifierCalls, c \in MemberCalls, q \in Closed :
                        r = Cons(m, Cons(c, q))
    <3>1. x = Record => x \notin Neutral /\ x \notin {Consume, Report, EnsureToken, Disable}
      BY KindLemma, StepLemma
    <3> QED BY <2>2, <3>1 DEF FirstOf
  <2> QED BY <2>4, <2>5, <2>6
<1>3. ASSUME NEW q, RegexNext(q)
      PROVE  /\ todo \in Seq(StackSteps)
             /\ Tail(todo) \in Seq(StackSteps)
             /\ Top(Head(todo), Tail(todo))
  <2>1. q \in Closed /\ todo = Cons(Consume, Cons(ReadRegex, q)) BY <1>3 DEF RegexNext
  <2>2. Cons(ReadRegex, q) \in Seq(StackSteps) BY <2>1, ConsInSteps, StackParts
  <2>3. Top(Consume, Cons(ReadRegex, q)) BY <1>3, <2>1 DEF RegexNext, Free, Top
  <2> QED BY <1>1, <2>1, <2>2, <2>3, StackParts
<1>4. ASSUME NEW q, RegexHere(q)
      PROVE  /\ todo \in Seq(StackSteps)
             /\ Tail(todo) \in Seq(StackSteps)
             /\ Top(Head(todo), Tail(todo))
  <2>1. q \in Closed /\ todo = Cons(ReadRegex, q) BY <1>4 DEF RegexHere
  <2>2. Top(ReadRegex, q) BY <1>4, <2>1 DEF RegexHere, Free, Top
  <2> QED BY <1>1, <2>1, <2>2, StackParts
<1>5. ASSUME NEW q, Muting(q)
      PROVE  /\ todo \in Seq(StackSteps)
             /\ Tail(todo) \in Seq(StackSteps)
             /\ Top(Head(todo), Tail(todo))
  <2> DEFINE r == Cons(SkipStep("semicolon", 0), Cons(Enable, q))
  <2>1. q \in Closed /\ q \in Enter /\ todo = Cons(Disable, r)
    BY <1>5, StackParts DEF Muting
  <2>2. Cons(Enable, q) \in Seq(StackSteps) BY <2>1, ConsInSteps, StackParts
  <2>3. r \in Seq(StackSteps) BY <2>2, ConsInSteps, StackParts
  <2>4. Top(Disable, r) BY <1>5, <2>1 DEF Muting, Free, Top
  <2> QED BY <1>1, <2>1, <2>3, <2>4, StackParts
<1>6. ASSUME NEW end, NEW cnt, NEW q, Skipping(end, cnt, q)
      PROVE  /\ todo \in Seq(StackSteps)
             /\ Tail(todo) \in Seq(StackSteps)
             /\ Top(Head(todo), Tail(todo))
  <2>1. /\ q \in Enter /\ todo = Cons(SkipStep(end, cnt), Cons(Enable, q))
        /\ end \in {"curlyRight", "semicolon"} /\ cnt \in Nat
        /\ q \in Closed \/ end = "curlyRight"
    BY <1>6 DEF Skipping
  <2>2. Cons(Enable, q) \in Seq(StackSteps) BY <2>1, ConsInSteps, StackParts
  <2>3. Top(SkipStep(end, cnt), Cons(Enable, q)) BY <1>6, <2>1 DEF Skipping, Top
  <2> QED BY <1>1, <2>1, <2>2, <2>3, StackParts
<1>7. ASSUME NEW q, Unmuting(q) \/ Stopping(q) \/ Rewinding(q)
      PROVE  /\ todo \in Seq(StackSteps)
             /\ Tail(todo) \in Seq(StackSteps)
             /\ Top(Head(todo), Tail(todo))
  <2>1. PICK x : /\ x \in {Enable, Stop, Rewind}
                 /\ todo = Cons(x, q) /\ q \in Enter /\ Top(x, q)
    BY <1>7, StackParts DEF Unmuting, Stopping, Rewinding, Taped, Top
  <2> QED BY <1>1, <2>1, StackParts
<1>8. ASSUME NEW q, Reading(q)
      PROVE  /\ todo \in Seq(StackSteps)
             /\ Tail(todo) \in Seq(StackSteps)
             /\ Top(Head(todo), Tail(todo))
  <2>1. Taped /\ q \in Recorded BY <1>8 DEF Reading, Taped
  <2>2. CASE todo = q
    <3>1. PICK x, r : /\ q = Cons(x, r) /\ r \in Seq(ParserSteps)
                      /\ \/ x \in MemberCalls /\ r \in Closed
                         \/ x \in NameCalls /\ r \in Recorded
      BY <2>1, FirstRecorded
    <3>2. Top(x, r) BY <2>1, <3>1 DEF Top
    <3>3. x \in StackSteps BY <3>1, KindLemma DEF StackSteps, ParserSteps
    <3> QED BY <1>1, <2>2, <3>1, <3>2, <3>3, StackParts
  <2>3. CASE /\ hasToken
             /\ \/ token.type \in Prefix /\ todo = Cons(Consume, q)
                \/ todo = Cons(Report, q)
    <3>1. PICK x : x \in {Consume, Report} /\ todo = Cons(x, q) /\ Top(x, q)
      BY <2>1, <2>3 DEF Top
    <3> QED BY <1>1, <2>1, <3>1, StackParts
  <2>4. CASE hasToken /\ token.type \in Prefix /\ todo = Cons(Report, Cons(Consume, q))
    <3>1. Cons(Consume, q) \in Seq(StackSteps) BY <2>1, ConsInSteps, StackParts
    <3>2. Top(Report, Cons(Consume, q)) BY <2>1, <2>4 DEF Top
    <3> QED BY <1>1, <2>4, <3>1, <3>2, StackParts
  <2> QED BY <1>8, <2>2, <2>3, <2>4 DEF Reading
<1> QED BY <1>2, <1>3, <1>4, <1>5, <1>6, <1>7, <1>8 DEF StackInv

(* What may be relied on at a step, by its kind *)
LEMMA OpLemma ==
  ASSUME NEW x, NEW r, Top(x, r)
  PROVE  /\ x[1] = "call" =>
              \/ Free /\ x \in NameCalls \cup OtherCalls /\ r \in Closed
              \/ Taped /\ x \in MemberCalls /\ r \in Closed
              \/ Taped /\ x \in NameCalls /\ r \in Recorded
         /\ x[1] = "match" => Free /\ x \in Matches /\ r \in Closed
         /\ x[1] = "destroyRecorder" => Free /\ r \in Closed
         /\ x[1] = "consume" =>
              /\ hasToken
              /\ \/ Free /\ r \in Closed
                 \/ Free /\ token.type = "=~" /\ \E q \in Closed : r = Cons(ReadRegex, q)
                 \/ Taped /\ token.type \in Prefix /\ r \in Recorded
         /\ x[1] = "report" =>
              /\ hasToken
              /\ \/ Free /\ r \in Enter
                 \/ Taped /\ r \in Recorded
                 \/ /\ Taped /\ token.type \in Prefix
                    /\ \E q \in Recorded : r = Cons(Consume, q)
         /\ x[1] = "ensureToken" => Free /\ r \in Enter
         /\ x[1] = "disable" =>
              /\ Free
              /\ \E end \in {"curlyRight", "semicolon"}, q \in Enter :
                   /\ q \in Closed \/ end = "curlyRight"
                   /\ r = Cons(SkipStep(end, 0), Cons(Enable, q))
         /\ x[1] = "record" => Free /\ r \in Recorded
         /\ x[1] = "readRegex" => Free /\ ~hasToken /\ queue = <<>> /\ r \in Closed
         /\ x[1] = "skip" =>
              /\ ~recording /\ disabledCounter = 1
              /\ \E end \in {"curlyRight", "semicolon"}, cnt \in Nat, q \in Enter :
                   /\ q \in Closed \/ end = "curlyRight"
                   /\ x = SkipStep(end, cnt) /\ r = Cons(Enable, q)
         /\ x[1] = "enable" => /\ ~recording /\ disabledCounter = 1
                               /\ r \in Enter /\ (r \in Closed \/ hasToken)
         /\ x[1] = "stop" => Taped /\ hasToken /\ r \in Enter
         /\ x[1] = "rewind" => Taped /\ r \in Closed
<1>1. x \in Neutral => \/ x \in NameCalls \cup OtherCalls /\ x[1] = "call"
                       \/ x \in Matches /\ x[1] = "match"
                       \/ x[1] = "destroyRecorder"
  <2>1. x \in OtherCalls => x[1] = "call" BY DEF OtherCalls
  <2>2. x \in Matches => x[1] = "match" BY DEF Matches
  <2> QED BY <2>1, <2>2, KindLemma, StepLemma DEF Neutral
<1>2. x \in MemberCalls \cup NameCalls => x[1] = "call" BY KindLemma
<1>3. \A end, cnt : SkipStep(end, cnt)[1] = "skip" BY DEF SkipStep, Step
<1>4. CASE Free /\ x \in Neutral /\ r \in Closed BY <1>1, <1>4
<1>5. CASE Free /\ hasToken /\ x = Consume /\ r \in Closed BY <1>5, StepLemma
<1>6. CASE /\ Free /\ hasToken /\ token.type = "=~" /\ x = Consume
           /\ \E q \in Closed : r = Cons(ReadRegex, q)
  BY <1>6, StepLemma
<1>7. CASE Free /\ hasToken /\ x = Report /\ r \in Enter BY <1>7, StepLemma
<1>8. CASE Free /\ x = EnsureToken /\ r \in Enter BY <1>8, StepLemma
<1>9. CASE /\ Free /\ x = Disable
           /\ \E end \in {"curlyRight", "semicolon"}, q \in Enter :
                /\ q \in Closed \/ end = "curlyRight"
                /\ r = Cons(SkipStep(end, 0), Cons(Enable, q))
  BY <1>9, StepLemma
<1>10. CASE Free /\ x = Record /\ r \in Recorded BY <1>10, StepLemma
<1>11. CASE Free /\ ~hasToken /\ queue = <<>> /\ x = ReadRegex /\ r \in Closed
  BY <1>11, StepLemma
<1>12. CASE /\ ~recording /\ disabledCounter = 1
            /\ \E end \in {"curlyRight", "semicolon"}, cnt \in Nat, q \in Enter :
                 /\ q \in Closed \/ end = "curlyRight"
                 /\ x = SkipStep(end, cnt) /\ r = Cons(Enable, q)
  <2>1. x[1] = "skip" BY <1>3, <1>12
  <2> QED BY <2>1, <1>12
<1>13. CASE /\ ~recording /\ disabledCounter = 1 /\ x = Enable
            /\ r \in Enter /\ (r \in Closed \/ hasToken)
  BY <1>13, StepLemma
<1>14. CASE Taped /\ hasToken /\ x = Stop /\ r \in Enter BY <1>14, StepLemma
<1>15. CASE Taped /\ x = Rewind /\ r \in Closed BY <1>15, StepLemma
<1>16. CASE Taped /\ x \in MemberCalls /\ r \in Closed BY <1>2, <1>16
<1>17. CASE Taped /\ x \in NameCalls /\ r \in Recorded BY <1>2, <1>17
<1>18. CASE Taped /\ hasToken /\ token.type \in Prefix /\ x = Consume /\ r \in Recorded
  BY <1>18, StepLemma
<1>19. CASE Taped /\ hasToken /\ x = Report /\ r \in Recorded BY <1>19, StepLemma
<1>20. CASE /\ Taped /\ hasToken /\ token.type \in Prefix /\ x = Report
            /\ \E q \in Recorded : r = Cons(Consume, q)
  BY <1>20, StepLemma
<1> QED BY <1>4, <1>5, <1>6, <1>7, <1>8, <1>9, <1>10, <1>11, <1>12, <1>13, <1>14, <1>15,
           <1>16, <1>17, <1>18, <1>19, <1>20 DEF Top

LEMMA DisableOp ==
  ASSUME NEW x, NEW r, Top(x, r), x[1] = "disable"
  PROVE  /\ Free
         /\ \E end \in {"curlyRight", "semicolon"}, q \in Enter :
              /\ q \in Closed \/ end = "curlyRight"
              /\ r = Cons(SkipStep(end, 0), Cons(Enable, q))
BY OpLemma, SMT

LEMMA SkipOp ==
  ASSUME NEW x, NEW r, Top(x, r), x[1] = "skip"
  PROVE  /\ ~recording /\ disabledCounter = 1
         /\ \E end \in {"curlyRight", "semicolon"}, cnt \in Nat, q \in Enter :
              /\ q \in Closed \/ end = "curlyRight"
              /\ x = SkipStep(end, cnt) /\ r = Cons(Enable, q)
BY OpLemma, SMT

-----------------------------------------------------------------------------
(* Each step leaves on the stack what may be there. *)

LEMMA DecideStack ==
  ASSUME StackInv, Decide
  PROVE  StackInv'
<1>0. PICK x, r, t, s : /\ x = Head(todo) /\ r = Tail(todo) /\ t = token.type
                        /\ s = Steps(x[2], x[3], t)
  OBVIOUS
<1>1. /\ x[1] = "call" /\ hasToken /\ todo # <<>> /\ todo' = s \o r
      /\ hasToken' = hasToken /\ token' = token /\ queue' = queue
      /\ recording' = recording /\ disabledCounter' = disabledCounter
  BY <1>0
  DEF Decide, LooksAhead, AtStep, Continue, arg1, arg2, tokenVars, recorderVars, diagVars
<1>2. Top(x, r) /\ r \in Seq(StackSteps) BY <1>0, <1>1, TopLemma
<1>3. \/ Free /\ x \in NameCalls \cup OtherCalls /\ r \in Closed
      \/ Taped /\ x \in MemberCalls /\ r \in Closed
      \/ Taped /\ x \in NameCalls /\ r \in Recorded
  BY <1>1, <1>2, OpLemma
<1>4. ASSUME Free, s \in Enter, r \in Closed PROVE StackInv'
  <2>1. s \o r \in Enter BY <1>4, EnterLemma
  <2> QED BY <1>1, <1>4, <2>1 DEF StackInv, Executing, Free, Quiet
<1>5. CASE Free /\ x \in NameCalls /\ r \in Closed
  <2>1. s \in Enter BY <1>0, <1>5, NameSteps, NameResultIsEnter
  <2> QED BY <1>4, <1>5, <2>1
<1>6. CASE Free /\ x \in OtherCalls /\ r \in Closed
  <2>1. CASE s \in Enter BY <1>4, <1>6, <2>1
  <2>2. CASE t = "=~" /\ \E y \in Neutral : s = <<Consume>> \o <<ReadRegex>> \o <<y>>
    <3>1. PICK y \in Neutral : s = <<Consume>> \o <<ReadRegex>> \o <<y>> BY <2>2
    <3>2. y \in StackSteps BY KindLemma DEF StackSteps
    <3>3. Cons(y, r) \in Closed /\ Cons(y, r) \in Seq(StackSteps)
      <4>1. <<y>> \o r \in Closed BY <1>6, SingleLemma, EnterLemma
      <4> QED BY <4>1, StackParts DEF Cons
    <3>4. s \o r = Cons(Consume, Cons(ReadRegex, Cons(y, r)))
      <4>1. /\ <<Consume>> \in Seq(StackSteps) /\ <<ReadRegex>> \in Seq(StackSteps)
            /\ <<y>> \in Seq(StackSteps)
        BY <3>2, StackParts
      <4>2. PICK a, b, c \in Seq(StackSteps) :
              a = <<Consume>> /\ b = <<ReadRegex>> /\ c = <<y>>
        BY <4>1
      <4>3. a \o b \in Seq(StackSteps) /\ c \o r \in Seq(StackSteps)
        BY <1>2, <4>2, ConcatProperties
      <4>4. ((a \o b) \o c) \o r = (a \o b) \o (c \o r)
        <5>1. PICK m \in Seq(StackSteps) : m = a \o b BY <4>3
        <5>2. (m \o c) \o r = m \o (c \o r) BY SMTT(30), <1>2, ConcatAssociative
        <5> QED BY ONLY <5>1, <5>2
      <4>5. (a \o b) \o (c \o r) = a \o (b \o (c \o r))
        <5>1. PICK m \in Seq(StackSteps) : m = c \o r BY <4>3
        <5>2. (a \o b) \o m = a \o (b \o m) BY SMTT(30), ConcatAssociative
        <5> QED BY ONLY <5>1, <5>2
      <4>6. s \o r = a \o (b \o (c \o r)) BY <3>1, <4>2, <4>4, <4>5
      <4>7. PICK d : d = c \o r /\ d = Cons(y, r) BY <4>2 DEF Cons
      <4>8. PICK e : e = b \o d /\ e = Cons(ReadRegex, d) BY <4>2 DEF Cons
      <4>9. a \o e = Cons(Consume, e) BY <4>2 DEF Cons
      <4> QED BY ONLY <4>6, <4>7, <4>8, <4>9
    <3>5. RegexNext(Cons(y, r))'
      BY <1>0, <1>1, <1>6, <2>2, <3>3, <3>4 DEF RegexNext, Free, Quiet
    <3> QED BY <3>5 DEF StackInv
  <2> QED BY <1>0, <1>6, <2>1, <2>2, OtherSteps
<1>7. CASE Taped /\ x \in MemberCalls /\ r \in Closed
  <2>1. MemberResult(s, t) BY <1>0, <1>7, MemberSteps
  <2>2. CASE \E u \in Seq(NameCalls), c \in MemberCalls : s = u \o <<c>>
    <3>1. s \o r \in Recorded BY <1>7, <2>2, RecordedLemma
    <3>2. Reading(s \o r)' BY <1>1, <1>7, <3>1 DEF Reading, Taped, Quiet
    <3> QED BY <3>2 DEF StackInv
  <2>3. CASE \E c \in MemberCalls : t \in Prefix /\ s = <<Consume, c>>
    <3>1. PICK c \in MemberCalls : s = <<Consume, c>> BY <2>3
    <3>2. s \o r = Cons(Consume, Cons(c, r))
      <4>1. s = <<Consume>> \o <<c>> BY <3>1, PairLemma
      <4>2. <<Consume>> \in Seq(StackSteps) /\ <<c>> \in Seq(StackSteps)
        <5>1. c \in StackSteps BY DEF StackSteps, ParserSteps
        <5> QED BY <5>1, StackParts
      <4> QED BY <1>2, <4>1, <4>2, ConcatAssociative DEF Cons
    <3>3. Cons(c, r) \in Recorded BY <1>7, RecordedLemma
    <3>4. Reading(Cons(c, r))'
      BY <1>0, <1>1, <1>7, <2>3, <3>2, <3>3 DEF Reading, Taped, Quiet
    <3> QED BY <3>4 DEF StackInv
  <2>4. ASSUME NEW h \in {Stop, Rewind}, NEW u \in Seq(ParserSteps), s = <<h>> \o u
        PROVE  s \o r = Cons(h, u \o r)
    <3>1. /\ <<h>> \in Seq(StackSteps) /\ u \in Seq(StackSteps) /\ r \in Seq(StackSteps)
      <4>1. h \in StackSteps BY StackParts
      <4> QED BY <4>1, <1>2, StackParts
    <3> QED BY <2>4, <3>1, ConcatAssociative DEF Cons
  <2>5. CASE \E u \in Enter : s = <<Stop>> \o u
    <3>1. PICK u \in Enter : s = <<Stop>> \o u BY <2>5
    <3>2. s \o r = Cons(Stop, u \o r) BY <2>4, <3>1 DEF Enter
    <3>3. u \o r \in Enter BY <1>7, EnterLemma
    <3>4. Stopping(u \o r)' BY <1>1, <1>7, <3>2, <3>3 DEF Stopping, Taped, Quiet
    <3> QED BY <3>4 DEF StackInv
  <2>6. CASE \E u \in Closed : s = <<Rewind>> \o u
    <3>1. PICK u \in Closed : s = <<Rewind>> \o u BY <2>6
    <3>2. s \o r = Cons(Rewind, u \o r) BY <2>4, <3>1 DEF Closed, Enter
    <3>3. u \o r \in Closed BY <1>7, EnterLemma
    <3>4. Rewinding(u \o r)' BY <1>1, <1>7, <3>2, <3>3 DEF Rewinding, Taped, Quiet
    <3> QED BY <3>4 DEF StackInv
  <2> QED BY <2>1, <2>2, <2>3, <2>5, <2>6 DEF MemberResult
<1>8. CASE Taped /\ x \in NameCalls /\ r \in Recorded
  <2>1. NameResult(s, t) BY <1>0, <1>8, NameSteps
  <2>2. PICK u \in Seq(NameCalls) :
          \/ s = u
          \/ t \in Prefix /\ s = <<Consume>> \o u
          \/ s = <<Report>> \o u
          \/ t \in Prefix /\ s = <<Report>> \o (<<Consume>> \o u)
    BY <2>1 DEF NameResult
  <2>3. u \o r \in Recorded BY <1>8, RecordedLemma
  <2>4. u \in Seq(StackSteps)
    <3>1. NameCalls \subseteq StackSteps BY KindLemma DEF StackSteps
    <3> QED BY <3>1, SeqMonotonic
  <2>5. /\ <<Consume>> \in Seq(StackSteps) /\ <<Report>> \in Seq(StackSteps)
    BY StackParts
  <2>6. /\ (<<Consume>> \o u) \o r = Cons(Consume, u \o r)
        /\ (<<Report>> \o u) \o r = Cons(Report, u \o r)
    BY SMTT(40), <1>2, <2>4, <2>5, ConcatAssociative DEF Cons
  <2>7. (<<Report>> \o (<<Consume>> \o u)) \o r = Cons(Report, Cons(Consume, u \o r))
    <3>1. PICK v \in Seq(StackSteps) : v = <<Consume>> \o u BY <2>4, <2>5, ConcatProperties
    <3>2. (<<Report>> \o v) \o r = <<Report>> \o (v \o r)
      BY <1>2, <2>5, ConcatAssociative
    <3>3. v \o r = Cons(Consume, u \o r) BY <2>6, <3>1
    <3>4. PICK w : w = v \o r OBVIOUS
    <3>5. <<Report>> \o w = Cons(Report, w) BY DEF Cons
    <3> QED BY ONLY <3>1, <3>2, <3>3, <3>4, <3>5
  <2>8. Reading(u \o r)'
    BY ZenonT(40), <1>0, <1>1, <1>8, <2>2, <2>3, <2>6, <2>7 DEF Reading, Taped, Quiet
  <2> QED BY <2>8 DEF StackInv
<1> QED BY <1>3, <1>5, <1>6, <1>7, <1>8

(* No assertion has failed and no report has been suppressed. *)
Running == status = "running" /\ ~suppressed

(* What the next step is *)
LEMMA AtLemma ==
  ASSUME StackInv, NEW op, AtStep(op)
  PROVE  \E x, r : /\ x = Head(todo) /\ r = Tail(todo) /\ x[1] = op
                   /\ Top(x, r) /\ r \in Seq(StackSteps) /\ <<>> \o r = r
<1>1. PICK x, r : x = Head(todo) /\ r = Tail(todo) OBVIOUS
<1>2. x[1] = op /\ todo # <<>> BY <1>1 DEF AtStep
<1>3. Top(x, r) /\ r \in Seq(StackSteps) BY <1>1, <1>2, TopLemma
<1>4. <<>> \o r = r BY <1>3, ConcatEmptySeq
<1> QED BY <1>1, <1>2, <1>3, <1>4

LEMMA ReadStack ==
  ASSUME StackInv, Running, MustRead, hasToken', todo' = todo,
         UNCHANGED <<recorderVars, diagVars, status>>
  PROVE  StackInv' /\ Running'
<1>1. Running' BY DEF Running, diagVars
<1>2. /\ recording' = recording /\ disabledCounter' = disabledCounter /\ ~hasToken
  BY DEF recorderVars, diagVars, MustRead
<1>3. PICK op \in {"call", "match", "skip", "ensureToken"} : AtStep(op) BY DEF MustRead
<1>4. Head(todo)[1] # "readRegex" BY <1>3 DEF AtStep
<1>5. CASE Executing
  <2>1. Executing' BY <1>2, <1>5 DEF Executing, Quiet
  <2> QED BY <1>1, <2>1 DEF StackInv
<1>6. CASE \E r : RegexNext(r) BY <1>2, <1>6 DEF RegexNext
<1>7. CASE \E r : RegexHere(r)
  <2>1. PICK r : r \in Closed /\ todo = Cons(ReadRegex, r) BY <1>7 DEF RegexHere
  <2>2. r \in Seq(StackSteps) BY <2>1, StackParts
  <2>3. Head(todo) = ReadRegex BY <2>1, <2>2, ConsParts
  <2> QED BY <1>4, <2>3, StepLemma
<1>8. CASE \E r : Muting(r)
  <2>1. PICK r : Muting(r) BY <1>8
  <2>2. Muting(r)' BY <1>2, <2>1 DEF Muting, Quiet
  <2> QED BY <1>1, <2>2 DEF StackInv
<1>9. CASE \E end, cnt, r : Skipping(end, cnt, r)
  <2>1. PICK end, cnt, r : Skipping(end, cnt, r) BY <1>9
  <2>2. Skipping(end, cnt, r)' BY <1>2, <2>1 DEF Skipping
  <2> QED BY <1>1, <2>2 DEF StackInv
<1>10. CASE \E r : Unmuting(r)
  <2>1. PICK r : Unmuting(r) BY <1>10
  <2>2. Unmuting(r)' BY <1>2, <2>1 DEF Unmuting
  <2> QED BY <1>1, <2>2 DEF StackInv
<1>11. CASE \E r : Stopping(r) BY <1>2, <1>11 DEF Stopping
<1>12. CASE \E r : Rewinding(r)
  <2>1. PICK r : Rewinding(r) BY <1>12
  <2>2. Rewinding(r)' BY <1>2, <2>1 DEF Rewinding, Quiet
  <2> QED BY <1>1, <2>2 DEF StackInv
<1>13. CASE \E r : Reading(r)
  <2>1. PICK r : Reading(r) BY <1>13
  <2>2. Reading(r)' BY <1>2, <2>1 DEF Reading, Quiet
  <2> QED BY <1>1, <2>2 DEF StackInv
<1> QED BY <1>1, <1>5, <1>6, <1>7, <1>8, <1>9, <1>10, <1>11, <1>12, <1>13 DEF StackInv

LEMMA TakeStack ==
  ASSUME StackInv, Running, Take, hasToken /\ token.type = "=~" => queue = <<>>
  PROVE  StackInv' /\ Running'
<1>1. PICK x, r : /\ x = Head(todo) /\ r = Tail(todo) /\ x[1] = "consume"
                  /\ Top(x, r) /\ r \in Seq(StackSteps) /\ <<>> \o r = r
  BY AtLemma DEF Take
<1>2. /\ hasToken
      /\ \/ Free /\ r \in Closed
         \/ Free /\ token.type = "=~" /\ \E q \in Closed : r = Cons(ReadRegex, q)
         \/ Taped /\ token.type \in Prefix /\ r \in Recorded
  BY <1>1, OpLemma
<1>3. /\ todo' = r /\ hasToken' = FALSE /\ queue' = queue /\ recording' = recording
      /\ disabledCounter' = disabledCounter /\ suppressed' = suppressed /\ status' = status
  BY <1>1, <1>2 DEF Take, consume, Continue, Require, diagVars
<1>4. Running' BY <1>3 DEF Running
<1>5. CASE Free /\ r \in Closed
  <2>1. r \in Enter BY <1>5, StackParts
  <2>2. Executing' BY <1>3, <1>5, <2>1 DEF Executing, Free, Quiet
  <2> QED BY <1>4, <2>2 DEF StackInv
<1>6. CASE Free /\ token.type = "=~" /\ \E q \in Closed : r = Cons(ReadRegex, q)
  <2>1. PICK q \in Closed : r = Cons(ReadRegex, q) BY <1>6
  <2>2. RegexHere(q)' BY <1>2, <1>3, <1>6, <2>1 DEF RegexHere, Free, Quiet
  <2> QED BY <1>4, <2>2 DEF StackInv
<1>7. CASE Taped /\ token.type \in Prefix /\ r \in Recorded
  <2>1. Reading(r)' BY <1>3, <1>7 DEF Reading, Taped, Quiet
  <2> QED BY <1>4, <2>1 DEF StackInv
<1> QED BY <1>2, <1>5, <1>6, <1>7

LEMMA MatchStack ==
  ASSUME StackInv, Running, MatchToken \/ Mismatch
  PROVE  StackInv' /\ Running'
<1>1. PICK x, r : /\ x = Head(todo) /\ r = Tail(todo) /\ x[1] = "match"
                  /\ Top(x, r) /\ r \in Seq(StackSteps) /\ <<>> \o r = r
  BY AtLemma DEF MatchToken, Mismatch, LooksAhead
<1>2. Free /\ r \in Closed /\ r \in Enter BY <1>1, OpLemma, StackParts
<1>3. recording' = recording /\ disabledCounter' = disabledCounter
  BY DEF MatchToken, Mismatch, consume, diagVars, recorderVars, Error
<1>4. Running'
  <2>1. hasToken BY DEF MatchToken, Mismatch, LooksAhead
  <2>2. status' = status
    BY <2>1 DEF MatchToken, Mismatch, consume, Require
  <2>3. ~(disabledCounter > 0) BY <1>2 DEF Free, Quiet
  <2>4. \/ suppressed' = suppressed
        \/ suppressed' = (suppressed \/ disabledCounter > 0)
    BY DEF MatchToken, Mismatch, diagVars, Error
  <2>5. ~suppressed' BY <2>3, <2>4, Zenon DEF Running
  <2> QED BY <2>2, <2>5 DEF Running
<1>5. CASE todo' = r
  <2>1. Executing' BY <1>2, <1>3, <1>5 DEF Executing, Free, Quiet
  <2> QED BY <1>4, <2>1 DEF StackInv
<1>6. CASE todo' = SkipToSemicolon \o r
  <2>1. SkipToSemicolon = <<Disable, SkipStep("semicolon", 0), Enable>>
    BY DEF SkipToSemicolon, Muted, SkipStep
  <2>2. todo' = Cons(Disable, Cons(SkipStep("semicolon", 0), Cons(Enable, r)))
    <3>1. PICK k \in StackSteps : k = SkipStep("semicolon", 0) BY StackParts
    <3>2. /\ <<Disable>> \in Seq(StackSteps) /\ <<k>> \in Seq(StackSteps)
          /\ <<Enable>> \in Seq(StackSteps)
      BY StackParts
    <3>3. SkipToSemicolon = <<Disable>> \o (<<k>> \o <<Enable>>)
      <4>1. SkipToSemicolon = <<Disable, k, Enable>> BY <2>1, <3>1
      <4>2. <<Disable, k, Enable>> = <<Disable>> \o <<k, Enable>> BY TripleIsConcat
      <4>3. <<k, Enable>> = <<k>> \o <<Enable>> BY PairLemma
      <4> QED BY ONLY <4>1, <4>2, <4>3
    <3>4. PICK a \in Seq(StackSteps), b \in Seq(StackSteps), c \in Seq(StackSteps) :
            a = <<Disable>> /\ b = <<k>> /\ c = <<Enable>>
      BY <3>2
    <3>5. SkipToSemicolon \o r = a \o (b \o (c \o r)) BY <1>1, <3>3, <3>4, ConcatFour
    <3> QED BY <1>6, <3>1, <3>4, <3>5 DEF Cons
  <2>3. Muting(r)' BY <1>2, <1>3, <2>2 DEF Muting, Free, Quiet
  <2> QED BY <1>4, <2>3 DEF StackInv
<1>7. todo' = r \/ todo' = SkipToSemicolon \o r
  BY <1>1 DEF MatchToken, Mismatch, Continue
<1> QED BY <1>5, <1>6, <1>7

LEMMA ReportStack ==
  ASSUME StackInv, Running, ReportError
  PROVE  StackInv' /\ Running'
<1>1. PICK x, r : /\ x = Head(todo) /\ r = Tail(todo) /\ x[1] = "report"
                  /\ Top(x, r) /\ r \in Seq(StackSteps) /\ <<>> \o r = r
  BY AtLemma DEF ReportError
<1>2. /\ hasToken
      /\ \/ Free /\ r \in Enter
         \/ Taped /\ r \in Recorded
         \/ Taped /\ token.type \in Prefix /\ \E q \in Recorded : r = Cons(Consume, q)
  BY <1>1, OpLemma
<1>3. /\ todo' = r /\ hasToken' = hasToken /\ token' = token /\ recording' = recording
      /\ disabledCounter' = disabledCounter /\ status' = status
      /\ suppressed' = (suppressed \/ disabledCounter > 0)
  BY <1>1, <1>2 DEF ReportError, Error, Continue, Require, tokenVars, recorderVars
<1>4. Running'
  <2>1. ~(disabledCounter > 0) BY <1>2 DEF Free, Taped, Quiet
  <2>2. ~suppressed' BY <1>3, <2>1, Zenon DEF Running
  <2> QED BY <1>3, <2>2 DEF Running
<1>5. CASE Free /\ r \in Enter
  <2>1. Executing' BY <1>2, <1>3, <1>5 DEF Executing, Free, Quiet
  <2> QED BY <1>4, <2>1 DEF StackInv
<1>6. CASE Taped /\ r \in Recorded
  <2>1. Reading(r)' BY <1>3, <1>6 DEF Reading, Taped, Quiet
  <2> QED BY <1>4, <2>1 DEF StackInv
<1>7. CASE Taped /\ token.type \in Prefix /\ \E q \in Recorded : r = Cons(Consume, q)
  <2>1. PICK q \in Recorded : r = Cons(Consume, q) BY <1>7
  <2>2. Reading(q)' BY <1>2, <1>3, <1>7, <2>1 DEF Reading, Taped, Quiet
  <2> QED BY <1>4, <2>2 DEF StackInv
<1> QED BY <1>2, <1>5, <1>6, <1>7

LEMMA EnsuredStack ==
  ASSUME StackInv, Running, Ensured
  PROVE  StackInv' /\ Running'
<1>1. PICK x, r : /\ x = Head(todo) /\ r = Tail(todo) /\ x[1] = "ensureToken"
                  /\ Top(x, r) /\ r \in Seq(StackSteps) /\ <<>> \o r = r
  BY AtLemma DEF Ensured, LooksAhead
<1>2. Free /\ r \in Enter BY <1>1, OpLemma
<1>3. /\ todo' = r /\ hasToken' /\ recording' = recording
      /\ disabledCounter' = disabledCounter /\ status' = status /\ suppressed' = suppressed
  BY <1>1 DEF Ensured, LooksAhead, Continue, tokenVars, recorderVars, diagVars
<1>4. Executing' BY <1>2, <1>3 DEF Executing, Free, Quiet
<1> QED BY <1>3, <1>4 DEF StackInv, Running

LEMMA DisableStack ==
  ASSUME StackInv, Running, DisableDiagnostics
  PROVE  StackInv' /\ Running'
<1>1. PICK x, r : /\ x = Head(todo) /\ r = Tail(todo) /\ x[1] = "disable"
                  /\ Top(x, r) /\ r \in Seq(StackSteps) /\ <<>> \o r = r
  BY AtLemma DEF DisableDiagnostics
<1>2. /\ Free
      /\ \E end \in {"curlyRight", "semicolon"}, q \in Enter :
           /\ q \in Closed \/ end = "curlyRight"
           /\ r = Cons(SkipStep(end, 0), Cons(Enable, q))
  <2>1. Top(x, r) /\ x[1] = "disable" BY <1>1
  <2> QED BY ONLY <2>1, DisableOp
<1>3. PICK end \in {"curlyRight", "semicolon"}, q \in Enter :
        /\ q \in Closed \/ end = "curlyRight"
        /\ r = Cons(SkipStep(end, 0), Cons(Enable, q))
  BY <1>2
<1>4. /\ todo' = r /\ recording' = recording /\ disabledCounter' = 1
      /\ status' = status /\ suppressed' = suppressed
  BY <1>1, <1>2 DEF DisableDiagnostics, Continue, recorderVars, Free, Quiet
<1>5. Skipping(end, 0, q)' BY <1>2, <1>3, <1>4 DEF Skipping, Free
<1> QED BY <1>4, <1>5 DEF StackInv, Running

LEMMA EnableStack ==
  ASSUME StackInv, Running, EnableDiagnostics
  PROVE  StackInv' /\ Running'
<1>1. PICK x, r : /\ x = Head(todo) /\ r = Tail(todo) /\ x[1] = "enable"
                  /\ Top(x, r) /\ r \in Seq(StackSteps) /\ <<>> \o r = r
  BY AtLemma DEF EnableDiagnostics
<1>2. ~recording /\ disabledCounter = 1 /\ r \in Enter /\ (r \in Closed \/ hasToken)
  BY <1>1, OpLemma
<1>3. /\ todo' = r /\ hasToken' = hasToken /\ recording' = recording /\ disabledCounter' = 0
      /\ status' = status /\ suppressed' = suppressed
  BY <1>1, <1>2 DEF EnableDiagnostics, Continue, Require, tokenVars, recorderVars
<1>4. Executing' BY <1>2, <1>3 DEF Executing, Quiet
<1> QED BY <1>3, <1>4 DEF StackInv, Running

LEMMA SkipStack ==
  ASSUME StackInv, Running, SkipToken \/ SkipEnds
  PROVE  StackInv' /\ Running'
<1>1. PICK x, r : /\ x = Head(todo) /\ r = Tail(todo) /\ x[1] = "skip"
                  /\ Top(x, r) /\ r \in Seq(StackSteps) /\ <<>> \o r = r
  BY AtLemma DEF SkipToken, SkipEnds, LooksAhead
<1>2. ~recording /\ disabledCounter = 1 /\ hasToken
  BY <1>1, OpLemma DEF SkipToken, SkipEnds, LooksAhead
<1>3. PICK end \in {"curlyRight", "semicolon"}, cnt \in Nat, q \in Enter :
        /\ q \in Closed \/ end = "curlyRight"
        /\ x = SkipStep(end, cnt) /\ r = Cons(Enable, q)
  <2>1. Top(x, r) /\ x[1] = "skip" BY <1>1
  <2> QED BY ONLY <2>1, SkipOp
<1>4. arg1 = end /\ arg2 = cnt BY <1>1, <1>3 DEF arg1, arg2, SkipStep, Step
<1>5. /\ recording' = recording /\ disabledCounter' = disabledCounter
      /\ status' = status /\ suppressed' = suppressed
  BY <1>2 DEF SkipToken, SkipEnds, consume, Require, diagVars, recorderVars
<1>6. Running' BY <1>5 DEF Running
<1>7. ASSUME NEW n \in Nat, todo' = Skip(n) \o r PROVE StackInv' /\ Running'
  <2>1. todo' = Cons(SkipStep(end, n), Cons(Enable, q))
    BY <1>3, <1>4, <1>7 DEF Skip, SkipStep, Cons
  <2>2. Skipping(end, n, q)' BY <1>2, <1>3, <1>5, <2>1 DEF Skipping
  <2> QED BY <1>6, <2>2 DEF StackInv
<1>8. ASSUME todo' = r, q \in Closed \/ hasToken' PROVE StackInv' /\ Running'
  <2>1. Unmuting(q)' BY <1>2, <1>3, <1>5, <1>8 DEF Unmuting
  <2> QED BY <1>6, <2>1 DEF StackInv
<1>9. CASE SkipToken
  <2>1. /\ ~(end = "curlyRight" /\ token.type = "curlyRight" /\ cnt = 0)
        /\ todo' = (CASE token.type = "curlyLeft" -> Skip(cnt + 1)
                      [] token.type = "curlyRight" -> LeaveBraces(cnt)
                      [] token.type = "semicolon" /\ end = "semicolon" /\ cnt = 0 -> <<>>
                      [] OTHER -> Skip(cnt)) \o r
    BY <1>1, <1>4, <1>9 DEF SkipToken, Continue
  <2>2. CASE token.type = "curlyLeft"
    <3>1. todo' = Skip(cnt + 1) \o r BY <2>1, <2>2
    <3>2. cnt + 1 \in Nat OBVIOUS
    <3> QED BY <1>7, <3>1, <3>2
  <2>3. CASE token.type = "curlyRight"
    <3>1. todo' = LeaveBraces(cnt) \o r BY <2>1, <2>3
    <3>2. CASE cnt = 0
      <4>1. todo' = r BY <1>1, <3>1, <3>2 DEF LeaveBraces
      <4>2. q \in Closed BY <1>3, <2>1, <2>3, <3>2
      <4> QED BY <1>8, <4>1, <4>2
    <3>3. CASE cnt # 0
      <4>1. todo' = Skip(cnt - 1) \o r /\ cnt - 1 \in Nat BY <3>1, <3>3 DEF LeaveBraces
      <4> QED BY <1>7, <4>1
    <3> QED BY <3>2, <3>3
  <2>4. CASE token.type = "semicolon" /\ end = "semicolon" /\ cnt = 0
    <3>1. todo' = r BY <1>1, <2>1, <2>4
    <3>2. q \in Closed BY <1>3, <2>4
    <3> QED BY <1>8, <3>1, <3>2
  <2>5. CASE /\ token.type \notin {"curlyLeft", "curlyRight"}
             /\ ~(token.type = "semicolon" /\ end = "semicolon" /\ cnt = 0)
    <3>1. todo' = Skip(cnt) \o r BY <2>1, <2>5
    <3> QED BY <1>7, <3>1
  <2> QED BY <2>2, <2>3, <2>4, <2>5
<1>10. CASE SkipEnds
  <2>1. todo' = r /\ hasToken' BY <1>1, <1>2, <1>10 DEF SkipEnds, Continue, tokenVars
  <2> QED BY <1>8, <2>1
<1> QED BY <1>9, <1>10

LEMMA RegexStack ==
  ASSUME StackInv, Running, ReadRegexToken
  PROVE  StackInv' /\ Running'
<1>1. PICK x, r : /\ x = Head(todo) /\ r = Tail(todo) /\ x[1] = "readRegex"
                  /\ Top(x, r) /\ r \in Seq(StackSteps) /\ <<>> \o r = r
  BY AtLemma DEF ReadRegexToken
<1>2. Free /\ r \in Closed /\ r \in Enter BY <1>1, OpLemma, StackParts
<1>3. /\ todo' = r /\ recording' = recording /\ disabledCounter' = disabledCounter
      /\ status' = status
      /\ \/ suppressed' = suppressed
         \/ suppressed' = (suppressed \/ disabledCounter > 0)
  BY <1>1 DEF ReadRegexToken, Continue, Error, diagVars
<1>4. ~suppressed'
  <2>1. ~(disabledCounter > 0) BY <1>2 DEF Free, Quiet
  <2> QED BY <1>3, <2>1, Zenon DEF Running
<1>5. Executing' BY <1>2, <1>3 DEF Executing, Free, Quiet
<1> QED BY <1>3, <1>4, <1>5 DEF StackInv, Running

LEMMA RecorderStack ==
  ASSUME StackInv, Running,
         BeginRecording \/ StopRecording \/ RewindRecording \/ EndRecording
  PROVE  StackInv' /\ Running'
<1>1. CASE BeginRecording
  <2>1. PICK x, r : /\ x = Head(todo) /\ r = Tail(todo) /\ x[1] = "record"
                    /\ Top(x, r) /\ r \in Seq(StackSteps) /\ <<>> \o r = r
    BY <1>1, AtLemma DEF BeginRecording
  <2>2. Free /\ r \in Recorded BY <2>1, OpLemma
  <2>3. /\ todo' = r /\ recording' /\ disabledCounter' = disabledCounter
        /\ status' = status /\ suppressed' = suppressed
    BY <1>1, <2>1, <2>2 DEF BeginRecording, Continue, Require, diagVars, Free
  <2>4. Reading(r)' BY <2>2, <2>3 DEF Reading, Free, Quiet
  <2> QED BY <2>3, <2>4 DEF StackInv, Running
<1>2. CASE StopRecording
  <2>1. PICK x, r : /\ x = Head(todo) /\ r = Tail(todo) /\ x[1] = "stop"
                    /\ Top(x, r) /\ r \in Seq(StackSteps) /\ <<>> \o r = r
    BY <1>2, AtLemma DEF StopRecording
  <2>2. Taped /\ hasToken /\ r \in Enter BY <2>1, OpLemma
  <2>3. /\ todo' = r /\ hasToken' /\ ~recording' /\ disabledCounter' = disabledCounter
        /\ status' = status /\ suppressed' = suppressed
    BY <1>2, <2>1, <2>2 DEF StopRecording, Continue, Require, diagVars, tokenVars, Taped
  <2>4. Executing' BY <2>2, <2>3 DEF Executing, Taped, Quiet
  <2> QED BY <2>3, <2>4 DEF StackInv, Running
<1>3. CASE RewindRecording
  <2>1. PICK x, r : /\ x = Head(todo) /\ r = Tail(todo) /\ x[1] = "rewind"
                    /\ Top(x, r) /\ r \in Seq(StackSteps) /\ <<>> \o r = r
    BY <1>3, AtLemma DEF RewindRecording
  <2>2. Taped /\ r \in Closed /\ r \in Enter BY <2>1, OpLemma, StackParts
  <2>3. /\ todo' = r /\ ~recording' /\ disabledCounter' = disabledCounter
        /\ status' = status /\ suppressed' = suppressed
    BY <1>3, <2>1, <2>2 DEF RewindRecording, Continue, Require, diagVars, Taped
  <2>4. Executing' BY <2>2, <2>3 DEF Executing, Taped, Quiet
  <2> QED BY <2>3, <2>4 DEF StackInv, Running
<1>4. CASE EndRecording
  <2>1. PICK x, r : /\ x = Head(todo) /\ r = Tail(todo) /\ x[1] = "destroyRecorder"
                    /\ Top(x, r) /\ r \in Seq(StackSteps) /\ <<>> \o r = r
    BY <1>4, AtLemma DEF EndRecording
  <2>2. Free /\ r \in Closed /\ r \in Enter BY <2>1, OpLemma, StackParts
  <2>3. /\ todo' = r /\ recording' = recording /\ disabledCounter' = disabledCounter
        /\ status' = status /\ suppressed' = suppressed
    BY <1>4, <2>1, <2>2 DEF EndRecording, Continue, Require, diagVars, recorderVars, Free
  <2>4. Executing' BY <2>2, <2>3 DEF Executing, Free, Quiet
  <2> QED BY <2>3, <2>4 DEF StackInv, Running
<1> QED BY <1>1, <1>2, <1>3, <1>4

-----------------------------------------------------------------------------
(* The tokens: what is recorded, looked at and unread *)

Types  == (UNION {s.types : s \in Sources}) \cup {"eof", "none"}
Tokens == [type : Types, at : Nat]

TokenTypes ==
    /\ source \in Sources /\ last \in Nat /\ parsed \in Nat
    /\ hasToken \in BOOLEAN /\ recording \in BOOLEAN /\ ended \in BOOLEAN
    /\ token \in Tokens /\ queue \in Seq(Tokens) /\ recorded \in Seq(Tokens)

Ahead == Lookahead \o queue

(* The tokens of s follow the first p ones of a source, of which l have    *)
(* been scanned. *)
Position(p, i, l) == IF p + i <= l THEN p + i ELSE l + 1
Ordered(p, s, l, atEnd) ==
    /\ \A i \in 1..Len(s) : s[i].at = Position(p, i, l)
    /\ ~atEnd => p + Len(s) = l
    /\ p + Len(s) >= l /\ p <= l + 1

(* What is recorded, and all that is read ahead but the last token, may    *)
(* precede the name of a member. *)
TokenInv ==
    /\ TokenTypes
    /\ ~recording => recorded = <<>>
    /\ \A i \in 1..Len(recorded) : recorded[i].type \in Prefix
    /\ \A i \in 1..Len(Ahead) - 1 : Ahead[i].type \in Prefix
    /\ Ordered(parsed, recorded \o Ahead, last, ended)

LEMMA OrderedAppend ==
  ASSUME NEW S, NEW s \in Seq(S), NEW t \in S, NEW p \in Nat, NEW l \in Nat, NEW atEnd,
         Ordered(p, s, l, atEnd), t.at = l + 1
  PROVE  /\ ~atEnd => Ordered(p, s \o <<t>>, l + 1, atEnd)
         /\ Ordered(p, s \o <<t>>, l, TRUE)
<1>1. PICK u \in Seq(S) : /\ u = s \o <<t>> /\ Len(u) = Len(s) + 1
                          /\ u[Len(u)] = t /\ \A i \in 1..Len(s) : u[i] = s[i]
  <2>1. /\ s \o <<t>> \in Seq(S) /\ Len(s \o <<t>>) = Len(s) + 1
        /\ (s \o <<t>>)[Len(s \o <<t>>)] = t
        /\ \A i \in 1..Len(s) : (s \o <<t>>)[i] = s[i]
    BY BodyLemma
  <2> QED BY <2>1
<1>2. PICK n \in Nat : n = Len(s) BY LenProperties
<1>3. \A i \in 1..Len(u) : i = n + 1 \/ i \in 1..n BY <1>1, <1>2
<1>4. /\ \A i \in 1..n : u[i] = s[i] /\ s[i].at = Position(p, i, l)
      /\ u[n + 1] = t /\ Len(u) = n + 1
      /\ p + n >= l /\ p <= l + 1 /\ (~atEnd => p + n = l)
  BY <1>1, <1>2 DEF Ordered
<1>5. ASSUME ~atEnd PROVE Ordered(p, u, l + 1, atEnd)
  <2>1. p + n = l BY <1>4, <1>5
  <2>2. \A i \in 1..n : u[i].at = Position(p, i, l + 1) BY <1>4, <2>1 DEF Position
  <2>3. u[n + 1].at = Position(p, n + 1, l + 1) BY <1>4, <2>1 DEF Position
  <2>4. \A i \in 1..Len(u) : u[i].at = Position(p, i, l + 1) BY <1>3, <2>2, <2>3
  <2> QED BY <1>4, <2>1, <2>4 DEF Ordered
<1>6. Ordered(p, u, l, TRUE)
  <2>1. u[n + 1].at = Position(p, n + 1, l) BY <1>4 DEF Position
  <2>2. \A i \in 1..Len(u) : u[i].at = Position(p, i, l) BY <1>3, <1>4, <2>1
  <2> QED BY <1>4, <2>2 DEF Ordered
<1> QED BY <1>1, <1>5, <1>6

LEMMA OrderedDrop ==
  ASSUME NEW S, NEW s \in Seq(S), NEW u \in Seq(S), NEW n \in 1..Len(s),
         Len(u) = Len(s) - n, \A i \in 1..Len(u) : u[i] = s[i + n],
         NEW p \in Nat, NEW l \in Nat, NEW atEnd, Ordered(p, s, l, atEnd)
  PROVE  s[n].at \in Nat /\ Ordered(s[n].at, u, l, atEnd)
<1>1. PICK m \in Nat : m = Len(s) /\ n \in Nat /\ n >= 1 /\ n <= m /\ Len(u) = m - n
  BY LenProperties
<1>2. PICK q : q = s[n].at OBVIOUS
<1>3. q = Position(p, n, l) BY <1>2 DEF Ordered
<1>4. p + m >= l /\ p <= l + 1 /\ (~atEnd => p + m = l) BY <1>1 DEF Ordered
<1>5. q \in Nat /\ q <= l + 1 BY <1>1, <1>3 DEF Position
<1>6. ASSUME NEW i \in 1..Len(u) PROVE u[i].at = Position(q, i, l)
  <2>1. i \in Nat /\ i >= 1 /\ i + n \in 1..Len(s) BY <1>1
  <2>2. u[i].at = Position(p, i + n, l) BY <2>1 DEF Ordered
  <2>3. Position(p, i + n, l) = Position(q, i, l) BY <1>1, <1>3, <2>1 DEF Position
  <2> QED BY <2>2, <2>3
<1>7. q + (m - n) >= l /\ (~atEnd => q + (m - n) = l)
  <2>1. CASE p + n <= l
    <3>1. q = p + n BY <1>3, <2>1 DEF Position
    <3>2. q + (m - n) = p + m BY <1>1, <3>1
    <3> QED BY ONLY <1>4, <3>2, Zenon
  <2>2. CASE ~(p + n <= l)
    <3>1. q = l + 1 BY <1>3, <2>2 DEF Position
    <3>2. q + (m - n) >= l /\ p + m # l BY <1>1, <2>2, <3>1
    <3> QED BY ONLY <1>4, <3>2, Zenon
  <2> QED BY <2>1, <2>2
<1> QED BY <1>1, <1>2, <1>5, <1>6, <1>7 DEF Ordered

LEMMA AheadLemma ==
  ASSUME TokenTypes
  PROVE  /\ Ahead \in Seq(Tokens) /\ recorded \o Ahead \in Seq(Tokens)
         /\ hasToken => /\ Ahead = <<token>> \o queue /\ Len(Ahead) = Len(queue) + 1
                        /\ Ahead[1] = token
                        /\ \A i \in 1..Len(queue) : Ahead[i + 1] = queue[i]
         /\ ~hasToken => Ahead = queue
<1>1. PICK k \in Seq(Tokens) : k = <<token>> /\ Len(k) = 1 /\ k[1] = token
  <2>1. <<token>> \in Seq(Tokens) /\ Len(<<token>>) = 1 /\ <<token>>[1] = token
    BY DEF TokenTypes
  <2> QED BY <2>1
<1>2. PICK q \in Seq(Tokens), n \in Nat : q = queue /\ n = Len(q)
  BY LenProperties DEF TokenTypes
<1>3. /\ k \o q \in Seq(Tokens) /\ Len(k \o q) = 1 + n /\ (k \o q)[1] = token
      /\ \A i \in 1..n : (k \o q)[1 + i] = q[i]
  BY <1>1, <1>2, ConcatProperties
<1>4. hasToken => Ahead = k \o q BY <1>1, <1>2 DEF Ahead, Lookahead
<1>5. ~hasToken => Ahead = q BY <1>2, ConcatEmptySeq DEF Ahead, Lookahead
<1>6. Ahead \in Seq(Tokens) BY <1>3, <1>4, <1>5
<1>7. recorded \o Ahead \in Seq(Tokens) BY <1>6, ConcatProperties DEF TokenTypes
<1>8. 1 + n = n + 1 /\ \A i \in 1..n : 1 + i = i + 1 OBVIOUS
<1> QED BY <1>1, <1>2, <1>3, <1>4, <1>5, <1>6, <1>7, <1>8

(* Many steps leave the tokens alone. *)
LEMMA SameTokens ==
  ASSUME TokenInv, UNCHANGED <<source, last, ended, tokenVars, recorderVars>>
  PROVE  TokenInv'
<1>1. TokenTypes' BY DEF TokenInv, TokenTypes, tokenVars, recorderVars
<1>2. /\ Ahead' = Ahead /\ recorded' = recorded /\ parsed' = parsed /\ last' = last
      /\ ended' = ended /\ recording' = recording
  BY DEF Ahead, Lookahead, tokenVars, recorderVars
<1> QED BY <1>1, <1>2 DEF TokenInv

LEMMA ScanTokens ==
  ASSUME TokenInv, Scan
  PROVE  TokenInv'
<1>1. TokenTypes /\ ~hasToken /\ queue = <<>> BY DEF TokenInv, Scan, MustRead
<1>2. /\ hasToken' /\ queue' = <<>> /\ recorded' = recorded /\ parsed' = parsed
      /\ recording' = recording /\ source' = source
  BY <1>1 DEF Scan, recorderVars
<1>3. /\ token' \in Tokens /\ token'.at = last + 1
      /\ \/ ~ended /\ last' = last + 1 /\ ended' = ended
         \/ ended' = TRUE /\ last' = last
  <2>1. CASE /\ \E kind \in source.types : Seen(kind) /\ token' = TokenOf(kind, last + 1)
             /\ OneMore
    <3>1. PICK kind \in source.types : token' = TokenOf(kind, last + 1) BY <2>1
    <3>2. kind \in Types BY <1>1 DEF Types, TokenTypes
    <3>3. last + 1 \in Nat BY <1>1 DEF TokenTypes
    <3>4. token' = [type |-> kind, at |-> last + 1] BY <3>1 DEF TokenOf
    <3>5. token' \in Tokens /\ token'.at = last + 1 BY <3>2, <3>3, <3>4 DEF Tokens
    <3> QED BY <2>1, <3>5 DEF OneMore
  <2>2. CASE token' = TokenOf("eof", last + 1) /\ AtEnd
    <3>1. "eof" \in Types BY DEF Types
    <3>2. last + 1 \in Nat BY <1>1 DEF TokenTypes
    <3>3. token' = [type |-> "eof", at |-> last + 1] BY <2>2 DEF TokenOf
    <3>4. token' \in Tokens /\ token'.at = last + 1 BY <3>1, <3>2, <3>3 DEF Tokens
    <3> QED BY <2>2, <3>4 DEF AtEnd
  <2> QED BY <2>1, <2>2 DEF Scan
<1>4. TokenTypes'
  <2>1. last \in Nat /\ last + 1 \in Nat /\ ended \in BOOLEAN BY <1>1 DEF TokenTypes
  <2>2. last' \in Nat BY ONLY <1>3, <2>1, Zenon
  <2>3. ended' = ended \/ ended' = TRUE BY ONLY <1>3, Zenon
  <2>4. ended' \in BOOLEAN BY ONLY <2>1, <2>3, Zenon
  <2> QED BY <1>1, <1>2, <1>3, <2>2, <2>4 DEF TokenTypes
<1>5. PICK t \in Tokens, s \in Seq(Tokens), p \in Nat, l \in Nat, e \in BOOLEAN :
        t = token' /\ s = recorded /\ p = parsed /\ l = last /\ e = ended
  BY <1>1, <1>3 DEF TokenTypes
<1>6. recorded \o Ahead = s
  <2>1. Ahead = <<>> BY <1>1, AheadLemma
  <2> QED BY <1>5, <2>1, ConcatEmptySeq
<1>7. Ahead' = <<t>>
  <2>1. Ahead' = <<token'>> \o <<>> BY <1>2 DEF Ahead, Lookahead
  <2>2. <<t>> \in Seq(Tokens) OBVIOUS
  <2> QED BY <1>5, <2>1, <2>2, ConcatEmptySeq
<1>8. Ordered(p, s, l, e) BY <1>5, <1>6 DEF TokenInv
<1>9. (~e => Ordered(p, s \o <<t>>, l + 1, e)) /\ Ordered(p, s \o <<t>>, l, TRUE)
  BY <1>3, <1>5, <1>8, OrderedAppend
<1>10. Ordered(parsed', recorded' \o Ahead', last', ended')
  <2>1. parsed' = p /\ recorded' \o Ahead' = s \o <<t>> BY <1>2, <1>5, <1>7
  <2>2. (~e /\ last' = l + 1 /\ ended' = e) \/ (last' = l /\ ended' = TRUE) BY <1>3, <1>5
  <2> QED BY <1>9, <2>1, <2>2
<1>11. \A i \in 1..Len(Ahead') - 1 : FALSE BY <1>7
<1> QED BY <1>2, <1>4, <1>10, <1>11 DEF TokenInv

LEMMA DequeueTokens ==
  ASSUME TokenInv, Dequeue
  PROVE  TokenInv'
<1>1. TokenTypes /\ ~hasToken /\ queue # <<>> /\ queue \in Seq(Tokens)
  BY DEF TokenInv, Dequeue, MustRead, TokenTypes
<1>2. PICK t, q : /\ t = Head(queue) /\ q = Tail(queue) /\ t \in Tokens /\ q \in Seq(Tokens)
                  /\ queue = Cons(t, q)
  <2>1. /\ queue = Cons(Head(queue), Tail(queue)) /\ Head(queue) \in Tokens
        /\ Tail(queue) \in Seq(Tokens)
    BY <1>1, HeadAndTail
  <2> QED BY <2>1
<1>3. /\ token' = t /\ queue' = q /\ hasToken' = TRUE /\ source' = source /\ last' = last
      /\ ended' = ended /\ recording' = recording /\ recorded' = recorded
      /\ parsed' = parsed
  BY <1>2 DEF Dequeue, sourceVars, recorderVars
<1>4. TokenTypes' BY <1>1, <1>2, <1>3 DEF TokenTypes
<1>5. Ahead' = Ahead
  <2>1. Ahead' = <<t>> \o q BY <1>3 DEF Ahead, Lookahead
  <2>2. Ahead = queue BY <1>1, AheadLemma
  <2> QED BY <1>2, <2>1, <2>2 DEF Cons
<1> QED BY <1>3, <1>4, <1>5 DEF TokenInv

LEMMA ConsumeTokens ==
  ASSUME TokenInv, hasToken, consume, recording => token.type \in Prefix
  PROVE  TokenInv'
<1>1. TokenTypes BY DEF TokenInv
<1>2. PICK t \in Tokens, q \in Seq(Tokens), s \in Seq(Tokens), p \in Nat, l \in Nat,
          e \in BOOLEAN :
        t = token /\ q = queue /\ s = recorded /\ p = parsed /\ l = last /\ e = ended
  BY <1>1 DEF TokenTypes
<1>3. /\ token' = t /\ queue' = q /\ hasToken' = FALSE /\ source' = source /\ last' = l
      /\ ended' = e /\ recording' = recording
  BY <1>2 DEF consume, sourceVars
<1>4. Len(q) \in Nat BY LenProperties
<1>5. PICK a \in Seq(Tokens) :
        /\ a = Ahead /\ a = <<t>> \o q /\ Len(a) = Len(q) + 1 /\ a[1] = t
        /\ \A i \in 1..Len(q) : a[i + 1] = q[i]
  <2>1. /\ Ahead \in Seq(Tokens) /\ Ahead = <<token>> \o queue
        /\ Len(Ahead) = Len(queue) + 1 /\ Ahead[1] = token
        /\ \A i \in 1..Len(queue) : Ahead[i + 1] = queue[i]
    BY <1>1, AheadLemma
  <2> QED BY <1>2, <2>1
<1>6. Ahead' = q BY <1>3, ConcatEmptySeq DEF Ahead, Lookahead
<1>7. \A i \in 1..Len(q) - 1 : q[i].type \in Prefix
  <2>1. \A i \in 1..Len(q) - 1 : i \in 1..Len(q) /\ i + 1 \in 1..Len(a) - 1 BY <1>4, <1>5
  <2>2. \A i \in 1..Len(a) - 1 : a[i].type \in Prefix BY <1>5 DEF TokenInv
  <2> QED BY <1>5, <2>1, <2>2
<1>8. CASE ~recording
  <2>1. parsed' = t.at /\ recorded' = s /\ s = <<>>
    BY <1>2, <1>8 DEF consume, TokenInv
  <2>2. t.at \in Nat BY DEF Tokens
  <2>3. TokenTypes' BY <1>1, <1>2, <1>3, <2>1, <2>2 DEF TokenTypes
  <2>4. Ordered(p, a, l, e)
    <3>1. s \o a = a BY <2>1, ConcatEmptySeq
    <3> QED BY <1>2, <1>5, <3>1 DEF TokenInv
  <2>5. Ordered(t.at, q, l, e)
    <3>1. 1 \in 1..Len(a) /\ Len(q) = Len(a) - 1 BY <1>4, <1>5
    <3>2. Ordered(a[1].at, q, l, e) BY <1>5, <2>4, <3>1, OrderedDrop
    <3> QED BY <1>5, <3>2
  <2>6. Ordered(parsed', recorded' \o Ahead', last', ended')
    <3>1. recorded' \o Ahead' = q BY <1>6, <2>1, ConcatEmptySeq
    <3> QED BY <1>3, <2>1, <2>5, <3>1
  <2>7. \A i \in 1..Len(recorded') : FALSE BY <2>1
  <2> QED BY <1>6, <1>7, <2>1, <2>3, <2>6, <2>7 DEF TokenInv
<1>9. CASE recording
  <2>1. parsed' = p /\ recorded' = Append(s, t) BY <1>2, <1>9 DEF consume
  <2>2. /\ recorded' \in Seq(Tokens) /\ Len(recorded') = Len(s) + 1
        /\ recorded'[Len(s) + 1] = t /\ \A i \in 1..Len(s) : recorded'[i] = s[i]
        /\ recorded' = s \o <<t>>
    BY <2>1, AppendProperties, AppendIsConcat
  <2>3. TokenTypes' BY <1>1, <1>2, <1>3, <2>1, <2>2 DEF TokenTypes
  <2>4. recorded' \o Ahead' = recorded \o Ahead
    <3>1. PICK k \in Seq(Tokens) : k = <<t>>
      <4>1. <<t>> \in Seq(Tokens) OBVIOUS
      <4> QED BY <4>1
    <3>2. (s \o k) \o q = s \o (k \o q) BY SMTT(30), ConcatAssociative
    <3> QED BY <1>2, <1>5, <1>6, <2>2, <3>1, <3>2
  <2>5. Ordered(parsed', recorded' \o Ahead', last', ended')
    BY <1>2, <1>3, <2>1, <2>4 DEF TokenInv
  <2>6. \A i \in 1..Len(recorded') : recorded'[i].type \in Prefix
    <3>1. Len(s) \in Nat BY LenProperties
    <3>2. \A i \in 1..Len(recorded') : i = Len(s) + 1 \/ i \in 1..Len(s) BY <2>2, <3>1
    <3>3. \A i \in 1..Len(s) : s[i].type \in Prefix BY <1>2 DEF TokenInv
    <3> QED BY <1>2, <1>9, <2>2, <3>2, <3>3
  <2> QED BY <1>3, <1>6, <1>7, <1>9, <2>3, <2>5, <2>6 DEF TokenInv
<1> QED BY <1>8, <1>9

LEMMA StopTokens ==
  ASSUME TokenInv, recording, StopRecording
  PROVE  TokenInv'
<1>1. TokenTypes BY DEF TokenInv
<1>2. PICK s \in Seq(Tokens), n \in Nat : s = recorded /\ n = Len(s)
  BY <1>1, LenProperties DEF TokenTypes
<1>3. PICK a \in Seq(Tokens), k \in Nat : a = Ahead /\ k = Len(a)
  BY <1>1, AheadLemma, LenProperties
<1>4. /\ recorded' = <<>> /\ recording' = FALSE /\ source' = source /\ last' = last
      /\ ended' = ended /\ queue' = queue /\ token' = token /\ hasToken' = hasToken
      /\ parsed' = IF recorded = <<>> THEN parsed ELSE Last(recorded).at
  BY DEF StopRecording, sourceVars, tokenVars
<1>5. Ahead' = a /\ recorded' \o Ahead' = a
  <2>1. Ahead' = Ahead BY <1>4 DEF Ahead, Lookahead
  <2>2. <<>> \o a = a BY ConcatEmptySeq
  <2> QED BY <1>3, <1>4, <2>1, <2>2
<1>6. PICK u \in Seq(Tokens) : /\ u = s \o a /\ Len(u) = n + k
                               /\ \A i \in 1..n : u[i] = s[i]
                               /\ \A i \in 1..k : u[n + i] = a[i]
  <2>1. /\ s \o a \in Seq(Tokens) /\ Len(s \o a) = n + k
        /\ \A i \in 1..n : (s \o a)[i] = s[i]
        /\ \A i \in 1..k : (s \o a)[n + i] = a[i]
    BY <1>2, <1>3, ConcatProperties
  <2> QED BY <2>1
<1>7. PICK p \in Nat, l \in Nat, e \in BOOLEAN : p = parsed /\ l = last /\ e = ended
  BY <1>1 DEF TokenTypes
<1>8. Ordered(p, u, l, e) BY <1>2, <1>3, <1>6, <1>7 DEF TokenInv
<1>9. parsed' \in Nat /\ Ordered(parsed', a, l, e)
  <2>1. CASE s = <<>>
    <3>1. u = a BY <1>6, <2>1, ConcatEmptySeq
    <3> QED BY <1>2, <1>4, <1>7, <1>8, <2>1, <3>1
  <2>2. CASE s # <<>>
    <3>1. n \in 1..Len(u) /\ Len(a) = Len(u) - n
      BY <1>2, <1>3, <1>6, <2>2, EmptySeq
    <3>2. \A i \in 1..Len(a) : a[i] = u[i + n]
      <4>1. \A i \in 1..k : n + i = i + n OBVIOUS
      <4> QED BY <1>3, <1>6, <4>1
    <3>3. u[n].at \in Nat /\ Ordered(u[n].at, a, l, e)
      BY <1>8, <3>1, <3>2, OrderedDrop
    <3>4. n \in 1..n BY <1>2, <2>2, EmptySeq
    <3>5. parsed' = u[n].at BY <1>2, <1>4, <1>6, <2>2, <3>4 DEF Last
    <3> QED BY <3>3, <3>5
  <2> QED BY <2>1, <2>2
<1>10. Ordered(parsed', recorded' \o Ahead', last', ended')
  BY <1>4, <1>5, <1>7, <1>9
<1>11. TokenTypes'
  <2>1. recorded' \in Seq(Tokens)
    <3>1. <<>> \in Seq(Tokens) OBVIOUS
    <3> QED BY <1>4, <3>1
  <2>2. FALSE \in BOOLEAN OBVIOUS
  <2>3. parsed' \in Nat BY <1>9
  <2> QED BY <1>1, <1>4, <2>1, <2>2, <2>3 DEF TokenTypes
<1>12. \A i \in 1..Len(recorded') : FALSE BY <1>4
<1>13. \A i \in 1..Len(Ahead') - 1 : Ahead'[i].type \in Prefix
  BY <1>3, <1>5 DEF TokenInv
<1> QED BY <1>4, <1>10, <1>11, <1>12, <1>13 DEF TokenInv

LEMMA RewindTokens ==
  ASSUME TokenInv, RewindRecording
  PROVE  TokenInv'
<1>1. TokenTypes BY DEF TokenInv
<1>2. PICK s \in Seq(Tokens), n \in Nat : s = recorded /\ n = Len(s)
  BY <1>1, LenProperties DEF TokenTypes
<1>3. PICK a \in Seq(Tokens), k \in Nat : a = Ahead /\ k = Len(a)
  BY <1>1, AheadLemma, LenProperties
<1>4. /\ recorded' = <<>> /\ recording' = FALSE /\ source' = source /\ last' = last
      /\ ended' = ended /\ token' = token /\ hasToken' = FALSE /\ parsed' = parsed
      /\ queue' = (recorded \o Lookahead) \o queue
  BY DEF RewindRecording, UnreadTokens, sourceVars
<1>5. PICK u \in Seq(Tokens) : /\ u = s \o a /\ Len(u) = n + k
                               /\ \A i \in 1..n : u[i] = s[i]
                               /\ \A i \in 1..k : u[n + i] = a[i]
  <2>1. /\ s \o a \in Seq(Tokens) /\ Len(s \o a) = n + k
        /\ \A i \in 1..n : (s \o a)[i] = s[i]
        /\ \A i \in 1..k : (s \o a)[n + i] = a[i]
    BY <1>2, <1>3, ConcatProperties
  <2> QED BY <2>1
<1>6. queue' = u
  <2>1. PICK h \in Seq(Tokens), q \in Seq(Tokens) : h = Lookahead /\ q = queue
    <3>1. <<token>> \in Seq(Tokens) /\ <<>> \in Seq(Tokens) BY <1>1 DEF TokenTypes
    <3> QED BY <1>1, <3>1 DEF TokenTypes, Lookahead
  <2>2. (s \o h) \o q = s \o (h \o q) BY SMTT(30), ConcatAssociative
  <2> QED BY <1>2, <1>3, <1>4, <1>5, <2>1, <2>2 DEF Ahead
<1>7. Ahead' = u /\ recorded' \o Ahead' = u
  BY <1>4, <1>6, ConcatEmptySeq DEF Ahead, Lookahead
<1>8. Ordered(parsed', recorded' \o Ahead', last', ended')
  BY <1>2, <1>3, <1>4, <1>5, <1>7 DEF TokenInv
<1>9. \A i \in 1..Len(Ahead') - 1 : Ahead'[i].type \in Prefix
  <2> SUFFICES ASSUME NEW i \in 1..Len(u) - 1
               PROVE  u[i].type \in Prefix
    BY <1>7
  <2>1. CASE i \in 1..n
    <3>1. \A j \in 1..n : s[j].type \in Prefix BY <1>2 DEF TokenInv
    <3> QED BY <1>5, <2>1, <3>1
  <2>2. CASE i \notin 1..n
    <3>1. PICK j \in 1..k - 1 : j \in 1..k /\ i = n + j
      <4>1. /\ i - n \in 1..k - 1 /\ i - n \in 1..k /\ i = n + (i - n)
        BY <1>5, <2>2
      <4> QED BY <4>1
    <3>2. a[j].type \in Prefix BY <1>3 DEF TokenInv
    <3> QED BY <1>5, <3>1, <3>2
  <2> QED BY <2>1, <2>2
<1>10. TokenTypes'
  <2>1. recorded' \in Seq(Tokens)
    <3>1. <<>> \in Seq(Tokens) OBVIOUS
    <3> QED BY <1>4, <3>1
  <2>2. FALSE \in BOOLEAN OBVIOUS
  <2>3. queue' \in Seq(Tokens) BY <1>6
  <2>4. /\ source' = source /\ last' = last /\ ended' = ended /\ token' = token
        /\ parsed' = parsed /\ hasToken' = FALSE /\ recording' = FALSE
    BY <1>4
  <2> QED BY <1>1, <2>1, <2>2, <2>3, <2>4 DEF TokenTypes
<1>11. \A i \in 1..Len(recorded') : FALSE BY <1>4
<1> QED BY <1>4, <1>8, <1>9, <1>10, <1>11 DEF TokenInv

LEMMA BeginTokens ==
  ASSUME TokenInv, ~recording, BeginRecording
  PROVE  TokenInv'
<1>1. TokenTypes /\ recorded = <<>> BY DEF TokenInv
<1>2. /\ recorded' = recorded /\ recording' = TRUE /\ source' = source /\ last' = last
      /\ ended' = ended /\ queue' = queue /\ token' = token /\ hasToken' = hasToken
      /\ parsed' = parsed
  BY <1>1 DEF BeginRecording, sourceVars, tokenVars
<1>3. TokenTypes' BY <1>1, <1>2 DEF TokenTypes
<1>4. Ahead' = Ahead BY <1>2 DEF Ahead, Lookahead
<1> QED BY <1>1, <1>2, <1>3, <1>4 DEF TokenInv

LEMMA RegexTokens ==
  ASSUME TokenInv, ~recording, ~hasToken, queue = <<>>, ReadRegexToken
  PROVE  TokenInv'
<1>1. TokenTypes /\ recorded = <<>> BY DEF TokenInv
<1>2. /\ recorded' = <<>> /\ recording' = recording /\ source' = source /\ queue' = <<>>
      /\ token' = token /\ hasToken' = hasToken /\ parsed' = last + 1
      /\ \/ last' = last + 1 /\ ended' = ended
         \/ last' = last /\ ended' = TRUE
  BY <1>1 DEF ReadRegexToken, OneMore, AtEnd, Error
<1>3. PICK l \in Nat, p \in Nat, e \in BOOLEAN : l = last /\ p = parsed /\ e = ended
  BY <1>1 DEF TokenTypes
<1>4. /\ parsed' = l + 1
      /\ \/ last' = l + 1 /\ ended' = e
         \/ last' = l /\ ended' = TRUE
  BY <1>2, <1>3
<1>5. TokenTypes'
  <2>1. parsed' \in Nat /\ last' \in Nat /\ ended' \in BOOLEAN
    <3>1. l + 1 \in Nat OBVIOUS
    <3> QED BY ONLY <1>3, <1>4, <3>1, e \in BOOLEAN, l \in Nat, Zenon
  <2> QED BY <1>1, <1>2, <2>1 DEF TokenTypes
<1>6. Ahead' = <<>> /\ recorded' \o Ahead' = <<>>
  BY <1>2 DEF Ahead, Lookahead
<1>7. /\ Ordered(l + 1, <<>>, l + 1, e) /\ Ordered(l + 1, <<>>, l, TRUE)
  BY DEF Ordered
<1>8. Ordered(parsed', recorded' \o Ahead', last', ended')
  BY ONLY <1>4, <1>6, <1>7, Zenon
<1>9. \A i \in 1..Len(<<>>) : FALSE OBVIOUS
<1>10. \A i \in 1..Len(<<>>) - 1 : FALSE OBVIOUS
<1> QED BY <1>2, <1>5, <1>6, <1>8, <1>9, <1>10 DEF TokenInv

(* The operator =~ is never read ahead of anything. *)
LEMMA RegexQueue ==
  ASSUME TokenInv, hasToken, token.type = "=~"
  PROVE  queue = <<>>
<1>1. TokenTypes BY DEF TokenInv
<1>2. PICK q \in Seq(Tokens), n \in Nat : q = queue /\ n = Len(q)
  BY <1>1, LenProperties DEF TokenTypes
<1>3. Len(Ahead) = n + 1 /\ Ahead[1] = token BY <1>1, <1>2, AheadLemma
<1>4. "=~" \notin Prefix BY DEF Prefix, Modifier, StartOfName
<1>5. 1 \notin 1..n
  <2>1. Ahead[1].type \notin Prefix BY <1>3, <1>4
  <2>2. \A i \in 1..n : Ahead[i].type \in Prefix
    <3>1. Len(Ahead) - 1 = n BY <1>3
    <3> QED BY <3>1 DEF TokenInv
  <2> QED BY <2>1, <2>2
<1>6. n = 0 BY <1>5
<1> QED BY <1>2, <1>6, EmptySeq

-----------------------------------------------------------------------------
(* The invariant *)

ParserInv == StackInv /\ Running /\ TokenInv

LEMMA ParserInit ==
  ASSUME Init
  PROVE  ParserInv
<1>1. StackInv
  <2>1. PICK x \in Neutral : todo = <<x>>
    <3>1. /\ Call("parseDeclOrStmt") \in Neutral /\ Call("parseScript") \in Neutral
      BY CallLemma DEF OtherFunctions
    <3>2. \/ todo = <<Call("parseDeclOrStmt")>> \/ todo = <<Call("parseScript")>>
      BY DEF Init
    <3> QED BY <3>1, <3>2
  <2>2. todo \in Closed /\ todo \in Enter BY <2>1, SingleLemma
  <2> QED BY <2>2 DEF Init, StackInv, Executing, Quiet
<1>2. Running BY DEF Init, Running
<1>3. TokenInv
  <2>1. NoToken \in Tokens
    <3>1. "none" \in Types BY DEF Types
    <3> QED BY <3>1 DEF NoToken, TokenOf, Tokens
  <2>2. <<>> \in Seq(Tokens) OBVIOUS
  <2>3. TokenTypes BY <2>1, <2>2 DEF Init, TokenTypes
  <2>4. recorded = <<>> /\ Ahead = <<>> /\ recorded \o Ahead = <<>>
    BY DEF Init, Ahead, Lookahead
  <2>5. Ordered(0, <<>>, 0, ended) BY DEF Ordered
  <2>6. Ordered(parsed, recorded \o Ahead, last, ended) BY <2>4, <2>5 DEF Init
  <2>7. (\A i \in 1..Len(<<>>) : FALSE) /\ (\A i \in 1..Len(<<>>) - 1 : FALSE) OBVIOUS
  <2> QED BY <2>3, <2>4, <2>6, <2>7 DEF TokenInv
<1> QED BY <1>1, <1>2, <1>3 DEF ParserInv

LEMMA ParserStep ==
  ASSUME ParserInv, Next
  PROVE  ParserInv'
<1>1. StackInv /\ Running /\ TokenInv BY DEF ParserInv
<1>2. CASE Scan
  <2>1. TokenInv' BY <1>1, <1>2, ScanTokens
  <2>2. /\ MustRead /\ hasToken' /\ todo' = todo
        /\ UNCHANGED <<recorderVars, diagVars, status>>
    BY <1>2 DEF Scan
  <2> QED BY <1>1, <2>1, <2>2, ReadStack DEF ParserInv
<1>3. CASE Dequeue
  <2>1. TokenInv' BY <1>1, <1>3, DequeueTokens
  <2>2. /\ MustRead /\ hasToken' /\ todo' = todo
        /\ UNCHANGED <<recorderVars, diagVars, status>>
    BY <1>3 DEF Dequeue
  <2> QED BY <1>1, <2>1, <2>2, ReadStack DEF ParserInv
<1>4. CASE Decide
  <2>1. StackInv' BY <1>1, <1>4, DecideStack
  <2>2. Running' BY <1>1, <1>4 DEF Decide, Running, diagVars
  <2>3. TokenInv' BY <1>1, <1>4, SameTokens DEF Decide, sourceVars
  <2> QED BY <2>1, <2>2, <2>3 DEF ParserInv
<1>5. CASE Take
  <2>1. hasToken /\ token.type = "=~" => queue = <<>> BY <1>1, RegexQueue
  <2>2. StackInv' /\ Running' BY <1>1, <1>5, <2>1, TakeStack
  <2>3. PICK x, r : x[1] = "consume" /\ Top(x, r)
    BY <1>1, <1>5, AtLemma DEF Take
  <2>4. hasToken /\ (recording => token.type \in Prefix)
    BY <2>3, OpLemma DEF Free
  <2>5. TokenInv' BY <1>1, <1>5, <2>4, ConsumeTokens DEF Take
  <2> QED BY <2>2, <2>5 DEF ParserInv
<1>6. CASE MatchToken
  <2>1. StackInv' /\ Running' BY <1>1, <1>6, MatchStack
  <2>2. PICK x, r : x[1] = "match" /\ Top(x, r)
    BY <1>1, <1>6, AtLemma DEF MatchToken, LooksAhead
  <2>3. ~recording BY <2>2, OpLemma DEF Free
  <2>4. TokenInv' BY <1>1, <1>6, <2>3, ConsumeTokens DEF MatchToken, LooksAhead
  <2> QED BY <2>1, <2>4 DEF ParserInv
<1>7. CASE Mismatch
  <2>1. StackInv' /\ Running' BY <1>1, <1>7, MatchStack
  <2>2. TokenInv' BY <1>1, <1>7, SameTokens DEF Mismatch, Error
  <2> QED BY <2>1, <2>2 DEF ParserInv
<1>8. CASE ReportError
  <2>1. StackInv' /\ Running' BY <1>1, <1>8, ReportStack
  <2>2. TokenInv' BY <1>1, <1>8, SameTokens DEF ReportError, Error
  <2> QED BY <2>1, <2>2 DEF ParserInv
<1>9. CASE Ensured
  <2>1. StackInv' /\ Running' BY <1>1, <1>9, EnsuredStack
  <2>2. TokenInv' BY <1>1, <1>9, SameTokens DEF Ensured, sourceVars
  <2> QED BY <2>1, <2>2 DEF ParserInv
<1>10. CASE DisableDiagnostics
  <2>1. StackInv' /\ Running' BY <1>1, <1>10, DisableStack
  <2>2. TokenInv' BY <1>1, <1>10, SameTokens DEF DisableDiagnostics, sourceVars
  <2> QED BY <2>1, <2>2 DEF ParserInv
<1>11. CASE EnableDiagnostics
  <2>1. StackInv' /\ Running' BY <1>1, <1>11, EnableStack
  <2>2. TokenInv' BY <1>1, <1>11, SameTokens DEF EnableDiagnostics, sourceVars
  <2> QED BY <2>1, <2>2 DEF ParserInv
<1>12. CASE SkipToken
  <2>1. StackInv' /\ Running' BY <1>1, <1>12, SkipStack
  <2>2. PICK x, r : x[1] = "skip" /\ Top(x, r)
    BY <1>1, <1>12, AtLemma DEF SkipToken, LooksAhead
  <2>3. ~recording BY <2>2, SkipOp
  <2>4. TokenInv' BY <1>1, <1>12, <2>3, ConsumeTokens DEF SkipToken, LooksAhead
  <2> QED BY <2>1, <2>4 DEF ParserInv
<1>13. CASE SkipEnds
  <2>1. StackInv' /\ Running' BY <1>1, <1>13, SkipStack
  <2>2. TokenInv' BY <1>1, <1>13, SameTokens DEF SkipEnds, sourceVars
  <2> QED BY <2>1, <2>2 DEF ParserInv
<1>14. CASE ReadRegexToken
  <2>1. StackInv' /\ Running' BY <1>1, <1>14, RegexStack
  <2>2. PICK x, r : x[1] = "readRegex" /\ Top(x, r)
    BY <1>1, <1>14, AtLemma DEF ReadRegexToken
  <2>3. ~recording /\ ~hasToken /\ queue = <<>> BY <2>2, OpLemma DEF Free
  <2>4. TokenInv' BY <1>1, <1>14, <2>3, RegexTokens
  <2> QED BY <2>1, <2>4 DEF ParserInv
<1>15. CASE BeginRecording
  <2>1. StackInv' /\ Running' BY <1>1, <1>15, RecorderStack
  <2>2. PICK x, r : x[1] = "record" /\ Top(x, r)
    BY <1>1, <1>15, AtLemma DEF BeginRecording
  <2>3. ~recording BY <2>2, OpLemma DEF Free
  <2>4. TokenInv' BY <1>1, <1>15, <2>3, BeginTokens
  <2> QED BY <2>1, <2>4 DEF ParserInv
<1>16. CASE StopRecording
  <2>1. StackInv' /\ Running' BY <1>1, <1>16, RecorderStack
  <2>2. PICK x, r : x[1] = "stop" /\ Top(x, r)
    BY <1>1, <1>16, AtLemma DEF StopRecording
  <2>3. recording BY <2>2, OpLemma DEF Taped
  <2>4. TokenInv' BY <1>1, <1>16, <2>3, StopTokens
  <2> QED BY <2>1, <2>4 DEF ParserInv
<1>17. CASE RewindRecording
  <2>1. StackInv' /\ Running' BY <1>1, <1>17, RecorderStack
  <2>2. TokenInv' BY <1>1, <1>17, RewindTokens
  <2> QED BY <2>1, <2>2 DEF ParserInv
<1>18. CASE EndRecording
  <2>1. StackInv' /\ Running' BY <1>1, <1>18, RecorderStack
  <2>2. TokenInv' BY <1>1, <1>18, SameTokens DEF EndRecording, sourceVars
  <2> QED BY <2>1, <2>2 DEF ParserInv
<1> QED
  BY <1>2, <1>3, <1>4, <1>5, <1>6, <1>7, <1>8, <1>9, <1>10, <1>11, <1>12, <1>13, <1>14,
     <1>15, <1>16, <1>17, <1>18
  DEF Next

LEMMA ParserStutter ==
  ASSUME ParserInv, UNCHANGED vars
  PROVE  ParserInv'
<1>1. /\ UNCHANGED <<source, last, ended, tokenVars, recorderVars>>
      /\ todo' = todo /\ status' = status /\ suppressed' = suppressed
      /\ disabledCounter' = disabledCounter
  BY DEF vars, sourceVars, diagVars
<1>2. TokenInv' BY <1>1, SameTokens DEF ParserInv
<1>3. /\ recording' = recording /\ hasToken' = hasToken /\ token' = token
      /\ queue' = queue
  BY <1>1 DEF tokenVars, recorderVars
<1>4. StackInv'
  BY <1>1, <1>3 DEF ParserInv, StackInv, Executing, RegexNext, RegexHere, Muting,
     Skipping, Unmuting, Stopping, Rewinding, Reading, Quiet
<1>5. Running' BY <1>1 DEF ParserInv, Running
<1> QED BY <1>2, <1>4, <1>5 DEF ParserInv

LEMMA ParserIsInvariant == Spec => []ParserInv
<1>1. Init => ParserInv BY ParserInit
<1>2. ParserInv /\ [Next]_vars => ParserInv' BY ParserStep, ParserStutter
<1> QED BY <1>1, <1>2, PTL DEF Spec

-----------------------------------------------------------------------------
(* What the parser promises. *)

LEMMA MutedLemma ==
  ASSUME ParserInv
  PROVE  MutedOnlyWhileSkipping
<1>1. StackInv /\ ~suppressed BY DEF ParserInv, Running
<1>2. ASSUME disabledCounter > 0
      PROVE  disabledCounter = 1 /\ Head(todo)[1] \in {"skip", "enable"}
  <2>1. ~Quiet BY <1>2 DEF Quiet
  <2>2. CASE \E end, cnt, r : Skipping(end, cnt, r)
    <3>1. PICK end, cnt, r : Skipping(end, cnt, r) BY <2>2
    <3>2. PICK q : q = Cons(Enable, r) OBVIOUS
    <3>3. q \in Seq(StackSteps)
      <4>1. r \in Seq(StackSteps) /\ Enable \in StackSteps BY <3>1, StackParts DEF Skipping
      <4> QED BY <3>2, <4>1, ConsInSteps
    <3>4. todo = Cons(SkipStep(end, cnt), q) BY <3>1, <3>2 DEF Skipping
    <3>5. Head(todo) = SkipStep(end, cnt) BY <3>3, <3>4, ConsParts
    <3>6. SkipStep(end, cnt)[1] = "skip" BY DEF SkipStep, Step
    <3> QED BY <3>1, <3>5, <3>6 DEF Skipping
  <2>3. CASE \E r : Unmuting(r)
    <3>1. PICK r : Unmuting(r) BY <2>3
    <3>2. r \in Seq(StackSteps) /\ todo = Cons(Enable, r) BY <3>1, StackParts DEF Unmuting
    <3>3. Head(todo) = Enable BY <3>2, ConsParts
    <3> QED BY <3>1, <3>3, StepLemma DEF Unmuting
  <2> QED
    BY <1>1, <2>1, <2>2, <2>3
    DEF StackInv, Executing, RegexNext, RegexHere, Muting, Stopping, Rewinding, Reading
<1> QED BY <1>1, <1>2 DEF MutedOnlyWhileSkipping

LEMMA InOrderLemma ==
  ASSUME ParserInv
  PROVE  TokensInOrder
<1>1. TokenInv /\ TokenTypes BY DEF ParserInv, TokenInv
<1>2. recorded \o Lookahead \o queue = recorded \o Ahead
  <2>1. PICK s \in Seq(Tokens), h \in Seq(Tokens), q \in Seq(Tokens) :
          s = recorded /\ h = Lookahead /\ q = queue
    <3>1. <<token>> \in Seq(Tokens) /\ <<>> \in Seq(Tokens) BY <1>1 DEF TokenTypes
    <3> QED BY <1>1, <3>1 DEF TokenTypes, Lookahead
  <2>2. (s \o h) \o q = s \o (h \o q) BY ConcatAssociative
  <2> QED BY <2>1, <2>2 DEF Ahead
<1> QED BY <1>1, <1>2 DEF TokensInOrder, TokenInv, Ordered, Position

-----------------------------------------------------------------------------
(* Where recovery stops: the braces among the tokens it has skipped. *)

Places(s, y) == {i \in DOMAIN s : s[i] = y}

LEMMA PlacesLemma ==
  ASSUME NEW S, NEW s \in Seq(S), NEW x \in S, NEW y
  PROVE  /\ Cardinality(Places(s, y)) \in Nat
         /\ Cardinality(Places(Append(s, x), y)) =
              IF x = y THEN Cardinality(Places(s, y)) + 1 ELSE Cardinality(Places(s, y))
<1>1. PICK n \in Nat : n = Len(s) /\ DOMAIN s = 1..n BY LenProperties
<1>2. PICK t \in Seq(S) : /\ t = Append(s, x) /\ Len(t) = n + 1 /\ DOMAIN t = 1..(n + 1)
                          /\ t[n + 1] = x /\ \A i \in 1..n : t[i] = s[i]
  <2>1. PICK t : t = Append(s, x) OBVIOUS
  <2>2. /\ t \in Seq(S) /\ Len(t) = n + 1
        /\ t[n + 1] = x /\ \A i \in 1..n : t[i] = s[i]
    BY <1>1, <2>1, AppendProperties
  <2>3. DOMAIN t = 1..(n + 1) BY <2>2, LenProperties
  <2> QED BY <2>1, <2>2, <2>3
<1>3. PICK P : P = Places(s, y) /\ P \in SUBSET (1..n) BY <1>1 DEF Places
<1>4. IsFiniteSet(P) /\ Cardinality(P) \in Nat
  <2>1. IsFiniteSet(1..n) BY FS_Interval
  <2> QED BY <1>3, <2>1, FS_Subset, FS_CardinalityType
<1>5. CASE x = y
  <2>1. Places(t, y) = P \cup {n + 1} BY <1>1, <1>2, <1>3, <1>5 DEF Places
  <2>2. n + 1 \notin P BY <1>3
  <2> QED BY SMTT(30), <1>2, <1>3, <1>4, <1>5, <2>1, <2>2, FS_AddElement
<1>6. CASE x # y
  <2>1. Places(t, y) = P BY <1>1, <1>2, <1>3, <1>6 DEF Places
  <2> QED BY <1>2, <1>3, <1>4, <1>6, <2>1
<1> QED BY <1>5, <1>6

LEMMA DepthLemma ==
  ASSUME NEW S, NEW s \in Seq(S), NEW x \in S
  PROVE  /\ Depth(s) \in Int
         /\ Depth(Append(s, x)) = CASE x = "curlyLeft"  -> Depth(s) + 1
                                    [] x = "curlyRight" -> Depth(s) - 1
                                    [] OTHER            -> Depth(s)
<1>1. \A u : Depth(u) = Cardinality(Places(u, "curlyLeft"))
                        - Cardinality(Places(u, "curlyRight"))
  BY DEF Depth, Places
<1>2. PICK l \in Nat, r \in Nat : /\ l = Cardinality(Places(s, "curlyLeft"))
                                  /\ r = Cardinality(Places(s, "curlyRight"))
  BY PlacesLemma
<1>3. /\ Cardinality(Places(Append(s, x), "curlyLeft")) =
           IF x = "curlyLeft" THEN l + 1 ELSE l
      /\ Cardinality(Places(Append(s, x), "curlyRight")) =
           IF x = "curlyRight" THEN r + 1 ELSE r
  BY <1>2, PlacesLemma
<1>4. Depth(s) = l - r BY <1>1, <1>2
<1>5. Depth(Append(s, x)) = (IF x = "curlyLeft" THEN l + 1 ELSE l)
                            - (IF x = "curlyRight" THEN r + 1 ELSE r)
  BY <1>1, <1>3
<1> QED BY <1>4, <1>5

LEMMA DepthOfNothing == Depth(<<>>) = 0
<1>1. \A y : {i \in DOMAIN <<>> : <<>>[i] = y} = {} OBVIOUS
<1> QED BY <1>1, FS_EmptySet DEF Depth

LEMMA PrefixLemma ==
  ASSUME NEW S, NEW s \in Seq(S), NEW x \in S
  PROVE  /\ Append(s, x) \in Seq(S) /\ Len(Append(s, x)) = Len(s) + 1 /\ Len(s) \in Nat
         /\ Last(Append(s, x)) = x
         /\ SubSeq(Append(s, x), 1, Len(s) + 1) = Append(s, x)
         /\ \A n \in 1..Len(s) : SubSeq(Append(s, x), 1, n) = SubSeq(s, 1, n)
<1>1. PICK t : t = Append(s, x) OBVIOUS
<1>2. /\ t \in Seq(S) /\ Len(t) = Len(s) + 1 /\ Len(s) \in Nat
      /\ t[Len(s) + 1] = x /\ \A i \in 1..Len(s) : t[i] = s[i]
  BY <1>1, AppendProperties, LenProperties
<1>3. Last(t) = x BY <1>2 DEF Last
<1>4. SubSeq(t, 1, Len(s) + 1) = t BY <1>2, SubSeqFull
<1>5. ASSUME NEW n \in 1..Len(s) PROVE SubSeq(t, 1, n) = SubSeq(s, 1, n)
  <2>1. n \in Int /\ 1 <= n BY <1>2
  <2>2. \A i \in 1..n : s[i] \in S /\ t[i] \in S /\ t[i] = s[i]
    BY <1>2, ElementOfSeq
  <2>3. PICK u, v : u = SubSeq(t, 1, n) /\ v = SubSeq(s, 1, n) OBVIOUS
  <2>4. u \in Seq(S) /\ Len(u) = n /\ \A i \in 1..n : u[i] = t[i]
    BY <2>1, <2>2, <2>3, SubSeqProperties
  <2>5. v \in Seq(S) /\ Len(v) = n /\ \A i \in 1..n : v[i] = s[i]
    BY <2>1, <2>2, <2>3, SubSeqProperties
  <2> QED BY <2>2, <2>3, <2>4, <2>5, SeqEqual
<1> QED BY <1>1, <1>2, <1>3, <1>4, <1>5

(* The tokens skipped so far have the depth that the loop has counted, and *)
(* it could not stop before. *)
SkipInv ==
    /\ skipped \in Seq(Types)
    /\ Quiet => skipped = <<>>
    /\ AtStep("skip") =>
         /\ Depth(skipped) = arg2
         /\ \A n \in 1..Len(skipped) : ~IsEnd(arg1, SubSeq(skipped, 1, n))

Stops ==
    AtStep("skip") /\ todo' = Tail(todo) =>
        LET seen == IF hasToken' THEN Append(skipped', token'.type) ELSE skipped'
        IN  /\ IsEnd(arg1, seen)
            /\ \A n \in 1..(Len(seen) - 1) : ~IsEnd(arg1, SubSeq(seen, 1, n))
            /\ hasToken' <=> arg1 = "curlyRight" \/ Last(seen) = "eof"

(* The step of the loop *)
LEMMA AtSkip ==
  ASSUME StackInv, AtStep("skip")
  PROVE  /\ ~recording /\ disabledCounter = 1
         /\ arg1 \in {"curlyRight", "semicolon"} /\ arg2 \in Nat
         /\ Tail(todo) \in Seq(StackSteps) /\ <<>> \o Tail(todo) = Tail(todo)
         /\ Len(todo) = Len(Tail(todo)) + 1 /\ Len(Tail(todo)) \in Nat
         /\ Head(Tail(todo))[1] = "enable"
<1>1. PICK x, r : /\ x = Head(todo) /\ r = Tail(todo) /\ x[1] = "skip"
                  /\ Top(x, r) /\ r \in Seq(StackSteps) /\ <<>> \o r = r
  BY AtLemma
<1>2. PICK end \in {"curlyRight", "semicolon"}, cnt \in Nat, q \in Enter :
        /\ ~recording /\ disabledCounter = 1
        /\ x = SkipStep(end, cnt) /\ r = Cons(Enable, q)
  <2>1. Top(x, r) /\ x[1] = "skip" BY <1>1
  <2> QED BY ONLY <2>1, SkipOp
<1>3. arg1 = end /\ arg2 = cnt BY <1>1, <1>2 DEF arg1, arg2, SkipStep, Step
<1>4. todo \in Seq(StackSteps) /\ todo # <<>> BY TopLemma DEF AtStep
<1>5. Len(todo) \in Nat /\ Len(r) \in Nat /\ Len(r) = Len(todo) - 1
  BY <1>1, <1>4, HeadAndTail, LenProperties
<1>6. Head(r)[1] = "enable"
  <2>1. q \in Seq(StackSteps) BY StackParts
  <2>2. Head(r) = Enable BY <1>2, <2>1, ConsParts
  <2> QED BY <2>2, StepLemma
<1>7. arg1 \in {"curlyRight", "semicolon"} /\ arg2 \in Nat BY <1>3
<1>8. Len(todo) = Len(r) + 1 BY <1>5
<1> QED BY <1>1, <1>2, <1>5, <1>6, <1>7, <1>8

LEMMA QuietMeansNoSkip == StackInv /\ Quiet => ~AtStep("skip")
BY AtSkip DEF Quiet

LEMMA QuietMeansNoSkipNext == StackInv' /\ Quiet' => ~AtStep("skip")'
BY QuietMeansNoSkip, PTL

(* At the other steps, but those that enable diagnostics, nothing is       *)
(* disabled.                                                               *)
LEMMA QuietSteps ==
  ASSUME StackInv,
         NEW op \in {"call", "match", "consume", "report", "ensureToken", "readRegex",
                     "record", "stop", "rewind", "destroyRecorder"},
         AtStep(op)
  PROVE  Quiet
<1>1. PICK x, r : x[1] = op /\ Top(x, r) BY AtLemma
<1>2. Free \/ Taped BY <1>1, OpLemma
<1> QED BY <1>2 DEF Free, Taped

(* What the loop does with a token *)
LEMMA SkipOutcome ==
  ASSUME StackInv, Running, TokenTypes, SkipToken \/ SkipEnds
  PROVE  LET t == token.type
             r == Tail(todo)
         IN  /\ t \in Types /\ hasToken /\ AtStep("skip")
             /\ \/ /\ skipped' = Append(skipped, t) /\ t # "eof"
                   /\ \E n \in Nat :
                        /\ todo' = Cons(SkipStep(arg1, n), r)
                        /\ n = CASE t = "curlyLeft"  -> arg2 + 1
                                 [] t = "curlyRight" -> arg2 - 1
                                 [] OTHER            -> arg2
                        /\ ~(t = "semicolon" /\ arg1 = "semicolon" /\ n = 0)
                \/ /\ skipped' = Append(skipped, t) /\ t # "eof" /\ ~hasToken'
                   /\ todo' = r /\ arg1 = "semicolon" /\ arg2 = 0
                   /\ t \in {"curlyRight", "semicolon"}
                \/ /\ skipped' = skipped /\ hasToken' /\ token' = token /\ todo' = r
                   /\ t = "eof" \/ (arg1 = "curlyRight" /\ t = "curlyRight" /\ arg2 = 0)
<1>1. PICK t, r, end, cnt : t = token.type /\ r = Tail(todo) /\ end = arg1 /\ cnt = arg2
  OBVIOUS
<1>2. AtStep("skip") /\ hasToken BY DEF SkipToken, SkipEnds, LooksAhead
<1>3. /\ end \in {"curlyRight", "semicolon"} /\ cnt \in Nat
      /\ r \in Seq(StackSteps) /\ <<>> \o r = r
  BY <1>1, <1>2, AtSkip
<1>4. t \in Types BY <1>1 DEF TokenTypes, Tokens
<1>5. \A n : Skip(n) \o r = Cons(SkipStep(end, n), r)
  BY <1>1 DEF Skip, SkipStep, Cons
<1>6. CASE SkipToken
  <2>1. /\ t # "eof" /\ ~(end = "curlyRight" /\ t = "curlyRight" /\ cnt = 0)
        /\ skipped' = Append(skipped, t) /\ ~hasToken'
    BY <1>1, <1>6 DEF SkipToken, consume
  <2>2. todo' = (CASE t = "curlyLeft" -> Skip(cnt + 1)
                   [] t = "curlyRight" -> LeaveBraces(cnt)
                   [] t = "semicolon" /\ end = "semicolon" /\ cnt = 0 -> <<>>
                   [] OTHER -> Skip(cnt)) \o r
    BY <1>1, <1>6 DEF SkipToken, Continue
  <2>3. CASE t = "curlyLeft"
    <3>1. todo' = Cons(SkipStep(end, cnt + 1), r) BY <1>5, <2>2, <2>3
    <3>2. cnt + 1 \in Nat BY <1>3
    <3> QED BY <1>1, <1>2, <1>4, <2>1, <2>3, <3>1, <3>2
  <2>4. CASE t = "curlyRight" /\ cnt = 0
    <3>1. todo' = r BY <1>3, <2>2, <2>4 DEF LeaveBraces
    <3> QED BY <1>1, <1>2, <1>3, <1>4, <2>1, <2>4, <3>1
  <2>5. CASE t = "curlyRight" /\ cnt # 0
    <3>1. todo' = Cons(SkipStep(end, cnt - 1), r) BY <1>5, <2>2, <2>5 DEF LeaveBraces
    <3>2. cnt - 1 \in Nat BY <1>3, <2>5
    <3> QED BY <1>1, <1>2, <1>4, <2>1, <2>5, <3>1, <3>2
  <2>6. CASE t = "semicolon" /\ end = "semicolon" /\ cnt = 0
    <3>1. todo' = r BY <1>3, <2>2, <2>6
    <3> QED BY <1>1, <1>2, <1>4, <2>1, <2>6, <3>1
  <2>7. CASE /\ t \notin {"curlyLeft", "curlyRight"}
             /\ ~(t = "semicolon" /\ end = "semicolon" /\ cnt = 0)
    <3>1. todo' = Cons(SkipStep(end, cnt), r) BY <1>5, <2>2, <2>7
    <3> QED BY <1>1, <1>2, <1>3, <1>4, <2>1, <2>7, <3>1
  <2> QED BY <2>3, <2>4, <2>5, <2>6, <2>7
<1>7. CASE SkipEnds
  <2>1. t = "eof" \/ (end = "curlyRight" /\ t = "curlyRight" /\ cnt = 0)
    BY <1>1, <1>7 DEF SkipEnds
  <2>2. /\ skipped' = skipped /\ hasToken' /\ token' = token /\ todo' = r
    BY <1>1, <1>2, <1>3, <1>7 DEF SkipEnds, Continue, diagVars, tokenVars
  <2> QED BY <1>1, <1>2, <1>4, <2>1, <2>2
<1> QED BY <1>6, <1>7

LEMMA SkipInit ==
  ASSUME Init
  PROVE  SkipInv
<1>1. StackInv BY ParserInit DEF ParserInv
<1>2. Quiet /\ skipped = <<>> BY DEF Init, Quiet
<1>3. <<>> \in Seq(Types) OBVIOUS
<1> QED BY <1>1, <1>2, <1>3, QuietMeansNoSkip DEF SkipInv

(* While nothing is disabled nothing is skipped. *)
LEMMA StaysQuiet ==
  ASSUME SkipInv, StackInv', Quiet, disabledCounter' = disabledCounter, skipped' = skipped
  PROVE  SkipInv'
<1>1. Quiet' /\ skipped' = <<>> BY DEF Quiet, SkipInv
<1>2. ~AtStep("skip")' BY <1>1, QuietMeansNoSkipNext
<1>3. <<>> \in Seq(Types) OBVIOUS
<1> QED BY <1>1, <1>2, <1>3 DEF SkipInv

(* Reading a token changes nothing of this. *)
LEMMA SkipStutter ==
  ASSUME SkipInv, UNCHANGED <<todo, disabledCounter, skipped, status>>
  PROVE  SkipInv'
BY DEF SkipInv, Quiet, AtStep, arg1, arg2

LEMMA SkipLoop ==
  ASSUME ParserInv, SkipInv, SkipToken \/ SkipEnds
  PROVE  SkipInv' /\ Stops
<1>1. PICK t, r, end, cnt : t = token.type /\ r = Tail(todo) /\ end = arg1 /\ cnt = arg2
  OBVIOUS
<1>2. StackInv /\ Running /\ TokenTypes BY DEF ParserInv, TokenInv
<1>3. /\ t \in Types /\ hasToken /\ AtStep("skip")
      /\ \/ /\ skipped' = Append(skipped, t) /\ t # "eof"
            /\ \E n \in Nat :
                 /\ todo' = Cons(SkipStep(end, n), r)
                 /\ n = CASE t = "curlyLeft"  -> cnt + 1
                          [] t = "curlyRight" -> cnt - 1
                          [] OTHER            -> cnt
                 /\ ~(t = "semicolon" /\ end = "semicolon" /\ n = 0)
         \/ /\ skipped' = Append(skipped, t) /\ t # "eof" /\ ~hasToken'
            /\ todo' = r /\ end = "semicolon" /\ cnt = 0
            /\ t \in {"curlyRight", "semicolon"}
         \/ /\ skipped' = skipped /\ hasToken' /\ token' = token /\ todo' = r
            /\ t = "eof" \/ (end = "curlyRight" /\ t = "curlyRight" /\ cnt = 0)
  BY <1>1, <1>2, SkipOutcome
<1>4. /\ disabledCounter = 1 /\ end \in {"curlyRight", "semicolon"} /\ cnt \in Nat
      /\ r \in Seq(StackSteps) /\ Len(todo) = Len(r) + 1 /\ Len(r) \in Nat
      /\ Head(r)[1] = "enable"
  BY <1>1, <1>2, <1>3, AtSkip
<1>5. ~Quiet'
  <2>1. disabledCounter' = disabledCounter BY DEF SkipToken, SkipEnds, diagVars
  <2> QED BY <1>4, <2>1 DEF Quiet
<1>6. PICK seen : seen = Append(skipped, t) OBVIOUS
<1>7. /\ skipped \in Seq(Types) /\ Depth(skipped) = cnt
      /\ \A n \in 1..Len(skipped) : ~IsEnd(end, SubSeq(skipped, 1, n))
  BY <1>1, <1>3 DEF SkipInv
<1>8. /\ seen \in Seq(Types) /\ Len(seen) = Len(skipped) + 1 /\ Len(skipped) \in Nat
      /\ Last(seen) = t /\ SubSeq(seen, 1, Len(skipped) + 1) = seen
      /\ \A n \in 1..Len(skipped) : SubSeq(seen, 1, n) = SubSeq(skipped, 1, n)
  BY <1>3, <1>6, <1>7, PrefixLemma
<1>9. Depth(seen) = CASE t = "curlyLeft"  -> cnt + 1
                      [] t = "curlyRight" -> cnt - 1
                      [] OTHER            -> cnt
  BY <1>3, <1>6, <1>7, DepthLemma
<1>10. \A n \in 1..Len(skipped) : ~IsEnd(end, SubSeq(seen, 1, n)) BY <1>7, <1>8
<1>11. ASSUME NEW n \in Nat, skipped' = seen, t # "eof",
              todo' = Cons(SkipStep(end, n), r), n = Depth(seen),
              ~(t = "semicolon" /\ end = "semicolon" /\ n = 0)
       PROVE  SkipInv' /\ Stops
  <2>1. Head(todo') = SkipStep(end, n) /\ Tail(todo') = r BY <1>4, <1>11, ConsParts
  <2>2. arg1' = end /\ arg2' = n BY <2>1 DEF arg1, arg2, SkipStep, Step
  <2>3. ~IsEnd(end, seen) BY <1>8, <1>11 DEF IsEnd
  <2>4. \A i \in 1..Len(seen) : ~IsEnd(end, SubSeq(seen, 1, i))
    <3>1. \A i \in 1..Len(seen) : i \in 1..Len(skipped) \/ i = Len(skipped) + 1
      BY <1>8
    <3> QED BY <1>8, <1>10, <2>3, <3>1
  <2>5. SkipInv' BY <1>5, <1>8, <1>11, <2>2, <2>4 DEF SkipInv
  <2>6. todo' # r
    <3>1. SkipStep(end, n) \in StackSteps BY <1>4, StackParts
    <3>2. PICK x \in StackSteps : x = SkipStep(end, n) BY <3>1
    <3>3. todo' \in Seq(StackSteps) BY <1>4, <1>11, <3>2, ConsInSteps
    <3>4. todo' # <<>> BY <1>4, <1>11, ConsParts
    <3>5. Len(r) = Len(todo') - 1 /\ Len(todo') \in Nat
      BY <2>1, <3>3, <3>4, HeadAndTail, LenProperties
    <3> QED BY <1>4, <3>5
  <2> QED BY <1>1, <2>5, <2>6 DEF Stops
<1>12. ASSUME todo' = r, skipped' \in {skipped, seen} PROVE SkipInv'
  <2>1. ~AtStep("skip")' BY <1>4, <1>12 DEF AtStep
  <2> QED BY <1>5, <1>7, <1>8, <1>12, <2>1 DEF SkipInv
<1>13. ASSUME skipped' = seen, t # "eof", ~hasToken', end = "semicolon", cnt = 0,
              t \in {"curlyRight", "semicolon"}
       PROVE  Stops
  <2>1. IsEnd(end, seen) BY <1>8, <1>9, <1>13 DEF IsEnd
  <2>2. \A n \in 1..(Len(seen) - 1) : ~IsEnd(end, SubSeq(seen, 1, n)) BY <1>8, <1>10
  <2>3. end # "curlyRight" /\ Last(seen) # "eof" BY <1>8, <1>13
  <2> QED BY <1>1, <1>13, <2>1, <2>2, <2>3 DEF Stops
<1>14. ASSUME skipped' = skipped, hasToken', token' = token,
              t = "eof" \/ (end = "curlyRight" /\ t = "curlyRight" /\ cnt = 0)
       PROVE  Stops
  <2>1. IsEnd(end, seen) BY <1>8, <1>9, <1>14 DEF IsEnd
  <2>2. \A n \in 1..(Len(seen) - 1) : ~IsEnd(end, SubSeq(seen, 1, n)) BY <1>8, <1>10
  <2>3. end = "curlyRight" \/ Last(seen) = "eof" BY <1>8, <1>14
  <2>4. seen = IF hasToken' THEN Append(skipped', token'.type) ELSE skipped'
    BY <1>1, <1>6, <1>14
  <2> QED BY <1>1, <1>14, <2>1, <2>2, <2>3, <2>4 DEF Stops
<1>15. CASE /\ skipped' = Append(skipped, t) /\ t # "eof"
            /\ \E n \in Nat :
                 /\ todo' = Cons(SkipStep(end, n), r)
                 /\ n = CASE t = "curlyLeft"  -> cnt + 1
                          [] t = "curlyRight" -> cnt - 1
                          [] OTHER            -> cnt
                 /\ ~(t = "semicolon" /\ end = "semicolon" /\ n = 0)
  <2>1. PICK n \in Nat : /\ todo' = Cons(SkipStep(end, n), r) /\ n = Depth(seen)
                         /\ ~(t = "semicolon" /\ end = "semicolon" /\ n = 0)
    BY <1>9, <1>15
  <2> QED BY <1>6, <1>11, <1>15, <2>1
<1> QED BY <1>3, <1>6, <1>12, <1>13, <1>14, <1>15

(* Of the other steps only those that disable and enable diagnostics       *)
(* matter.                                                                 *)
LEMMA SkipOthers ==
  ASSUME ParserInv, SkipInv, Next, ~SkipToken, ~SkipEnds
  PROVE  SkipInv' /\ Stops
<1>1. StackInv /\ StackInv' BY ParserStep DEF ParserInv
<1>2. CASE Scan \/ Dequeue
  <2>1. UNCHANGED <<todo, disabledCounter, skipped, status>>
    BY <1>2 DEF Scan, Dequeue, diagVars
  <2>2. AtStep("skip") => todo' # Tail(todo)
    <3>1. AtStep("skip") => Len(todo) = Len(Tail(todo)) + 1 /\ Len(Tail(todo)) \in Nat
      BY <1>1, AtSkip
    <3>2. AtStep("skip") => Len(todo) # Len(Tail(todo)) BY <3>1
    <3> QED BY <2>1, <3>2
  <2> QED BY <2>1, <2>2, SkipStutter DEF Stops
<1>3. CASE DisableDiagnostics
  <2>1. PICK x, r : /\ x = Head(todo) /\ r = Tail(todo) /\ x[1] = "disable"
                    /\ Top(x, r) /\ r \in Seq(StackSteps) /\ <<>> \o r = r
    BY <1>1, <1>3, AtLemma DEF DisableDiagnostics
  <2>2. /\ Free
        /\ \E end \in {"curlyRight", "semicolon"}, q \in Enter :
             /\ q \in Closed \/ end = "curlyRight"
             /\ r = Cons(SkipStep(end, 0), Cons(Enable, q))
    <3>1. Top(x, r) /\ x[1] = "disable" BY <2>1
    <3> QED BY ONLY <3>1, DisableOp
  <2>3. PICK end \in {"curlyRight", "semicolon"}, q \in Enter :
          r = Cons(SkipStep(end, 0), Cons(Enable, q))
    BY <2>2
  <2>4. todo' = r /\ disabledCounter' = 1 /\ skipped' = <<>>
    BY <1>3, <2>1, <2>2 DEF DisableDiagnostics, Continue, Free, Quiet, SkipInv
  <2>5. Head(todo') = SkipStep(end, 0)
    <3>1. PICK c : c = Cons(Enable, q) OBVIOUS
    <3>2. c \in Seq(StackSteps) BY <3>1, ConsInSteps, StackParts
    <3> QED BY <2>3, <2>4, <3>1, <3>2, ConsParts
  <2>6. arg2' = 0 BY <2>5 DEF arg2, SkipStep, Step
  <2>7. <<>> \in Seq(Types) /\ ~Quiet' BY <2>4 DEF Quiet
  <2>8. \A n \in 1..Len(<<>>) : FALSE OBVIOUS
  <2>9. SkipInv' BY <2>4, <2>6, <2>7, <2>8, DepthOfNothing DEF SkipInv
  <2>10. ~AtStep("skip") BY <1>3 DEF DisableDiagnostics, AtStep
  <2> QED BY <2>9, <2>10 DEF Stops
<1>4. CASE EnableDiagnostics
  <2>1. PICK x, r : x[1] = "enable" /\ Top(x, r)
    BY <1>1, <1>4, AtLemma DEF EnableDiagnostics
  <2>2. disabledCounter = 1 BY <2>1, OpLemma
  <2>3. Quiet' /\ skipped' = <<>> BY <1>4, <2>2 DEF EnableDiagnostics, Quiet
  <2>4. ~AtStep("skip")' BY <1>1, <2>3, QuietMeansNoSkipNext
  <2>5. <<>> \in Seq(Types) OBVIOUS
  <2>6. ~AtStep("skip") BY <1>4 DEF EnableDiagnostics, AtStep
  <2> QED BY <2>3, <2>4, <2>5, <2>6 DEF SkipInv, Stops
<1>5. ASSUME NEW op \in {"call", "match", "consume", "report", "ensureToken",
                         "readRegex", "record", "stop", "rewind", "destroyRecorder"},
             AtStep(op), UNCHANGED <<disabledCounter, skipped>>
      PROVE  SkipInv' /\ Stops
  <2>1. Quiet BY <1>1, <1>5, QuietSteps
  <2>2. SkipInv' BY <1>1, <1>5, <2>1, StaysQuiet
  <2>3. ~AtStep("skip") BY <1>1, <2>1, QuietMeansNoSkip
  <2> QED BY <2>2, <2>3 DEF Stops
<1>6. CASE Decide BY <1>5, <1>6 DEF Decide, LooksAhead, diagVars
<1>7. CASE Take BY <1>5, <1>7 DEF Take, diagVars
<1>8. CASE MatchToken BY <1>5, <1>8 DEF MatchToken, LooksAhead, diagVars
<1>9. CASE Mismatch BY <1>5, <1>9 DEF Mismatch, LooksAhead, Error
<1>10. CASE ReportError BY <1>5, <1>10 DEF ReportError, Error
<1>11. CASE Ensured BY <1>5, <1>11 DEF Ensured, LooksAhead, diagVars
<1>12. CASE ReadRegexToken BY <1>5, <1>12 DEF ReadRegexToken, Error, diagVars
<1>13. CASE BeginRecording BY <1>5, <1>13 DEF BeginRecording, diagVars
<1>14. CASE StopRecording BY <1>5, <1>14 DEF StopRecording, diagVars
<1>15. CASE RewindRecording BY <1>5, <1>15 DEF RewindRecording, diagVars
<1>16. CASE EndRecording BY <1>5, <1>16 DEF EndRecording, diagVars
<1> QED
  BY <1>2, <1>3, <1>4, <1>6, <1>7, <1>8, <1>9, <1>10, <1>11, <1>12, <1>13, <1>14, <1>15,
     <1>16
  DEF Next

(* Diagnostics are disabled only while the recovery skips tokens, whatever *)
(* is read and wherever the errors are, and nothing that the parser has to *)
(* say is suppressed (recoverSkipToCurlyRight(), recoverSkipToSemicolon(), *)
(* DiagManager::enable()).                                                 *)
THEOREM OnlySkippingIsMuted == Spec => []MutedOnlyWhileSkipping
<1>1. ParserInv => MutedOnlyWhileSkipping BY MutedLemma
<1> QED BY <1>1, ParserIsInvariant, PTL

(* Recovery stops at the first token where it may, and takes it or leaves  *)
(* it to its caller, whatever the source is and however deep the blocks    *)
(* are that it skips (the loops of recoverSkipToCurlyRight() and           *)
(* recoverSkipToSemicolon(), which count braces).                          *)
THEOREM RecoveryEndsInPlace == Spec => RecoveryStopsInPlace
<1>1. Init => ParserInv /\ SkipInv BY ParserInit, SkipInit
<1>2. ParserInv /\ SkipInv /\ [Next]_vars => ParserInv' /\ SkipInv' /\ [Stops]_vars
  <2>1. ASSUME ParserInv, SkipInv, Next PROVE ParserInv' /\ SkipInv' /\ Stops
    BY <2>1, ParserStep, SkipLoop, SkipOthers
  <2>2. ASSUME ParserInv, SkipInv, UNCHANGED vars PROVE ParserInv' /\ SkipInv'
    <3>1. UNCHANGED <<todo, disabledCounter, skipped, status>> BY <2>2 DEF vars, diagVars
    <3> QED BY <2>2, <3>1, ParserStutter, SkipStutter
  <2> QED BY <2>1, <2>2
<1>3. Spec => [][Stops]_vars BY <1>1, <1>2, PTL DEF Spec
<1> QED BY <1>3 DEF RecoveryStopsInPlace, Stops

(* With all the reading ahead and going back of namespaceMember(), no      *)
(* token of any source gets lost, is parsed twice or out of order          *)
(* (TokenQueue and its Recorder).                                          *)
THEOREM NoTokenIsLost == Spec => []TokensInOrder
<1>1. ParserInv => TokensInOrder BY InOrderLemma
<1> QED BY <1>1, ParserIsInvariant, PTL

(* No assertion of Parser fails: report() and consume() have a token, a    *)
(* recorder is begun when there is none, stopped or rewound once, and      *)
(* destroyed after that, enable() follows disable().                       *)
THEOREM ParserAssertionsHold == Spec => []AssertionsHold
<1>1. ParserInv => AssertionsHold BY DEF ParserInv, Running, AssertionsHold
<1> QED BY <1>1, ParserIsInvariant, PTL

(* What follows the operator =~ is always scanned as a regular expression: *)
(* it has not been read ahead as a token of another kind.                  *)
THEOREM RegexIsNeverReadAhead == Spec => []RegexIsScanned
<1>1. ASSUME ParserInv, AtStep("readRegex") PROVE queue = <<>> /\ ~hasToken
  <2>1. PICK x, r : x[1] = "readRegex" /\ Top(x, r) BY <1>1, AtLemma DEF ParserInv
  <2> QED BY <2>1, OpLemma
<1>2. ParserInv => RegexIsScanned BY <1>1 DEF RegexIsScanned
<1> QED BY <1>2, ParserIsInvariant, PTL
=============================================================================
