--------------------------- MODULE FunctionCompiler ---------------------------
(***************************************************************************)
(* The native code of a function (lib/cg/FunctionCompiler.cpp and .h): the *)
(* blocks of intermediate code become blocks of LLVM instructions.  A      *)
(* queue holds the blocks that are known but not compiled; a Visitor       *)
(* compiles one block, and the landing pad of an instruction at once,      *)
(* by another Visitor, before the instructions that follow.                *)
(*                                                                         *)
(* A native instruction stands for all that one visit() creates, the load  *)
(* of a global variable and the conversion of a condition included.  Its   *)
(* "source" is the place of the intermediate instruction it is made from.  *)
(* What LLVM does with the code, Run below, is external.                   *)
(***************************************************************************)
EXTENDS Code, SequencesExt

VARIABLES
  blocks,     \* the function: its blocks of intermediate code
  tempCount,  \* ... and Function::tempCount
  native,     \* the LLVM function: a sequence of blocks
  blockMap,   \* the native blocks of intermediate blocks
  queue,      \* blocks that are mapped and have not been compiled
  temps,      \* the value a temporary is bound to
  visitors,   \* the Visitors that are active, the innermost last
  phase,      \* "none", "compiling", "running" or "notImplemented"
  machine     \* the execution of the native code

codeVars     == <<blocks, tempCount>>
compilerVars == <<native, blockMap, queue, temps, visitors, phase, machine>>

(* A place in the code is a block and an index; a value is the place of    *)
(* the native instruction that computes it. *)
Place(b, k) == <<b, k>>
NoValue     == <<0, 0>>
Begin       == Place(1, 1)

NativeInstruction(op, source, operands, to) ==
    [op |-> op, source |-> source, operands |-> operands, to |-> to]
EndsBlock(x) == x.op \in {"Ret", "RetVoid", "ResumeUnwind"} \/ x.to # <<>>

(* A Visitor: the next instruction of its block, and the native block it   *)
(* appends to; what its caller binds, and to which temporary, afterwards.  *)
Visitor(b, target, dest, value) ==
    [block |-> b, next |-> 1, target |-> target, dest |-> dest, value |-> value]

NotRunning == [at |-> NoValue, place |-> NoValue, written |-> <<>>, computed |-> {}]
CompilerInit ==
    /\ native = <<>> /\ blockMap = <<>> /\ queue = <<>> /\ temps = <<>>
    /\ visitors = <<>> /\ phase = "none" /\ machine = NotRunning
-----------------------------------------------------------------------------
(* FunctionCompiler(): the entry block. *)
Construct ==
    /\ phase = "none"
    /\ phase' = "compiling"
    /\ native' = << <<>> >>
    /\ blockMap' = <<1>>
    /\ queue' = <<1>>
    /\ temps' = [t \in 1..tempCount |-> NoValue]
    /\ UNCHANGED <<codeVars, visitors, machine>>

(* compile(): the last block of the queue. *)
TakeBlock ==
    /\ phase = "compiling" /\ visitors = <<>> /\ queue # <<>>
    /\ visitors' = <<Visitor(Last(queue), blockMap[Last(queue)], NoTemp, NoValue)>>
    /\ queue' = Front(queue)
    /\ UNCHANGED <<codeVars, native, blockMap, temps, phase, machine>>

Top     == Last(visitors)
Active  == phase = "compiling" /\ visitors # <<>>
Compiling == Active /\ Top.next <= Len(blocks[Top.block])
Current == blocks[Top.block][Top.next]
Here    == Place(Top.block, Top.next)
Operands(ins) == [k \in DOMAIN ins.args |-> temps[ins.args[k]]]

AppendNative(code, b, x) == [code EXCEPT ![b] = Append(@, x)]
(* The value of the next instruction of native block b *)
NextValue(b) == Place(b, Len(native[b]) + 1)
Bind(t, value) == IF t = NoTemp THEN temps ELSE [temps EXCEPT ![t] = value]

Advanced(target) ==
    Append(Front(visitors), [Top EXCEPT !.next = @ + 1, !.target = target])

(* visit() of the instructions that are calls, loads and stores. *)
VisitSimple ==
    LET ins == Current
        b   == Top.target
    IN  /\ Compiling
        /\ ins.op \notin Terminator \cup {"ConstNothing"} /\ ins.lpad = NoBlock
        /\ native' = AppendNative(native, b,
                         NativeInstruction(ins.op, Here, Operands(ins), <<>>))
        /\ temps' = Bind(ins.dest, NextValue(b))
        /\ visitors' = Advanced(b)
        /\ UNCHANGED <<codeVars, blockMap, queue, phase, machine>>

(* mapBlock() for each of the destinations, in the order the C++ compiler  *)
(* evaluates the arguments: m is what they make of the map, the native     *)
(* blocks and the queue. *)
newBlock(m, b) ==
    [map |-> [c \in DOMAIN m.map \cup {b} |->
                 IF c = b THEN Len(m.native) + 1 ELSE m.map[c]],
     native |-> Append(m.native, <<>>), queue |-> Append(m.queue, b)]
mapBlock(m, b) == IF b \in DOMAIN m.map THEN m ELSE newBlock(m, b)
MappedState == [map |-> blockMap, native |-> native, queue |-> queue]

(* visit() of the instructions that end a block. *)
VisitTerminator ==
    LET ins == Current
        b   == Top.target
        Terminate(m) ==
            /\ native' = AppendNative(m.native, b,
                   NativeInstruction(ins.op, Here, Operands(ins),
                                     [k \in DOMAIN ins.to |-> m.map[ins.to[k]]]))
            /\ blockMap' = m.map
            /\ queue' = m.queue
    IN  /\ Compiling /\ ins.op \in Terminator
        /\ CASE ins.to = <<>>    -> Terminate(MappedState)
             [] Len(ins.to) = 1 -> Terminate(mapBlock(MappedState, ins.to[1]))
             [] Len(ins.to) = 2 -> \E first \in {1, 2} :
                    Terminate(mapBlock(mapBlock(MappedState, ins.to[first]),
                                       ins.to[3 - first]))
        /\ visitors' = Advanced(b)
        /\ UNCHANGED <<codeVars, temps, phase, machine>>

(* makeCallOrInvoke() of an instruction with a landing pad: the code       *)
(* continues in a new block; the landing pad is compiled by a Visitor of   *)
(* its own, and then the value is bound.  (The slip: the landing pad comes *)
(* last.)                                                                  *)
SetInsertPoint(b, bb)  == bb
compileLater(pad, others) == <<pad>> \o others
compileNow(pad, others)   == Append(others, pad)

makeInvoke ==
    LET ins  == Current
        b    == Top.target
        bb   == Len(native) + 1
        lpad == Len(native) + 2
        landingPad == NativeInstruction("LandingPad", Here, <<>>, <<>>)
    IN  /\ Compiling /\ ins.lpad # NoBlock
        /\ native' = AppendNative(native, b,
                         NativeInstruction(ins.op, Here, Operands(ins), <<bb, lpad>>))
                     \o << <<>>, <<landingPad>> >>
        /\ visitors' = compileNow(Visitor(ins.lpad, lpad, ins.dest, NextValue(b)),
                                  Advanced(SetInsertPoint(b, bb)))
        /\ UNCHANGED <<codeVars, blockMap, queue, temps, phase, machine>>

(* compile() returns. *)
EndVisitor ==
    /\ Active /\ Top.next > Len(blocks[Top.block])
    /\ temps' = Bind(Top.dest, Top.value)
    /\ visitors' = Front(visitors)
    /\ UNCHANGED <<codeVars, native, blockMap, queue, phase, machine>>

(* visit(const code::Instruction &): QORE_NOT_IMPLEMENTED *)
VisitOther ==
    /\ Compiling /\ Current.op = "ConstNothing"
    /\ phase' = "notImplemented"
    /\ UNCHANGED <<codeVars, native, blockMap, queue, temps, visitors, machine>>

Compile == TakeBlock \/ VisitSimple \/ VisitTerminator \/ makeInvoke \/ EndVisitor
              \/ VisitOther
-----------------------------------------------------------------------------
(* The execution of the native code, next to that of the intermediate code *)
(* whose calls throw at the same places: "at" and "place" are where they   *)
(* are, "written" the source that has last written each temporary,         *)
(* "computed" the values computed. *)
Compiled == phase = "compiling" /\ queue = <<>> /\ visitors = <<>>
At       == native[machine.at[1]][machine.at[2]]
Source   == blocks[machine.place[1]][machine.place[2]]
Following(place) == Place(place[1], place[2] + 1)

Start ==
    /\ Compiled
    /\ phase' = "running"
    /\ machine' = [at |-> Begin, place |-> Begin,
                   written |-> [t \in 1..tempCount |-> NoValue], computed |-> {}]
    /\ UNCHANGED <<codeVars, native, blockMap, queue, temps, visitors>>

Written == IF Source.dest = NoTemp THEN machine.written
           ELSE [machine.written EXCEPT ![Source.dest] = machine.place]
GoTo(at, place, written, computed) ==
    machine' = [at |-> at, place |-> place, written |-> written, computed |-> computed]

(* A landing pad; an instruction that does not end its block; an invoke    *)
(* that returns, and one that throws; a jump or a branch. *)
Execute ==
    /\ phase = "running"
    /\ LET x == At
           computed == machine.computed \cup {machine.at}
       IN  \/ /\ x.op = "LandingPad"
              /\ GoTo(Following(machine.at), machine.place, machine.written,
                      machine.computed)
           \/ /\ x.op # "LandingPad" /\ ~EndsBlock(x)
              /\ GoTo(Following(machine.at), Following(machine.place), Written, computed)
           \/ /\ Source.lpad # NoBlock
              /\ GoTo(Place(x.to[1], 1), Following(machine.place), Written, computed)
           \/ /\ Source.lpad # NoBlock
              /\ GoTo(Place(x.to[2], 1), Place(Source.lpad, 1), machine.written,
                      machine.computed)
           \/ /\ x.op \in {"Jump", "Branch"}
              /\ \E k \in DOMAIN x.to :
                    GoTo(Place(x.to[k], 1), Place(Source.to[k], 1), machine.written,
                         machine.computed)
    /\ UNCHANGED <<codeVars, native, blockMap, queue, temps, visitors, phase>>
-----------------------------------------------------------------------------
CodePlaces   == UNION {{Place(b, k) : k \in DOMAIN blocks[b]} : b \in DOMAIN blocks}
CodeAt(p)    == blocks[p[1]][p[2]]

IsPad(b) == \E p \in CodePlaces : CodeAt(p).lpad = b
WrittenBefore(p, t) == \E j \in 1..p[2] - 1 : blocks[p[1]][j].dest = t

(* The temporaries and blocks that an instruction names exist, the entry   *)
(* block and landing pads are no destinations, and only an instruction     *)
(* that ends a block has a destination. *)
NamesExist(ins) ==
    /\ ins.dest \in 0..tempCount /\ ins.lpad \in 0..Len(blocks)
    /\ \A k \in DOMAIN ins.args : ins.args[k] \in 1..tempCount
    /\ \A k \in DOMAIN ins.to : ins.to[k] \in 2..Len(blocks) /\ ~ IsPad(ins.to[k])
    /\ Len(ins.to) = CASE ins.op = "Branch" -> 2 [] ins.op = "Jump" -> 1 [] OTHER -> 0

(* Whatever an instruction reads has been written before: in its own block *)
(* or, in a landing pad, before each of the instructions that lead there.  *)
(* (Another block may be compiled at any time, and the last value compiled *)
(* is the one that a temporary is bound to.) *)
ReadsAreLocal(p) ==
    \A k \in DOMAIN CodeAt(p).args :
        \/ WrittenBefore(p, CodeAt(p).args[k])
        \/ /\ IsPad(p[1])
           /\ \A q \in CodePlaces : CodeAt(q).lpad = p[1] =>
                  WrittenBefore(q, CodeAt(p).args[k])

(* The code that the compiler can translate.  A block ends with its only   *)
(* terminator; a landing pad throws nothing and writes no temporary. *)
Compilable ==
    /\ tempCount \in Nat /\ blocks \in Seq(Seq(Instruction))
    /\ blocks # <<>> /\ ~ IsPad(1)
    /\ \A b \in DOMAIN blocks : blocks[b] # <<>>
    /\ \A p \in CodePlaces :
          /\ NamesExist(CodeAt(p)) /\ ReadsAreLocal(p)
          /\ CodeAt(p).op \in Terminator <=> p[2] = Len(blocks[p[1]])
          /\ CodeAt(p).lpad # NoBlock => CodeAt(p).op \in Throwing
          /\ IsPad(p[1]) => CodeAt(p).lpad = NoBlock /\ CodeAt(p).dest = NoTemp
-----------------------------------------------------------------------------
(* The native code is complete, and has not been executed yet. *)
Done == phase = "running" /\ machine.at = Begin
NativePlaces == UNION {{Place(b, k) : k \in DOMAIN native[b]} : b \in DOMAIN native}
NativeAt(p)  == native[p[1]][p[2]]
MadeFrom(p)  == {q \in NativePlaces : /\ NativeAt(q).source = p
                                      /\ NativeAt(q).op # "LandingPad"}

(* What llvm::verifyModule() requires of the blocks: one terminator each,  *)
(* at the end; a landing pad is the first instruction of the blocks that   *)
(* an invoke unwinds to and of no others, and nothing jumps to the entry.  *)
WellFormed ==
    LET UnwindTo == {NativeAt(p).to[2] : p \in {q \in NativePlaces :
                        /\ NativeAt(q).op \in Throwing /\ NativeAt(q).to # <<>>}}
        GoesTo   == (UNION {ToSet(NativeAt(p).to) : p \in NativePlaces}) \ UnwindTo
    IN  Done =>
        /\ \A b \in DOMAIN native : native[b] # <<>>
        /\ \A p \in NativePlaces : EndsBlock(NativeAt(p)) <=> p[2] = Len(native[p[1]])
        /\ \A p \in NativePlaces : NativeAt(p).op = "LandingPad"
                                     <=> p[2] = 1 /\ p[1] \in UnwindTo
        /\ 1 \notin GoesTo \cup UnwindTo
        /\ GoesTo \cap UnwindTo = {}

(* The blocks that can be reached, from the entry block. *)
Successors(b) ==
    (UNION {{ins.lpad} \cup ToSet(ins.to) : ins \in ToSet(blocks[b])}) \ {NoBlock}
More(R) == R \cup UNION {Successors(b) : b \in R}
Within[k \in 0..Len(blocks)] == IF k = 0 THEN {1} ELSE More(Within[k - 1])
Reached == Within[Len(blocks)]

(* Every instruction that can be reached has been compiled: once, and in a *)
(* landing pad once for each instruction that leads there. *)
CompiledOnce ==
    LET ReachedCode  == {p \in CodePlaces : p[1] \in Reached}
        LeadsTo(pad) == {p \in ReachedCode : CodeAt(p).lpad = pad}
        Times(p)     == CASE p \notin ReachedCode   -> 0
                          [] ~ IsPad(p[1]) /\ p \in ReachedCode -> 1
                          [] IsPad(p[1]) /\ p \in ReachedCode -> Cardinality(LeadsTo(p[1]))
    IN  Done => \A p \in CodePlaces : Cardinality(MadeFrom(p)) = Times(p)

(* The native code does what the intermediate code does, on every path,    *)
(* whichever calls throw: it executes the same instructions in the same    *)
(* order, and the operands of each are the values that its temporaries     *)
(* have at that time, computed on this path.  (A temporary is bound to the *)
(* value compiled last, not to the one that is executed last.)             *)
SameExecution ==
    phase = "running" /\ At.op # "LandingPad" =>
        /\ At.source = machine.place
        /\ \A k \in DOMAIN At.operands :
              /\ At.operands[k] \in machine.computed
              /\ NativeAt(At.operands[k]).source = machine.written[Source.args[k]]
=============================================================================
