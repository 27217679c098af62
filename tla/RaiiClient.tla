----------------------------- MODULE RaiiClient -----------------------------
(***************************************************************************)
(* The contract between the code builder and its users: any program that   *)
(* uses Builder through TempHelper, LValue and LocalsStackMarker the way   *)
(* C++ scopes allow.  The analyzer (Pass2) is one such program, and is     *)
(* checked to be one.                                                      *)
(*                                                                         *)
(* An evaluation of an expression into the temporary of its caller wraps   *)
(* that temporary in a TempHelper of its own (the first object of          *)
(* ExpressionAnalyzerPass2) and touches no object of the caller until it   *)
(* has returned: "frames" holds the addresses of these first objects.      *)
(***************************************************************************)
EXTENDS Builder

CONSTANTS Handles,    \* addresses of TempHelper objects
          SimpleCode, \* the instructions without landing pad a client emits
          InvokeCode, \* the calls it emits
          MaxBlocks,  \* no operation begins with more blocks than this,
          MaxCode,    \* more instructions in the current one
          MaxScopes   \* or more entries in localsStack

ASSUME ClientAssumption ==
    /\ Handles \subseteq Nat \ {0}
    /\ \A ins \in SimpleCode : ins \in Instruction /\ ins.lpad = NoBlock
                                /\ ins.op \notin Throwing \cup Terminator
    /\ \A ins \in InvokeCode : ins \in Instruction /\ ins.lpad = NoBlock
                                /\ ins.op \in Throwing \ {"RefDec"}
    /\ {MaxBlocks, MaxCode, MaxScopes} \subseteq Nat

VARIABLE frames

vars == <<builderVars, frames>>

Init == BuilderInit /\ frames = <<>>

(* The address of the first object of the evaluation under way. *)
Base == IF frames = <<>> THEN 0 ELSE Last(frames)

(* The objects that the evaluation under way may use. *)
Own == {h \in DOMAIN helpers : h >= Base}

(* The builder runs, is not inside a loop of its own, and within bounds. *)
Ready == /\ status = "ok" /\ loop.kind = "none"
         /\ Len(blocks) <= MaxBlocks
         /\ Len(blocks[currentBlock]) <= MaxCode
         /\ Len(localsStack) <= MaxScopes

(* The addresses of a stack grow: a new object is above the live ones. *)
IsNew(h) == /\ \A x \in DOMAIN helpers : x < h
            /\ h - 1 \in DOMAIN helpers \cup {0}

-----------------------------------------------------------------------------
DeclareTemp == \E h \in Handles :
    Ready /\ IsNew(h) /\ NewTemp(h) /\ UNCHANGED frames

(* ExpressionAnalyzerPass2::eval(core, builder, temp, node): the caller    *)
(* passes its youngest temporary, which does not own a reference yet.      *)
Enter == \E h \in Handles : \E caller \in Own :
    /\ Ready /\ IsNew(h) /\ caller = h - 1
    /\ ~helpers[caller].needsDeref
    /\ unlockLValue = NoName
    /\ WrapTemp(h, helpers[caller].temp)
    /\ frames' = Append(frames, h)

(* ~ExpressionAnalyzerPass2(): the reference in the temporary, if any, is  *)
(* from now on the caller's.                                               *)
Disown ==
    /\ Ready /\ frames # <<>> /\ Own = {Base}
    /\ helpers[Base].needsDeref
    /\ derefDone(Base) /\ UNCHANGED frames

Leave ==
    /\ Ready /\ frames # <<>> /\ Own = {Base}
    /\ ~helpers[Base].needsDeref
    /\ DestroyTemp(Base)
    /\ frames' = Front(frames)

OwnReference == \E h \in Own :
    Ready /\ ~helpers[h].needsDeref /\ derefNeeded(h) /\ UNCHANGED frames

(* consumeDest(), or a value that has been returned: the reference is not  *)
(* the temporary's any more.                                               *)
Consume == \E h \in Own \ {Base} :
    Ready /\ helpers[h].needsDeref /\ derefDone(h) /\ UNCHANGED frames

Destroy == \E h \in Own \ {Base} :
    Ready /\ DestroyTemp(h) /\ UNCHANGED frames

Emit == \E ins \in SimpleCode : Ready /\ Create(ins) /\ UNCHANGED frames

EmitInvoke == \E ins \in InvokeCode : \E canThrow \in BOOLEAN :
    Ready /\ CreateInvoke(ins, canThrow) /\ UNCHANGED frames

LockLValue == \E v \in Globals \cup Locals :
    Ready /\ unlockLValue = NoName /\ OpenLValue(v) /\ UNCHANGED frames

UnlockLValue ==
    /\ Ready /\ unlockLValue # NoName
    /\ CloseLValue(unlockLValue) /\ UNCHANGED frames

DeclareLocal == \E v \in RefCounted :
    Ready /\ unlockLValue = NoName /\ localsPush(v) /\ UNCHANGED frames

-----------------------------------------------------------------------------
(* Statements: no expression is being evaluated. *)

AddBlock == Ready /\ frames = <<>> /\ createBlock /\ UNCHANGED frames

(* A finished block never becomes the current one again. *)
SwitchBlock == \E b \in 1..Len(blocks) :
    /\ Ready /\ frames = <<>>
    /\ ~Terminated(blocks[b])
    /\ setCurrentBlock(b) /\ UNCHANGED frames

EmitJump == \E b \in 1..Len(blocks) :
    Ready /\ frames = <<>> /\ Create(Jump(b)) /\ UNCHANGED frames

EmitBranch == \E h \in Own : \E b \in 1..Len(blocks) - 1 :
    /\ Ready /\ frames = <<>>
    /\ Create(Branch(helpers[h].temp, b, b + 1)) /\ UNCHANGED frames

EmitRet == \E ins \in {RetVoid} \cup {Ret(helpers[h].temp) : h \in Own} :
    /\ Ready /\ frames = <<>> /\ unlockLValue = NoName
    /\ CreateRet(ins) /\ UNCHANGED frames

(* The optional catch block of a scope is one that is still to be filled. *)
OpenScope == \E b \in {NoBlock} \cup 2..Len(blocks) :
    /\ Ready /\ frames = <<>>
    /\ b # NoBlock => ~Terminated(blocks[b])
    /\ PushMarker(b) /\ UNCHANGED frames

CloseScope ==
    /\ Ready /\ frames = <<>> /\ unlockLValue = NoName
    /\ \E i \in 1..Len(localsStack) : localsStack[i].lv = NoName
    /\ PopMarker /\ UNCHANGED frames

(* The loops of the builder go on. *)
LeaveScope   == PopStep /\ UNCHANGED frames
ReleaseLocal == RetStep /\ UNCHANGED frames
Return       == RetDone /\ UNCHANGED frames

(* QORE_NOT_IMPLEMENTED in the client itself ends the process. *)
Abandon == Ready /\ NotImplemented /\ UNCHANGED frames

-----------------------------------------------------------------------------
Next == \/ DeclareTemp \/ Enter \/ Disown \/ Leave \/ OwnReference
        \/ Consume \/ Destroy \/ Emit \/ EmitInvoke
        \/ LockLValue \/ UnlockLValue \/ DeclareLocal
        \/ AddBlock \/ SwitchBlock \/ EmitJump \/ EmitBranch \/ EmitRet
        \/ OpenScope \/ CloseScope \/ LeaveScope \/ ReleaseLocal \/ Return
        \/ Abandon

Spec == Init /\ [][Next]_vars
-----------------------------------------------------------------------------
(* Invariants. *)

TempHelper == [temp : 1..tempCount, external : BOOLEAN, needsDeref : BOOLEAN]

TempTypeOK ==
    /\ tempCount \in Nat
    /\ freeTemps \in Seq(1..tempCount)
    /\ derefTemps \in Seq(1..tempCount)
    /\ DOMAIN helpers \subseteq Handles
    /\ helpers \in [DOMAIN helpers -> TempHelper]
    /\ status \in {"ok", "assert", "notImplemented"}
    /\ frames \in Seq(DOMAIN helpers)

CodeTypeOK ==
    /\ blocks \in Seq(Seq(Instruction))
    /\ currentBlock \in 1..Len(blocks)
    /\ localsStack \in Seq([lv : RefCounted \cup {NoName}, b : 0..Len(blocks)])
    /\ unlockLValue \in Globals \cup Locals \cup {NoName}
    /\ loop \in [kind : {"none", "pop", "ret"}, i : 0..Len(localsStack),
                 ins : Instruction]

(* Every variable has its type; blocks and temporaries that are named exist. *)
TypeOK == TempTypeOK /\ CodeTypeOK

(* A temporary is never handed out twice: the free temporaries are         *)
(* distinct, no object uses one of them, and two objects share a temporary *)
(* only when the younger one wraps it for the evaluation of an operand,    *)
(* during which the older one owns no reference (getFreeTemp, setTempFree).*)
TempsExclusive ==
    /\ IsInjective(freeTemps)
    /\ \A h \in DOMAIN helpers : ~Contains(freeTemps, helpers[h].temp)
    /\ \A g, h \in DOMAIN helpers :
          g < h /\ helpers[g].temp = helpers[h].temp
            => helpers[h].external /\ ~helpers[g].needsDeref

Owners == {h \in DOMAIN helpers : helpers[h].needsDeref}

(* derefTemps is exact: what a landing pad releases is, once each, the     *)
(* temporaries of the objects that own a reference.  So the assertions of  *)
(* derefNeeded() and derefDone() cannot fail.                              *)
DerefExact ==
    /\ IsInjective(derefTemps)
    /\ ToSet(derefTemps) = {helpers[h].temp : h \in Owners}

(* No assertion of the builder, its blocks or its RAII classes fails.      *)
AssertionsHold == status # "assert"

(* The cleanup block of a local variable in scope releases that variable   *)
(* and continues with the next older cleanup block: an exception that      *)
(* enters the chain anywhere releases exactly the variables pushed before, *)
(* youngest first, then leaves the function (localsPush).                  *)
Older(i) == {j \in 1..i - 1 : localsStack[j].b # NoBlock}

Continues(ins, i) ==
    IF Older(i) = {} THEN ins = ResumeUnwind
    ELSE \E j \in Older(i) : /\ \A k \in Older(i) : k <= j
                             /\ ins = Jump(localsStack[j].b)

CleanupChain ==
    \A i \in 1..Len(localsStack) : localsStack[i].lv # NoName =>
        LET code == blocks[localsStack[i].b]
        IN  /\ \E t \in 1..tempCount : SubSeq(code, 1, Len(code) - 1) =
                   <<LocalGet(t, localsStack[i].lv), RefDecNoexcept(t)>>
            /\ Continues(code[Len(code)], i)

(* Whatever instruction is added that may throw, its landing pad cannot    *)
(* itself throw, releases exactly the temporaries that own a reference     *)
(* when it runs, unlocks the lvalue that is locked and continues in the    *)
(* innermost cleanup block (getLandingPad2).                               *)
CleansUp(code, scope) ==
    LET body == SubSeq(code, 1, Len(code) - 1)
    IN  /\ {ins \in ToSet(body) : ins.op = "RefDecNoexcept"} =
               {RefDecNoexcept(helpers[h].temp) : h \in Owners}
        /\ {ins \in ToSet(body) : ins.op # "RefDecNoexcept"} =
               {GlobalWriteUnlock(g) : g \in {unlockLValue} \cap Globals}
        /\ Len(body) = Cardinality(ToSet(body))
        /\ Continues(code[Len(code)], scope + 1)

LandingPadExact(ins, scope) ==
    /\ ins.lpad # NoBlock => CleansUp(blocks[ins.lpad], scope)
    /\ ins.op = "RefDec" /\ ins.lpad = NoBlock
          => /\ Owners = {} /\ unlockLValue \notin Globals
             /\ Older(scope + 1) = {}

LandingPadsExact ==
    [][\A b \in 1..Len(blocks) :
         \A i \in Len(blocks[b]) + 1 .. Len(blocks'[b]) :
            LandingPadExact(blocks[b][i], IF loop.kind = "ret" THEN loop.i
                                          ELSE Len(localsStack))']_vars

(* A finished block is never appended to and no block is ever shortened,   *)
(* whatever block is current (checkNotTerminated, Block::append).          *)
FinishedBlocksStay ==
    [][/\ Len(blocks') >= Len(blocks)
       /\ \A b \in 1..Len(blocks) :
             /\ Len(blocks'[b]) >= Len(blocks[b])
             /\ Terminated(blocks[b]) => blocks'[b] = blocks[b]]_vars
=============================================================================
