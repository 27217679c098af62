------------------------------- MODULE Builder -------------------------------
(***************************************************************************)
(* The code builder of the semantic analyzer, comp::sem::Builder, with the *)
(* RAII classes that are its friends (TempHelper, LocalsStackMarker and    *)
(* LValue).  It allocates temporaries, remembers which of them and which   *)
(* local variables own a reference, and from that creates the landing pads *)
(* that release them when an instruction throws.                           *)
(*                                                                         *)
(* Every method is an action that determines the next value of every       *)
(* variable below.  The two methods with a loop over localsStack take one  *)
(* step per iteration, during which "loop" holds what is left to do.       *)
(*                                                                         *)
(* A few definitions have a slip next to them (FarthestCleanup, a landing  *)
(* pad that keeps a lock...): the model uses none of them, they serve to   *)
(* see that the properties notice the slip when it takes the place of the  *)
(* definition.                                                             *)
(***************************************************************************)
EXTENDS Code, SequencesExt

CONSTANTS Globals,      \* the names of the global variables
          Locals,       \* the names of the local variables
          RefCounted    \* the local variables of a reference-counted type

ASSUME VariableAssumption == /\ Globals \subseteq STRING
                             /\ Locals \subseteq STRING
                             /\ RefCounted \subseteq Locals
                             /\ Globals \cap Locals = {}
                             /\ NoName \notin Globals \cup Locals

VARIABLES
  blocks,       \* the code of the function: a sequence of blocks
  currentBlock, \* the block that create...() appends to
  tempCount,    \* Function::tempCount
  freeTemps,    \* temporaries to use again, the last one first
  derefTemps,   \* temporaries whose value owns a reference
  localsStack,  \* [lv, b]: the locals in scope with their cleanup blocks;
                \* lv = NoName is the marker of a scope
  unlockLValue, \* the variable whose lvalue needs unlocking, or NoName
  helpers,      \* the TempHelper objects alive: a function from addresses
  loop,         \* what is left of buildLocalsDerefForRet/~LocalsStackMarker
  status        \* "ok", or how the process ended: "assert" (an assertion
                \* failed) or "notImplemented" (QORE_NOT_IMPLEMENTED)

builderVars == <<blocks, currentBlock, tempCount, freeTemps, derefTemps,
                 localsStack, unlockLValue, helpers, loop, status>>

NoLoop == [kind |-> "none", i |-> 0, ins |-> RetVoid]

BuilderInit ==
    /\ blocks = << <<>> >>
    /\ currentBlock = 1
    /\ tempCount = 0
    /\ freeTemps = <<>>
    /\ derefTemps = <<>>
    /\ localsStack = <<>>
    /\ unlockLValue = NoName
    /\ helpers = [h \in {} |-> 0]
    /\ loop = NoLoop
    /\ status = "ok"

isTerminated == Terminated(blocks[currentBlock])

(* assert(c): the process aborts if c is false. *)
Require(c) == status' = IF c THEN status ELSE "assert"

NotImplemented ==
    /\ status' = "notImplemented"
    /\ UNCHANGED <<blocks, currentBlock, tempCount, freeTemps, derefTemps,
                   localsStack, unlockLValue, helpers, loop>>

-----------------------------------------------------------------------------
(* Landing pads.  ls is a prefix of the stack of locals and dt the list of *)
(* temporaries to release at the instruction that needs the landing pad.   *)

(* The cleanup (or catch) block of the outermost entry that has one. *)
FarthestCleanup(ls) ==
    LET I == {i \in 1..Len(ls) : ls[i].b # NoBlock}
    IN  IF I = {} THEN NoBlock ELSE ls[Min(I)].b

(* The cleanup (or catch) block of the innermost entry that has one. *)
NearestCleanup(ls) ==
    LET I == {i \in 1..Len(ls) : ls[i].b # NoBlock}
    IN  IF I = {} THEN NoBlock ELSE ls[Max(I)].b

(* LValue::hasLock() *)
HasLock == unlockLValue \in Globals

(* How cleanup code continues: in the next cleanup block or the caller. *)
LeaveCleanup(b) == IF b = NoBlock THEN ResumeUnwind ELSE Jump(b)

NeedsLandingPad(ls, dt) ==
    dt # <<>> \/ HasLock \/ NearestCleanup(ls) # NoBlock

(* A landing pad that forgets the lock of the lvalue. *)
LandingPadCodeLocked(ls, dt) ==
    [i \in 1..Len(dt) |-> RefDecNoexcept(dt[Len(dt) + 1 - i])]
        \o <<LeaveCleanup(NearestCleanup(ls))>>

LandingPadCode(ls, dt) ==
    (IF HasLock THEN <<GlobalWriteUnlock(unlockLValue)>> ELSE <<>>)
        \o [i \in 1..Len(dt) |-> RefDecNoexcept(dt[Len(dt) + 1 - i])]
        \o <<LeaveCleanup(NearestCleanup(ls))>>

(* getLandingPad2(): the blocks after it, and the block it returns. *)
BlocksWithLandingPad(ls, dt) ==
    IF NeedsLandingPad(ls, dt) THEN Append(blocks, LandingPadCode(ls, dt))
    ELSE blocks

LandingPad(ls, dt) ==
    IF NeedsLandingPad(ls, dt) THEN Len(blocks) + 1 ELSE NoBlock

(* The code appended to the current block, ins with its landing pad last. *)
BlocksWithThrowing(code, ins, ls, dt) ==
    AppendTo(BlocksWithLandingPad(ls, dt), currentBlock,
             code \o <<WithPad(ins, LandingPad(ls, dt))>>)

-----------------------------------------------------------------------------
(* Blocks and instructions. *)

createBlock ==
    /\ blocks' = Append(blocks, <<>>)
    /\ UNCHANGED <<currentBlock, tempCount, freeTemps, derefTemps, localsStack,
                   unlockLValue, helpers, loop, status>>

setCurrentBlock(b) ==
    /\ currentBlock' = b
    /\ UNCHANGED <<blocks, tempCount, freeTemps, derefTemps, localsStack,
                   unlockLValue, helpers, loop, status>>

(* Create() without checkNotTerminated() *)
CreateUnchecked(ins) ==
    /\ blocks' = AppendTo(blocks, currentBlock, <<ins>>)
    /\ UNCHANGED <<currentBlock, tempCount, freeTemps, derefTemps, localsStack,
                   unlockLValue, helpers, loop, status>>

(* createBranch() ... createRetVoidInteractive(), for the instructions that *)
(* have no landing pad.                                                     *)
Create(ins) ==
    IF isTerminated THEN NotImplemented
    ELSE /\ blocks' = AppendTo(blocks, currentBlock, <<ins>>)
         /\ UNCHANGED <<currentBlock, tempCount, freeTemps, derefTemps,
                        localsStack, unlockLValue, helpers, loop, status>>

(* createInvokeBinaryOperator(), createInvokeConversion() and               *)
(* createInvokeFunction(): a landing pad only if the callee can throw.      *)
CreateInvoke(ins, canThrow) ==
    IF isTerminated THEN NotImplemented
    ELSE /\ blocks' = IF canThrow
                      THEN BlocksWithThrowing(<<>>, ins, localsStack, derefTemps)
                      ELSE AppendTo(blocks, currentBlock, <<ins>>)
         /\ UNCHANGED <<currentBlock, tempCount, freeTemps, derefTemps,
                        localsStack, unlockLValue, helpers, loop, status>>

-----------------------------------------------------------------------------
(* Temporaries. *)

FreeTemp == IF freeTemps = <<>> THEN tempCount + 1 ELSE Last(freeTemps)

(* getFreeTemp() with a createTemp() that does not count. *)
getFreeTempUncounted ==
    /\ tempCount' = tempCount
    /\ freeTemps' = IF freeTemps = <<>> THEN <<>> ELSE Front(freeTemps)

getFreeTemp ==
    /\ tempCount' = IF freeTemps = <<>> THEN tempCount + 1 ELSE tempCount
    /\ freeTemps' = IF freeTemps = <<>> THEN <<>> ELSE Front(freeTemps)

(* A TempHelper created and destroyed within one method. *)
ScratchTemp ==
    /\ tempCount' = IF freeTemps = <<>> THEN tempCount + 1 ELSE tempCount
    /\ freeTemps' = IF freeTemps = <<>> THEN <<tempCount + 1>> ELSE freeTemps

With(f, x, v) == [y \in DOMAIN f \cup {x} |-> IF y = x THEN v ELSE f[y]]

(* TempHelper(builder) at address h *)
NewTemp(h) ==
    /\ helpers' = With(helpers, h, [temp |-> FreeTemp, external |-> FALSE,
                                    needsDeref |-> FALSE])
    /\ getFreeTemp
    /\ UNCHANGED <<blocks, currentBlock, derefTemps, localsStack, unlockLValue,
                   loop, status>>

(* TempHelper(builder, temp) at address h *)
WrapTemp(h, t) ==
    /\ helpers' = With(helpers, h, [temp |-> t, external |-> TRUE,
                                    needsDeref |-> FALSE])
    /\ UNCHANGED <<blocks, currentBlock, tempCount, freeTemps, derefTemps,
                   localsStack, unlockLValue, loop, status>>

(* The assignment to needsDeref, without and with the reset. *)
StayNeeded(h, needed) ==
    [helpers EXCEPT ![h] = [temp |-> @.temp, external |-> @.external,
                            needsDeref |-> @.needsDeref \/ needed]]

SetNeedsDeref(h, needed) ==
    [helpers EXCEPT ![h] = [temp |-> @.temp, external |-> @.external,
                            needsDeref |-> needed]]

(* derefTemps without its last element, and without t (Builder::derefDone) *)
WithoutLast(t)  == IF derefTemps = <<>> THEN <<>> ELSE Front(derefTemps)
WithoutDeref(t) == RemoveFirst(derefTemps, t)

(* setTempFree() always, and for a temporary of the object's own only. *)
FreedAlways(self)  == Append(freeTemps, self.temp)
FreedUnlessExternal(self) ==
    IF self.external THEN freeTemps ELSE Append(freeTemps, self.temp)

(* TempHelper::derefNeeded(true) *)
derefNeeded(h) ==
    /\ Require(~Contains(derefTemps, helpers[h].temp))
    /\ derefTemps' = Append(derefTemps, helpers[h].temp)
    /\ helpers' = SetNeedsDeref(h, TRUE)
    /\ UNCHANGED <<blocks, currentBlock, tempCount, freeTemps, localsStack,
                   unlockLValue, loop>>

(* TempHelper::derefDone() *)
derefDone(h) ==
    IF helpers[h].needsDeref
    THEN /\ Require(Contains(derefTemps, helpers[h].temp))
         /\ derefTemps' = WithoutDeref(helpers[h].temp)
         /\ helpers' = SetNeedsDeref(h, FALSE)
         /\ UNCHANGED <<blocks, currentBlock, tempCount, freeTemps,
                        localsStack, unlockLValue, loop>>
    ELSE UNCHANGED builderVars

(* ~TempHelper(): Builder::derefDone() and createRefDec(), then            *)
(* setTempFree().                                                          *)
DestroyTemp(h) ==
    LET self == helpers[h]
        dt   == WithoutDeref(self.temp)
    IN  IF self.needsDeref /\ isTerminated THEN NotImplemented
        ELSE /\ IF self.needsDeref
                THEN /\ Require(Contains(derefTemps, self.temp))
                     /\ derefTemps' = dt
                     /\ blocks' = BlocksWithThrowing(<<>>, RefDec(self.temp),
                                                     localsStack, dt)
                ELSE UNCHANGED <<derefTemps, blocks, status>>
             /\ freeTemps' = FreedUnlessExternal(self)
             /\ helpers' = Restrict(helpers, DOMAIN helpers \ {h})
             /\ UNCHANGED <<currentBlock, tempCount, localsStack, unlockLValue,
                            loop>>

-----------------------------------------------------------------------------
(* Lvalues: the lock of a global variable around a read-modify-write. *)

(* LValue::LValue() *)
OpenLValue(v) ==
    IF v \in Globals /\ isTerminated THEN NotImplemented
    ELSE /\ blocks' = IF v \in Globals
                      THEN AppendTo(blocks, currentBlock, <<GlobalWriteLock(v)>>)
                      ELSE blocks
         /\ Require(unlockLValue = NoName)
         /\ unlockLValue' = v
         /\ UNCHANGED <<currentBlock, tempCount, freeTemps, derefTemps,
                        localsStack, helpers, loop>>

(* LValue::~LValue() *)
CloseLValue(v) ==
    IF v \in Globals /\ isTerminated THEN NotImplemented
    ELSE /\ Require(unlockLValue = v)
         /\ unlockLValue' = NoName
         /\ blocks' = IF v \in Globals
                      THEN AppendTo(blocks, currentBlock, <<GlobalWriteUnlock(v)>>)
                      ELSE blocks
         /\ UNCHANGED <<currentBlock, tempCount, freeTemps, derefTemps,
                        localsStack, helpers, loop>>

(* LValue::get() and LValue::set() *)
LValueGet(v, t) == IF v \in Globals THEN GlobalGet(t, v) ELSE LocalGet(t, v)
LValueSet(v, t) == IF v \in Globals THEN GlobalSet(v, t) ELSE LocalSet(v, t)

-----------------------------------------------------------------------------
(* Local variables and scopes. *)

(* localsPush() that pushes the entry before it looks for the next block. *)
localsPushFirst(v) ==
    /\ blocks' = Append(blocks,
                    <<LocalGet(FreeTemp, v), RefDecNoexcept(FreeTemp),
                      LeaveCleanup(Len(blocks) + 1)>>)
    /\ localsStack' = Append(localsStack, [lv |-> v, b |-> Len(blocks) + 1])
    /\ ScratchTemp
    /\ UNCHANGED <<currentBlock, derefTemps, unlockLValue, helpers, loop,
                   status>>

localsPush(v) ==
    /\ blocks' = Append(blocks,
                    <<LocalGet(FreeTemp, v), RefDecNoexcept(FreeTemp),
                      LeaveCleanup(NearestCleanup(localsStack))>>)
    /\ localsStack' = Append(localsStack, [lv |-> v, b |-> Len(blocks) + 1])
    /\ ScratchTemp
    /\ UNCHANGED <<currentBlock, derefTemps, unlockLValue, helpers, loop,
                   status>>

(* LocalsStackMarker::LocalsStackMarker() *)
PushMarker(catchBlock) ==
    /\ localsStack' = Append(localsStack, [lv |-> NoName, b |-> catchBlock])
    /\ UNCHANGED <<blocks, currentBlock, tempCount, freeTemps, derefTemps,
                   unlockLValue, helpers, loop, status>>

(* LocalsStackMarker::~LocalsStackMarker(), from its beginning *)
PopMarker ==
    /\ loop' = [kind |-> "pop", i |-> 0, ins |-> RetVoid]
    /\ UNCHANGED <<blocks, currentBlock, tempCount, freeTemps, derefTemps,
                   localsStack, unlockLValue, helpers, status>>

(* ... one iteration of its loop; the last one pops the marker. *)
PopStep ==
    LET item == Last(localsStack)
    IN  /\ loop.kind = "pop"
        /\ localsStack' = Front(localsStack)
        /\ IF item.lv \in RefCounted /\ ~isTerminated
           THEN /\ blocks' = BlocksWithThrowing(<<LocalGet(FreeTemp, item.lv)>>,
                                 RefDec(FreeTemp), Front(localsStack), derefTemps)
                /\ ScratchTemp
           ELSE UNCHANGED <<blocks, tempCount, freeTemps>>
        /\ loop' = IF item.lv = NoName THEN NoLoop ELSE loop
        /\ UNCHANGED <<currentBlock, derefTemps, unlockLValue, helpers, status>>

(* createRet() and createRetVoid(), up to buildLocalsDerefForRet() *)
CreateRet(ins) ==
    IF isTerminated THEN NotImplemented
    ELSE /\ loop' = [kind |-> "ret", i |-> Len(localsStack), ins |-> ins]
         /\ UNCHANGED <<blocks, currentBlock, tempCount, freeTemps, derefTemps,
                        localsStack, unlockLValue, helpers, status>>

(* The locals that are still to be released when the i-th is.              *)
LocalsBelow(i) == SubSeq(localsStack, 1, i - 1)

(* ... one iteration of buildLocalsDerefForRet() ... *)
RetStep ==
    LET lv == localsStack[loop.i].lv
    IN  /\ loop.kind = "ret" /\ loop.i > 0
        /\ IF lv \in RefCounted
           THEN /\ blocks' = BlocksWithThrowing(<<LocalGet(FreeTemp, lv)>>,
                                 RefDec(FreeTemp), LocalsBelow(loop.i), derefTemps)
                /\ ScratchTemp
           ELSE UNCHANGED <<blocks, tempCount, freeTemps>>
        /\ loop' = [kind |-> "ret", i |-> loop.i - 1, ins |-> loop.ins]
        /\ UNCHANGED <<currentBlock, derefTemps, localsStack, unlockLValue,
                       helpers, status>>

(* ... and the instruction that returns. *)
RetDone ==
    /\ loop.kind = "ret" /\ loop.i = 0
    /\ blocks' = AppendTo(blocks, currentBlock, <<loop.ins>>)
    /\ loop' = NoLoop
    /\ UNCHANGED <<currentBlock, tempCount, freeTemps, derefTemps, localsStack,
                   unlockLValue, helpers, status>>
=============================================================================
