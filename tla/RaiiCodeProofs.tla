--------------------------- MODULE RaiiCodeProofs ---------------------------
(***************************************************************************)
(* Proofs about the code that RaiiClient creates: its types, and that a    *)
(* finished block stays as it is; and what happens to an exception: the    *)
(* cleanup blocks of the local variables form a chain, and every landing   *)
(* pad releases what is owned and enters the chain at the right place.     *)
(* The inductive invariants add to the types what is known inside the      *)
(* loops of the builder (LoopOK), and the chain (ChainAt).                 *)
(***************************************************************************)
EXTENDS RaiiClientProofs, FiniteSetTheorems

Entry == [lv : RefCounted \cup {NoName}, b : 0..Len(blocks)]

(* A function that returns is in an open block until it has returned, and  *)
(* a scope that is left has its marker on the stack.                       *)
LoopOK ==
    /\ loop.kind # "ret" => loop.i = 0
    /\ loop.kind = "ret" => ~isTerminated
    /\ loop.kind = "pop" => \E i \in 1..Len(localsStack) : localsStack[i].lv = NoName

CodeInv == TempInv /\ CodeTypeOK /\ LoopOK

(* Blocks are only added, and instructions only to the current block.      *)
Extended(bs) ==
    /\ bs \in Seq(Seq(Instruction))
    /\ Len(blocks) <= Len(bs)
    /\ \A b \in 1..Len(blocks) :
          bs[b] = blocks[b] \/ /\ b = currentBlock /\ ~isTerminated
                               /\ Len(blocks[b]) <= Len(bs[b])

-----------------------------------------------------------------------------
(* Types of instructions. *)

LEMMA InsLemma ==
  ASSUME NEW op \in Kind, NEW d \in Nat, NEW n \in Name, NEW ts \in Seq(Nat),
         NEW to \in Seq(Nat)
  PROVE  Ins(op, d, n, ts, to) \in Instruction
BY DEF Ins, Instruction, NoBlock

LEMMA WithPadLemma ==
  ASSUME NEW ins \in Instruction, NEW l \in Nat
  PROVE  WithPad(ins, l) \in Instruction /\ WithPad(ins, l).op = ins.op
BY DEF Instruction, WithPad

LEMMA TupleLemma ==
  ASSUME NEW t \in Nat
  PROVE  <<t>> \in Seq(Nat) /\ <<>> \in Seq(Nat)
OBVIOUS

LEMMA CodeLemma ==
  ASSUME NEW t \in Nat, NEW v \in Name, NEW b \in Nat
  PROVE  /\ LocalGet(t, v) \in Instruction
         /\ RefDec(t) \in Instruction
         /\ RefDecNoexcept(t) \in Instruction
         /\ GlobalWriteLock(v) \in Instruction
         /\ GlobalWriteUnlock(v) \in Instruction
         /\ Jump(b) \in Instruction
         /\ Ret(t) \in Instruction
         /\ RetVoid \in Instruction
         /\ ResumeUnwind \in Instruction
         /\ LeaveCleanup(b) \in Instruction
         /\ \A c \in Nat : Branch(t, b, c) \in Instruction
<1>1. \A c \in Nat : <<b, c>> \in Seq(Nat) OBVIOUS
<1>2. NoName \in Name /\ NoTemp \in Nat BY DEF Name, NoTemp
<1>3. <<t>> \in Seq(Nat) /\ <<b>> \in Seq(Nat) /\ <<>> \in Seq(Nat) OBVIOUS
<1>4. {"LocalGet", "RefDec", "RefDecNoexcept", "GlobalWriteLock",
       "GlobalWriteUnlock", "Jump", "Ret", "RetVoid", "ResumeUnwind", "Branch"}
         \subseteq Kind
  BY DEF Kind
<1>5. /\ ResumeUnwind \in Instruction /\ Jump(b) \in Instruction
  BY <1>2, <1>3, <1>4, InsLemma DEF ResumeUnwind, Jump
<1>6. LeaveCleanup(b) \in Instruction BY <1>5 DEF LeaveCleanup
<1>7. \A c \in Nat : Branch(t, b, c) \in Instruction
  BY <1>1, <1>2, <1>3, <1>4, InsLemma DEF Branch
<1>8. LocalGet(t, v) \in Instruction /\ RefDec(t) \in Instruction
      /\ RefDecNoexcept(t) \in Instruction
  BY <1>2, <1>3, <1>4, InsLemma DEF LocalGet, RefDec, RefDecNoexcept
<1>9. GlobalWriteLock(v) \in Instruction /\ GlobalWriteUnlock(v) \in Instruction
  BY <1>2, <1>3, <1>4, InsLemma DEF GlobalWriteLock, GlobalWriteUnlock
<1>10. Ret(t) \in Instruction /\ RetVoid \in Instruction
  BY <1>2, <1>3, <1>4, InsLemma DEF Ret, RetVoid
<1> QED BY <1>5, <1>6, <1>7, <1>8, <1>9, <1>10

-----------------------------------------------------------------------------
(* Adding code to a block. *)

LEMMA AppendToLemma ==
  ASSUME NEW bs \in Seq(Seq(Instruction)), NEW k \in 1..Len(bs),
         NEW code \in Seq(Instruction)
  PROVE  /\ AppendTo(bs, k, code) \in Seq(Seq(Instruction))
         /\ Len(AppendTo(bs, k, code)) = Len(bs)
         /\ AppendTo(bs, k, code)[k] = bs[k] \o code
         /\ \A b \in 1..Len(bs) : b # k => AppendTo(bs, k, code)[b] = bs[b]
<1>1. bs[k] \in Seq(Instruction) BY ElementOfSeq
<1>2. bs[k] \o code \in Seq(Instruction) BY <1>1, ConcatProperties
<1> QED BY <1>2, ExceptSeq DEF AppendTo

LEMMA ExtendedCurrent ==
  ASSUME CodeTypeOK, ~isTerminated, NEW bs, NEW code \in Seq(Instruction),
         bs \in Seq(Seq(Instruction)), Len(blocks) <= Len(bs),
         \A b \in 1..Len(blocks) : bs[b] = blocks[b]
  PROVE  /\ Extended(AppendTo(bs, currentBlock, code))
         /\ AppendTo(bs, currentBlock, code)[currentBlock]
              = blocks[currentBlock] \o code
<1>1. /\ blocks \in Seq(Seq(Instruction)) /\ currentBlock \in 1..Len(blocks)
      /\ Len(blocks) \in Nat /\ Len(bs) \in Nat
  BY LenProperties DEF CodeTypeOK
<1>2. currentBlock \in 1..Len(bs) BY <1>1
<1> DEFINE new == AppendTo(bs, currentBlock, code)
<1>3. /\ new \in Seq(Seq(Instruction)) /\ Len(new) = Len(bs)
      /\ new[currentBlock] = bs[currentBlock] \o code
      /\ \A b \in 1..Len(bs) : b # currentBlock => new[b] = bs[b]
  BY <1>2, AppendToLemma
<1> HIDE DEF new
<1>4. new[currentBlock] = blocks[currentBlock] \o code BY <1>1, <1>3
<1>5. blocks[currentBlock] \in Seq(Instruction) BY <1>1, ElementOfSeq
<1>6. Len(blocks[currentBlock] \o code) = Len(blocks[currentBlock]) + Len(code)
      /\ Len(code) \in Nat /\ Len(blocks[currentBlock]) \in Nat
  BY <1>5, ConcatProperties, LenProperties
<1>7. \A b \in 1..Len(blocks) : b # currentBlock => new[b] = blocks[b]
  <2>1. \A b \in 1..Len(blocks) : b \in 1..Len(bs) BY <1>1
  <2> QED BY <1>3, <2>1
<1>8. Extended(new)
  <2>1. Len(blocks[currentBlock]) <= Len(new[currentBlock]) BY <1>4, <1>6
  <2> QED BY <1>3, <1>7, <2>1 DEF Extended
<1> QED BY <1>4, <1>8 DEF new

LEMMA AppendedBlock ==
  ASSUME CodeTypeOK, NEW code \in Seq(Instruction), NEW bs,
         bs = Append(blocks, code)
  PROVE  /\ bs \in Seq(Seq(Instruction))
         /\ Len(bs) = Len(blocks) + 1
         /\ \A b \in 1..Len(blocks) : bs[b] = blocks[b]
         /\ Extended(bs)
<1>1. /\ bs \in Seq(Seq(Instruction)) /\ Len(bs) = Len(blocks) + 1
      /\ \A b \in 1..Len(blocks) : bs[b] = blocks[b]
  BY AppendProperties DEF CodeTypeOK
<1>2. Len(blocks) \in Nat BY LenProperties DEF CodeTypeOK
<1> QED BY <1>1, <1>2 DEF Extended

(* The last instruction decides whether a block is terminated. *)
LEMMA LastInstruction ==
  ASSUME NEW block \in Seq(Instruction), NEW code \in Seq(Instruction),
         NEW ins \in Instruction
  PROVE  Terminated(block \o (code \o <<ins>>)) <=> ins.op \in Terminator
<1>1. <<ins>> \in Seq(Instruction) /\ Len(<<ins>>) = 1 /\ <<ins>>[1] = ins
  OBVIOUS
<1> DEFINE tail == <<ins>>
           end  == code \o tail
<1>2. /\ tail \in Seq(Instruction) /\ Len(tail) = 1 /\ tail[1] = ins BY <1>1
<1> HIDE DEF tail
<1>3. /\ end \in Seq(Instruction) /\ Len(end) = Len(code) + 1
      /\ end[Len(code) + 1] = ins /\ Len(code) \in Nat
  <2>1. end \in Seq(Instruction) /\ Len(end) = Len(code) + 1 /\ Len(code) \in Nat
    <3>1. end \in Seq(Instruction) /\ Len(end) = Len(code) + Len(tail)
      BY <1>2, ConcatProperties
    <3>2. Len(code) \in Nat BY LenProperties
    <3> HIDE DEF end
    <3> QED BY <1>2, <3>1, <3>2
  <2>2. Len(code) + 1 \in 1..Len(code) + Len(tail) BY <1>2, <2>1
  <2>3. end[Len(code) + 1] = tail[Len(code) + 1 - Len(code)]
    BY <1>2, <2>1, <2>2, ConcatProperties
  <2> QED BY <1>2, <2>1, <2>3
<1> HIDE DEF end
<1> DEFINE all == block \o end
<1>4. /\ all \in Seq(Instruction) /\ Len(all) = Len(block) + Len(end)
      /\ Len(block) \in Nat
  BY <1>3, ConcatProperties, LenProperties
<1>5. all[Len(all)] = ins
  <2>1. Len(all) \in 1..Len(block) + Len(end) /\ Len(all) > Len(block)
    BY <1>3, <1>4
  <2>2. all[Len(all)] = end[Len(all) - Len(block)]
    BY <1>3, <1>4, <2>1, ConcatProperties
  <2>3. Len(all) - Len(block) = Len(code) + 1 BY <1>3, <1>4
  <2> QED BY <1>3, <2>2, <2>3
<1>6. all # <<>> BY <1>3, <1>4, EmptySeq
<1> HIDE DEF all
<1>7. Terminated(all) <=> ins.op \in Terminator BY <1>5, <1>6 DEF Terminated
<1> QED BY <1>7 DEF all, end, tail

LEMMA CleanupLemma ==
  ASSUME CodeTypeOK, NEW ls \in Seq(Entry)
  PROVE  NearestCleanup(ls) \in 0..Len(blocks)
<1>1. Len(blocks) \in Nat BY LenProperties DEF CodeTypeOK
<1> DEFINE I == {i \in 1..Len(ls) : ls[i].b # NoBlock}
<1>2. CASE I = {} BY <1>1, <1>2 DEF NearestCleanup, NoBlock
<1>3. CASE I # {}
  <2>1. \E x \in I : \A y \in I : x >= y
    BY <1>3, IndexMaximum, LenProperties
  <2>2. Max(I) \in I BY <2>1 DEF Max
  <2>3. ls[Max(I)] \in Entry BY <2>2, ElementOfSeq
  <2>4. NearestCleanup(ls) = ls[Max(I)].b BY <1>3 DEF NearestCleanup
  <2> QED BY <2>3, <2>4 DEF Entry
<1> QED BY <1>2, <1>3

LEMMA PadCodeLemma ==
  ASSUME CodeTypeOK, VariableAssumption, NEW ls \in Seq(Entry),
         NEW dt \in Seq(Nat)
  PROVE  LandingPadCode(ls, dt) \in Seq(Instruction)
<1> DEFINE unlock  == IF HasLock THEN <<GlobalWriteUnlock(unlockLValue)>> ELSE <<>>
           release == [i \in 1..Len(dt) |-> RefDecNoexcept(dt[Len(dt) + 1 - i])]
           leave   == LeaveCleanup(NearestCleanup(ls))
<1>1. Len(blocks) \in Nat /\ Len(dt) \in Nat BY LenProperties DEF CodeTypeOK
<1>2. leave \in Instruction
  <2>1. NearestCleanup(ls) \in Nat BY <1>1, CleanupLemma
  <2> QED BY <2>1, CodeLemma DEF Name
<1>3. release \in Seq(Instruction)
  <2>1. \A i \in 1..Len(dt) : RefDecNoexcept(dt[Len(dt) + 1 - i]) \in Instruction
    <3>1. \A i \in 1..Len(dt) : Len(dt) + 1 - i \in 1..Len(dt) BY <1>1
    <3>2. \A i \in 1..Len(dt) : dt[Len(dt) + 1 - i] \in Nat
      BY <3>1, ElementOfSeq
    <3> QED BY <3>2, CodeLemma DEF Name
  <2> HIDE DEF leave
  <2>2. release \in [1..Len(dt) -> Instruction] BY <2>1
  <2> QED BY <1>1, <2>2, SeqDef
<1>4. unlock \in Seq(Instruction)
  <2>1. CASE HasLock
    <3>1. unlockLValue \in Name BY <2>1 DEF HasLock, VariableAssumption, Name
    <3>2. GlobalWriteUnlock(unlockLValue) \in Instruction BY <3>1, CodeLemma
    <3> QED BY <2>1, <3>2
  <2>2. CASE ~HasLock BY <2>2
  <2> QED BY <2>1, <2>2
<1> HIDE DEF unlock, release, leave
<1>5. <<leave>> \in Seq(Instruction) BY <1>2
<1>6. (unlock \o release) \o <<leave>> \in Seq(Instruction)
  BY <1>3, <1>4, <1>5, ConcatProperties
<1> QED BY <1>6 DEF LandingPadCode, unlock, release, leave

(* An instruction with its landing pad, appended to an open block.  *)
LEMMA ThrowingLemma ==
  ASSUME CodeTypeOK, VariableAssumption, ~isTerminated,
         NEW code \in Seq(Instruction), NEW ins \in Instruction,
         ins.op \notin Terminator, NEW ls \in Seq(Entry), NEW dt \in Seq(Nat),
         NEW bs, bs = BlocksWithThrowing(code, ins, ls, dt)
  PROVE  Extended(bs) /\ ~Terminated(bs[currentBlock])
<1> DEFINE mid == BlocksWithLandingPad(ls, dt)
           new == WithPad(ins, LandingPad(ls, dt))
           add == code \o <<new>>
<1>1. /\ mid \in Seq(Seq(Instruction)) /\ Len(blocks) <= Len(mid)
      /\ \A b \in 1..Len(blocks) : mid[b] = blocks[b]
  <2>1. blocks \in Seq(Seq(Instruction)) /\ Len(blocks) \in Nat
    BY LenProperties DEF CodeTypeOK
  <2>2. CASE NeedsLandingPad(ls, dt)
    <3>1. mid = Append(blocks, LandingPadCode(ls, dt))
      BY <2>2 DEF BlocksWithLandingPad
    <3> HIDE DEF mid
    <3> QED BY <2>1, <3>1, PadCodeLemma, AppendedBlock
  <2>3. CASE ~NeedsLandingPad(ls, dt)
    BY <2>1, <2>3 DEF BlocksWithLandingPad
  <2> QED BY <2>2, <2>3
<1>2. new \in Instruction /\ new.op = ins.op
  <2>1. LandingPad(ls, dt) \in Nat
    BY LenProperties DEF LandingPad, NoBlock, CodeTypeOK
  <2> QED BY <2>1, WithPadLemma
<1> HIDE DEF mid, new
<1>3. add \in Seq(Instruction)
  <2>1. <<new>> \in Seq(Instruction) BY <1>2
  <2> QED BY <2>1, ConcatProperties
<1> HIDE DEF add
<1>4. bs = AppendTo(mid, currentBlock, add)
  BY DEF BlocksWithThrowing, mid, new, add
<1>5. Extended(bs) /\ bs[currentBlock] = blocks[currentBlock] \o add
  BY <1>1, <1>3, <1>4, ExtendedCurrent
<1>6. blocks[currentBlock] \in Seq(Instruction)
  BY ElementOfSeq DEF CodeTypeOK
<1>7. ~Terminated(bs[currentBlock])
  BY <1>2, <1>5, <1>6, LastInstruction DEF add
<1> QED BY <1>5, <1>7

-----------------------------------------------------------------------------
(* What the methods of the builder do to the blocks. *)

LEMMA SameBlocks ==
  ASSUME CodeTypeOK
  PROVE  Extended(blocks)
BY LenProperties DEF Extended, CodeTypeOK

(* Facts about the operands. *)
LEMMA OperandLemma ==
  ASSUME CodeInv, VariableAssumption
  PROVE  /\ FreeTemp \in Nat
         /\ derefTemps \in Seq(Nat)
         /\ \A t : RemoveFirst(derefTemps, t) \in Seq(Nat)
         /\ \A h \in DOMAIN helpers : helpers[h].temp \in Nat
         /\ localsStack \in Seq(Entry)
         /\ \A v \in Globals \cup Locals : v \in Name
         /\ Len(blocks) \in Nat
<1>1. /\ tempCount \in Nat /\ freeTemps \in Seq(1..tempCount)
      /\ derefTemps \in Seq(1..tempCount)
  BY DEF CodeInv, TempInv, TempTypeOK
<1>2. 1..tempCount \subseteq Nat OBVIOUS
<1>3. FreeTemp \in Nat
  <2>1. CASE freeTemps = <<>> BY <1>1, <2>1 DEF FreeTemp
  <2>2. CASE freeTemps # <<>> BY <1>1, <1>2, <2>2, FrontLemma DEF FreeTemp
  <2> QED BY <2>1, <2>2
<1>4. derefTemps \in Seq(Nat) BY <1>1, <1>2, SeqMonotonic
<1>5. \A t : RemoveFirst(derefTemps, t) \in Seq(Nat) BY <1>4, RemoveFirstLemma
<1>6. \A h \in DOMAIN helpers : helpers[h].temp \in Nat
  BY DEF CodeInv, TempInv, TempTypeOK, TempHelper
<1> QED BY <1>3, <1>4, <1>5, <1>6, LenProperties
    DEF CodeInv, CodeTypeOK, Entry, Name, VariableAssumption

(* One instruction without landing pad. *)
LEMMA AppendOne ==
  ASSUME CodeTypeOK, ~isTerminated, NEW ins \in Instruction, NEW bs,
         bs = AppendTo(blocks, currentBlock, <<ins>>)
  PROVE  Extended(bs)
<1> DEFINE code == <<ins>>
<1>1. code \in Seq(Instruction) OBVIOUS
<1>2. blocks \in Seq(Seq(Instruction)) /\ Len(blocks) \in Nat
  BY LenProperties DEF CodeTypeOK
<1>3. bs = AppendTo(blocks, currentBlock, code) OBVIOUS
<1> HIDE DEF code
<1> QED BY <1>1, <1>2, <1>3, ExtendedCurrent

LEMMA CreateLemma ==
  ASSUME CodeTypeOK, NEW ins \in Instruction, Create(ins)
  PROVE  Extended(blocks')
<1>1. CASE isTerminated BY <1>1, SameBlocks DEF Create, NotImplemented
<1>2. CASE ~isTerminated BY <1>2, AppendOne DEF Create
<1> QED BY <1>1, <1>2

LEMMA CreateInvokeLemma ==
  ASSUME CodeInv, VariableAssumption, NEW ins \in Instruction,
         ins.op \notin Terminator, NEW canThrow \in BOOLEAN,
         CreateInvoke(ins, canThrow)
  PROVE  Extended(blocks')
<1>1. CASE isTerminated
  BY <1>1, SameBlocks DEF CreateInvoke, NotImplemented, CodeInv
<1>2. CASE ~isTerminated /\ canThrow
  <2>1. blocks' = BlocksWithThrowing(<<>>, ins, localsStack, derefTemps)
    BY <1>2 DEF CreateInvoke
  <2>2. <<>> \in Seq(Instruction) OBVIOUS
  <2> QED BY <1>2, <2>1, <2>2, OperandLemma, ThrowingLemma DEF CodeInv
<1>3. CASE ~isTerminated /\ ~canThrow
  BY <1>3, AppendOne DEF CreateInvoke, CodeInv
<1> QED BY <1>1, <1>2, <1>3

LEMMA DestroyTempLemma ==
  ASSUME CodeInv, VariableAssumption, NEW h \in DOMAIN helpers, DestroyTemp(h)
  PROVE  Extended(blocks')
<1> DEFINE t == helpers[h].temp
<1>1. CASE ~helpers[h].needsDeref \/ isTerminated
  BY <1>1, SameBlocks DEF DestroyTemp, NotImplemented, CodeInv
<1>2. CASE helpers[h].needsDeref /\ ~isTerminated
  <2>1. blocks' = BlocksWithThrowing(<<>>, RefDec(t), localsStack,
                                     RemoveFirst(derefTemps, t))
    BY <1>2 DEF DestroyTemp, WithoutDeref
  <2>2. RefDec(t) \in Instruction /\ RefDec(t).op \notin Terminator
    <3>1. t \in Nat /\ NoName \in Name BY OperandLemma DEF Name
    <3> QED BY <3>1, CodeLemma DEF RefDec, Ins, Terminator
  <2>3. <<>> \in Seq(Instruction) OBVIOUS
  <2>4. RemoveFirst(derefTemps, t) \in Seq(Nat) BY OperandLemma
  <2> QED BY <1>2, <2>1, <2>2, <2>3, <2>4, OperandLemma, ThrowingLemma DEF CodeInv
<1> QED BY <1>1, <1>2

(* The release of a local variable. *)
LEMMA ReleaseLemma ==
  ASSUME CodeInv, VariableAssumption, ~isTerminated, NEW v \in RefCounted,
         NEW ls \in Seq(Entry),
         blocks' = BlocksWithThrowing(<<LocalGet(FreeTemp, v)>>, RefDec(FreeTemp),
                                      ls, derefTemps)
  PROVE  Extended(blocks') /\ ~Terminated(blocks'[currentBlock])
<1>1. FreeTemp \in Nat /\ derefTemps \in Seq(Nat) /\ v \in Name
  BY OperandLemma DEF VariableAssumption
<1>2. LocalGet(FreeTemp, v) \in Instruction /\ RefDec(FreeTemp) \in Instruction
  BY <1>1, CodeLemma
<1>3. RefDec(FreeTemp).op \notin Terminator BY DEF RefDec, Ins, Terminator
<1> DEFINE get == LocalGet(FreeTemp, v)
<1>4. get \in Instruction BY <1>2
<1> HIDE DEF get
<1>5. <<get>> \in Seq(Instruction) BY <1>4
<1>6. blocks' = BlocksWithThrowing(<<get>>, RefDec(FreeTemp), ls, derefTemps)
  BY DEF get
<1> QED BY <1>1, <1>2, <1>3, <1>5, <1>6, ThrowingLemma DEF CodeInv

-----------------------------------------------------------------------------
(* The actions that leave the stack of locals and the loop alone. *)

LEMMA EntryLemma ==
  ASSUME CodeInv, Extended(blocks')
  PROVE  Entry \subseteq Entry'
<1>1. Len(blocks) \in Nat /\ Len(blocks') \in Nat
  BY LenProperties DEF CodeInv, CodeTypeOK, Extended
<1>2. 0..Len(blocks) \subseteq 0..Len(blocks') BY <1>1 DEF Extended
<1> QED BY <1>2 DEF Entry

LEMMA SimpleStep ==
  ASSUME CodeInv, TempInv', Ready, Extended(blocks'),
         currentBlock' \in 1..Len(blocks'),
         unlockLValue' \in Globals \cup Locals \cup {NoName},
         UNCHANGED <<localsStack, loop>>
  PROVE  CodeInv'
<1>1. loop.kind = "none" BY DEF Ready
<1>2. localsStack' \in Seq(Entry')
  <2>1. localsStack \in Seq(Entry) BY DEF CodeInv, CodeTypeOK, Entry
  <2> QED BY <2>1, EntryLemma, SeqMonotonic
<1>5. CodeTypeOK' BY <1>2 DEF CodeInv, CodeTypeOK, Entry, Extended
<1>6. LoopOK' BY <1>1 DEF CodeInv, LoopOK
<1> QED BY <1>5, <1>6 DEF CodeInv

LEMMA SameCurrent ==
  ASSUME CodeInv, Extended(blocks'), currentBlock' = currentBlock
  PROVE  currentBlock' \in 1..Len(blocks')
<1>1. Len(blocks) \in Nat /\ Len(blocks') \in Nat
  BY LenProperties DEF CodeInv, CodeTypeOK, Extended
<1> QED BY <1>1 DEF CodeInv, CodeTypeOK, Extended

(* Steps that leave the code alone. *)
LEMMA TempOnlySteps ==
  ASSUME CodeInv,
         DeclareTemp \/ Enter \/ Disown \/ OwnReference \/ Consume \/ Abandon
  PROVE  /\ Ready
         /\ UNCHANGED <<blocks, currentBlock, localsStack, unlockLValue, loop>>
<1>1. CASE DeclareTemp BY <1>1 DEF DeclareTemp, NewTemp
<1>2. CASE Enter BY <1>2 DEF Enter, WrapTemp
<1>3. CASE Disown BY <1>3 DEF Disown, derefDone
<1>4. CASE OwnReference BY <1>4 DEF OwnReference, derefNeeded
<1>5. CASE Consume BY <1>5 DEF Consume, derefDone
<1>6. CASE Abandon BY <1>6 DEF Abandon, NotImplemented
<1> QED BY <1>1, <1>2, <1>3, <1>4, <1>5, <1>6

LEMMA LValueSteps ==
  ASSUME CodeInv, VariableAssumption, LockLValue \/ UnlockLValue
  PROVE  /\ Ready /\ Extended(blocks')
         /\ unlockLValue' \in Globals \cup Locals \cup {NoName}
         /\ UNCHANGED <<currentBlock, localsStack, loop>>
<1>1. \A v \in Globals : v \in Name BY OperandLemma
<1>2. CASE LockLValue
  <2>1. PICK v \in Globals \cup Locals : Ready /\ OpenLValue(v)
    BY <1>2 DEF LockLValue
  <2>2. CASE v \in Globals /\ isTerminated
    BY <2>1, <2>2, SameBlocks DEF OpenLValue, NotImplemented, CodeInv, CodeTypeOK
  <2>3. CASE v \in Globals /\ ~isTerminated
    <3>1. NoName \in Name /\ 0 \in Nat BY DEF Name
    <3>2. GlobalWriteLock(v) \in Instruction BY <1>1, <2>3, <3>1, CodeLemma
    <3>3. blocks' = AppendTo(blocks, currentBlock, <<GlobalWriteLock(v)>>)
      BY <2>1, <2>3 DEF OpenLValue
    <3>4. Extended(blocks') BY <2>3, <3>2, <3>3, AppendOne DEF CodeInv
    <3> QED BY <2>1, <2>3, <3>4 DEF OpenLValue
  <2>4. CASE v \notin Globals
    BY <2>1, <2>4, SameBlocks DEF OpenLValue, CodeInv, CodeTypeOK
  <2> QED BY <2>2, <2>3, <2>4
<1>3. CASE UnlockLValue
  <2> DEFINE v == unlockLValue
  <2>1. Ready /\ CloseLValue(v) BY <1>3 DEF UnlockLValue
  <2>2. CASE v \in Globals /\ isTerminated
    BY <2>1, <2>2, SameBlocks DEF CloseLValue, NotImplemented, CodeInv, CodeTypeOK
  <2>3. CASE v \in Globals /\ ~isTerminated
    <3>1. NoName \in Name /\ 0 \in Nat BY DEF Name
    <3>2. GlobalWriteUnlock(v) \in Instruction BY <1>1, <2>3, <3>1, CodeLemma
    <3>3. blocks' = AppendTo(blocks, currentBlock, <<GlobalWriteUnlock(v)>>)
      BY <2>1, <2>3 DEF CloseLValue
    <3>4. Extended(blocks') BY <2>3, <3>2, <3>3, AppendOne DEF CodeInv
    <3> QED BY <2>1, <2>3, <3>4 DEF CloseLValue
  <2>4. CASE v \notin Globals
    BY <2>1, <2>4, SameBlocks DEF CloseLValue, CodeInv
  <2> QED BY <2>2, <2>3, <2>4
<1> QED BY <1>2, <1>3

LEMMA EmitSteps ==
  ASSUME CodeInv, VariableAssumption, ClientAssumption,
         \/ Emit \/ EmitInvoke \/ EmitJump \/ EmitBranch \/ Destroy \/ Leave
  PROVE  /\ Ready /\ Extended(blocks')
         /\ UNCHANGED <<currentBlock, localsStack, unlockLValue, loop>>
<1>0. Len(blocks) \in Nat /\ NoName \in Name
      /\ \A h \in DOMAIN helpers : helpers[h].temp \in Nat
  BY OperandLemma DEF Name
<1>1. CASE Emit
  <2>1. PICK ins \in SimpleCode : Ready /\ Create(ins) BY <1>1 DEF Emit
  <2>2. ins \in Instruction BY DEF ClientAssumption
  <2>3. Extended(blocks') BY <2>1, <2>2, CreateLemma DEF CodeInv
  <2> QED BY <2>1, <2>3 DEF Create, NotImplemented
<1>2. CASE EmitInvoke
  <2>1. PICK ins \in InvokeCode, canThrow \in BOOLEAN :
          Ready /\ CreateInvoke(ins, canThrow)
    BY <1>2 DEF EmitInvoke
  <2>2. ins \in Instruction /\ ins.op \notin Terminator
    BY DEF ClientAssumption, Throwing, Terminator
  <2>3. Extended(blocks') BY <2>1, <2>2, CreateInvokeLemma
  <2> QED BY <2>1, <2>3 DEF CreateInvoke, NotImplemented
<1>3. CASE EmitJump
  <2>1. PICK b \in 1..Len(blocks) : Ready /\ Create(Jump(b)) BY <1>3 DEF EmitJump
  <2>2. Jump(b) \in Instruction BY <1>0, CodeLemma
  <2>3. Extended(blocks') BY <2>1, <2>2, CreateLemma DEF CodeInv
  <2> QED BY <2>1, <2>3 DEF Create, NotImplemented
<1>4. CASE EmitBranch
  <2>1. PICK h \in Own, b \in 1..Len(blocks) - 1 :
          Ready /\ Create(Branch(helpers[h].temp, b, b + 1))
    BY <1>4 DEF EmitBranch
  <2>2. Branch(helpers[h].temp, b, b + 1) \in Instruction
    <3>1. helpers[h].temp \in Nat /\ b \in Nat /\ b + 1 \in Nat
      BY <1>0 DEF Own
    <3> QED BY <1>0, <3>1, CodeLemma
  <2>3. Extended(blocks') BY <2>1, <2>2, CreateLemma DEF CodeInv
  <2> QED BY <2>1, <2>3 DEF Create, NotImplemented
<1>5. CASE Destroy
  <2>1. PICK h \in Own : Ready /\ DestroyTemp(h) BY <1>5 DEF Destroy
  <2>2. Extended(blocks') BY <2>1, DestroyTempLemma DEF Own
  <2> QED BY <2>1, <2>2 DEF DestroyTemp, NotImplemented
<1>6. CASE Leave
  <2>1. Base \in DOMAIN helpers /\ Ready /\ DestroyTemp(Base)
    BY <1>6 DEF Leave, Own
  <2>2. Extended(blocks') BY <2>1, DestroyTempLemma
  <2> QED BY <2>1, <2>2 DEF DestroyTemp, NotImplemented
<1> QED BY <1>1, <1>2, <1>3, <1>4, <1>5, <1>6

LEMMA BlockSteps ==
  ASSUME CodeInv, AddBlock \/ SwitchBlock
  PROVE  /\ Ready /\ Extended(blocks') /\ currentBlock' \in 1..Len(blocks')
         /\ UNCHANGED <<localsStack, unlockLValue, loop>>
<1>1. CASE AddBlock
  <2>1. blocks' = Append(blocks, <<>>) /\ currentBlock' = currentBlock
    BY <1>1 DEF AddBlock, createBlock
  <2>2. <<>> \in Seq(Instruction) OBVIOUS
  <2>3. Extended(blocks') BY <2>1, <2>2, AppendedBlock DEF CodeInv
  <2> QED BY <1>1, <2>1, <2>3, SameCurrent DEF AddBlock, createBlock
<1>2. CASE SwitchBlock
  BY <1>2, SameBlocks DEF SwitchBlock, setCurrentBlock, CodeInv
<1> QED BY <1>1, <1>2

-----------------------------------------------------------------------------
(* The actions that change the stack of locals or the loop. *)

(* An entry with an existing block may be pushed onto an existing stack.   *)
LEMMA StackLemma ==
  ASSUME CodeInv, Extended(blocks'), NEW v \in RefCounted \cup {NoName},
         NEW b \in 0..Len(blocks')
  PROVE  /\ localsStack \in Seq(Entry')
         /\ Append(localsStack, [lv |-> v, b |-> b]) \in Seq(Entry')
<1>3. Entry \subseteq Entry' BY EntryLemma
<1>4. localsStack \in Seq(Entry')
  <2>1. localsStack \in Seq(Entry) BY DEF CodeInv, CodeTypeOK, Entry
  <2> QED BY <1>3, <2>1, SeqMonotonic
<1> DEFINE e == [lv |-> v, b |-> b]
<1>5. e \in Entry' BY DEF Entry
<1> HIDE DEF e
<1>6. Append(localsStack, e) \in Seq(Entry') BY <1>4, <1>5, AppendProperties
<1> QED BY <1>4, <1>6 DEF e

LEMMA DeclareLocalStep ==
  ASSUME CodeInv, VariableAssumption, TempInv', DeclareLocal
  PROVE  CodeInv' /\ Extended(blocks')
<1>1. PICK v \in RefCounted : Ready /\ localsPush(v) BY DEF DeclareLocal
<1> DEFINE get   == LocalGet(FreeTemp, v)
           dec   == RefDecNoexcept(FreeTemp)
           leave == LeaveCleanup(NearestCleanup(localsStack))
           code  == <<get, dec, leave>>
           e     == [lv |-> v, b |-> Len(blocks) + 1]
<1>2. /\ blocks' = Append(blocks, code)
      /\ localsStack' = Append(localsStack, e)
      /\ UNCHANGED <<currentBlock, unlockLValue, loop>>
  BY <1>1 DEF localsPush
<1>3. get \in Instruction /\ dec \in Instruction /\ leave \in Instruction
  <2>1. FreeTemp \in Nat /\ v \in Name /\ NearestCleanup(localsStack) \in Nat
    <3>1. FreeTemp \in Nat /\ v \in Name /\ localsStack \in Seq(Entry)
      BY OperandLemma DEF VariableAssumption
    <3>2. NearestCleanup(localsStack) \in 0..Len(blocks)
      BY <3>1, CleanupLemma DEF CodeInv
    <3> QED BY <3>1, <3>2, OperandLemma
  <2> QED BY <2>1, CodeLemma
<1> HIDE DEF get, dec, leave
<1>4. code \in Seq(Instruction) BY <1>3
<1> HIDE DEF code
<1>5. Extended(blocks') /\ Len(blocks') = Len(blocks) + 1
  BY <1>2, <1>4, AppendedBlock DEF CodeInv
<1>6. Len(blocks) + 1 \in 0..Len(blocks')
  BY <1>5, LenProperties DEF CodeInv, CodeTypeOK
<1>7. localsStack' \in Seq(Entry') BY <1>2, <1>5, <1>6, StackLemma
<1>8. currentBlock' \in 1..Len(blocks') BY <1>2, <1>5, SameCurrent
<1>9. loop.kind = "none" /\ loop.i = 0 BY <1>1 DEF Ready, CodeInv, LoopOK
<1>10. loop' \in [kind : {"none", "pop", "ret"}, i : 0..Len(localsStack'),
                  ins : Instruction]
  <2>1. Len(localsStack') \in Nat BY <1>7, LenProperties
  <2> QED BY <1>2, <1>9, <2>1 DEF CodeInv, CodeTypeOK
<1>11. CodeTypeOK' BY <1>2, <1>5, <1>7, <1>8, <1>10
       DEF CodeInv, CodeTypeOK, Entry, Extended
<1>12. LoopOK' BY <1>2, <1>9 DEF LoopOK
<1> QED BY <1>5, <1>11, <1>12 DEF CodeInv

LEMMA OpenScopeStep ==
  ASSUME CodeInv, TempInv', OpenScope
  PROVE  CodeInv' /\ Extended(blocks')
<1>1. PICK b \in {NoBlock} \cup 2..Len(blocks) : Ready /\ PushMarker(b)
  BY DEF OpenScope
<1> DEFINE e == [lv |-> NoName, b |-> b]
<1>2. /\ localsStack' = Append(localsStack, e)
      /\ UNCHANGED <<blocks, currentBlock, unlockLValue, loop>>
  BY <1>1 DEF PushMarker
<1>3. Extended(blocks') BY <1>2, SameBlocks DEF CodeInv
<1>4. b \in 0..Len(blocks')
  BY <1>2, LenProperties DEF NoBlock, CodeInv, CodeTypeOK
<1>5. localsStack' \in Seq(Entry') BY <1>2, <1>3, <1>4, StackLemma
<1>6. loop.kind = "none" /\ loop.i = 0 BY <1>1 DEF Ready, CodeInv, LoopOK
<1>7. loop' \in [kind : {"none", "pop", "ret"}, i : 0..Len(localsStack'),
                 ins : Instruction]
  <2>1. Len(localsStack') \in Nat BY <1>5, LenProperties
  <2> QED BY <1>2, <1>6, <2>1 DEF CodeInv, CodeTypeOK
<1>8. CodeTypeOK' BY <1>2, <1>3, <1>5, <1>7
      DEF CodeInv, CodeTypeOK, Entry, Extended
<1>9. LoopOK' BY <1>2, <1>6 DEF LoopOK
<1> QED BY <1>3, <1>8, <1>9 DEF CodeInv

(* The loops begin. *)
LEMMA LoopBegins ==
  ASSUME CodeInv, VariableAssumption, TempInv', CloseScope \/ EmitRet
  PROVE  CodeInv' /\ Extended(blocks')
<1>0. Len(localsStack) \in Nat BY LenProperties DEF CodeInv, CodeTypeOK
<1>1. RetVoid \in Instruction /\ \A t \in Nat : Ret(t) \in Instruction
  BY CodeLemma DEF Name
<1>2. CASE CloseScope
  <2>1. /\ loop' = [kind |-> "pop", i |-> 0, ins |-> RetVoid]
        /\ \E i \in 1..Len(localsStack) : localsStack[i].lv = NoName
        /\ UNCHANGED <<blocks, currentBlock, localsStack, unlockLValue>>
    BY <1>2 DEF CloseScope, PopMarker
  <2>2. CodeTypeOK' BY <1>0, <1>1, <2>1 DEF CodeInv, CodeTypeOK
  <2>3. LoopOK' BY <2>1 DEF LoopOK
  <2> QED BY <2>1, <2>2, <2>3, SameBlocks DEF CodeInv
<1>3. CASE EmitRet
  <2>1. PICK ins \in {RetVoid} \cup {Ret(helpers[h].temp) : h \in Own} :
          Ready /\ CreateRet(ins)
    BY <1>3 DEF EmitRet
  <2>2. ins \in Instruction
    BY <1>1, OperandLemma DEF Own
  <2>3. CASE isTerminated
    <3>1. UNCHANGED <<blocks, currentBlock, localsStack, unlockLValue, loop>>
      BY <2>1, <2>3 DEF CreateRet, NotImplemented
    <3>2. Extended(blocks') BY <3>1, SameBlocks DEF CodeInv
    <3> QED BY <2>1, <3>1, <3>2, SimpleStep DEF CodeInv, CodeTypeOK
  <2>4. CASE ~isTerminated
    <3>1. /\ loop' = [kind |-> "ret", i |-> Len(localsStack), ins |-> ins]
          /\ UNCHANGED <<blocks, currentBlock, localsStack, unlockLValue>>
      BY <2>1, <2>4 DEF CreateRet
    <3>2. CodeTypeOK' BY <1>0, <2>2, <3>1 DEF CodeInv, CodeTypeOK
    <3>3. LoopOK' BY <2>4, <3>1 DEF LoopOK, isTerminated
    <3> QED BY <3>1, <3>2, <3>3, SameBlocks DEF CodeInv
  <2> QED BY <2>3, <2>4
<1> QED BY <1>2, <1>3

(* ... and go on: one entry of the stack is popped ... *)
LEMMA LeaveScopeStep ==
  ASSUME CodeInv, VariableAssumption, TempInv', LeaveScope
  PROVE  CodeInv' /\ Extended(blocks')
<1> DEFINE item == Last(localsStack)
           n    == Len(localsStack)
<1>1. PICK m \in 1..n : localsStack[m].lv = NoName
  BY DEF LeaveScope, PopStep, CodeInv, LoopOK
<1>2. localsStack \in Seq(Entry) BY OperandLemma
<1>3. localsStack # <<>>
  <2>1. n \in Nat /\ n # 0 BY <1>1, <1>2, LenProperties
  <2> QED BY <2>1
<1>4. /\ Front(localsStack) \in Seq(Entry) /\ n \in Nat \ {0}
      /\ Len(Front(localsStack)) = n - 1
      /\ \A i \in 1..n - 1 : Front(localsStack)[i] = localsStack[i]
      /\ item \in Entry
  BY <1>2, <1>3, FrontLemma
<1>5. /\ loop.kind = "pop" /\ loop.i = 0
      /\ localsStack' = Front(localsStack)
      /\ loop' = IF item.lv = NoName THEN NoLoop ELSE loop
      /\ UNCHANGED <<currentBlock, unlockLValue>>
  BY DEF LeaveScope, PopStep, CodeInv, LoopOK
<1>6. Extended(blocks')
  <2>1. CASE item.lv \in RefCounted /\ ~isTerminated
    <3>1. blocks' = BlocksWithThrowing(<<LocalGet(FreeTemp, item.lv)>>,
                        RefDec(FreeTemp), Front(localsStack), derefTemps)
      BY <2>1 DEF LeaveScope, PopStep
    <3> QED BY <2>1, <3>1, <1>4, ReleaseLemma
  <2>2. CASE ~(item.lv \in RefCounted /\ ~isTerminated)
    <3>1. blocks' = blocks BY <2>2 DEF LeaveScope, PopStep
    <3> QED BY <3>1, SameBlocks DEF CodeInv
  <2> QED BY <2>1, <2>2
<1>7. localsStack' \in Seq(Entry')
  <2>1. Entry \subseteq Entry'
    BY <1>6, EntryLemma
  <2> QED BY <1>4, <1>5, <2>1, SeqMonotonic
<1>8. loop' \in [kind : {"none", "pop", "ret"}, i : 0..Len(localsStack'),
                 ins : Instruction]
  <2>1. 0 \in 0..Len(localsStack') BY <1>4, <1>5
  <2>2. RetVoid \in Instruction BY CodeLemma DEF Name
  <2> QED BY <1>5, <2>1, <2>2 DEF NoLoop, CodeInv, CodeTypeOK
<1>9. LoopOK'
  <2>1. CASE item.lv = NoName BY <1>5, <2>1 DEF NoLoop, LoopOK
  <2>2. CASE item.lv # NoName
    <3>1. m # n BY <1>1, <2>2 DEF Last
    <3>2. m \in 1..Len(localsStack') /\ localsStack'[m].lv = NoName
      BY <1>1, <1>4, <1>5, <3>1
    <3> QED BY <1>5, <2>2, <3>2 DEF LoopOK
  <2> QED BY <2>1, <2>2
<1>10. currentBlock' \in 1..Len(blocks') BY <1>5, <1>6, SameCurrent
<1>11. CodeTypeOK' BY <1>5, <1>6, <1>7, <1>8, <1>10
       DEF CodeInv, CodeTypeOK, Entry, Extended
<1> QED BY <1>6, <1>9, <1>11 DEF CodeInv

(* ... or one local is released before a return ... *)
LEMMA ReleaseLocalStep ==
  ASSUME CodeInv, VariableAssumption, TempInv', ReleaseLocal
  PROVE  CodeInv' /\ Extended(blocks')
<1> DEFINE lv == localsStack[loop.i].lv
<1>1. /\ loop.kind = "ret" /\ loop.i > 0 /\ ~isTerminated
      /\ loop.i \in 0..Len(localsStack) /\ loop.ins \in Instruction
      /\ loop' = [kind |-> "ret", i |-> loop.i - 1, ins |-> loop.ins]
      /\ UNCHANGED <<currentBlock, localsStack, unlockLValue>>
  BY DEF ReleaseLocal, RetStep, CodeInv, LoopOK, CodeTypeOK
<1>2. localsStack \in Seq(Entry) /\ Len(localsStack) \in Nat
  BY OperandLemma, LenProperties
<1>3. LocalsBelow(loop.i) \in Seq(Entry)
  <2> DEFINE k == loop.i - 1
  <2>1. k \in Int /\ \A i \in 1..k : localsStack[i] \in Entry
    <3>1. \A i \in 1..k : i \in 1..Len(localsStack) BY <1>1, <1>2
    <3>2. \A i \in 1..Len(localsStack) : localsStack[i] \in Entry
      BY <1>2, ElementOfSeq
    <3> QED BY <1>1, <1>2, <3>1, <3>2
  <2> HIDE DEF k
  <2>2. SubSeq(localsStack, 1, k) \in Seq(Entry) BY <2>1, SubSeqProperties
  <2> QED BY <2>2 DEF LocalsBelow, k
<1>4. Extended(blocks') /\ ~Terminated(blocks'[currentBlock])
  <2>1. CASE lv \in RefCounted
    <3>1. blocks' = BlocksWithThrowing(<<LocalGet(FreeTemp, lv)>>,
                        RefDec(FreeTemp), LocalsBelow(loop.i), derefTemps)
      BY <2>1 DEF ReleaseLocal, RetStep
    <3> QED BY <1>1, <1>3, <2>1, <3>1, ReleaseLemma
  <2>2. CASE lv \notin RefCounted
    <3>1. blocks' = blocks BY <2>2 DEF ReleaseLocal, RetStep
    <3> QED BY <1>1, <3>1, SameBlocks DEF CodeInv, isTerminated
  <2> QED BY <2>1, <2>2
<1>5. localsStack' \in Seq(Entry')
  <2>1. Entry \subseteq Entry'
    BY <1>4, EntryLemma
  <2> QED BY <1>1, <1>2, <2>1, SeqMonotonic
<1>6. loop' \in [kind : {"none", "pop", "ret"}, i : 0..Len(localsStack'),
                 ins : Instruction]
  <2>1. loop.i - 1 \in 0..Len(localsStack') BY <1>1, <1>2
  <2> QED BY <1>1, <2>1
<1>7. currentBlock' \in 1..Len(blocks') BY <1>1, <1>4, SameCurrent
<1>8. CodeTypeOK' BY <1>1, <1>4, <1>5, <1>6, <1>7
      DEF CodeInv, CodeTypeOK, Entry, Extended
<1>9. LoopOK' BY <1>1, <1>4 DEF LoopOK, isTerminated
<1> QED BY <1>4, <1>8, <1>9 DEF CodeInv

(* ... and the function returns. *)
LEMMA ReturnStep ==
  ASSUME CodeInv, TempInv', Return
  PROVE  CodeInv' /\ Extended(blocks')
<1>1. /\ loop.kind = "ret" /\ ~isTerminated /\ loop.ins \in Instruction
      /\ loop' = NoLoop
      /\ blocks' = AppendTo(blocks, currentBlock, <<loop.ins>>)
      /\ UNCHANGED <<currentBlock, localsStack, unlockLValue>>
  BY DEF Return, RetDone, CodeInv, LoopOK, CodeTypeOK
<1>2. Extended(blocks') BY <1>1, AppendOne DEF CodeInv
<1>3. localsStack' \in Seq(Entry')
  <2>1. Entry \subseteq Entry'
    BY <1>2, EntryLemma
  <2>2. localsStack \in Seq(Entry) BY DEF CodeInv, CodeTypeOK, Entry
  <2> QED BY <1>1, <2>1, <2>2, SeqMonotonic
<1>4. loop' \in [kind : {"none", "pop", "ret"}, i : 0..Len(localsStack'),
                 ins : Instruction]
  <2>1. Len(localsStack') \in Nat BY <1>3, LenProperties
  <2>2. RetVoid \in Instruction BY CodeLemma DEF Name
  <2> QED BY <1>1, <2>1, <2>2 DEF NoLoop
<1>5. currentBlock' \in 1..Len(blocks') BY <1>1, <1>2, SameCurrent
<1>6. CodeTypeOK' BY <1>1, <1>2, <1>3, <1>4, <1>5
      DEF CodeInv, CodeTypeOK, Entry, Extended
<1>7. LoopOK' BY <1>1 DEF LoopOK, NoLoop
<1> QED BY <1>2, <1>6, <1>7 DEF CodeInv

-----------------------------------------------------------------------------
(* CodeInv holds in every reachable state. *)

LEMMA CodeInit ==
  ASSUME Init
  PROVE  CodeInv
<1>1. /\ blocks = << <<>> >> /\ currentBlock = 1 /\ localsStack = <<>>
      /\ unlockLValue = NoName /\ loop = NoLoop
  BY DEF Init, BuilderInit
<1>2. blocks \in Seq(Seq(Instruction)) /\ Len(blocks) = 1
  <2>1. <<>> \in Seq(Instruction) OBVIOUS
  <2> DEFINE empty == <<>>
  <2>2. empty \in Seq(Instruction) BY <2>1
  <2> HIDE DEF empty
  <2>3. <<empty>> \in Seq(Seq(Instruction)) /\ Len(<<empty>>) = 1 BY <2>2
  <2> QED BY <1>1, <2>3 DEF empty
<1>3. loop \in [kind : {"none", "pop", "ret"}, i : 0..Len(localsStack),
                ins : Instruction]
  <2>1. RetVoid \in Instruction BY CodeLemma DEF Name
  <2>2. 0 \in 0..Len(localsStack) BY <1>1
  <2> QED BY <1>1, <2>1, <2>2 DEF NoLoop
<1>4. CodeTypeOK BY <1>1, <1>2, <1>3 DEF CodeTypeOK
<1>5. LoopOK BY <1>1 DEF LoopOK, NoLoop
<1> QED BY <1>4, <1>5, TempInit DEF CodeInv

LEMMA CodeNext ==
  ASSUME CodeInv, VariableAssumption, ClientAssumption, [Next]_vars
  PROVE  CodeInv' /\ Extended(blocks')
<1>1. TempInv' BY TempNext DEF CodeInv
<1>2. CASE UNCHANGED vars
  <2>1. Extended(blocks') BY <1>2, SameBlocks DEF CodeInv, vars, builderVars
  <2>2. CodeTypeOK' BY <1>2 DEF CodeInv, CodeTypeOK, vars, builderVars
  <2>3. LoopOK' BY <1>2 DEF CodeInv, LoopOK, isTerminated, vars, builderVars
  <2> QED BY <1>1, <2>1, <2>2, <2>3 DEF CodeInv
<1>3. CASE DeclareTemp \/ Enter \/ Disown \/ OwnReference \/ Consume \/ Abandon
  <2>1. Ready /\ UNCHANGED <<blocks, currentBlock, localsStack, unlockLValue, loop>>
    BY <1>3, TempOnlySteps
  <2>2. Extended(blocks') BY <2>1, SameBlocks DEF CodeInv
  <2> QED BY <1>1, <2>1, <2>2, SimpleStep DEF CodeInv, CodeTypeOK
<1>4. CASE LockLValue \/ UnlockLValue
  BY <1>1, <1>4, LValueSteps, SameCurrent, SimpleStep
<1>5. CASE \/ Emit \/ EmitInvoke \/ EmitJump \/ EmitBranch \/ Destroy \/ Leave
  <2>1. /\ Ready /\ Extended(blocks')
        /\ UNCHANGED <<currentBlock, localsStack, unlockLValue, loop>>
    BY <1>5, EmitSteps
  <2> QED BY <1>1, <2>1, SameCurrent, SimpleStep DEF CodeInv, CodeTypeOK
<1>6. CASE AddBlock \/ SwitchBlock
  BY <1>1, <1>6, BlockSteps, SimpleStep DEF CodeInv, CodeTypeOK
<1>7. CASE DeclareLocal BY <1>1, <1>7, DeclareLocalStep
<1>8. CASE OpenScope BY <1>1, <1>8, OpenScopeStep
<1>9. CASE CloseScope \/ EmitRet BY <1>1, <1>9, LoopBegins
<1>10. CASE LeaveScope BY <1>1, <1>10, LeaveScopeStep
<1>11. CASE ReleaseLocal BY <1>1, <1>11, ReleaseLocalStep
<1>12. CASE Return BY <1>1, <1>12, ReturnStep
<1> QED BY <1>2, <1>3, <1>4, <1>5, <1>6, <1>7, <1>8, <1>9, <1>10, <1>11, <1>12
    DEF Next

LEMMA CodeInvariant == Spec => []CodeInv
<1>1. Init => CodeInv BY CodeInit
<1>2. CodeInv /\ [Next]_vars => CodeInv'
  BY CodeNext, VariableAssumption, ClientAssumption
<1> QED BY <1>1, <1>2, PTL DEF Spec

(* Every variable of the builder always has its type; no block, temporary  *)
(* or local variable is named that does not exist.                         *)
THEOREM TypesAreCorrect == Spec => []TypeOK
<1>1. CodeInv => TypeOK BY DEF CodeInv, TempInv, TypeOK
<1> QED BY <1>1, CodeInvariant, PTL

(* A finished block is never appended to and no block is ever shortened:   *)
(* an instruction that names a landing pad or a cleanup block means the    *)
(* code that was there when it was created.                                *)
THEOREM FinishedBlocksNeverChange == Spec => FinishedBlocksStay
<1> DEFINE Stay == /\ Len(blocks') >= Len(blocks)
                   /\ \A b \in 1..Len(blocks) :
                         /\ Len(blocks'[b]) >= Len(blocks[b])
                         /\ Terminated(blocks[b]) => blocks'[b] = blocks[b]
<1>1. CodeInv /\ [Next]_vars => [Stay]_vars
  <2> SUFFICES ASSUME CodeInv, [Next]_vars PROVE Stay OBVIOUS
  <2>1. Extended(blocks') BY CodeNext, VariableAssumption, ClientAssumption
  <2>2. Len(blocks) \in Nat /\ Len(blocks') \in Nat
    BY <2>1, LenProperties DEF CodeInv, CodeTypeOK, Extended
  <2>3. \A b \in 1..Len(blocks) : Len(blocks[b]) \in Nat
    BY ElementOfSeq, LenProperties DEF CodeInv, CodeTypeOK
  <2>4. \A b \in 1..Len(blocks) : b \in 1..Len(blocks') BY <2>1, <2>2 DEF Extended
  <2>5. \A b \in 1..Len(blocks) : Len(blocks'[b]) \in Nat
    BY <2>1, <2>4, ElementOfSeq, LenProperties DEF Extended
  <2> QED BY <2>1, <2>2, <2>3, <2>5 DEF Extended, isTerminated
<1> QED BY <1>1, CodeInvariant, PTL DEF Spec, FinishedBlocksStay

-----------------------------------------------------------------------------
(* Exceptions. *)

(* The cleanup block of the i-th entry, as CleanupChain wants it.  It is   *)
(* finished, so that no step changes it.                                   *)
ChainAt(i) ==
    localsStack[i].lv # NoName =>
        LET code == blocks[localsStack[i].b]
        IN  /\ localsStack[i].b # NoBlock
            /\ \E t \in 1..tempCount : SubSeq(code, 1, Len(code) - 1) =
                   <<LocalGet(t, localsStack[i].lv), RefDecNoexcept(t)>>
            /\ Continues(code[Len(code)], i)

ChainInv == CodeInv /\ \A i \in 1..Len(localsStack) : ChainAt(i)

-----------------------------------------------------------------------------
(* A cleanup block is finished. *)
LEMMA ContinuesOp ==
  ASSUME NEW ins, NEW i, Continues(ins, i)
  PROVE  ins.op \in {"ResumeUnwind", "Jump"}
<1>1. ResumeUnwind.op = "ResumeUnwind" BY DEF ResumeUnwind, Ins
<1>2. \A b : Jump(b).op = "Jump" BY DEF Jump, Ins
<1>3. ins = ResumeUnwind \/ \E b : ins = Jump(b) BY DEF Continues
<1> QED BY <1>1, <1>2, <1>3

LEMMA ChainTerminated ==
  ASSUME NEW code \in Seq(Instruction), NEW i, NEW x, NEW y,
         SubSeq(code, 1, Len(code) - 1) = <<x, y>>,
         Continues(code[Len(code)], i)
  PROVE  Terminated(code)
<1>1. Len(code) \in Nat BY LenProperties
<1>2. code # <<>>
  <2>1. SUFFICES ASSUME code = <<>> PROVE FALSE OBVIOUS
  <2>2. Len(code) = 0 BY <2>1
  <2>3. SubSeq(code, 1, 0 - 1) = <<>> BY <2>1
  <2> QED BY <2>2, <2>3
<1>3. code[Len(code)].op \in {"ResumeUnwind", "Jump"}
  BY ContinuesOp
<1> QED BY <1>2, <1>3 DEF Terminated, Terminator

(* How the chain goes on depends on the older entries only. *)
LEMMA ContinuesLemma ==
  ASSUME NEW n \in Nat, \A j \in 1..n : localsStack'[j] = localsStack[j],
         NEW i \in 1..n + 1, NEW ins
  PROVE  Continues(ins, i)' <=> Continues(ins, i)
<1>1. \A j \in 1..i - 1 : localsStack'[j] = localsStack[j] OBVIOUS
<1>2. Older(i)' = Older(i) BY <1>1 DEF Older
<1>3. \A j \in Older(i) : localsStack'[j] = localsStack[j] BY <1>1 DEF Older
<1> QED BY <1>2, <1>3 DEF Continues

(* The entries that stay keep their place in the chain. *)
LEMMA ChainStays ==
  ASSUME ChainInv, Extended(blocks'), NEW n \in 0..Len(localsStack),
         tempCount' \in Nat, tempCount <= tempCount',
         \A j \in 1..n : localsStack'[j] = localsStack[j]
  PROVE  \A i \in 1..n : ChainAt(i)'
<1> SUFFICES ASSUME NEW i \in 1..n, localsStack[i].lv # NoName
             PROVE  ChainAt(i)'
  BY DEF ChainAt
<1> DEFINE b == localsStack[i].b
<1>1. Len(localsStack) \in Nat /\ Len(blocks) \in Nat /\ tempCount \in Nat
  BY LenProperties DEF ChainInv, CodeInv, CodeTypeOK, TempInv, TempTypeOK
<1>2. i \in 1..Len(localsStack) BY <1>1
<1>3. ChainAt(i) BY <1>2 DEF ChainInv
<1>4. b \in 1..Len(blocks)
  <2>1. localsStack[i] \in Entry
    BY <1>2, ElementOfSeq DEF ChainInv, CodeInv, CodeTypeOK, Entry
  <2> QED BY <1>1, <1>3, <2>1 DEF ChainAt, Entry, NoBlock
<1>5. blocks[b] \in Seq(Instruction)
  BY <1>4, ElementOfSeq DEF ChainInv, CodeInv, CodeTypeOK
<1>6. blocks'[b] = blocks[b]
  <2>1. Terminated(blocks[b]) BY <1>3, <1>5, ChainTerminated DEF ChainAt
  <2> QED BY <1>4, <2>1 DEF Extended, isTerminated
<1>7. localsStack'[i] = localsStack[i] OBVIOUS
<1>8. \A ins : Continues(ins, i)' <=> Continues(ins, i)
  <2>1. n \in Nat /\ i \in 1..n + 1 BY <1>1
  <2> QED BY <2>1, ContinuesLemma
<1>9. 1..tempCount \subseteq 1..tempCount' BY <1>1
<1> QED BY <1>3, <1>6, <1>7, <1>8, <1>9 DEF ChainAt
(* The block where cleanup code continues is the one Continues() names.    *)
LEMMA NearestContinues ==
  ASSUME localsStack \in Seq(Entry), NEW ls \in Seq(Entry),
         \A j \in 1..Len(ls) : ls[j] = localsStack[j]
  PROVE  Continues(LeaveCleanup(NearestCleanup(ls)), Len(ls) + 1)
<1> DEFINE n == Len(ls)
           I == {i \in 1..n : ls[i].b # NoBlock}
<1>1. n \in Nat BY LenProperties
<1>2. Older(n + 1) = I
  <2>1. (n + 1) - 1 = n BY <1>1
  <2> QED BY <2>1 DEF Older
<1>3. CASE I = {} BY <1>2, <1>3 DEF NearestCleanup, LeaveCleanup, Continues
<1>4. CASE I # {}
  <2>1. \E x \in I : \A y \in I : x >= y BY <1>1, <1>4, IndexMaximum
  <2>2. Max(I) \in I /\ \A y \in I : Max(I) >= y BY <2>1 DEF Max
  <2>3. NearestCleanup(ls) = ls[Max(I)].b BY <1>4 DEF NearestCleanup
  <2> DEFINE m == Max(I)
  <2> HIDE DEF m
  <2>4. m \in I /\ \A y \in I : y <= m BY <2>2 DEF m
  <2>5. LeaveCleanup(NearestCleanup(ls)) = Jump(localsStack[m].b)
    BY <2>3, <2>4 DEF LeaveCleanup, m
  <2> QED BY <1>2, <1>4, <2>4, <2>5 DEF Continues
<1> QED BY <1>3, <1>4

(* The number of temporaries only grows. *)
LEMMA TempCountGrows ==
  ASSUME TempInv, [Next]_vars
  PROVE  tempCount' \in Nat /\ tempCount <= tempCount'
<1>1. tempCount \in Nat BY DEF TempInv, TempTypeOK
<1>2. CASE UNCHANGED tempCount BY <1>1, <1>2
<1>3. CASE tempCount' = tempCount + 1 BY <1>1, <1>3
<1>4. tempCount' \in {tempCount, tempCount + 1}
  <2>1. CASE UNCHANGED vars BY <2>1 DEF vars, builderVars
  <2>2. CASE DeclareTemp BY <2>2 DEF DeclareTemp, NewTemp, getFreeTemp
  <2>3. CASE Enter BY <2>3 DEF Enter, WrapTemp
  <2>4. CASE Disown BY <2>4 DEF Disown, derefDone, builderVars
  <2>5. CASE Leave BY <2>5 DEF Leave, DestroyTemp, NotImplemented
  <2>6. CASE OwnReference BY <2>6 DEF OwnReference, derefNeeded
  <2>7. CASE Consume BY <2>7 DEF Consume, derefDone, builderVars
  <2>8. CASE Destroy BY <2>8 DEF Destroy, DestroyTemp, NotImplemented
  <2>9. CASE Emit BY <2>9 DEF Emit, Create, NotImplemented
  <2>10. CASE EmitInvoke BY <2>10 DEF EmitInvoke, CreateInvoke, NotImplemented
  <2>11. CASE LockLValue BY <2>11 DEF LockLValue, OpenLValue, NotImplemented
  <2>12. CASE UnlockLValue BY <2>12 DEF UnlockLValue, CloseLValue, NotImplemented
  <2>13. CASE DeclareLocal BY <2>13 DEF DeclareLocal, localsPush, ScratchTemp
  <2>14. CASE AddBlock BY <2>14 DEF AddBlock, createBlock
  <2>15. CASE SwitchBlock BY <2>15 DEF SwitchBlock, setCurrentBlock
  <2>16. CASE EmitJump BY <2>16 DEF EmitJump, Create, NotImplemented
  <2>17. CASE EmitBranch BY <2>17 DEF EmitBranch, Create, NotImplemented
  <2>18. CASE EmitRet BY <2>18 DEF EmitRet, CreateRet, NotImplemented
  <2>19. CASE OpenScope BY <2>19 DEF OpenScope, PushMarker
  <2>20. CASE CloseScope BY <2>20 DEF CloseScope, PopMarker
  <2>21. CASE LeaveScope BY <2>21 DEF LeaveScope, PopStep, ScratchTemp
  <2>22. CASE ReleaseLocal BY <2>22 DEF ReleaseLocal, RetStep, ScratchTemp
  <2>23. CASE Return BY <2>23 DEF Return, RetDone
  <2>24. CASE Abandon BY <2>24 DEF Abandon, NotImplemented
  <2> QED BY <2>1, <2>2, <2>3, <2>4, <2>5, <2>6, <2>7, <2>8, <2>9, <2>10,
             <2>11, <2>12, <2>13, <2>14, <2>15, <2>16, <2>17, <2>18, <2>19,
             <2>20, <2>21, <2>22, <2>23, <2>24 DEF Next
<1> QED BY <1>2, <1>3, <1>4

(* The stack of locals changes in three actions only. *)
LEMMA StackSteps ==
  ASSUME CodeInv, VariableAssumption, ClientAssumption, [Next]_vars
  PROVE  \/ localsStack' = localsStack
         \/ DeclareLocal \/ OpenScope \/ LeaveScope
<1>1. CASE DeclareTemp \/ Enter \/ Disown \/ OwnReference \/ Consume \/ Abandon
  BY <1>1, TempOnlySteps
<1>2. CASE LockLValue \/ UnlockLValue BY <1>2, LValueSteps
<1>3. CASE \/ Emit \/ EmitInvoke \/ EmitJump \/ EmitBranch \/ Destroy \/ Leave
  BY <1>3, EmitSteps
<1>4. CASE AddBlock \/ SwitchBlock BY <1>4, BlockSteps
<1>5. CASE EmitRet BY <1>5 DEF EmitRet, CreateRet, NotImplemented
<1>6. CASE CloseScope BY <1>6 DEF CloseScope, PopMarker
<1>7. CASE ReleaseLocal BY <1>7 DEF ReleaseLocal, RetStep
<1>8. CASE Return BY <1>8 DEF Return, RetDone
<1>9. CASE UNCHANGED vars BY <1>9 DEF vars, builderVars
<1> QED BY <1>1, <1>2, <1>3, <1>4, <1>5, <1>6, <1>7, <1>8, <1>9 DEF Next

(* A new local variable enters the chain at its end. *)
LEMMA ChainGrows ==
  ASSUME ChainInv, VariableAssumption, DeclareLocal,
         NEW n \in Nat, n = Len(localsStack)
  PROVE  /\ \A j \in 1..n : localsStack'[j] = localsStack[j]
         /\ Len(localsStack') = n + 1
         /\ ChainAt(n + 1)'
<1>1. PICK v \in RefCounted : localsPush(v) BY DEF DeclareLocal
<1>2. PICK get, dec, leave :
         /\ get = LocalGet(FreeTemp, v) /\ dec = RefDecNoexcept(FreeTemp)
         /\ leave = LeaveCleanup(NearestCleanup(localsStack))
  OBVIOUS
<1>3. PICK t, m, e, code :
         /\ t = FreeTemp /\ m = Len(blocks) + 1 /\ e = [lv |-> v, b |-> m]
         /\ code = <<get, dec, leave>>
  OBVIOUS
<1>4. /\ blocks' = Append(blocks, code)
      /\ localsStack' = Append(localsStack, e)
      /\ ScratchTemp
  BY <1>1, <1>2, <1>3 DEF localsPush
<1>5. /\ localsStack \in Seq(Entry) /\ Len(blocks) \in Nat
      /\ blocks \in Seq(Seq(Instruction))
  BY LenProperties DEF ChainInv, CodeInv, CodeTypeOK, Entry
<1>6. get \in Instruction /\ dec \in Instruction /\ leave \in Instruction
  <2>1. FreeTemp \in Nat /\ v \in Name
    BY OperandLemma DEF VariableAssumption, ChainInv
  <2>2. NearestCleanup(localsStack) \in Nat
    BY <1>5, CleanupLemma DEF ChainInv, CodeInv
  <2> QED BY <1>2, <2>1, <2>2, CodeLemma
<1>7. /\ localsStack'[n + 1] = e /\ Len(localsStack') = n + 1
      /\ \A j \in 1..n : localsStack'[j] = localsStack[j]
  BY <1>4, <1>5
<1>8. Continues(leave, n + 1)'
  <2>1. Continues(leave, n + 1) BY <1>2, <1>5, NearestContinues
  <2>2. n + 1 \in 1..n + 1 OBVIOUS
  <2> QED BY <1>7, <2>1, <2>2, ContinuesLemma
<1>9. t \in 1..tempCount'
  BY <1>3, <1>4, ScratchLemma
     DEF ChainInv, CodeInv, TempInv, TempTypeOK, TempsExclusive
<1>10. /\ code \in Seq(Instruction) /\ code[Len(code)] = leave
       /\ SubSeq(code, 1, Len(code) - 1) = <<get, dec>>
  <2>1. code = <<get, dec, leave>> BY <1>3
  <2>2. /\ code \in Seq(Instruction) /\ Len(code) = 3
        /\ code[1] = get /\ code[2] = dec /\ code[3] = leave
    BY <1>6, <2>1
  <2>3. SubSeq(code, 1, Len(code) - 1) = <<get, dec>> BY <2>2, TripleLemma
  <2> QED BY <2>2, <2>3
<1>11. blocks'[m] = code BY <1>3, <1>4, <1>5, <1>10, AppendProperties
<1>12. m # NoBlock BY <1>3, <1>5 DEF NoBlock
<1>13. get = LocalGet(t, v) /\ dec = RefDecNoexcept(t) BY <1>2, <1>3
<1>14. e.b = m /\ e.lv = v BY <1>3
<1>15. ChainAt(n + 1)'
  BY <1>7, <1>8, <1>9, <1>10, <1>11, <1>12, <1>13, <1>14 DEF ChainAt
<1> QED BY <1>7, <1>15

-----------------------------------------------------------------------------
(* ChainInv holds in every reachable state. *)

LEMMA ChainNext ==
  ASSUME ChainInv, VariableAssumption, ClientAssumption, [Next]_vars
  PROVE  ChainInv'
<1>1. CodeInv' /\ Extended(blocks') BY CodeNext DEF ChainInv
<1>2. tempCount' \in Nat /\ tempCount <= tempCount'
  BY TempCountGrows DEF ChainInv, CodeInv
<1>3. PICK n \in Nat : n = Len(localsStack)
  BY LenProperties DEF ChainInv, CodeInv, CodeTypeOK
<1>4. localsStack \in Seq(Entry) BY DEF ChainInv, CodeInv, CodeTypeOK, Entry
<1>5. \A i \in 1..Len(localsStack') : ChainAt(i)'
  <2>1. CASE localsStack' = localsStack
    BY <1>1, <1>2, <1>3, <2>1, ChainStays
  <2>2. CASE DeclareLocal
    <3>1. /\ \A j \in 1..n : localsStack'[j] = localsStack[j]
          /\ Len(localsStack') = n + 1
          /\ ChainAt(n + 1)'
      BY <1>3, <2>2, ChainGrows
    <3>2. \A i \in 1..n : ChainAt(i)' BY <1>1, <1>2, <1>3, <3>1, ChainStays
    <3> QED BY <3>1, <3>2
  <2>3. CASE OpenScope
    <3>1. PICK e : e.lv = NoName /\ localsStack' = Append(localsStack, e)
      BY <2>3 DEF OpenScope, PushMarker
    <3>2. /\ Len(localsStack') = n + 1 /\ localsStack'[n + 1] = e
          /\ \A j \in 1..n : localsStack'[j] = localsStack[j]
      BY <1>3, <1>4, <3>1
    <3>3. \A i \in 1..n : ChainAt(i)' BY <1>1, <1>2, <1>3, <3>2, ChainStays
    <3>4. ChainAt(n + 1)' BY <3>1, <3>2 DEF ChainAt
    <3> QED BY <3>2, <3>3, <3>4
  <2>4. CASE LeaveScope
    <3>1. localsStack' = Front(localsStack) /\ localsStack # <<>>
      <4>1. localsStack' = Front(localsStack) /\ loop.kind = "pop"
        BY <2>4 DEF LeaveScope, PopStep
      <4>2. n # 0 BY <1>3, <4>1 DEF ChainInv, CodeInv, LoopOK
      <4> QED BY <1>3, <4>1, <4>2
    <3>2. /\ Len(localsStack') = n - 1 /\ n # 0
          /\ \A j \in 1..n - 1 : localsStack'[j] = localsStack[j]
      BY <1>3, <1>4, <3>1, FrontLemma
    <3>3. n - 1 \in 0..Len(localsStack) BY <1>3, <3>2
    <3> QED BY <1>1, <1>2, <3>2, <3>3, ChainStays
  <2> QED BY <2>1, <2>2, <2>3, <2>4, StackSteps DEF ChainInv
<1> QED BY <1>1, <1>5 DEF ChainInv

LEMMA ChainInvariant == Spec => []ChainInv
<1>1. Init => ChainInv
  <2>1. Init => localsStack = <<>> BY DEF Init, BuilderInit
  <2> QED BY <2>1, CodeInit DEF ChainInv
<1>2. ChainInv /\ [Next]_vars => ChainInv'
  BY ChainNext, VariableAssumption, ClientAssumption
<1> QED BY <1>1, <1>2, PTL DEF Spec

(* The cleanup blocks of the local variables in scope are a chain from the *)
(* youngest to the oldest, each releasing its own variable: an exception   *)
(* that enters it anywhere releases exactly the variables pushed before    *)
(* (localsPush), whatever scopes, returns and evaluations are in between.  *)
THEOREM LocalsAreReleasedInOrder == Spec => []CleanupChain
<1>1. ChainInv => CleanupChain BY DEF ChainInv, ChainAt, CleanupChain
<1> QED BY <1>1, ChainInvariant, PTL

-----------------------------------------------------------------------------
(* Landing pads. *)

(* The code of a landing pad, for the references and the lock that are     *)
(* there after the step, and the entries ls of the stack below the one     *)
(* that is released, if any.                                               *)
LEMMA PadCleansUp ==
  ASSUME CodeInv, CodeInv', VariableAssumption, UNCHANGED unlockLValue,
         NEW dt, dt = derefTemps',
         NEW ls \in Seq(Entry), NEW n \in Nat, n = Len(ls),
         \A j \in 1..n : ls[j] = localsStack[j] /\ localsStack'[j] = localsStack[j],
         NEW code, code = LandingPadCode(ls, dt)
  PROVE  CleansUp(code, n)'
<1> DEFINE unlock  == IF HasLock THEN <<GlobalWriteUnlock(unlockLValue)>> ELSE <<>>
           release == [i \in 1..Len(dt) |-> RefDecNoexcept(dt[Len(dt) + 1 - i])]
<1>1. PICK un, rel, leave : un = unlock /\ rel = release
                            /\ leave = LeaveCleanup(NearestCleanup(ls))
  OBVIOUS
<1>2. code = (un \o rel) \o <<leave>> BY <1>1 DEF LandingPadCode
<1>3. /\ dt \in Seq(Nat) /\ Len(dt) \in Nat /\ IsInjective(dt)
      /\ DOMAIN dt = 1..Len(dt)
      /\ ToSet(dt) = {helpers'[h].temp : h \in Owners'}
      /\ ToSet(dt) = {dt[i] : i \in 1..Len(dt)}
  <2>1. derefTemps' \in Seq(1..tempCount') BY DEF CodeInv, TempInv, TempTypeOK
  <2>2. 1..tempCount' \subseteq Nat OBVIOUS
  <2>3. dt \in Seq(Nat) BY <2>1, <2>2, SeqMonotonic
  <2>4. IsInjective(dt) /\ ToSet(dt) = {helpers'[h].temp : h \in Owners'}
    BY DEF CodeInv, TempInv, DerefExact
  <2>5. Len(dt) \in Nat /\ DOMAIN dt = 1..Len(dt) BY <2>3, LenProperties
  <2>6. ToSet(dt) = {dt[i] : i \in 1..Len(dt)} BY <2>3, ToSetLemma
  <2> QED BY ONLY <2>3, <2>4, <2>5, <2>6
<1>4. leave \in Instruction
  <2>1. NearestCleanup(ls) \in Nat
    BY CleanupLemma, LenProperties DEF CodeInv, CodeTypeOK
  <2> QED BY <1>1, <2>1, CodeLemma DEF Name
<1>5. /\ un \in Seq(Instruction) /\ IsInjective(un)
      /\ ToSet(un) = {GlobalWriteUnlock(g) : g \in {unlockLValue} \cap Globals}
  <2>1. CASE HasLock
    <3>1. unlockLValue \in Name BY <2>1 DEF HasLock, VariableAssumption, Name
    <3>2. PICK e : e = GlobalWriteUnlock(unlockLValue) OBVIOUS
    <3>3. e \in Instruction BY <3>1, <3>2, CodeLemma
    <3>4. un = <<e>> BY <1>1, <2>1, <3>2
    <3>5. {unlockLValue} \cap Globals = {unlockLValue} BY <2>1 DEF HasLock
    <3>6. ToSet(un) = {e} /\ IsInjective(un) BY <3>4, SingletonLemma
    <3> QED BY <3>2, <3>3, <3>4, <3>5, <3>6
  <2>2. CASE ~HasLock
    <3>1. un = <<>> BY <1>1, <2>2
    <3>2. {unlockLValue} \cap Globals = {} BY <2>2 DEF HasLock
    <3>3. ToSet(un) = {} /\ IsInjective(un) /\ un \in Seq(Instruction)
      BY <3>1, EmptyLemma
    <3> QED BY <3>2, <3>3
  <2> QED BY <2>1, <2>2
<1>6. /\ rel \in Seq(Instruction) /\ IsInjective(rel)
      /\ ToSet(rel) = {RefDecNoexcept(t) : t \in ToSet(dt)}
  <2>1. /\ \A t \in Nat : RefDecNoexcept(t) \in Instruction
        /\ \A t, u \in Nat : RefDecNoexcept(t) = RefDecNoexcept(u) => t = u
    <3>1. \A t \in Nat : RefDecNoexcept(t) \in Instruction
      BY CodeLemma DEF Name
    <3>2. \A t : RefDecNoexcept(t).args[1] = t BY DEF RefDecNoexcept, Ins
    <3> QED BY <3>1, <3>2
  <2>2. \A i \in 1..Len(dt) : Len(dt) + 1 - i \in 1..Len(dt) /\ dt[i] \in Nat
    BY <1>3, ElementOfSeq
  <2>3. \A i \in 1..Len(dt) : rel[i] = RefDecNoexcept(dt[Len(dt) + 1 - i])
    BY <1>1
  <2>4. rel \in [1..Len(dt) -> Instruction]
    <3>1. \A i \in 1..Len(dt) :
            RefDecNoexcept(dt[Len(dt) + 1 - i]) \in Instruction
      BY <2>1, <2>2
    <3> QED BY <1>1, <3>1
  <2>5. rel \in Seq(Instruction) /\ DOMAIN rel = 1..Len(dt) /\ Len(rel) = Len(dt)
    BY <1>3, <2>4, SeqDef, LenProperties
  <2>6. IsInjective(rel)
    <3> SUFFICES ASSUME NEW i \in 1..Len(dt), NEW j \in 1..Len(dt),
                        rel[i] = rel[j]
                 PROVE  i = j
      BY <2>5 DEF IsInjective
    <3>1. dt[Len(dt) + 1 - i] = dt[Len(dt) + 1 - j] BY SMTT(30), <2>1, <2>2, <2>3
    <3>2. Len(dt) + 1 - i = Len(dt) + 1 - j
      BY <1>3, <2>2, <3>1 DEF IsInjective
    <3> QED BY <1>3, <3>2
  <2>7. ToSet(rel) = {rel[i] : i \in 1..Len(dt)} BY <2>5, ToSetLemma
  <2>8. ASSUME NEW i \in 1..Len(dt)
        PROVE  RefDecNoexcept(dt[i]) \in ToSet(rel)
    <3>1. rel[Len(dt) + 1 - i] = RefDecNoexcept(dt[i])
      <4>1. Len(dt) + 1 - (Len(dt) + 1 - i) = i BY <1>3
      <4> QED BY <2>2, <2>3, <4>1
    <3> QED BY <2>2, <2>7, <3>1
  <2>9. ASSUME NEW i \in 1..Len(dt)
        PROVE  \E t \in ToSet(dt) : rel[i] = RefDecNoexcept(t)
    <3>1. Len(dt) + 1 - i \in 1..Len(dt) BY <2>2
    <3>2. dt[Len(dt) + 1 - i] \in ToSet(dt) BY <1>3, <3>1
    <3> QED BY <2>3, <3>2
  <2>10. ToSet(rel) = {RefDecNoexcept(t) : t \in ToSet(dt)}
    <3>1. \A t \in ToSet(dt) : RefDecNoexcept(t) \in ToSet(rel)
      BY <1>3, <2>8
    <3>2. \A e \in ToSet(rel) : \E t \in ToSet(dt) : e = RefDecNoexcept(t)
      BY <2>7, <2>9
    <3> QED BY <3>1, <3>2
  <2> QED BY <2>5, <2>6, <2>10
<1>7. /\ \A e \in ToSet(un) : e.op = "GlobalWriteUnlock"
      /\ \A e \in ToSet(rel) : e.op = "RefDecNoexcept"
  BY <1>5, <1>6 DEF GlobalWriteUnlock, RefDecNoexcept, Ins
<1>8. PICK body : body = un \o rel OBVIOUS
<1>9. /\ body \in Seq(Instruction) /\ IsInjective(body)
      /\ ToSet(body) = ToSet(un) \cup ToSet(rel)
  BY <1>5, <1>6, <1>7, <1>8, ConcatLemma
<1>10. Len(body) = Cardinality(ToSet(body)) BY <1>9, InjectiveCardinality
<1>11. SubSeq(code, 1, Len(code) - 1) = body /\ code[Len(code)] = leave
  BY <1>2, <1>4, <1>8, <1>9, BodyLemma
<1>12. {ins \in ToSet(body) : ins.op = "RefDecNoexcept"} =
          {RefDecNoexcept(helpers'[h].temp) : h \in Owners'}
  <2>1. {ins \in ToSet(body) : ins.op = "RefDecNoexcept"} = ToSet(rel)
    BY <1>7, <1>9
  <2>2. {RefDecNoexcept(t) : t \in {helpers'[h].temp : h \in Owners'}} =
           {RefDecNoexcept(helpers'[h].temp) : h \in Owners'}
    OBVIOUS
  <2> QED BY <1>3, <1>6, <2>1, <2>2
<1>13. {ins \in ToSet(body) : ins.op # "RefDecNoexcept"} =
          {GlobalWriteUnlock(g) : g \in {unlockLValue'} \cap Globals}
  BY <1>5, <1>7, <1>9
<1>14. Continues(leave, n + 1)'
  <2>1. localsStack \in Seq(Entry) BY DEF CodeInv, CodeTypeOK, Entry
  <2>2. Continues(leave, n + 1) BY <1>1, <2>1, NearestContinues
  <2>3. n + 1 \in 1..n + 1 OBVIOUS
  <2> QED BY <2>2, <2>3, ContinuesLemma
<1> QED BY <1>10, <1>11, <1>12, <1>13, <1>14 DEF CleansUp

-----------------------------------------------------------------------------
(* The instructions a step adds. *)

Scope == IF loop.kind = "ret" THEN loop.i ELSE Len(localsStack)

(* What LandingPadsExact says of one step. *)
NewPadsExact ==
    \A b \in 1..Len(blocks) : \A i \in Len(blocks[b]) + 1 .. Len(blocks'[b]) :
        LandingPadExact(blocks[b][i], Scope)'

(* An instruction that cannot throw needs no landing pad. *)
Plain(ins) == ins.lpad = NoBlock /\ ins.op # "RefDec"

(* What a function that returns will do last needs none. *)
PadInv == ChainInv /\ Plain(loop.ins)

LEMMA PlainExact ==
  ASSUME NEW ins, Plain(ins), NEW n
  PROVE  LandingPadExact(ins, n)'
BY DEF LandingPadExact, Plain

LEMMA CodePlain ==
  ASSUME NEW t, NEW v, NEW b, NEW c
  PROVE  /\ Plain(LocalGet(t, v)) /\ Plain(GlobalWriteLock(v))
         /\ Plain(GlobalWriteUnlock(v)) /\ Plain(Jump(b))
         /\ Plain(Branch(t, b, c)) /\ Plain(Ret(t)) /\ Plain(RetVoid)
BY DEF Plain, LocalGet, GlobalWriteLock, GlobalWriteUnlock, Jump, Branch, Ret,
       RetVoid, Ins, NoBlock

LEMMA NothingAdded ==
  ASSUME CodeTypeOK, \A b \in 1..Len(blocks) : blocks'[b] = blocks[b]
  PROVE  NewPadsExact
<1>1. \A b \in 1..Len(blocks) : Len(blocks[b]) \in Nat
  BY ElementOfSeq, LenProperties DEF CodeTypeOK
<1> SUFFICES ASSUME NEW b \in 1..Len(blocks),
                    NEW i \in Len(blocks[b]) + 1 .. Len(blocks'[b])
             PROVE  FALSE
  BY DEF NewPadsExact
<1> QED BY <1>1

(* Code added to the current block, after blocks that may have been added. *)
LEMMA CodeAdded ==
  ASSUME CodeTypeOK, NEW bs \in Seq(Seq(Instruction)), Len(blocks) <= Len(bs),
         \A b \in 1..Len(blocks) : bs[b] = blocks[b],
         NEW add \in Seq(Instruction),
         blocks' = AppendTo(bs, currentBlock, add),
         NEW n, n = Scope',
         \A k \in 1..Len(add) : LandingPadExact(add[k], n)'
  PROVE  NewPadsExact
<1> SUFFICES ASSUME NEW b \in 1..Len(blocks),
                    NEW i \in Len(blocks[b]) + 1 .. Len(blocks'[b])
             PROVE  LandingPadExact(blocks[b][i], Scope)'
  BY DEF NewPadsExact
<1>1. /\ Len(blocks) \in Nat /\ Len(bs) \in Nat /\ currentBlock \in 1..Len(bs)
      /\ b \in 1..Len(bs) /\ currentBlock \in 1..Len(blocks)
  BY SMTT(30), LenProperties DEF CodeTypeOK
<1>2. /\ blocks'[currentBlock] = bs[currentBlock] \o add
      /\ \A x \in 1..Len(bs) : x # currentBlock => blocks'[x] = bs[x]
  BY <1>1, AppendToLemma
<1>3. blocks[b] \in Seq(Instruction) /\ Len(blocks[b]) \in Nat
  BY ElementOfSeq, LenProperties DEF CodeTypeOK
<1>4. b = currentBlock
  <2>1. SUFFICES ASSUME b # currentBlock PROVE FALSE OBVIOUS
  <2>2. blocks'[b] = blocks[b] BY <1>1, <1>2, <2>1
  <2> QED BY <1>3, <2>2
<1>5. blocks'[b] = blocks[b] \o add BY <1>1, <1>2, <1>4
<1>6. PICK k \in 1..Len(add) : blocks'[b][i] = add[k]
  <2>1. Len(add) \in Nat BY LenProperties
  <2>2. /\ Len(blocks[b] \o add) = Len(blocks[b]) + Len(add)
        /\ \A x \in 1..Len(blocks[b]) + Len(add) :
              (blocks[b] \o add)[x] = IF x <= Len(blocks[b]) THEN blocks[b][x]
                                      ELSE add[x - Len(blocks[b])]
    BY <1>3, ConcatProperties
  <2>3. i \in 1..Len(blocks[b]) + Len(add) /\ i > Len(blocks[b])
    BY <1>3, <1>5, <2>1, <2>2
  <2>4. i - Len(blocks[b]) \in 1..Len(add) BY <1>3, <2>1, <2>3
  <2>5. blocks'[b][i] = add[i - Len(blocks[b])] BY <1>3, <1>5, <2>2, <2>3
  <2> QED BY <2>4, <2>5
<1>7. PICK ins : ins = add[k] OBVIOUS
<1>8. LandingPadExact(ins, n)' BY <1>7
<1>9. blocks'[b][i] = ins BY <1>6, <1>7
<1> QED BY <1>8, <1>9 DEF LandingPadExact

(* An instruction that may throw, with the landing pad it gets.            *)
LEMMA ThrowingAdded ==
  ASSUME CodeInv, CodeInv', VariableAssumption, UNCHANGED unlockLValue,
         NEW dt, dt = derefTemps',
         NEW ls \in Seq(Entry), NEW n \in Nat, n = Len(ls), n = Scope',
         \A j \in 1..n : ls[j] = localsStack[j] /\ localsStack'[j] = localsStack[j],
         NEW code \in Seq(Instruction), \A k \in 1..Len(code) : Plain(code[k]),
         NEW ins \in Instruction,
         blocks' = BlocksWithThrowing(code, ins, ls, dt)
  PROVE  NewPadsExact
<1>1. PICK pad, bs, c : /\ pad = LandingPad(ls, dt)
                        /\ bs = BlocksWithLandingPad(ls, dt)
                        /\ c = LandingPadCode(ls, dt)
  OBVIOUS
<1>2. PICK new, add : new = WithPad(ins, pad) /\ add = code \o <<new>> OBVIOUS
<1>3. /\ blocks \in Seq(Seq(Instruction)) /\ Len(blocks) \in Nat
      /\ currentBlock \in 1..Len(blocks)
  BY LenProperties DEF CodeInv, CodeTypeOK
<1>4. dt \in Seq(Nat)
  <2>1. derefTemps' \in Seq(1..tempCount') BY DEF CodeInv, TempInv, TempTypeOK
  <2>2. 1..tempCount' \subseteq Nat OBVIOUS
  <2> QED BY <2>1, <2>2, SeqMonotonic
<1>5. c \in Seq(Instruction) BY <1>1, <1>4, PadCodeLemma DEF CodeInv
<1>6. /\ bs \in Seq(Seq(Instruction)) /\ Len(blocks) <= Len(bs)
      /\ \A b \in 1..Len(blocks) : bs[b] = blocks[b]
      /\ NeedsLandingPad(ls, dt) =>
            Len(bs) = Len(blocks) + 1 /\ bs[Len(blocks) + 1] = c
  <2>1. CASE NeedsLandingPad(ls, dt)
    <3>1. bs = Append(blocks, c) BY <1>1, <2>1 DEF BlocksWithLandingPad
    <3> QED BY <1>3, <1>5, <3>1, AppendProperties
  <2>2. CASE ~NeedsLandingPad(ls, dt)
    BY <1>1, <1>3, <2>2 DEF BlocksWithLandingPad
  <2> QED BY <2>1, <2>2
<1>7. pad \in Nat BY <1>1, <1>3 DEF LandingPad, NoBlock
<1>8. new \in Instruction /\ new.op = ins.op /\ new.lpad = pad
  BY <1>2, <1>7, WithPadLemma DEF WithPad
<1>9. /\ add \in Seq(Instruction) /\ Len(add) = Len(code) + 1
      /\ add[Len(code) + 1] = new /\ Len(code) \in Nat
      /\ \A k \in 1..Len(code) : add[k] = code[k]
  BY <1>2, <1>8, BodyLemma, LenProperties
<1>10. blocks' = AppendTo(bs, currentBlock, add)
  BY <1>1, <1>2 DEF BlocksWithThrowing
<1>11. LandingPadExact(new, n)'
  <2>1. CASE NeedsLandingPad(ls, dt)
    <3>1. pad = Len(blocks) + 1 BY <1>1, <2>1 DEF LandingPad
    <3>2. pad \in 1..Len(bs) /\ pad # currentBlock /\ currentBlock \in 1..Len(bs)
      BY <1>3, <1>6, <2>1, <3>1
    <3>3. blocks'[pad] = c
      <4>1. AppendTo(bs, currentBlock, add)[pad] = bs[pad]
        BY <1>6, <1>9, <3>2, AppendToLemma
      <4> QED BY <1>6, <1>10, <2>1, <3>1, <4>1
    <3>4. CleansUp(c, n)' BY <1>1, PadCleansUp
    <3>5. blocks'[new.lpad] = c /\ new.lpad # NoBlock
      BY <1>3, <1>8, <3>1, <3>3 DEF NoBlock
    <3> QED BY <3>4, <3>5 DEF LandingPadExact, CleansUp
  <2>2. CASE ~NeedsLandingPad(ls, dt)
    <3>1. pad = NoBlock /\ dt = <<>> /\ ~HasLock /\ NearestCleanup(ls) = NoBlock
      BY <1>1, <2>2 DEF LandingPad, NeedsLandingPad
    <3>2. Owners' = {}
      <4>1. ToSet(derefTemps') = {helpers'[h].temp : h \in Owners'}
        BY DEF CodeInv, TempInv, DerefExact
      <4>2. ToSet(derefTemps') = {} BY <3>1, EmptyLemma
      <4> QED BY <4>1, <4>2
    <3>3. unlockLValue' \notin Globals BY <3>1 DEF HasLock
    <3>4. Older(n + 1)' = {}
      <4> DEFINE I == {i \in 1..Len(ls) : ls[i].b # NoBlock}
      <4>1. I = {}
        <5>1. SUFFICES ASSUME I # {} PROVE FALSE OBVIOUS
        <5>2. \E x \in I : \A y \in I : x >= y BY <5>1, IndexMaximum
        <5>3. Max(I) \in I BY <5>2 DEF Max
        <5>4. NearestCleanup(ls) = ls[Max(I)].b BY <5>1 DEF NearestCleanup
        <5> QED BY <3>1, <5>3, <5>4
      <4>2. \A j \in 1..(n + 1) - 1 : localsStack'[j].b = NoBlock BY <4>1
      <4> QED BY <4>2 DEF Older
    <3> QED BY <1>8, <3>1, <3>2, <3>3, <3>4 DEF LandingPadExact
  <2> QED BY <2>1, <2>2
<1>12. \A k \in 1..Len(add) : LandingPadExact(add[k], n)'
  <2> SUFFICES ASSUME NEW k \in 1..Len(add) PROVE LandingPadExact(add[k], n)'
    OBVIOUS
  <2>1. PICK x : x = add[k] OBVIOUS
  <2>2. CASE k = Len(code) + 1 BY <1>9, <1>11, <2>1, <2>2
  <2>3. CASE k \in 1..Len(code)
    <3>1. Plain(x) BY <1>9, <2>1, <2>3
    <3>2. LandingPadExact(x, n)' BY <3>1, PlainExact
    <3> QED BY <2>1, <3>2
  <2> QED BY <1>9, <2>2, <2>3
<1> QED BY <1>6, <1>9, <1>10, <1>12, CodeAdded DEF CodeInv

(* An instruction that needs no landing pad. *)
LEMMA PlainAdded ==
  ASSUME CodeTypeOK, NEW ins \in Instruction, Plain(ins),
         blocks' = AppendTo(blocks, currentBlock, <<ins>>)
  PROVE  NewPadsExact
<1>1. PICK add, n, bs : add = <<ins>> /\ n = Scope' /\ bs = blocks OBVIOUS
<1>2. add \in Seq(Instruction) /\ Len(add) = 1 /\ add[1] = ins BY <1>1
<1>3. /\ bs \in Seq(Seq(Instruction)) /\ Len(blocks) <= Len(bs)
      /\ \A b \in 1..Len(blocks) : bs[b] = blocks[b]
  BY <1>1, LenProperties DEF CodeTypeOK
<1>4. LandingPadExact(ins, n)' BY PlainExact
<1>5. \A k \in 1..Len(add) : LandingPadExact(add[k], n)' BY <1>2, <1>4
<1>6. blocks' = AppendTo(bs, currentBlock, add) BY <1>1
<1>7. n = Scope' BY <1>1
<1> QED BY <1>2, <1>3, <1>5, <1>6, <1>7, CodeAdded

-----------------------------------------------------------------------------
(* One lemma per kind of action. *)

LEMMA QuietPads ==
  ASSUME CodeInv, VariableAssumption, [Next]_vars,
         \/ UNCHANGED vars \/ DeclareTemp \/ Enter \/ Disown \/ OwnReference
         \/ Consume \/ Abandon \/ AddBlock \/ SwitchBlock \/ DeclareLocal
         \/ OpenScope \/ CloseScope \/ EmitRet
  PROVE  NewPadsExact
<1>1. blocks \in Seq(Seq(Instruction)) BY DEF CodeInv, CodeTypeOK
<1>2. CASE UNCHANGED blocks BY <1>2, NothingAdded DEF CodeInv
<1>3. CASE AddBlock
  <2>1. blocks' = Append(blocks, <<>>) BY <1>3 DEF AddBlock, createBlock
  <2>2. <<>> \in Seq(Instruction) OBVIOUS
  <2>3. \A b \in 1..Len(blocks) : blocks'[b] = blocks[b]
    BY <1>1, <2>1, <2>2, AppendProperties
  <2> QED BY <2>3, NothingAdded DEF CodeInv
<1>4. CASE DeclareLocal
  <2>1. PICK v \in RefCounted : localsPush(v) BY <1>4 DEF DeclareLocal
  <2>2. PICK x : blocks' = Append(blocks, x) BY <2>1 DEF localsPush
  <2>3. \A b \in 1..Len(blocks) : blocks'[b] = blocks[b] BY <1>1, <2>2
  <2> QED BY <2>3, NothingAdded DEF CodeInv
<1>5. CASE \/ UNCHANGED vars \/ DeclareTemp \/ Enter \/ Disown \/ OwnReference
           \/ Consume \/ Abandon
  <2>1. UNCHANGED blocks BY <1>5, TempOnlySteps DEF vars, builderVars
  <2> QED BY <1>2, <2>1
<1>6. CASE SwitchBlock \/ OpenScope \/ CloseScope
  BY <1>2, <1>6
     DEF SwitchBlock, setCurrentBlock, OpenScope, PushMarker, CloseScope, PopMarker
<1>7. CASE EmitRet BY <1>2, <1>7 DEF EmitRet, CreateRet, NotImplemented
<1> QED BY <1>3, <1>4, <1>5, <1>6, <1>7

LEMMA CreatePads ==
  ASSUME CodeTypeOK, NEW ins \in Instruction, Plain(ins), Create(ins)
  PROVE  NewPadsExact
<1>1. CASE isTerminated BY <1>1, NothingAdded DEF Create, NotImplemented
<1>2. CASE ~isTerminated BY <1>2, PlainAdded DEF Create
<1> QED BY <1>1, <1>2

LEMMA EmitPads ==
  ASSUME CodeInv, CodeInv', VariableAssumption, ClientAssumption,
         Emit \/ EmitInvoke \/ EmitJump \/ EmitBranch
  PROVE  NewPadsExact
<1>0. Len(blocks) \in Nat /\ NoName \in Name
      /\ \A h \in DOMAIN helpers : helpers[h].temp \in Nat
  BY OperandLemma DEF Name
<1>1. CASE Emit
  <2>1. PICK ins \in SimpleCode : Ready /\ Create(ins) BY <1>1 DEF Emit
  <2>2. ins \in Instruction /\ Plain(ins) BY DEF ClientAssumption, Throwing, Plain
  <2> QED BY <2>1, <2>2, CreatePads DEF CodeInv
<1>2. CASE EmitInvoke
  <2>1. PICK ins \in InvokeCode, canThrow \in BOOLEAN :
          Ready /\ CreateInvoke(ins, canThrow)
    BY <1>2 DEF EmitInvoke
  <2>2. ins \in Instruction /\ Plain(ins) BY DEF ClientAssumption, Plain
  <2>3. CASE isTerminated
    BY <2>1, <2>3, NothingAdded DEF CreateInvoke, NotImplemented, CodeInv
  <2>4. CASE ~isTerminated /\ ~canThrow
    BY <2>1, <2>2, <2>4, PlainAdded DEF CreateInvoke, CodeInv
  <2>5. CASE ~isTerminated /\ canThrow
    <3>1. PICK dt, ls, n, none : /\ dt = derefTemps' /\ ls = localsStack
                                 /\ n = Len(localsStack) /\ none = <<>>
      OBVIOUS
    <3>2. /\ blocks' = BlocksWithThrowing(none, ins, ls, dt)
          /\ UNCHANGED <<localsStack, unlockLValue, loop>>
      BY <2>1, <2>5, <3>1 DEF CreateInvoke
    <3>3. ls \in Seq(Entry) /\ n \in Nat
      BY <3>1, OperandLemma, LenProperties
    <3>4. n = Scope' BY <2>1, <3>1, <3>2 DEF Ready, Scope
    <3>5. none \in Seq(Instruction) /\ \A k \in 1..Len(none) : Plain(none[k])
      BY <3>1
    <3>6. \A j \in 1..n : ls[j] = localsStack[j] /\ localsStack'[j] = localsStack[j]
      BY <3>1, <3>2
    <3> QED BY <2>2, <3>1, <3>2, <3>3, <3>4, <3>5, <3>6, ThrowingAdded
  <2> QED BY <2>3, <2>4, <2>5
<1>3. CASE EmitJump
  <2>1. PICK b \in 1..Len(blocks) : Create(Jump(b)) BY <1>3 DEF EmitJump
  <2>2. Jump(b) \in Instruction /\ Plain(Jump(b)) BY <1>0, CodeLemma, CodePlain
  <2> QED BY <2>1, <2>2, CreatePads DEF CodeInv
<1>4. CASE EmitBranch
  <2>1. PICK h \in Own, b \in 1..Len(blocks) - 1 :
          Create(Branch(helpers[h].temp, b, b + 1))
    BY <1>4 DEF EmitBranch
  <2>2. PICK ins : ins = Branch(helpers[h].temp, b, b + 1) OBVIOUS
  <2>3. ins \in Instruction /\ Plain(ins)
    <3>1. helpers[h].temp \in Nat /\ b \in Nat /\ b + 1 \in Nat
      BY <1>0 DEF Own
    <3> QED BY <1>0, <2>2, <3>1, CodeLemma, CodePlain
  <2> QED BY <2>1, <2>2, <2>3, CreatePads DEF CodeInv
<1> QED BY <1>1, <1>2, <1>3, <1>4

LEMMA DestroyPads ==
  ASSUME CodeInv, CodeInv', VariableAssumption, NEW h \in DOMAIN helpers,
         Ready, DestroyTemp(h)
  PROVE  NewPadsExact
<1>1. CASE ~helpers[h].needsDeref \/ isTerminated
  BY <1>1, NothingAdded DEF DestroyTemp, NotImplemented, CodeInv
<1>2. CASE helpers[h].needsDeref /\ ~isTerminated
  <2>1. PICK dt, ls, n, none, dec :
          /\ dt = derefTemps' /\ ls = localsStack
          /\ n = Len(localsStack) /\ none = <<>> /\ dec = RefDec(helpers[h].temp)
    OBVIOUS
  <2>2. /\ blocks' = BlocksWithThrowing(none, dec, ls, dt)
        /\ UNCHANGED <<localsStack, unlockLValue, loop>>
    BY <1>2, <2>1 DEF DestroyTemp
  <2>3. ls \in Seq(Entry) /\ n \in Nat BY <2>1, OperandLemma, LenProperties
  <2>4. n = Scope' BY <2>1, <2>2 DEF Ready, Scope
  <2>5. none \in Seq(Instruction) /\ \A k \in 1..Len(none) : Plain(none[k])
    BY <2>1
  <2>6. \A j \in 1..n : ls[j] = localsStack[j] /\ localsStack'[j] = localsStack[j]
    BY <2>1, <2>2
  <2>7. dec \in Instruction
    <3>1. helpers[h].temp \in Nat BY OperandLemma
    <3> QED BY <2>1, <3>1, CodeLemma DEF Name
  <2> QED BY <2>1, <2>2, <2>3, <2>4, <2>5, <2>6, <2>7, ThrowingAdded
<1> QED BY <1>1, <1>2

LEMMA LValuePads ==
  ASSUME CodeInv, VariableAssumption, LockLValue \/ UnlockLValue
  PROVE  NewPadsExact
<1>1. \A v \in Globals : v \in Name BY OperandLemma
<1>2. CASE UNCHANGED blocks BY <1>2, NothingAdded DEF CodeInv
<1>3. ASSUME NEW v \in Globals,
             \/ blocks' = AppendTo(blocks, currentBlock, <<GlobalWriteLock(v)>>)
             \/ blocks' = AppendTo(blocks, currentBlock, <<GlobalWriteUnlock(v)>>)
      PROVE  NewPadsExact
  <2>1. /\ GlobalWriteLock(v) \in Instruction
        /\ GlobalWriteUnlock(v) \in Instruction
    <3>1. 0 \in Nat /\ v \in Name BY <1>1
    <3> QED BY <3>1, CodeLemma
  <2> QED BY <1>3, <2>1, CodePlain, PlainAdded DEF CodeInv
<1>4. CASE LockLValue
  <2>1. PICK v \in Globals \cup Locals : OpenLValue(v) BY <1>4 DEF LockLValue
  <2>2. CASE v \in Globals BY <1>2, <1>3, <2>1, <2>2 DEF OpenLValue, NotImplemented
  <2>3. CASE v \notin Globals BY <1>2, <2>1, <2>3 DEF OpenLValue
  <2> QED BY <2>2, <2>3
<1>5. CASE UnlockLValue
  <2>1. PICK v : v = unlockLValue /\ CloseLValue(v) BY <1>5 DEF UnlockLValue
  <2>2. CASE v \in Globals BY <1>2, <1>3, <2>1, <2>2 DEF CloseLValue, NotImplemented
  <2>3. CASE v \notin Globals BY <1>2, <2>1, <2>3 DEF CloseLValue
  <2> QED BY <2>2, <2>3
<1> QED BY <1>4, <1>5

(* The release of a local variable, at the end of its scope or before a    *)
(* return: an exception in its destructor finds the older ones only.       *)
LEMMA ReleasePads ==
  ASSUME CodeInv, CodeInv', VariableAssumption,
         UNCHANGED <<unlockLValue, derefTemps>>, NEW v \in RefCounted,
         NEW ls \in Seq(Entry), NEW n \in Nat, n = Len(ls), n = Scope',
         \A j \in 1..n : ls[j] = localsStack[j] /\ localsStack'[j] = localsStack[j],
         blocks' = BlocksWithThrowing(<<LocalGet(FreeTemp, v)>>, RefDec(FreeTemp),
                                      ls, derefTemps)
  PROVE  NewPadsExact
<1>1. FreeTemp \in Nat /\ v \in Name BY OperandLemma DEF VariableAssumption
<1>2. PICK dt, get, code, dec :
         /\ dt = derefTemps' /\ get = LocalGet(FreeTemp, v) /\ code = <<get>>
         /\ dec = RefDec(FreeTemp)
  OBVIOUS
<1>3. get \in Instruction /\ dec \in Instruction BY <1>1, <1>2, CodeLemma
<1>4. Plain(get) BY <1>2, CodePlain
<1>5. /\ code \in Seq(Instruction)
      /\ \A k \in 1..Len(code) : Plain(code[k])
  <2>1. code = <<get>> BY <1>2
  <2>2. code \in Seq(Instruction) /\ Len(code) = 1 /\ code[1] = get
    BY <1>3, <2>1
  <2> QED BY <1>4, <2>2
<1>6. blocks' = BlocksWithThrowing(code, dec, ls, dt) BY <1>2
<1> QED BY <1>2, <1>3, <1>5, <1>6, ThrowingAdded

LEMMA LeaveScopePads ==
  ASSUME CodeInv, CodeInv', VariableAssumption, LeaveScope
  PROVE  NewPadsExact
<1>1. PICK item, ls, n : /\ item = Last(localsStack) /\ ls = Front(localsStack)
                         /\ n = Len(localsStack) - 1
  OBVIOUS
<1>2. CASE ~(item.lv \in RefCounted /\ ~isTerminated)
  BY <1>1, <1>2, NothingAdded DEF LeaveScope, PopStep, CodeInv
<1>3. CASE item.lv \in RefCounted /\ ~isTerminated
  <2>1. /\ loop.kind = "pop" /\ localsStack' = ls
        /\ loop' \in {NoLoop, loop}
        /\ UNCHANGED <<unlockLValue, derefTemps>>
        /\ blocks' = BlocksWithThrowing(<<LocalGet(FreeTemp, item.lv)>>,
                        RefDec(FreeTemp), ls, derefTemps)
    BY <1>1, <1>3 DEF LeaveScope, PopStep
  <2>2. localsStack \in Seq(Entry) /\ Len(localsStack) \in Nat
    BY OperandLemma, LenProperties
  <2>3. localsStack # <<>>
    <3>1. Len(localsStack) # 0 BY <2>1, <2>2 DEF CodeInv, LoopOK
    <3> QED BY <3>1
  <2>4. /\ ls \in Seq(Entry) /\ n \in Nat /\ n = Len(ls)
        /\ \A j \in 1..n : ls[j] = localsStack[j]
    BY <1>1, <2>2, <2>3, FrontLemma
  <2>5. n = Scope' BY <2>1, <2>4 DEF Scope, NoLoop
  <2>6. \A j \in 1..n : ls[j] = localsStack[j] /\ localsStack'[j] = localsStack[j]
    BY <2>1, <2>4
  <2> QED BY <1>3, <2>1, <2>4, <2>5, <2>6, ReleasePads
<1> QED BY <1>2, <1>3

LEMMA ReleaseLocalPads ==
  ASSUME CodeInv, CodeInv', VariableAssumption, ReleaseLocal
  PROVE  NewPadsExact
<1>1. PICK lv, ls, n : /\ lv = localsStack[loop.i].lv
                       /\ ls = LocalsBelow(loop.i) /\ n = loop.i - 1
  OBVIOUS
<1>2. CASE lv \notin RefCounted
  BY <1>1, <1>2, NothingAdded DEF ReleaseLocal, RetStep, CodeInv
<1>3. CASE lv \in RefCounted
  <2>1. /\ loop.kind = "ret" /\ loop.i > 0 /\ loop.i \in 0..Len(localsStack)
        /\ loop' = [kind |-> "ret", i |-> loop.i - 1, ins |-> loop.ins]
        /\ UNCHANGED <<unlockLValue, derefTemps, localsStack>>
        /\ blocks' = BlocksWithThrowing(<<LocalGet(FreeTemp, lv)>>,
                        RefDec(FreeTemp), ls, derefTemps)
    BY <1>1, <1>3 DEF ReleaseLocal, RetStep, CodeInv, CodeTypeOK
  <2>2. localsStack \in Seq(Entry) /\ Len(localsStack) \in Nat
    BY OperandLemma, LenProperties
  <2>3. n \in Nat /\ n <= Len(localsStack) BY <1>1, <2>1, <2>2
  <2>4. /\ ls \in Seq(Entry) /\ n = Len(ls)
        /\ \A j \in 1..n : ls[j] = localsStack[j]
    <3>1. \A j \in 1..n : localsStack[j] \in Entry
      BY <2>2, <2>3, ElementOfSeq
    <3>2. ls = SubSeq(localsStack, 1, n) BY <1>1 DEF LocalsBelow
    <3>3. /\ ls \in Seq(Entry)
          /\ Len(ls) = IF 1 <= n THEN n - 1 + 1 ELSE 0
          /\ \A j \in 1..n - 1 + 1 : ls[j] = localsStack[1 + j - 1]
      BY <2>3, <3>1, <3>2, SubSeqProperties
    <3> QED BY <2>3, <3>3
  <2>5. n = Scope' BY <1>1, <2>1 DEF Scope
  <2>6. \A j \in 1..n : ls[j] = localsStack[j] /\ localsStack'[j] = localsStack[j]
    BY <2>1, <2>4
  <2> QED BY <1>3, <2>1, <2>3, <2>4, <2>5, <2>6, ReleasePads
<1> QED BY <1>2, <1>3

LEMMA PadNext ==
  ASSUME PadInv, VariableAssumption, ClientAssumption, [Next]_vars
  PROVE  NewPadsExact
<1>1. CodeInv /\ CodeInv' BY CodeNext DEF PadInv, ChainInv
<1>2. CASE \/ UNCHANGED vars \/ DeclareTemp \/ Enter \/ Disown \/ OwnReference
           \/ Consume \/ Abandon \/ AddBlock \/ SwitchBlock \/ DeclareLocal
           \/ OpenScope \/ CloseScope \/ EmitRet
  BY <1>1, <1>2, QuietPads
<1>3. CASE Emit \/ EmitInvoke \/ EmitJump \/ EmitBranch BY <1>1, <1>3, EmitPads
<1>4. CASE LockLValue \/ UnlockLValue BY <1>1, <1>4, LValuePads
<1>5. CASE Destroy BY <1>1, <1>5, DestroyPads DEF Destroy, Own
<1>6. CASE Leave
  <2>1. Base \in DOMAIN helpers BY <1>6 DEF Leave, Own
  <2> QED BY <1>1, <1>6, <2>1, DestroyPads DEF Leave
<1>7. CASE LeaveScope BY <1>1, <1>7, LeaveScopePads
<1>8. CASE ReleaseLocal BY <1>1, <1>8, ReleaseLocalPads
<1>9. CASE Return
  <2>1. /\ blocks' = AppendTo(blocks, currentBlock, <<loop.ins>>)
        /\ loop.ins \in Instruction
    BY <1>1, <1>9 DEF Return, RetDone, CodeInv, CodeTypeOK
  <2> QED BY <1>1, <2>1, PlainAdded DEF CodeInv, PadInv
<1> QED BY <1>2, <1>3, <1>4, <1>5, <1>6, <1>7, <1>8, <1>9 DEF Next

LEMMA PadInvNext ==
  ASSUME PadInv, VariableAssumption, ClientAssumption, [Next]_vars
  PROVE  PadInv'
<1>1. CodeInv /\ ChainInv' BY ChainNext DEF PadInv, ChainInv
<1>2. CASE UNCHANGED loop BY <1>1, <1>2 DEF PadInv, Plain
<1>3. CASE loop'.ins \in {loop.ins, RetVoid}
  <2>1. Plain(loop.ins) /\ Plain(RetVoid) BY CodePlain DEF PadInv
  <2>2. Plain(loop'.ins) BY <1>3, <2>1
  <2> QED BY <1>1, <2>2 DEF PadInv, Plain
<1>4. CASE DeclareTemp \/ Enter \/ Disown \/ OwnReference \/ Consume \/ Abandon
  BY <1>1, <1>2, <1>4, TempOnlySteps
<1>5. CASE LockLValue \/ UnlockLValue BY <1>1, <1>2, <1>5, LValueSteps
<1>6. CASE \/ Emit \/ EmitInvoke \/ EmitJump \/ EmitBranch \/ Destroy \/ Leave
  BY <1>1, <1>2, <1>6, EmitSteps
<1>7. CASE AddBlock \/ SwitchBlock BY <1>1, <1>2, <1>7, BlockSteps
<1>8. CASE DeclareLocal \/ OpenScope
  BY <1>2, <1>8 DEF DeclareLocal, localsPush, OpenScope, PushMarker
<1>9. CASE CloseScope \/ LeaveScope \/ ReleaseLocal \/ Return
  <2>1. NoLoop.ins = RetVoid BY DEF NoLoop
  <2> QED BY <1>3, <1>9, <2>1
      DEF CloseScope, PopMarker, LeaveScope, PopStep, ReleaseLocal, RetStep,
          Return, RetDone
<1>10. CASE EmitRet
  <2>1. PICK ins \in {RetVoid} \cup {Ret(helpers[h].temp) : h \in Own} :
          CreateRet(ins)
    BY <1>10 DEF EmitRet
  <2>2. Plain(ins) BY CodePlain
  <2>3. CASE isTerminated BY <1>2, <2>1, <2>3 DEF CreateRet, NotImplemented
  <2>4. CASE ~isTerminated
    <3>1. loop'.ins = ins BY <2>1, <2>4 DEF CreateRet
    <3> QED BY <1>1, <2>2, <3>1 DEF PadInv, Plain
  <2> QED BY <2>3, <2>4
<1>11. CASE UNCHANGED vars BY <1>2, <1>11 DEF vars, builderVars
<1> QED BY <1>4, <1>5, <1>6, <1>7, <1>8, <1>9, <1>10, <1>11 DEF Next

(* Whatever instruction is added that may throw, its landing pad releases  *)
(* exactly the temporaries that own a reference once it runs, each once,   *)
(* unlocks the lvalue that is locked, if any, and goes on in the innermost *)
(* cleanup block; an instruction without one has nothing to clean up       *)
(* (getLandingPad2 and its callers).                                       *)
THEOREM LandingPadsAreExact == Spec => LandingPadsExact
<1>1. Init => PadInv
  <2>1. Init => loop = NoLoop /\ localsStack = <<>> BY DEF Init, BuilderInit
  <2>2. Plain(NoLoop.ins) BY CodePlain DEF NoLoop
  <2> QED BY <2>1, <2>2, CodeInit DEF PadInv, ChainInv
<1>2. PadInv /\ [Next]_vars => PadInv'
  BY PadInvNext, VariableAssumption, ClientAssumption
<1>3. PadInv /\ [Next]_vars => [NewPadsExact]_vars
  BY PadNext, VariableAssumption, ClientAssumption
<1>4. NewPadsExact => \A b \in 1..Len(blocks) :
         \A i \in Len(blocks[b]) + 1 .. Len(blocks'[b]) :
            LandingPadExact(blocks[b][i], IF loop.kind = "ret" THEN loop.i
                                          ELSE Len(localsStack))'
  BY DEF NewPadsExact, Scope
<1> QED BY <1>1, <1>2, <1>3, <1>4, PTL DEF Spec, LandingPadsExact
=============================================================================
