-------------------------------- MODULE Code --------------------------------
(***************************************************************************)
(* The intermediate code of qore-llvm (include/qore/core/code): a function *)
(* is a list of blocks, a block a list of instructions over numbered       *)
(* temporaries.  Blocks and temporaries are numbered from 1, NoBlock is    *)
(* the null block pointer.  Variables, functions, literals and operators   *)
(* are their names.                                                        *)
(***************************************************************************)
EXTENDS Integers, Sequences

NoBlock == 0
NoTemp  == 0
NoName  == ""

(* Instruction::Kind *)
Kind == {"Branch", "ConstInt", "ConstNothing", "ConstString", "GlobalGet",
         "GlobalInit", "GlobalReadLock", "GlobalReadUnlock", "GlobalSet",
         "GlobalWriteLock", "GlobalWriteUnlock", "InvokeBinaryOperator",
         "InvokeConversion", "InvokeFunction", "Jump", "LocalGet", "LocalSet",
         "RefDec", "RefDecNoexcept", "RefInc", "ResumeUnwind", "Ret", "RetVoid"}

Name == STRING \cup {NoName}

(* dest: the temporary written; name: the variable, literal, operator or   *)
(* function; args: the temporaries read; lpad: the landing pad; to: the    *)
(* blocks a terminator names.                                              *)
Instruction == [op : Kind, dest : Nat, name : Name, args : Seq(Nat),
                lpad : Nat, to : Seq(Nat)]

(* The kinds whose isTerminator() returns true: they end a block. *)
Terminator == {"Branch", "Jump", "ResumeUnwind", "Ret", "RetVoid"}

(* The kinds that carry a landing pad (getLpad() is overridden). *)
Throwing == {"InvokeBinaryOperator", "InvokeConversion", "InvokeFunction",
             "RefDec"}

Ins(op, dest, name, args, to) ==
    [op |-> op, dest |-> dest, name |-> name, args |-> args,
     lpad |-> NoBlock, to |-> to]

(* The instruction with a landing pad. *)
WithPad(ins, pad) ==
    [op |-> ins.op, dest |-> ins.dest, name |-> ins.name, args |-> ins.args,
     lpad |-> pad, to |-> ins.to]

Branch(c, t, f)          == Ins("Branch", NoTemp, NoName, <<c>>, <<t, f>>)
ConstInt(d)              == Ins("ConstInt", d, NoName, <<>>, <<>>)
ConstNothing(d)          == Ins("ConstNothing", d, NoName, <<>>, <<>>)
ConstString(d, s)        == Ins("ConstString", d, s, <<>>, <<>>)
GlobalGet(d, g)          == Ins("GlobalGet", d, g, <<>>, <<>>)
GlobalInit(g, t)         == Ins("GlobalInit", NoTemp, g, <<t>>, <<>>)
GlobalReadLock(g)        == Ins("GlobalReadLock", NoTemp, g, <<>>, <<>>)
GlobalReadUnlock(g)      == Ins("GlobalReadUnlock", NoTemp, g, <<>>, <<>>)
GlobalSet(g, t)          == Ins("GlobalSet", NoTemp, g, <<t>>, <<>>)
GlobalWriteLock(g)       == Ins("GlobalWriteLock", NoTemp, g, <<>>, <<>>)
GlobalWriteUnlock(g)     == Ins("GlobalWriteUnlock", NoTemp, g, <<>>, <<>>)
InvokeBinaryOperator(d, o, l, r) ==
                            Ins("InvokeBinaryOperator", d, o, <<l, r>>, <<>>)
InvokeConversion(d, c, t) == Ins("InvokeConversion", d, c, <<t>>, <<>>)
InvokeFunction(d, f, ts) == Ins("InvokeFunction", d, f, ts, <<>>)
Jump(b)                  == Ins("Jump", NoTemp, NoName, <<>>, <<b>>)
LocalGet(d, v)           == Ins("LocalGet", d, v, <<>>, <<>>)
LocalSet(v, t)           == Ins("LocalSet", NoTemp, v, <<t>>, <<>>)
RefDec(t)                == Ins("RefDec", NoTemp, NoName, <<t>>, <<>>)
RefDecNoexcept(t)        == Ins("RefDecNoexcept", NoTemp, NoName, <<t>>, <<>>)
RefInc(t)                == Ins("RefInc", NoTemp, NoName, <<t>>, <<>>)
ResumeUnwind             == Ins("ResumeUnwind", NoTemp, NoName, <<>>, <<>>)
Ret(t)                   == Ins("Ret", NoTemp, NoName, <<t>>, <<>>)
RetVoid                  == Ins("RetVoid", NoTemp, NoName, <<>>, <<>>)

(* Block::isTerminated() *)
Terminated(block) == block # <<>> /\ block[Len(block)].op \in Terminator

(* Block::append(): the instruction becomes the last one of block k. *)
AppendTo(blocks, k, code) == [blocks EXCEPT ![k] = @ \o code]
=============================================================================
