------------------------------- MODULE Machine -------------------------------
(***************************************************************************)
(* The execution of a function of the intermediate code, one instruction   *)
(* per step.  The interpreter (in::FunctionInterpreter) and the native     *)
(* code (cg::FunctionCompiler with the run-time functions of nrt) agree on *)
(* every instruction they both implement.                                  *)
(*                                                                         *)
(* A value is an address in the heap, Null, Plain (any int or bool) or     *)
(* Unset (nothing has been stored).  An object is its type and its         *)
(* reference count.  Whatever can throw may throw.  Other activations (the *)
(* functions that are called, other threads) may assign to a global        *)
(* variable whose lock is free.                                            *)
(***************************************************************************)
EXTENDS Types, FiniteSets

CONSTANTS Literals,     \* the sequence of string literals, owned by Env
          Unimplemented,\* the kinds whose visit() is QORE_NOT_IMPLEMENTED
          MaxChanges    \* assignments by other activations

VARIABLES
  code,      \* the blocks of the function
  pc,        \* [b, i]: instruction i of block b is the next one
  temps, locals, globals,    \* values
  heap,      \* the objects, dead ones included: [type, refs]
  held,      \* how each global variable is locked: "no", "read", "write"
  unwinding, \* a landing pad has been entered
  outcome,   \* "idle", "running", "returned", "unwound" (left by an
             \* exception), "unimplemented", or "fault": an assertion
             \* failed or the behaviour is undefined
  result,    \* the value returned
  changes    \* assignments by other activations so far

machineVars == <<code, pc, temps, locals, globals, heap, held, unwinding,
                 outcome, result, changes>>

Null  == 0
Plain == -1
Unset == -2

IsObject(v) == v \in DOMAIN heap
Alive(v)    == IsObject(v) /\ heap[v].refs > 0

NewObject(type) == [type |-> type, refs |-> 1]
NewAddress      == Len(heap) + 1

Current == code[pc.b][pc.i]
Running == outcome = "running"
Proceed == pc' = [b |-> pc.b, i |-> pc.i + 1]

(* Variable or temporary x gets the value v. *)
Store(f, x, v) == [f EXCEPT ![x] = v]

(* Everything but pc and the variables that the instruction names *)
KeepAll == UNCHANGED <<code, unwinding, result, changes>>

Stop(how) ==
    /\ outcome' = how
    /\ UNCHANGED <<pc, temps, locals, globals, heap, held>> /\ KeepAll

(* An exception: FunctionInterpreter::run(), makeCallOrInvoke() *)
Throw(ins) ==
    /\ IF ins.lpad = NoBlock THEN outcome' = "unwound" /\ UNCHANGED <<pc, unwinding>>
       ELSE /\ pc' = [b |-> ins.lpad, i |-> 1] /\ unwinding' = TRUE
            /\ UNCHANGED outcome
    /\ UNCHANGED <<code, temps, locals, globals, heap, held, result, changes>>

-----------------------------------------------------------------------------
(* Reading and writing variables. *)

SetTemp(t, v) ==
    /\ temps' = Store(temps, t, v) /\ Proceed
    /\ UNCHANGED <<locals, globals, heap, held, outcome>> /\ KeepAll

Constant(ins) ==
    \/ ins.op = "ConstInt" /\ SetTemp(ins.dest, Plain)
    \/ /\ ins.op = "ConstString"
       /\ \E a \in 1..Len(Literals) : /\ Literals[a] = ins.name
                                      /\ SetTemp(ins.dest, a)
    \/ ins.op = "ConstNothing" /\ SetTemp(ins.dest, Null)

Get(ins) ==
    \/ ins.op = "LocalGet" /\ SetTemp(ins.dest, locals[ins.name])
    \/ /\ ins.op = "GlobalGet"      \* assert(hasValue)
       /\ IF globals[ins.name] = Unset THEN Stop("fault")
          ELSE SetTemp(ins.dest, globals[ins.name])

Set(ins) ==
    LET v == temps[ins.args[1]]
    IN  \/ /\ ins.op = "LocalSet"
           /\ locals' = Store(locals, ins.name, v) /\ Proceed
           /\ UNCHANGED <<temps, globals, heap, held, outcome>> /\ KeepAll
        \/ /\ ins.op \in {"GlobalSet", "GlobalInit"}
           /\ IF (globals[ins.name] = Unset) = (ins.op = "GlobalInit")
              THEN /\ globals' = Store(globals, ins.name, v) /\ Proceed
                   /\ UNCHANGED <<temps, locals, heap, held, outcome>> /\ KeepAll
              ELSE Stop("fault")    \* assert(hasValue), assert(!hasValue)

(* Locking, as GlobalVariable documents it. *)
LockModes == [GlobalReadLock  |-> <<"no", "read">>,
              GlobalReadUnlock |-> <<"read", "no">>,
              GlobalWriteLock |-> <<"no", "write">>,
              GlobalWriteUnlock |-> <<"write", "no">>]

Lock(ins) ==
    /\ ins.op \in DOMAIN LockModes
    /\ IF held[ins.name] = LockModes[ins.op][1]
       THEN /\ held' = Store(held, ins.name, LockModes[ins.op][2]) /\ Proceed
            /\ UNCHANGED <<temps, locals, globals, heap, outcome>> /\ KeepAll
       ELSE Stop("fault")

-----------------------------------------------------------------------------
(* Reference counts.  The last reference deletes the object. *)

Counted(h, a, n) == [h EXCEPT ![a] = [type |-> @.type, refs |-> @.refs + n]]

Count(ins) ==
    LET v == temps[ins.args[1]]
    IN  /\ ins.op \in {"RefInc", "RefDec", "RefDecNoexcept"}
        /\ IF v = Null \/ Alive(v)
           THEN /\ heap' = IF v = Null THEN heap
                           ELSE Counted(heap, v, IF ins.op = "RefInc" THEN 1 ELSE -1)
                /\ Proceed
                /\ UNCHANGED <<temps, locals, globals, held, outcome>> /\ KeepAll
           ELSE Stop("fault")

-----------------------------------------------------------------------------
(* Calls. *)

(* The call returns a value that is no object, or the new reference to an  *)
(* object that the heap h holds.                                           *)
Answer(ins, v, h) ==
    /\ temps' = Store(temps, ins.dest, v) /\ heap' = h /\ Proceed
    /\ UNCHANGED <<locals, globals, held, outcome>> /\ KeepAll

AnswerNew(ins, type) == Answer(ins, NewAddress, Append(heap, NewObject(type)))
AnswerSame(ins, v)   == Answer(ins, v, Counted(heap, v, 1))

TypeOf(v) == IF v = Null THEN "nothing" ELSE heap[v].type

(* An operand of a type may be: an object, which is alive; any: or null. *)
Fits(v, type) ==
    CASE type \in {"int", "softint"} -> v = Plain
      [] type = "any" -> v = Null \/ Alive(v)
      [] type \in {"string", "softstring"} -> Alive(v) /\ TypeOf(v) = "string"

Convert(ins) ==
    LET v == temps[ins.args[1]]
        c == Conversion[ins.name]
    IN  /\ ins.op = "InvokeConversion"
        /\ \/ ~Fits(v, c.from) /\ Stop("fault")
           \/ Fits(v, c.from) /\ c.canThrow /\ Throw(ins)
           \/ /\ Fits(v, c.from)
              /\ CASE ins.name = "AnyToString" ->
                          TypeOf(v) = "string" /\ AnswerSame(ins, v)
                   [] c.to \in {"int", "bool"} -> Answer(ins, Plain, heap)
                   [] ins.name = "IntToAny" -> AnswerNew(ins, "int")
                   [] ins.name = "IntToString" -> AnswerNew(ins, "string")

(* binOpGeneric() finds the operator for the types of the values; its      *)
(* result is boxed.  There is no conversion of nothing.                    *)
GenericResult(name, l, r) ==
    LET o == IF name = "AnyPlusAny" THEN FindPlus(l, r) ELSE FindPlusEquals(l)
    IN  BinaryOperator[o].result

Operate(ins) ==
    LET l == temps[ins.args[1]]
        r == temps[ins.args[2]]
        o == BinaryOperator[ins.name]
        ok == Fits(l, o.left) /\ Fits(r, o.right)
    IN  /\ ins.op = "InvokeBinaryOperator"
        /\ \/ ~ok /\ Stop("fault")
           \/ ok /\ o.canThrow /\ Throw(ins)
           \/ /\ ok
              /\ CASE o.result = "int" -> Answer(ins, Plain, heap)
                   [] o.result = "string" -> AnswerNew(ins, "string")
                   [] o.result = "any" ->
                        /\ Null \notin {l, r}
                        /\ AnswerNew(ins, GenericResult(ins.name, TypeOf(l), TypeOf(r)))

(* A function of the program: it takes a reference of its own to each      *)
(* argument and drops it, and returns a new reference: to a new object or  *)
(* to one of its arguments.  type[f] is the type it returns.               *)
CallFunction(ins, type) ==
    LET args == {temps[ins.args[i]] : i \in DOMAIN ins.args}
        objects == {a \in args : IsObject(a)}
    IN  /\ ins.op = "InvokeFunction"
        /\ IF \E a \in objects : ~Alive(a) THEN Stop("fault")
           ELSE \/ Throw(ins)
                \/ type[ins.name] = "nothing" /\ Answer(ins, Null, heap)
                \/ type[ins.name] = "int" /\ Answer(ins, Plain, heap)
                \/ isRefCounted(type[ins.name]) /\ AnswerNew(ins, "string")
                \/ /\ isRefCounted(type[ins.name])
                   /\ \E a \in objects : Fits(a, type[ins.name]) /\ AnswerSame(ins, a)

-----------------------------------------------------------------------------
(* The ends of blocks. *)

Goto(b) ==
    /\ pc' = [b |-> b, i |-> 1]
    /\ UNCHANGED <<temps, locals, globals, heap, held, outcome>> /\ KeepAll

Finish(how, v) ==
    /\ outcome' = how /\ result' = v
    /\ UNCHANGED <<code, pc, temps, locals, globals, heap, held, unwinding, changes>>

Terminate(ins) ==
    \/ ins.op = "Jump" /\ Goto(ins.to[1])
    \/ /\ ins.op = "Branch"
       /\ IF temps[ins.args[1]] = Plain THEN \E i \in DOMAIN ins.to : Goto(ins.to[i])
          ELSE Stop("fault")
    \/ ins.op = "Ret" /\ Finish("returned", temps[ins.args[1]])
    \/ ins.op = "RetVoid" /\ Finish("returned", Null)
    \/ ins.op = "ResumeUnwind" /\ IF unwinding THEN Finish("unwound", Null)
                                  ELSE Stop("fault")

(* Past the end of a block the behaviour is undefined. *)
Execute(type) ==
    /\ Running
    /\ IF pc.i > Len(code[pc.b]) THEN Stop("fault")
       ELSE IF Current.op \in Unimplemented THEN Stop("unimplemented")
       ELSE \/ Constant(Current) \/ Get(Current) \/ Set(Current) \/ Lock(Current)
            \/ Count(Current) \/ Convert(Current) \/ Operate(Current)
            \/ CallFunction(Current, type) \/ Terminate(Current)

(* Another activation assigns a new string to the global variable g, under *)
(* its write lock, and releases the old value.                             *)
Interfere(g) ==
    /\ Running /\ changes < MaxChanges
    /\ held[g] = "no" /\ Alive(globals[g])
    /\ globals' = Store(globals, g, NewAddress)
    /\ heap' = Append(Counted(heap, globals[g], -1), NewObject("string"))
    /\ changes' = changes + 1
    /\ UNCHANGED <<code, pc, temps, locals, held, unwinding, outcome, result>>
=============================================================================
