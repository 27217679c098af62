------------------------ MODULE FunctionCompilerProofs ------------------------
(***************************************************************************)
(* Proofs about FunctionCompiler: the native code is well-formed, complete *)
(* and executes what the intermediate code executes, for all code that is  *)
(* Compilable.                                                             *)
(*                                                                         *)
(* The inductive invariant knows from which place on the code of every     *)
(* native block is translated: starts[n] is the place of the intermediate  *)
(* instruction that comes first in native block n.  In the block of a      *)
(* landing pad that is place 0 of the pad, and the LLVM instruction        *)
(* "LandingPad" stands for it.  So the place of every native instruction   *)
(* is known, and the operands are known by the last instruction before     *)
(* that place that writes the temporary (LastWrite).                       *)
(***************************************************************************)
EXTENDS FunctionCompiler, SequenceLemmas, FunctionTheorems

(* The analyzer creates the code before the compiler sees it, or the       *)
(* compiler is never used; what it is given is Compilable. *)
CompilerNext ==
    \/ phase = "none" /\ UNCHANGED compilerVars
    \/ /\ phase = "none" /\ phase' = "notImplemented"
       /\ UNCHANGED <<native, blockMap, queue, temps, visitors, machine>>
    \/ Compilable /\ Construct
    \/ Compile \/ Start \/ Execute

CompilerSpec == CompilerInit /\ [][CompilerNext]_<<codeVars, compilerVars>>

-----------------------------------------------------------------------------
(* The inductive invariant. *)

NativeType == [op : Kind \cup {"LandingPad"}, source : Nat \X Nat,
               operands : Seq(Nat \X Nat), to : Seq(Nat)]
VisitorType == [block : Nat, next : Nat, target : Nat, dest : Nat,
                value : Nat \X Nat]

CompilerTypeOK ==
    /\ native \in Seq(Seq(NativeType))
    /\ blockMap \in [DOMAIN blockMap -> 1..Len(native)]
    /\ DOMAIN blockMap \subseteq 1..Len(blocks)
    /\ queue \in Seq(Nat)
    /\ temps \in [1..tempCount -> Nat \X Nat]
    /\ visitors \in Seq(VisitorType)

(* Instruction j of the block is the last one before p that writes t.      *)
LastWrite(p, t, j) ==
    /\ j \in 1..p[2] - 1 /\ blocks[p[1]][j].dest = t
    /\ \A l \in j + 1 .. p[2] - 1 : blocks[p[1]][l].dest # t

(* The place of instruction k of native block n. *)
PlaceIn(starts, n, k) == Place(starts[n][1], starts[n][2] + k - 1)

(* Where the temporaries have their values from at a place of native block *)
(* n: a landing pad has the values of the instruction that leads there.    *)
Origin(n, p) == IF native[n][1].op = "LandingPad" THEN native[n][1].source ELSE p

OperandsOK(x, p, o) ==
    /\ DOMAIN x.operands = DOMAIN CodeAt(p).args
    /\ \A k \in DOMAIN x.operands : \E j \in Nat :
          /\ LastWrite(o, CodeAt(p).args[k], j)
          /\ x.operands[k] \in MadeFrom(Place(o[1], j))

(* An invoke goes to where the code goes on and to its landing pad. *)
GoesOn(starts, x, p) ==
    /\ Len(x.to) = 2 /\ \A k \in DOMAIN x.to : x.to[k] \in 1..Len(native)
    /\ starts[x.to[1]] = Following(p)
    /\ starts[x.to[2]] = Place(CodeAt(p).lpad, 0)
    /\ native[x.to[2]] # <<>> /\ native[x.to[2]][1].source = p

Jumps(starts, x, p) ==
    /\ DOMAIN x.to = DOMAIN CodeAt(p).to
    /\ \A k \in DOMAIN x.to : /\ x.to[k] \in 1..Len(native)
                              /\ starts[x.to[k]] = Place(CodeAt(p).to[k], 1)

(* The first instruction of a landing pad, and any other instruction.      *)
PadOK(starts, n, x) ==
    /\ x.op = "LandingPad" /\ x.to = <<>> /\ x.operands = <<>>
    /\ x.source \in CodePlaces /\ CodeAt(x.source).lpad = starts[n][1]
    /\ \E r \in MadeFrom(x.source) : NativeAt(r).to[2] = n

TranslationOK(starts, n, x, p) ==
    /\ p \in CodePlaces /\ x.source = p /\ x.op = CodeAt(p).op
    /\ OperandsOK(x, p, Origin(n, p))
    /\ CodeAt(p).lpad # NoBlock => GoesOn(starts, x, p)
    /\ CodeAt(p).lpad = NoBlock => Jumps(starts, x, p)

InstructionOK(starts, n, k) ==
    /\ k = 1 /\ starts[n][2] = 0 => PadOK(starts, n, native[n][k])
    /\ ~ (k = 1 /\ starts[n][2] = 0) =>
           TranslationOK(starts, n, native[n][k], PlaceIn(starts, n, k))
    /\ k < Len(native[n]) => ~ EndsBlock(native[n][k])

NativeOK(starts) ==
    \A n \in 1..Len(native) : \A k \in 1..Len(native[n]) : InstructionOK(starts, n, k)

(* No place but those of landing pads is compiled twice. *)
StartsOK(starts) ==
    /\ Len(starts) = Len(native)
    /\ \A n \in 1..Len(starts) :
          /\ starts[n][1] \in 1..Len(blocks)
          /\ starts[n][2] = 0 <=> IsPad(starts[n][1])
          /\ starts[n][2] = 0 => native[n] # <<>>
          /\ starts[n][2] # 0 => starts[n][1] \in DOMAIN blockMap
    /\ \A m, n \in 1..Len(starts) : starts[m] = starts[n] /\ starts[m][2] # 0 => m = n
    /\ \A m, n \in 1..Len(starts) : \A k \in 1..Len(native[m]), l \in 1..Len(native[n]) :
          PlaceIn(starts, m, k) = PlaceIn(starts, n, l) /\ starts[m][2] # 0
              => m = n /\ k = l

MapOK(starts) ==
    /\ \A c \in DOMAIN blockMap : starts[blockMap[c]] = Place(c, 1)
    /\ 1 \in DOMAIN blockMap /\ blockMap[1] = 1

(* A block is finished, or it is the one of a Visitor or waits in the queue. *)
Closed(n) == native[n] # <<>> /\ EndsBlock(native[n][Len(native[n])])
Waits(n)  == \E c \in ToSet(queue) : blockMap[c] = n
IsTarget(n) == \E i \in 1..Len(visitors) : visitors[i].target = n

QueueOK(starts) ==
    /\ IsInjective(queue)
    /\ \A c \in ToSet(queue) :
          /\ c \in DOMAIN blockMap /\ native[blockMap[c]] = <<>>
          /\ \A n \in 1..Len(starts) : starts[n][1] = c => n = blockMap[c]
    /\ \A n \in 1..Len(native) : Closed(n) \/ IsTarget(n) \/ Waits(n)

(* The temporaries are bound to what the block has written before p. *)
TempsOK(p) ==
    \A t \in 1..tempCount : \A j \in Nat :
        LastWrite(p, t, j) => temps[t] \in MadeFrom(Place(p[1], j))

VisitorOK(starts, v) ==
    /\ v.block \in 1..Len(blocks) /\ v.target \in 1..Len(native)
    /\ v.next \in 1..Len(blocks[v.block]) + 1
    /\ Place(v.block, v.next) = PlaceIn(starts, v.target, Len(native[v.target]) + 1)
    /\ v.next = Len(blocks[v.block]) + 1 <=> Closed(v.target)

(* The Visitor of a block: nothing from its next instruction on has been   *)
(* compiled.                                                               *)
OuterOK(starts, v) ==
    /\ ~ IsPad(v.block) /\ v.dest = NoTemp /\ v.block \notin ToSet(queue)
    /\ \A n \in 1..Len(starts) : starts[n][1] = v.block =>
          starts[n][2] + Len(native[n]) <= v.next /\ starts[n][2] <= v.next

(* The Visitor w of the landing pad of the instruction before v.next. *)
InnerOK(v, w) ==
    LET site == Place(v.block, v.next - 1)
    IN  /\ v.next > 1 /\ w.block = CodeAt(site).lpad /\ w.block # NoBlock
        /\ w.dest = CodeAt(site).dest /\ w.value \in MadeFrom(site)
        /\ native[w.target][1].source = site

OneVisitor(starts, v) ==
    /\ VisitorOK(starts, v) /\ OuterOK(starts, v)
    /\ Closed(v.target) \/ TempsOK(Place(v.block, v.next))

TwoVisitors(starts, v, w) ==
    /\ VisitorOK(starts, v) /\ OuterOK(starts, v)
    /\ VisitorOK(starts, w) /\ InnerOK(v, w) /\ TempsOK(Place(v.block, v.next - 1))

VisitorsOK(starts) ==
    \/ visitors = <<>>
    \/ Len(visitors) = 1 /\ OneVisitor(starts, visitors[1])
    \/ Len(visitors) = 2 /\ TwoVisitors(starts, visitors[1], visitors[2])

(* The execution has done all that is written before a place of its block. *)
HasWritten(o, written, computed) ==
    \A t \in 1..tempCount : \A j \in Nat : LastWrite(o, t, j) =>
        /\ written[t] = Place(o[1], j)
        /\ computed \cap MadeFrom(Place(o[1], j)) # {}

(* The machine is where the intermediate code is. *)
MachineOK ==
    LET o == Origin(machine.at[1], At.source)
    IN  /\ queue = <<>> /\ visitors = <<>> /\ machine.at \in NativePlaces
        /\ machine.place = IF At.op = "LandingPad" THEN Place(CodeAt(At.source).lpad, 1)
                           ELSE At.source
        /\ DOMAIN machine.written = 1..tempCount
        /\ HasWritten(o, machine.written, machine.computed)

CodeOK(starts) ==
    /\ StartsOK(starts) /\ MapOK(starts) /\ NativeOK(starts)
    /\ QueueOK(starts) /\ VisitorsOK(starts)

CompilerInv ==
    /\ phase \in {"none", "compiling", "running", "notImplemented"}
    /\ phase = "none" => visitors = <<>>
    /\ phase \in {"compiling", "running"} =>
          /\ Compilable /\ CompilerTypeOK
          /\ \E starts \in Seq(Nat \X Nat) : CodeOK(starts)
    /\ phase = "running" => MachineOK

-----------------------------------------------------------------------------
(* The intermediate code. *)

LEMMA PlacesLemma ==
  ASSUME Compilable
  PROVE  /\ \A p : p \in CodePlaces <=>
                \E b \in 1..Len(blocks) : \E k \in 1..Len(blocks[b]) : p = Place(b, k)
         /\ \A b \in 1..Len(blocks) :
               blocks[b] \in Seq(Instruction) /\ Len(blocks[b]) \in Nat \ {0}
         /\ Len(blocks) \in Nat \ {0}
<1>1. blocks \in Seq(Seq(Instruction)) /\ DOMAIN blocks = 1..Len(blocks)
  BY LenProperties DEF Compilable
<1>2. \A b \in 1..Len(blocks) : blocks[b] \in Seq(Instruction) /\ blocks[b] # <<>>
  BY <1>1, ElementOfSeq DEF Compilable
<1>3. \A b \in 1..Len(blocks) : /\ DOMAIN blocks[b] = 1..Len(blocks[b])
                                /\ Len(blocks[b]) \in Nat \ {0}
  BY <1>2, LenProperties, EmptySeq
<1>4. Len(blocks) \in Nat \ {0} BY LenProperties, EmptySeq DEF Compilable
<1>5. CodePlaces = UNION {{Place(b, k) : k \in 1..Len(blocks[b])} : b \in 1..Len(blocks)}
  BY <1>1, <1>3 DEF CodePlaces
<1> QED BY <1>2, <1>3, <1>4, <1>5

LEMMA CodeLemma ==
  ASSUME Compilable, NEW b \in 1..Len(blocks), NEW k \in 1..Len(blocks[b])
  PROVE  /\ Place(b, k) \in CodePlaces /\ CodeAt(Place(b, k)) = blocks[b][k]
         /\ blocks[b][k] \in Instruction
         /\ NamesExist(blocks[b][k]) /\ ReadsAreLocal(Place(b, k))
         /\ blocks[b][k].op \in Terminator <=> k = Len(blocks[b])
         /\ blocks[b][k].lpad # NoBlock => blocks[b][k].op \in Throwing
         /\ IsPad(b) => blocks[b][k].lpad = NoBlock /\ blocks[b][k].dest = NoTemp
         /\ blocks[b][k].lpad # NoBlock => IsPad(blocks[b][k].lpad)
<1>1. Place(b, k) \in CodePlaces BY PlacesLemma
<1>2. CodeAt(Place(b, k)) = blocks[b][k] /\ Place(b, k)[1] = b /\ Place(b, k)[2] = k
  BY DEF CodeAt, Place
<1>3. blocks[b][k] \in Instruction BY PlacesLemma, ElementOfSeq
<1>4. IsPad(blocks[b][k].lpad) BY <1>1, <1>2 DEF IsPad
<1> QED BY <1>1, <1>2, <1>3, <1>4 DEF Compilable

LEMMA PlaceLemma ==
  ASSUME Compilable, NEW p \in CodePlaces
  PROVE  /\ p = Place(p[1], p[2]) /\ p \in Nat \X Nat
         /\ p[1] \in 1..Len(blocks) /\ p[2] \in 1..Len(blocks[p[1]])
         /\ CodeAt(p) = blocks[p[1]][p[2]] /\ CodeAt(p) \in Instruction
         /\ NamesExist(CodeAt(p)) /\ ReadsAreLocal(p)
         /\ CodeAt(p).op \in Terminator <=> p[2] = Len(blocks[p[1]])
         /\ CodeAt(p).lpad # NoBlock => /\ CodeAt(p).op \in Throwing
                                        /\ IsPad(CodeAt(p).lpad) /\ ~ IsPad(p[1])
         /\ IsPad(p[1]) => CodeAt(p).lpad = NoBlock /\ CodeAt(p).dest = NoTemp
<1>1. PICK b \in 1..Len(blocks) : \E k \in 1..Len(blocks[b]) : p = Place(b, k)
  BY PlacesLemma
<1>2. PICK k \in 1..Len(blocks[b]) : p = Place(b, k) BY <1>1
<1>3. p[1] = b /\ p[2] = k /\ p = Place(p[1], p[2]) BY <1>2 DEF Place
<1>4. b \in Nat /\ k \in Nat BY PlacesLemma
<1>5. p \in Nat \X Nat BY <1>2, <1>4 DEF Place
<1>6. CodeAt(p) = blocks[b][k] BY <1>2, CodeLemma
<1> QED BY ONLY Compilable, <1>2, <1>3, <1>5, <1>6, CodeLemma

LEMMA SameCode ==
  ASSUME UNCHANGED codeVars
  PROVE  /\ CodePlaces' = CodePlaces /\ (Compilable => Compilable')
         /\ \A p : CodeAt(p)' = CodeAt(p)
         /\ \A b : IsPad(b)' <=> IsPad(b)
         /\ \A p, t, j : LastWrite(p, t, j)' <=> LastWrite(p, t, j)
<1>1. blocks' = blocks /\ tempCount' = tempCount BY DEF codeVars
<1>2. CodePlaces' = CodePlaces BY <1>1 DEF CodePlaces
<1>3. \A p : CodeAt(p)' = CodeAt(p) BY <1>1 DEF CodeAt
<1>4. \A b : IsPad(b)' <=> IsPad(b) BY <1>2, <1>3 DEF IsPad
<1>5. \A p, t, j : LastWrite(p, t, j)' <=> LastWrite(p, t, j) BY <1>1 DEF LastWrite
<1>6. \A p, t : WrittenBefore(p, t)' <=> WrittenBefore(p, t) BY <1>1 DEF WrittenBefore
<1>7. \A p : ReadsAreLocal(p) => ReadsAreLocal(p)'
  BY <1>2, <1>3, <1>4, <1>6 DEF ReadsAreLocal
<1>8. \A ins : NamesExist(ins) => NamesExist(ins)'
  BY <1>1, <1>4 DEF NamesExist
<1>9. Compilable => Compilable'
  BY <1>1, <1>2, <1>3, <1>4, <1>7, <1>8 DEF Compilable
<1> QED BY <1>2, <1>3, <1>4, <1>5, <1>9

(* The last write before a place exists, is unique, and is the instruction *)
(* itself when that writes the temporary. *)
LEMMA LastWriteExists ==
  ASSUME NEW b, NEW k \in Nat, NEW t, WrittenBefore(Place(b, k), t)
  PROVE  \E j \in Nat : LastWrite(Place(b, k), t, j)
<1> DEFINE I == {j \in 1..k - 1 : blocks[b][j].dest = t}
<1>1. Place(b, k)[1] = b /\ Place(b, k)[2] = k BY DEF Place
<1>2. I # {} BY <1>1 DEF WrittenBefore
<1>3. k # 0 BY <1>2
<1>4. k - 1 \in Nat /\ I \in SUBSET (1..k - 1) BY <1>3
<1>5. PICK j \in I : \A i \in I : j >= i BY <1>2, <1>4, IndexMaximum
<1>6. \A l \in j + 1 .. k - 1 : blocks[b][l].dest # t BY <1>4, <1>5
<1> QED BY <1>1, <1>5, <1>6 DEF LastWrite

LEMMA LastWriteUnique ==
  ASSUME NEW b, NEW k \in Nat, NEW t, NEW j, NEW l,
         LastWrite(Place(b, k), t, j), LastWrite(Place(b, k), t, l)
  PROVE  j = l /\ j \in 1..k - 1
BY DEF LastWrite, Place

LEMMA LastWriteNext ==
  ASSUME NEW b, NEW k \in Nat, NEW t, NEW j,
         LastWrite(Place(b, k + 1), t, j)
  PROVE  \/ j = k /\ blocks[b][k].dest = t
         \/ blocks[b][k].dest # t /\ LastWrite(Place(b, k), t, j)
BY DEF LastWrite, Place

LEMMA NoWrite ==
  ASSUME NEW b, NEW t, NEW j
  PROVE  ~ LastWrite(Place(b, 1), t, j)
BY DEF LastWrite, Place

-----------------------------------------------------------------------------
(* The native code. *)

LEMMA PlacesOf ==
  ASSUME NEW N \in Seq(Seq(NativeType))
  PROVE  /\ \A q : q \in UNION {{Place(n, k) : k \in DOMAIN N[n]} : n \in DOMAIN N} <=>
                \E n \in 1..Len(N) : \E k \in 1..Len(N[n]) : q = Place(n, k)
         /\ \A n \in 1..Len(N) : /\ N[n] \in Seq(NativeType) /\ Len(N[n]) \in Nat
                                 /\ N[n] = <<>> <=> Len(N[n]) = 0
                                 /\ \A k \in 1..Len(N[n]) : N[n][k] \in NativeType
         /\ Len(N) \in Nat
<1>1. DOMAIN N = 1..Len(N) /\ Len(N) \in Nat BY LenProperties
<1>2. \A n \in 1..Len(N) : N[n] \in Seq(NativeType) BY ElementOfSeq
<1>3. \A n \in 1..Len(N) : DOMAIN N[n] = 1..Len(N[n]) /\ Len(N[n]) \in Nat
  BY <1>2, LenProperties
<1>4. \A n \in 1..Len(N) : \A k \in 1..Len(N[n]) : N[n][k] \in NativeType
  BY <1>2, ElementOfSeq
<1>5. \A n \in 1..Len(N) : N[n] = <<>> <=> Len(N[n]) = 0 BY <1>2, EmptySeq
<1>6. UNION {{Place(n, k) : k \in DOMAIN N[n]} : n \in DOMAIN N}
         = UNION {{Place(n, k) : k \in 1..Len(N[n])} : n \in 1..Len(N)}
  BY <1>1, <1>3
<1>7. \A q : q \in UNION {{Place(n, k) : k \in 1..Len(N[n])} : n \in 1..Len(N)} <=>
           \E n \in 1..Len(N) : \E k \in 1..Len(N[n]) : q = Place(n, k)
  OBVIOUS
<1> QED BY <1>1, <1>2, <1>3, <1>4, <1>5, <1>6, <1>7

LEMMA NativeLemma ==
  ASSUME CompilerTypeOK
  PROVE  /\ \A n \in 1..Len(native) :
               /\ native[n] \in Seq(NativeType) /\ Len(native[n]) \in Nat
               /\ native[n] = <<>> <=> Len(native[n]) = 0
               /\ \A k \in 1..Len(native[n]) :
                     /\ native[n][k] \in NativeType
                     /\ Place(n, k) \in NativePlaces
                     /\ NativeAt(Place(n, k)) = native[n][k]
         /\ \A q \in NativePlaces : \E n \in 1..Len(native) :
               \E k \in 1..Len(native[n]) : q = Place(n, k)
         /\ \A p : \A q \in MadeFrom(p) :
               /\ q \in Nat \X Nat /\ NativeAt(q).source = p
               /\ NativeAt(q).op # "LandingPad"
               /\ \E n \in 1..Len(native) : \E k \in 1..Len(native[n]) : q = Place(n, k)
         /\ Len(native) \in Nat
<1>1. native \in Seq(Seq(NativeType)) BY DEF CompilerTypeOK
<1>2. \A q \in NativePlaces : \E n \in 1..Len(native) :
               \E k \in 1..Len(native[n]) : q = Place(n, k)
  BY ZenonT(60), <1>1, PlacesOf DEF NativePlaces
<1>3. \A n \in 1..Len(native) : \A k \in 1..Len(native[n]) : Place(n, k) \in NativePlaces
  BY <1>1, PlacesOf DEF NativePlaces
<1>4. \A n, k : NativeAt(Place(n, k)) = native[n][k] BY DEF NativeAt, Place
<1>5. \A n \in 1..Len(native) : \A k \in 1..Len(native[n]) : Place(n, k) \in Nat \X Nat
  BY <1>1, PlacesOf DEF Place
<1>6. \A p : \A q \in MadeFrom(p) :
         /\ q \in NativePlaces /\ NativeAt(q).source = p /\ NativeAt(q).op # "LandingPad"
  BY DEF MadeFrom
<1>7. \A p : \A q \in MadeFrom(p) :
         \E n \in 1..Len(native) : \E k \in 1..Len(native[n]) : q = Place(n, k)
  BY <1>2, <1>6
<1>8. \A p : \A q \in MadeFrom(p) : q \in Nat \X Nat BY <1>5, <1>7
<1> QED BY <1>1, <1>2, <1>3, <1>4, <1>6, <1>7, <1>8, PlacesOf

(* A step adds the instruction x to native block b and new blocks, which   *)
(* are empty or begin with a landing pad. *)
Grown(b, x) ==
    /\ native' \in Seq(Seq(NativeType)) /\ Len(native) <= Len(native')
    /\ b \in 1..Len(native) /\ x.op # "LandingPad"
    /\ Len(native'[b]) = Len(native[b]) + 1 /\ native'[b][Len(native[b]) + 1] = x
    /\ \A k \in 1..Len(native[b]) : native'[b][k] = native[b][k]
    /\ \A n \in 1..Len(native) : n # b => native'[n] = native[n]
    /\ \A n \in Len(native) + 1 .. Len(native') :
          /\ Len(native'[n]) <= 1
          /\ \A k \in 1..Len(native'[n]) : native'[n][k].op = "LandingPad"

NewPlace(b) == Place(b, Len(native[b]) + 1)

LEMMA GrownMade ==
  ASSUME CompilerTypeOK, NEW b, NEW x, Grown(b, x), NEW at, at = NewPlace(b)
  PROVE  /\ \A p, q : q \in MadeFrom(p)' <=>
                q \in MadeFrom(p) \/ (q = at /\ x.source = p)
         /\ \A p : MadeFrom(p) \subseteq MadeFrom(p)'
         /\ \A p : \A q \in MadeFrom(p) : NativeAt(q)' = NativeAt(q)
         /\ NativeAt(at)' = x
         /\ \A n \in 1..Len(native) : \A k \in 1..Len(native[n]) :
               native'[n][k] = native[n][k] /\ k \in 1..Len(native'[n])
<1>1. native \in Seq(Seq(NativeType)) /\ native' \in Seq(Seq(NativeType))
  BY DEF CompilerTypeOK, Grown
<1>2. /\ Len(native) \in Nat /\ Len(native') \in Nat /\ Len(native) <= Len(native')
      /\ \A n \in 1..Len(native) : Len(native[n]) \in Nat
      /\ \A n \in 1..Len(native') : Len(native'[n]) \in Nat
  BY <1>1, PlacesOf DEF Grown
<1>3. \A n \in 1..Len(native) : \A k \in 1..Len(native[n]) :
               native'[n][k] = native[n][k] /\ k \in 1..Len(native'[n])
  <2> SUFFICES ASSUME NEW n \in 1..Len(native), NEW k \in 1..Len(native[n])
               PROVE  native'[n][k] = native[n][k] /\ k \in 1..Len(native'[n])
    OBVIOUS
  <2>1. CASE n = b BY <1>2, <2>1 DEF Grown
  <2>2. CASE n # b BY <2>2 DEF Grown
  <2> QED BY <2>1, <2>2
<1> DEFINE Old(p, n, k) == /\ n \in 1..Len(native) /\ k \in 1..Len(native[n])
                           /\ native[n][k].source = p /\ native[n][k].op # "LandingPad"
           New(p, n, k) == /\ n \in 1..Len(native') /\ k \in 1..Len(native'[n])
                           /\ native'[n][k].source = p /\ native'[n][k].op # "LandingPad"
<1>4. \A p, q : q \in MadeFrom(p) <=> \E n, k : q = Place(n, k) /\ Old(p, n, k)
  <2>1. \A q : q \in NativePlaces <=> \E n \in 1..Len(native) :
               \E k \in 1..Len(native[n]) : q = Place(n, k)
    BY <1>1, PlacesOf DEF NativePlaces
  <2>2. \A n, k : NativeAt(Place(n, k)) = native[n][k] BY DEF NativeAt, Place
  <2> QED BY <2>1, <2>2 DEF MadeFrom
<1>5. \A p, q : q \in MadeFrom(p)' <=> \E n, k : q = Place(n, k) /\ New(p, n, k)
  <2>1. \A q : q \in NativePlaces' <=> \E n \in 1..Len(native') :
               \E k \in 1..Len(native'[n]) : q = Place(n, k)
    BY <1>1, PlacesOf DEF NativePlaces
  <2>2. \A n, k : NativeAt(Place(n, k))' = native'[n][k] BY DEF NativeAt, Place
  <2> QED BY <2>1, <2>2 DEF MadeFrom
<1>6. \A p, n, k : New(p, n, k) <=>
         Old(p, n, k) \/ (n = b /\ k = Len(native[b]) + 1 /\ x.source = p)
  <2> SUFFICES ASSUME NEW p, NEW n, NEW k
               PROVE  New(p, n, k) <=>
                        Old(p, n, k) \/ (n = b /\ k = Len(native[b]) + 1 /\ x.source = p)
    OBVIOUS
  <2>1. CASE n = b BY SMTT(60), <1>2, <2>1 DEF Grown
  <2>2. CASE n \in 1..Len(native) /\ n # b BY SMTT(60), <1>2, <2>2 DEF Grown
  <2>3. CASE n \in Len(native) + 1 .. Len(native') BY SMTT(60), <1>2, <2>3 DEF Grown
  <2>4. CASE n \notin 1..Len(native') BY <1>2, <2>4 DEF Grown
  <2> QED BY <1>2, <2>1, <2>2, <2>3, <2>4
<1> HIDE DEF Old, New
<1>7. \A p, q : q \in MadeFrom(p)' <=>
         q \in MadeFrom(p) \/ (q = at /\ x.source = p)
  <2>1. at = Place(b, Len(native[b]) + 1) BY DEF NewPlace
  <2> SUFFICES ASSUME NEW p, NEW q
               PROVE  q \in MadeFrom(p)' <=> q \in MadeFrom(p) \/ (q = at /\ x.source = p)
    OBVIOUS
  <2>2. q \in MadeFrom(p)' => q \in MadeFrom(p) \/ (q = at /\ x.source = p)
    <3> SUFFICES ASSUME q \in MadeFrom(p)'
                 PROVE  q \in MadeFrom(p) \/ (q = at /\ x.source = p)
      OBVIOUS
    <3>1. PICK n, k : q = Place(n, k) /\ New(p, n, k) BY <1>5
    <3> QED BY <3>1, <2>1, <1>4, <1>6
  <2>3. q \in MadeFrom(p) => q \in MadeFrom(p)' BY <1>4, <1>5, <1>6
  <2>4. q = at /\ x.source = p => q \in MadeFrom(p)' BY <2>1, <1>5, <1>6
  <2> QED BY <2>2, <2>3, <2>4
<1>8. \A p : \A q \in MadeFrom(p) : NativeAt(q)' = NativeAt(q)
  <2>1. \A n, k : NativeAt(Place(n, k))' = native'[n][k] BY DEF NativeAt, Place
  <2> QED BY SMTT(60), <2>1, <1>3, NativeLemma
<1>9. NativeAt(at)' = x
  <2>1. at = <<b, Len(native[b]) + 1>> BY DEF NewPlace, Place
  <2>2. at[1] = b /\ at[2] = Len(native[b]) + 1 BY <2>1
  <2>3. native'[at[1]][at[2]] = x BY <2>2 DEF Grown
  <2> QED BY <2>3 DEF NativeAt
<1> QED BY <1>3, <1>7, <1>8, <1>9

(* starts, continued for the new blocks *)
Continued(starts, new) ==
    /\ new \in Seq(Nat \X Nat) /\ Len(new) = Len(native')
    /\ \A n \in 1..Len(native) : new[n] = starts[n]

LEMMA GrownOrigin ==
  ASSUME CompilerTypeOK, NEW b, NEW x, Grown(b, x),
         NEW n \in 1..Len(native), native[n] # <<>>, NEW p
  PROVE  Origin(n, p)' = Origin(n, p)
<1>1. 1 \in 1..Len(native[n]) BY NativeLemma
<1>2. native'[n][1] = native[n][1] BY <1>1, GrownMade
<1> QED BY <1>2 DEF Origin

LEMMA OldInstructions ==
  ASSUME UNCHANGED codeVars, Compilable, CompilerTypeOK,
         NEW starts \in Seq(Nat \X Nat), Len(starts) = Len(native), NativeOK(starts),
         NEW b, NEW x, Grown(b, x), ~ Closed(b),
         NEW new, Continued(starts, new),
         NEW n \in 1..Len(native), NEW k \in 1..Len(native[n])
  PROVE  InstructionOK(new, n, k)'
<1>0. PICK y, p : y = native[n][k] /\ p = PlaceIn(starts, n, k) OBVIOUS
<1>1. InstructionOK(starts, n, k) BY DEF NativeOK
<1>2. native'[n][k] = y /\ k \in 1..Len(native'[n]) BY <1>0, GrownMade
<1>3. new[n] = starts[n] /\ PlaceIn(new, n, k) = p
  BY <1>0 DEF Continued, PlaceIn
<1>4. ASSUME PadOK(starts, n, y) PROVE PadOK(new, n, y)'
  <2>1. PICK r \in MadeFrom(y.source) : NativeAt(r).to[2] = n BY <1>4 DEF PadOK
  <2>2. r \in MadeFrom(y.source)' /\ NativeAt(r)'.to[2] = n BY <2>1, GrownMade
  <2> QED BY <1>3, <1>4, <2>2, SameCode DEF PadOK
<1>5. ASSUME TranslationOK(starts, n, y, p) PROVE TranslationOK(new, n, y, p)'
  <2>0. CodePlaces' = CodePlaces /\ CodeAt(p)' = CodeAt(p) BY SameCode
  <2>1. p \in CodePlaces' /\ y.source = p /\ y.op = CodeAt(p)'.op
    BY ONLY <1>5, <2>0 DEF TranslationOK
  <2>2. OperandsOK(y, p, Origin(n, p))'
    <3>1. OperandsOK(y, p, Origin(n, p)) BY <1>5 DEF TranslationOK
    <3>2. Origin(n, p)' = Origin(n, p) BY GrownOrigin, NativeLemma
    <3>5. PICK o : o = Origin(n, p) OBVIOUS
    <3>3. \A i \in DOMAIN y.operands : \E j \in Nat :
             /\ LastWrite(o, CodeAt(p).args[i], j)
             /\ y.operands[i] \in MadeFrom(Place(o[1], j))'
      BY <3>1, <3>5, GrownMade DEF OperandsOK
    <3>4. DOMAIN y.operands = DOMAIN CodeAt(p)'.args BY <3>1, SameCode DEF OperandsOK
    <3>6. OperandsOK(y, p, o)' BY <3>3, <3>4, SameCode DEF OperandsOK
    <3> QED BY <3>2, <3>5, <3>6
  <2>3. CodeAt(p)'.lpad # NoBlock => GoesOn(new, y, p)'
    <3> SUFFICES ASSUME CodeAt(p).lpad # NoBlock PROVE GoesOn(new, y, p)'
      BY SameCode
    <3>1. GoesOn(starts, y, p) BY <1>5 DEF TranslationOK
    <3>2. /\ Len(y.to) = 2 /\ \A i \in DOMAIN y.to : y.to[i] \in 1..Len(native)
          /\ DOMAIN y.to = 1..2
      <4>1. y \in NativeType BY <1>0, NativeLemma
      <4> QED BY <3>1, <4>1, LenProperties DEF GoesOn, NativeType
    <3>3. y.to[1] \in 1..Len(native) /\ y.to[2] \in 1..Len(native) BY <3>2
    <3>4. native[y.to[2]] # <<>> /\ native[y.to[2]][1].source = p BY <3>1 DEF GoesOn
    <3>5. 1 \in 1..Len(native[y.to[2]]) BY SMTT(60), <3>3, <3>4, NativeLemma
    <3>6. /\ native'[y.to[2]][1] = native[y.to[2]][1]
          /\ 1 \in 1..Len(native'[y.to[2]])
      BY <3>3, <3>5, GrownMade
    <3>7. native'[y.to[2]] # <<>> BY <3>6
    <3>8. Len(native) \in Nat /\ Len(native') \in Nat /\ Len(native) <= Len(native')
      BY LenProperties DEF Grown, CompilerTypeOK
    <3>9. \A i \in DOMAIN y.to : y.to[i] \in 1..Len(native') BY SMTT(60), <3>2, <3>8
    <3>10. new[y.to[1]] = Following(p) /\ new[y.to[2]] = Place(CodeAt(p).lpad, 0)
      BY <3>1, <3>3 DEF GoesOn, Continued
    <3> QED BY <3>2, <3>4, <3>6, <3>7, <3>9, <3>10, SameCode DEF GoesOn
  <2>4. CodeAt(p)'.lpad = NoBlock => Jumps(new, y, p)'
    <3> SUFFICES ASSUME CodeAt(p).lpad = NoBlock PROVE Jumps(new, y, p)'
      BY SameCode
    <3>1. Jumps(starts, y, p) BY <1>5 DEF TranslationOK
    <3>2. Len(native) \in Nat /\ Len(native') \in Nat /\ Len(native) <= Len(native')
      BY LenProperties DEF Grown, CompilerTypeOK
    <3>3. \A i \in 1..Len(native) : i \in 1..Len(native') /\ new[i] = starts[i]
      BY <3>2 DEF Continued
    <3> QED BY ONLY <3>1, <3>3, <2>0 DEF Jumps
  <2> QED BY ONLY <2>1, <2>2, <2>3, <2>4 DEF TranslationOK
<1>6. k < Len(native'[n]) => ~ EndsBlock(y)
  <2>1. CASE k < Len(native[n]) BY <1>0, <1>1, <2>1 DEF InstructionOK
  <2>2. CASE k = Len(native[n])
    <3>1. CASE n = b
      <4>1. native[n] # <<>> BY <2>2, NativeLemma
      <4> QED BY <1>0, <2>2, <3>1, <4>1 DEF Closed
    <3>2. CASE n # b
      <4>1. native'[n] = native[n] BY <3>2 DEF Grown
      <4>2. PICK l : l = Len(native[n]) OBVIOUS
      <4>3. PICK j : j = k OBVIOUS
      <4>4. j \in Nat /\ j = l
        <5>1. k \in Nat OBVIOUS
        <5> QED BY ONLY <2>2, <4>2, <4>3, <5>1
      <4>5. ~ (j < l) BY ONLY <4>4
      <4> QED BY ONLY <4>1, <4>2, <4>3, <4>5
    <3> QED BY <3>1, <3>2
  <2> QED BY <2>1, <2>2, NativeLemma
<1>7. CASE k = 1 /\ starts[n][2] = 0
  BY <1>0, <1>1, <1>2, <1>3, <1>4, <1>6, <1>7 DEF InstructionOK
<1>8. CASE ~ (k = 1 /\ starts[n][2] = 0)
  BY <1>0, <1>1, <1>2, <1>3, <1>5, <1>6, <1>8 DEF InstructionOK
<1> QED BY <1>7, <1>8

-----------------------------------------------------------------------------
(* The Visitors. *)

LEMMA StackLemma ==
  ASSUME NEW vs \in Seq(VisitorType), vs # <<>>, NEW u \in VisitorType
  PROVE  /\ Append(Front(vs), u) \in Seq(VisitorType)
         /\ Len(Append(Front(vs), u)) = Len(vs)
         /\ \A i \in 1..Len(vs) - 1 : Append(Front(vs), u)[i] = vs[i]
         /\ Append(Front(vs), u)[Len(vs)] = u
         /\ Last(vs) = vs[Len(vs)] /\ Last(vs) \in VisitorType
         /\ Len(vs) \in Nat \ {0}
<1> DEFINE f == Front(vs)
<1>1. /\ f \in Seq(VisitorType) /\ Len(f) = Len(vs) - 1
      /\ \A i \in 1..Len(vs) - 1 : f[i] = vs[i]
      /\ Last(vs) \in VisitorType /\ Len(vs) \in Nat \ {0}
  BY FrontLemma
<1> HIDE DEF f
<1>2. /\ Append(f, u) \in Seq(VisitorType) /\ Len(Append(f, u)) = Len(f) + 1
      /\ \A i \in 1..Len(f) : Append(f, u)[i] = f[i]
      /\ Append(f, u)[Len(f) + 1] = u
  BY <1>1, AppendProperties
<1> DEFINE g == Append(f, u)
<1> HIDE DEF g
<1>3. /\ g \in Seq(VisitorType) /\ Len(g) = Len(vs)
      /\ \A i \in 1..Len(vs) - 1 : g[i] = vs[i]
      /\ g[Len(vs)] = u
  BY <1>1, <1>2 DEF g
<1>4. Last(vs) = vs[Len(vs)] BY DEF Last
<1> QED BY <1>1, <1>3, <1>4 DEF f, g

(* What is known of the instruction that a Visitor looks at: v is the      *)
(* Visitor, p the place of the instruction and o the place whose values    *)
(* the temporaries have. *)
Visiting(starts, v, p, o) ==
    /\ visitors # <<>> /\ v = Top /\ v \in VisitorType
    /\ p = Here /\ p = Place(v.block, v.next)
    /\ Current = CodeAt(p) /\ CodeAt(p) \in Instruction /\ p \in CodePlaces
    /\ v.block \in 1..Len(blocks) /\ v.next \in 1..Len(blocks[v.block])
    /\ v.target \in 1..Len(native) /\ ~ Closed(v.target)
    /\ p = PlaceIn(starts, v.target, Len(native[v.target]) + 1)
    /\ starts[v.target][1] = v.block
    /\ starts[v.target][2] + Len(native[v.target]) = v.next
    /\ starts[v.target][2] = 0 => native[v.target] # <<>>
    /\ o \in Nat \X Nat /\ TempsOK(o)
    /\ o = IF native[v.target] # <<>> /\ native[v.target][1].op = "LandingPad"
           THEN native[v.target][1].source ELSE p
    /\ \A k \in DOMAIN CodeAt(p).args : \E j \in Nat :
          LastWrite(o, CodeAt(p).args[k], j)
    /\ \A n \in 1..Len(starts) : \A k \in 1..Len(native[n]) :
          PlaceIn(starts, n, k) = p =>
             starts[n][2] = 0 /\ starts[v.target][2] = 0
    /\ \A c \in ToSet(queue) : blockMap[c] # v.target
    /\ \/ /\ Len(visitors) = 1 /\ v = visitors[1] /\ OneVisitor(starts, v)
          /\ o = p /\ ~ IsPad(v.block) /\ starts[v.target][2] # 0
       \/ /\ Len(visitors) = 2 /\ v = visitors[2]
          /\ TwoVisitors(starts, visitors[1], v)
          /\ visitors[1] \in VisitorType
          /\ o = Place(visitors[1].block, visitors[1].next - 1)
          /\ IsPad(v.block) /\ starts[v.target][2] = 0
          /\ CodeAt(p).lpad = NoBlock /\ CodeAt(p).dest = NoTemp
          /\ visitors[1].target # v.target

LEMMA PadFirst ==
  ASSUME Compilable, CompilerTypeOK, NEW starts \in Seq(Nat \X Nat),
         StartsOK(starts), NativeOK(starts),
         NEW n \in 1..Len(native), native[n] # <<>>
  PROVE  /\ native[n][1].op = "LandingPad" <=> starts[n][2] = 0
         /\ starts[n][2] = 0 => /\ native[n][1].source \in CodePlaces
                                /\ CodeAt(native[n][1].source).lpad = starts[n][1]
<1>1. 1 \in 1..Len(native[n]) BY NativeLemma
<1>2. InstructionOK(starts, n, 1) BY <1>1 DEF NativeOK
<1>3. CASE starts[n][2] = 0 BY <1>2, <1>3 DEF InstructionOK, PadOK
<1>4. CASE starts[n][2] # 0
  <2>1. PICK p : p \in CodePlaces /\ native[n][1].op = CodeAt(p).op
    BY <1>2, <1>4 DEF InstructionOK, TranslationOK
  <2>2. CodeAt(p) \in Instruction BY <2>1, PlaceLemma
  <2>3. CodeAt(p).op # "LandingPad" BY <2>2 DEF Instruction, Kind
  <2> QED BY <1>4, <2>1, <2>3
<1> QED BY <1>3, <1>4

LEMMA StartsLemma ==
  ASSUME Compilable, CompilerTypeOK, NEW starts \in Seq(Nat \X Nat),
         StartsOK(starts), NEW n \in 1..Len(native)
  PROVE  /\ n \in 1..Len(starts) /\ starts[n] \in Nat \X Nat
         /\ starts[n] = <<starts[n][1], starts[n][2]>>
         /\ starts[n][1] \in 1..Len(blocks) /\ starts[n][2] \in Nat
         /\ starts[n][2] = 0 <=> IsPad(starts[n][1])
<1>1. n \in 1..Len(starts) BY DEF StartsOK
<1>2. starts[n] \in Nat \X Nat BY <1>1, ElementOfSeq
<1> QED BY <1>1, <1>2 DEF StartsOK

LEMMA VisitingLemma ==
  ASSUME Compilable, CompilerTypeOK, Compiling,
         NEW starts \in Seq(Nat \X Nat), CodeOK(starts)
  PROVE  \E v, p, o : Visiting(starts, v, p, o)
<1>1. visitors \in Seq(VisitorType) /\ visitors # <<>>
  BY DEF CompilerTypeOK, Compiling, Active
<1>2. /\ StartsOK(starts) /\ NativeOK(starts) /\ QueueOK(starts)
      /\ VisitorsOK(starts) /\ Len(starts) = Len(native)
  BY DEF CodeOK, StartsOK
<1>3. PICK v : v = Top OBVIOUS
<1>4. v \in VisitorType /\ v = visitors[Len(visitors)]
  BY <1>1, <1>3, FrontLemma DEF Top, Last
<1> DEFINE N == Len(native[v.target])
<1>5. \/ Len(visitors) = 1 /\ v = visitors[1] /\ OneVisitor(starts, v)
      \/ /\ Len(visitors) = 2 /\ v = visitors[2]
         /\ TwoVisitors(starts, visitors[1], v)
  BY <1>1, <1>2, <1>4 DEF VisitorsOK
<1>6. VisitorOK(starts, v) BY <1>5 DEF OneVisitor, TwoVisitors
<1>7. v.next \in 1..Len(blocks[v.block])
  BY <1>3, <1>6, PlacesLemma DEF Compiling, VisitorOK
<1>8. /\ v.block \in 1..Len(blocks) /\ v.target \in 1..Len(native)
      /\ ~ Closed(v.target)
      /\ Place(v.block, v.next) = PlaceIn(starts, v.target, N + 1)
  BY <1>6, <1>7, PlacesLemma DEF VisitorOK
<1>9. PICK p : p = Place(v.block, v.next) OBVIOUS
<1>10. /\ p \in CodePlaces /\ CodeAt(p) = blocks[v.block][v.next]
       /\ p[1] = v.block /\ p[2] = v.next
  BY <1>7, <1>8, <1>9, CodeLemma DEF Place
<1>11. p = Here /\ Current = CodeAt(p) BY <1>3, <1>9, <1>10 DEF Here, Current
<1>12. N \in Nat BY <1>8, NativeLemma
<1>13. starts[v.target][1] = v.block /\ starts[v.target][2] + N = v.next
  <2>1. v.next = starts[v.target][2] + (N + 1) - 1 /\ starts[v.target][1] = v.block
    BY <1>8 DEF PlaceIn, Place
  <2>2. starts[v.target][2] \in Nat BY <1>2, <1>8, StartsLemma
  <2> HIDE DEF N
  <2> QED BY <1>12, <2>1, <2>2
<1>14. /\ starts[v.target][2] = 0 <=> IsPad(v.block)
       /\ starts[v.target][2] = 0 => native[v.target] # <<>>
  BY <1>2, <1>8, <1>13, StartsLemma DEF StartsOK
<1>15. p \in Nat \X Nat /\ CodeAt(p) \in Instruction BY <1>10, PlaceLemma
<1>16. native[v.target] # <<>> =>
          (native[v.target][1].op = "LandingPad" <=> starts[v.target][2] = 0)
  BY SMTT(60), <1>2, <1>8, PadFirst
<1>17. ASSUME Len(visitors) = 1, OneVisitor(starts, v), v = visitors[1]
       PROVE  Visiting(starts, v, p, p)
  <2>1. OuterOK(starts, v) /\ TempsOK(p) BY <1>8, <1>9, <1>17 DEF OneVisitor
  <2>2. ~ IsPad(v.block) /\ starts[v.target][2] # 0 BY <1>14, <2>1 DEF OuterOK
  <2>3. ASSUME NEW k \in DOMAIN CodeAt(p).args
        PROVE  \E j \in Nat : LastWrite(p, CodeAt(p).args[k], j)
    <3>1. WrittenBefore(p, CodeAt(p).args[k])
      <4>1. ReadsAreLocal(p) BY <1>10, PlaceLemma
      <4> QED BY <4>1, <2>2, <1>10 DEF ReadsAreLocal
    <3> QED BY <3>1, <1>9, <1>4, LastWriteExists DEF VisitorType
  <2>4. ASSUME NEW n \in 1..Len(starts), NEW k \in 1..Len(native[n]),
               PlaceIn(starts, n, k) = p
        PROVE  FALSE
    <3>1. starts[n][1] = v.block /\ starts[n][2] + k - 1 = v.next
      BY <1>9, <2>4 DEF PlaceIn, Place
    <3>2. starts[n][2] + Len(native[n]) <= v.next BY <3>1, <2>1 DEF OuterOK
    <3>3. n \in 1..Len(native) BY <1>2
    <3>4. Len(native[n]) \in Nat /\ starts[n][2] \in Nat
      BY <1>2, <3>3, NativeLemma, StartsLemma
    <3>5. k \in Nat /\ k <= Len(native[n]) BY <3>4
    <3>6. v.next \in Nat BY <1>4 DEF VisitorType
    <3> QED BY SMTT(60), <3>1, <3>2, <3>4, <3>5, <3>6
  <2>5. ASSUME NEW c \in ToSet(queue) PROVE blockMap[c] # v.target
    <3> SUFFICES ASSUME blockMap[c] = v.target PROVE FALSE OBVIOUS
    <3>1. c \in DOMAIN blockMap BY <1>2 DEF QueueOK
    <3>2. starts[blockMap[c]] = Place(c, 1) BY <3>1 DEF CodeOK, MapOK
    <3>3. starts[v.target][1] = c BY <3>2 DEF Place
    <3> QED BY <3>3, <1>13, <2>1, <2>5 DEF OuterOK
  <2> QED BY <1>1, <1>3, <1>4, <1>7, <1>8, <1>9, <1>10, <1>11, <1>13, <1>14, <1>15, <1>16,
             <1>17, <2>1, <2>2, <2>3, <2>4, <2>5 DEF Visiting
<1>18. ASSUME Len(visitors) = 2, v = visitors[2], TwoVisitors(starts, visitors[1], v)
       PROVE  \E o : Visiting(starts, v, p, o)
  <2>0. PICK u : u = visitors[1] OBVIOUS
  <2>1. u \in VisitorType BY <1>1, <1>18, <2>0, ElementOfSeq
  <2>2. PICK o : o = Place(u.block, u.next - 1) OBVIOUS
  <2>3. /\ InnerOK(u, v) /\ TempsOK(o) /\ VisitorOK(starts, u) /\ OuterOK(starts, u)
    BY <1>18, <2>0, <2>2 DEF TwoVisitors
  <2>4. /\ u.next - 1 \in 1..Len(blocks[u.block]) /\ u.block \in 1..Len(blocks)
        /\ u.target \in 1..Len(native) /\ v.block = CodeAt(o).lpad /\ v.block # NoBlock
        /\ native[v.target][1].source = o
    BY SMTT(60), <2>1, <2>2, <2>3, PlacesLemma DEF VisitorOK, InnerOK, VisitorType
  <2>5. o \in CodePlaces /\ CodeAt(o).lpad = v.block /\ o \in Nat \X Nat
    BY <2>2, <2>4, CodeLemma, PlaceLemma
  <2>6. IsPad(v.block) /\ starts[v.target][2] = 0 /\ native[v.target] # <<>>
    BY <1>14, <2>5 DEF IsPad
  <2>7. native[v.target][1].op = "LandingPad" BY <1>16, <2>6
  <2>8. CodeAt(p).lpad = NoBlock /\ CodeAt(p).dest = NoTemp
    BY <1>10, <2>6, PlaceLemma
  <2>9. ASSUME NEW k \in DOMAIN CodeAt(p).args
        PROVE  \E j \in Nat : LastWrite(o, CodeAt(p).args[k], j)
    <3>0. PICK t : t = CodeAt(p).args[k] OBVIOUS
    <3>1. t # NoTemp
      <4>1. NamesExist(CodeAt(p)) BY <1>10, PlaceLemma
      <4> QED BY <4>1, <3>0 DEF NamesExist, NoTemp
    <3>2. ~ WrittenBefore(p, t)
      <4> SUFFICES ASSUME NEW j \in 1..v.next - 1, blocks[v.block][j].dest = t
                   PROVE  FALSE
        BY <1>10 DEF WrittenBefore
      <4>1. j \in 1..Len(blocks[v.block]) BY <1>7
      <4>2. blocks[v.block][j].dest = NoTemp BY SMTT(60), <1>8, <2>6, <4>1, CodeLemma
      <4> QED BY <3>1, <4>2
    <3>3. WrittenBefore(o, t)
      <4>1. ReadsAreLocal(p) BY <1>10, PlaceLemma
      <4> QED BY <4>1, <2>5, <2>6, <1>10, <3>0, <3>2 DEF ReadsAreLocal
    <3>4. u.next - 1 \in Nat BY <2>4
    <3> QED BY <3>0, <3>3, <3>4, <2>2, LastWriteExists
  <2>10. ASSUME NEW n \in 1..Len(starts), NEW k \in 1..Len(native[n]),
                PlaceIn(starts, n, k) = p
         PROVE  starts[n][2] = 0
    <3>1. starts[n][1] = v.block BY <1>9, <2>10 DEF PlaceIn, Place
    <3> QED BY <3>1, <2>6, <1>2, StartsLemma
  <2>11. ASSUME NEW c \in ToSet(queue) PROVE blockMap[c] # v.target
    <3>1. native[blockMap[c]] = <<>> BY <1>2 DEF QueueOK
    <3> QED BY <3>1, <2>6
  <2>12. u.target # v.target
    <3> SUFFICES ASSUME u.target = v.target PROVE FALSE OBVIOUS
    <3>1. starts[u.target][1] = u.block BY <2>3 DEF VisitorOK, PlaceIn, Place
    <3> QED BY <3>1, <2>3, <2>6, <1>13 DEF OuterOK
  <2> QED BY ZenonT(60), <1>1, <1>3, <1>4, <1>7, <1>8, <1>9, <1>10, <1>11, <1>13, <1>14, <1>15, <1>16,
             <1>18, <2>0, <2>1, <2>2, <2>3, <2>4, <2>5, <2>6, <2>7, <2>8, <2>9, <2>10,
             <2>11, <2>12 DEF Visiting
<1> QED BY <1>5, <1>17, <1>18

-----------------------------------------------------------------------------
(* The steps of a Visitor. *)

(* The blocks that a step adds: of blocks that have been mapped, of the    *)
(* instructions that follow an invoke, or of a landing pad. *)
NewBlocks(new, p) ==
    /\ \A n \in Len(native) + 1 .. Len(native') :
          \/ /\ native'[n] = <<>> /\ new[n][2] = 1 /\ new[n][1] \in 1..Len(blocks)
             /\ ~ IsPad(new[n][1])
             /\ new[n][1] \notin DOMAIN blockMap /\ new[n][1] \in DOMAIN blockMap'
          \/ native'[n] = <<>> /\ new[n] = Following(p) /\ ~ IsPad(p[1])
          \/ /\ Len(native'[n]) = 1 /\ new[n][2] = 0 /\ new[n][1] \in 1..Len(blocks)
             /\ IsPad(new[n][1])
             /\ \E y : y = native'[n][1] /\ PadOK(new, n, y)'
    /\ \A m, n \in Len(native) + 1 .. Len(native') :
          new[m] = new[n] /\ new[m][2] # 0 => m = n

LEMMA FollowingIsNew ==
  ASSUME Compilable, CompilerTypeOK, NEW starts \in Seq(Nat \X Nat), StartsOK(starts),
         NEW v, NEW p, NEW o, Visiting(starts, v, p, o), ~ IsPad(p[1])
  PROVE  /\ p[1] \in DOMAIN blockMap /\ p[1] \in 1..Len(blocks)
         /\ Following(p)[1] = p[1] /\ Following(p)[2] = v.next + 1
         /\ p[1] = v.block /\ v.next \in Nat
         /\ \A n \in 1..Len(native) : starts[n] # Following(p)
<1>1. p = Place(v.block, v.next) BY DEF Visiting
<1>2. /\ p[1] = v.block /\ p[2] = v.next
      /\ Following(p)[1] = v.block /\ Following(p)[2] = v.next + 1
  BY <1>1 DEF Place, Following
<1>3. v.next \in Nat /\ v.block \in 1..Len(blocks) /\ v.target \in 1..Len(native)
  BY DEF Visiting, VisitorType
<1>4. OuterOK(starts, v) /\ starts[v.target][2] # 0 /\ starts[v.target][1] = v.block
  BY <1>2 DEF Visiting, OneVisitor
<1>5. v.block \in DOMAIN blockMap
  <2>1. v.target \in 1..Len(starts) BY <1>3, StartsLemma
  <2> QED BY <2>1, <1>4 DEF StartsOK
<1>6. ASSUME NEW n \in 1..Len(native), starts[n] = Following(p) PROVE FALSE
  <2>1. starts[n][1] = v.block /\ starts[n][2] = v.next + 1 BY <1>2, <1>6
  <2>2. n \in 1..Len(starts) BY StartsLemma
  <2>3. starts[n][2] <= v.next BY <1>4, <2>1, <2>2 DEF OuterOK
  <2> QED BY <1>3, <2>1, <2>3
<1> QED BY <1>2, <1>3, <1>5, <1>6

LEMMA NewStarts ==
  ASSUME Compilable, CompilerTypeOK, UNCHANGED codeVars,
         NEW starts \in Seq(Nat \X Nat), StartsOK(starts),
         NEW v, NEW p, NEW o, Visiting(starts, v, p, o),
         NEW b, b = v.target, NEW x, Grown(b, x),
         NEW new, Continued(starts, new), NewBlocks(new, p),
         DOMAIN blockMap \subseteq DOMAIN blockMap'
  PROVE  StartsOK(new)'
<1>0. /\ Len(native) \in Nat /\ Len(native') \in Nat /\ Len(native) <= Len(native')
      /\ Len(new) = Len(native') /\ Len(starts) = Len(native)
      /\ \A n \in 1..Len(native) : new[n] = starts[n] /\ n \in 1..Len(native')
      /\ b \in 1..Len(native)
      /\ \A n \in 1..Len(native) : Len(native[n]) \in Nat
      /\ \A n \in 1..Len(native') : native'[n] = <<>> <=> Len(native'[n]) = 0
      /\ Len(native'[b]) = Len(native[b]) + 1
  <2>1. native \in Seq(Seq(NativeType)) /\ native' \in Seq(Seq(NativeType))
    BY DEF Grown, CompilerTypeOK
  <2>2. /\ Len(native) \in Nat /\ Len(native') \in Nat
        /\ \A n \in 1..Len(native) : Len(native[n]) \in Nat
        /\ \A n \in 1..Len(native') : native'[n] = <<>> <=> Len(native'[n]) = 0
    BY <2>1, PlacesOf
  <2>3. /\ Len(native) <= Len(native') /\ b \in 1..Len(native)
        /\ Len(native'[b]) = Len(native[b]) + 1
    BY DEF Grown
  <2>4. /\ Len(new) = Len(native') /\ Len(starts) = Len(native)
        /\ \A n \in 1..Len(native) : new[n] = starts[n]
    BY DEF Continued, StartsOK
  <2> QED BY <2>2, <2>3, <2>4
<1>1. blocks' = blocks /\ \A c : IsPad(c)' <=> IsPad(c) BY SameCode DEF codeVars
<1> DEFINE New == Len(native) + 1 .. Len(native')
           IsNew(n) == n \in New
<1>2. \A n \in 1..Len(native') : n \in 1..Len(native) \/ n \in New BY <1>0
<1>3. ASSUME NEW n \in 1..Len(native)
      PROVE  /\ new[n][1] \in 1..Len(blocks)
             /\ new[n][2] = 0 <=> IsPad(new[n][1])
             /\ new[n][2] = 0 => native[n] # <<>>
             /\ new[n][2] # 0 => new[n][1] \in DOMAIN blockMap
  BY <1>0 DEF StartsOK
<1>4. \A n \in 1..Len(native) : native[n] # <<>> => native'[n] # <<>>
  <2> SUFFICES ASSUME NEW n \in 1..Len(native), native[n] # <<>> PROVE native'[n] # <<>>
    OBVIOUS
  <2>1. 1 \in 1..Len(native[n]) BY NativeLemma
  <2>2. 1 \in 1..Len(native'[n]) BY <2>1, GrownMade
  <2> QED BY <2>2
<1>5. ASSUME NEW n \in New
      PROVE  /\ new[n][1] \in 1..Len(blocks)
             /\ new[n][2] = 0 <=> IsPad(new[n][1])
             /\ new[n][2] = 0 => native'[n] # <<>>
             /\ new[n][2] # 0 => new[n][1] \in DOMAIN blockMap' /\ native'[n] = <<>>
             /\ \A m \in 1..Len(native) : new[m] = new[n] => new[n][2] = 0
  <2>1. CASE /\ native'[n] = <<>> /\ new[n][2] = 1 /\ new[n][1] \in 1..Len(blocks)
             /\ ~ IsPad(new[n][1])
             /\ new[n][1] \notin DOMAIN blockMap /\ new[n][1] \in DOMAIN blockMap'
    BY <2>1, <1>3
  <2>2. CASE native'[n] = <<>> /\ new[n] = Following(p) /\ ~ IsPad(p[1])
    <3>1. /\ p[1] \in DOMAIN blockMap /\ p[1] \in 1..Len(blocks)
          /\ Following(p)[1] = p[1] /\ Following(p)[2] = v.next + 1
          /\ v.next \in Nat
          /\ \A m \in 1..Len(native) : starts[m] # Following(p)
      BY <2>2, FollowingIsNew
    <3>2. new[n][2] # 0 BY <3>1, <2>2
    <3> QED BY <3>1, <3>2, <2>2, <1>0
  <2>3. CASE /\ Len(native'[n]) = 1 /\ new[n][2] = 0 /\ new[n][1] \in 1..Len(blocks)
             /\ IsPad(new[n][1])
    <3>0. n \in 1..Len(native') BY <1>0
    <3>1. Len(native'[n]) # 0 BY <2>3
    <3>2. native'[n] # <<>> BY ONLY <3>1, <3>0, <1>0
    <3> QED BY <2>3, <3>2
  <2> QED BY <2>1, <2>2, <2>3 DEF NewBlocks
<1>6. \A m, n \in 1..Len(native') : new[m] = new[n] /\ new[m][2] # 0 => m = n
  <2> SUFFICES ASSUME NEW m \in 1..Len(native'), NEW n \in 1..Len(native'),
                      new[m] = new[n], new[m][2] # 0
               PROVE  m = n
    OBVIOUS
  <2>1. CASE m \in 1..Len(native) /\ n \in 1..Len(native)
    <3>1. \A i, j \in 1..Len(starts) :
             starts[i] = starts[j] /\ starts[i][2] # 0 => i = j
      BY DEF StartsOK
    <3>2. m \in 1..Len(starts) /\ n \in 1..Len(starts) BY <2>1, <1>0
    <3>3. starts[m] = starts[n] /\ starts[m][2] # 0 BY <2>1, <1>0
    <3> QED BY ONLY <3>1, <3>2, <3>3
  <2>2. CASE m \in New /\ n \in New BY <2>2 DEF NewBlocks
  <2>3. CASE m \in 1..Len(native) /\ n \in New BY <2>3, <1>5
  <2>4. CASE n \in 1..Len(native) /\ m \in New BY <2>4, <1>5
  <2> QED BY <2>1, <2>2, <2>3, <2>4, <1>2
<1>7. ASSUME NEW m \in 1..Len(native'), NEW n \in 1..Len(native'),
             NEW k \in 1..Len(native'[m]), NEW l \in 1..Len(native'[n]),
             PlaceIn(new, m, k) = PlaceIn(new, n, l), new[m][2] # 0
      PROVE  m = n /\ k = l
  <2>1. new[m][1] = new[n][1] BY <1>7 DEF PlaceIn, Place
  <2>2. new[n][2] # 0 BY <1>2, <1>3, <1>5, <1>7, <2>1
  <2>3. \A i \in New : new[i][2] # 0 => Len(native'[i]) = 0 BY <1>5
  <2>4. m \in 1..Len(native) /\ n \in 1..Len(native)
    <3>1. m \notin New BY <2>3, <1>7
    <3>2. n \notin New BY <2>3, <2>2
    <3> QED BY <3>1, <3>2, <1>2
  <2>5. PlaceIn(starts, m, k) = PlaceIn(starts, n, l) /\ starts[m][2] # 0
    BY <2>4, <1>0, <1>7 DEF PlaceIn
  <2>6. \A i \in 1..Len(native) : \A j \in 1..Len(native'[i]) :
           j \in 1..Len(native[i]) \/ (i = b /\ j = Len(native[b]) + 1)
    <3> SUFFICES ASSUME NEW i \in 1..Len(native), NEW j \in 1..Len(native'[i])
                 PROVE  j \in 1..Len(native[i]) \/ (i = b /\ j = Len(native[b]) + 1)
      OBVIOUS
    <3>1. CASE i = b
      <4>1. j \in 1..Len(native[b]) + 1 /\ Len(native[b]) \in Nat BY <3>1, <1>0
      <4> QED BY SMTT(60), <3>1, <4>1
    <3>2. CASE i # b BY <3>2 DEF Grown
    <3> QED BY <3>1, <3>2
  <2>7. PlaceIn(starts, b, Len(native[b]) + 1) = p BY DEF Visiting
  <2>8. \A i \in 1..Len(native) : \A j \in 1..Len(native[i]) :
           PlaceIn(starts, i, j) = p => starts[i][2] = 0
    BY <1>0 DEF Visiting
  <2>9. starts[n][2] # 0 BY <2>2, <2>4, <1>0
  <2>10. CASE k \in 1..Len(native[m]) /\ l \in 1..Len(native[n])
    <3>1. \A i, j \in 1..Len(starts) :
             \A g \in 1..Len(native[i]), h \in 1..Len(native[j]) :
                PlaceIn(starts, i, g) = PlaceIn(starts, j, h) /\ starts[i][2] # 0
                    => i = j /\ g = h
      BY DEF StartsOK
    <3>2. m \in 1..Len(starts) /\ n \in 1..Len(starts) BY <2>4, <1>0
    <3>3. \A g \in 1..Len(native[m]), h \in 1..Len(native[n]) :
             PlaceIn(starts, m, g) = PlaceIn(starts, n, h) /\ starts[m][2] # 0
                 => m = n /\ g = h
      BY ONLY <3>1, <3>2
    <3>4. k \in 1..Len(native[m]) /\ l \in 1..Len(native[n]) BY <2>10
    <3> HIDE DEF New, IsNew
    <3> QED BY ONLY <3>3, <3>4, <2>5
  <2>11. CASE m = b /\ k = Len(native[b]) + 1 /\ l \in 1..Len(native[n])
    BY <2>11, <2>4, <2>5, <2>7, <2>8, <2>9
  <2>12. CASE n = b /\ l = Len(native[b]) + 1 /\ k \in 1..Len(native[m])
    BY <2>12, <2>4, <2>5, <2>7, <2>8
  <2> QED BY <2>4, <2>6, <2>10, <2>11, <2>12
<1> HIDE DEF New
<1>8. \A n \in 1..Len(new) :
          /\ new[n][1] \in 1..Len(blocks)
          /\ new[n][2] = 0 <=> IsPad(new[n][1])
          /\ new[n][2] = 0 => native'[n] # <<>>
          /\ new[n][2] # 0 => new[n][1] \in DOMAIN blockMap'
  BY <1>0, <1>2, <1>3, <1>4, <1>5
<1>9. \A n \in 1..Len(new) : (new[n][2] = 0) <=> IsPad(new[n][1])' BY <1>1, <1>8
<1> QED BY ONLY <1>0, <1>1, <1>6, <1>7, <1>8, <1>9 DEF StartsOK, PlaceIn, Place

LEMMA NewNative ==
  ASSUME Compilable, CompilerTypeOK, UNCHANGED codeVars,
         NEW starts \in Seq(Nat \X Nat), StartsOK(starts), NativeOK(starts),
         NEW v, NEW p, NEW o, Visiting(starts, v, p, o),
         NEW b, b = v.target, NEW x, Grown(b, x),
         NEW new, Continued(starts, new), NewBlocks(new, p),
         TranslationOK(new, b, x, p)'
  PROVE  NativeOK(new)'
<1>0. /\ Len(native) \in Nat /\ Len(native') \in Nat /\ Len(native) <= Len(native')
      /\ Len(starts) = Len(native)
      /\ \A n \in 1..Len(native) : new[n] = starts[n]
      /\ b \in 1..Len(native) /\ ~ Closed(b)
      /\ \A n \in 1..Len(native) : Len(native[n]) \in Nat
  BY PlacesOf DEF Grown, Continued, CompilerTypeOK, StartsOK, Visiting
<1> SUFFICES ASSUME NEW n \in 1..Len(native'), NEW k \in 1..Len(native'[n])
             PROVE  InstructionOK(new, n, k)'
  BY DEF NativeOK
<1>1. CASE n \in 1..Len(native) /\ k \in 1..Len(native[n])
  BY SMTT(60), <1>0, <1>1, OldInstructions
<1>2. CASE n = b /\ k = Len(native[b]) + 1
  <2>1. native'[n][k] = x /\ Len(native'[n]) = k /\ PlaceIn(new, n, k) = p
    BY <1>0, <1>2 DEF Grown, PlaceIn, Visiting
  <2>2. ~ (k = 1 /\ new[n][2] = 0)
    <3>1. starts[b][2] = 0 => Len(native[b]) # 0
      BY <1>0, NativeLemma DEF Visiting
    <3> QED BY <1>0, <1>2, <3>1
  <2>3. ~ (k < Len(native'[n])) BY <1>0, <1>2, <2>1
  <2> QED BY <1>2, <2>1, <2>2, <2>3 DEF InstructionOK
<1>3. CASE n \in Len(native) + 1 .. Len(native')
  <2>1. /\ Len(native'[n]) = 1 /\ new[n][2] = 0
        /\ \E y : y = native'[n][1] /\ PadOK(new, n, y)'
    BY <1>3 DEF NewBlocks
  <2>2. PICK y : y = native'[n][1] /\ PadOK(new, n, y)' BY <2>1
  <2>3. k = 1 BY <2>1
  <2> QED BY <2>1, <2>2, <2>3 DEF InstructionOK
<1>4. CASE n = b /\ k \notin 1..Len(native[b]) BY SMTT(60), <1>0, <1>2, <1>4 DEF Grown
<1>5. CASE n \in 1..Len(native) /\ n # b BY <1>1, <1>5 DEF Grown
<1> QED BY SMTT(60), <1>0, <1>1, <1>3, <1>4, <1>5

LEMMA AppendNativeLemma ==
  ASSUME NEW N \in Seq(Seq(NativeType)), NEW b \in 1..Len(N), NEW x \in NativeType
  PROVE  /\ AppendNative(N, b, x) \in Seq(Seq(NativeType))
         /\ Len(AppendNative(N, b, x)) = Len(N)
         /\ Len(AppendNative(N, b, x)[b]) = Len(N[b]) + 1
         /\ AppendNative(N, b, x)[b][Len(N[b]) + 1] = x
         /\ \A k \in 1..Len(N[b]) : AppendNative(N, b, x)[b][k] = N[b][k]
         /\ \A n \in 1..Len(N) : n # b => AppendNative(N, b, x)[n] = N[n]
<1>1. N[b] \in Seq(NativeType) BY ElementOfSeq
<1>2. PICK s : s = Append(N[b], x) OBVIOUS
<1>3. /\ s \in Seq(NativeType) /\ Len(s) = Len(N[b]) + 1 /\ s[Len(N[b]) + 1] = x
      /\ \A k \in 1..Len(N[b]) : s[k] = N[b][k]
  BY <1>1, <1>2, AppendProperties
<1>4. AppendNative(N, b, x) = [N EXCEPT ![b] = s] BY <1>2 DEF AppendNative
<1>5. /\ [N EXCEPT ![b] = s] \in Seq(Seq(NativeType))
      /\ Len([N EXCEPT ![b] = s]) = Len(N)
      /\ \A n \in 1..Len(N) : [N EXCEPT ![b] = s][n] = IF n = b THEN s ELSE N[n]
  BY <1>3, ExceptSeq
<1> QED BY <1>3, <1>4, <1>5

LEMMA GrownBy ==
  ASSUME CompilerTypeOK, NEW N \in Seq(Seq(NativeType)), Len(native) <= Len(N),
         \A n \in 1..Len(native) : N[n] = native[n],
         \A n \in Len(native) + 1 .. Len(N) : N[n] = <<>>,
         NEW b \in 1..Len(native), NEW x \in NativeType, x.op # "LandingPad",
         native' = AppendNative(N, b, x)
  PROVE  /\ Grown(b, x) /\ Len(native') = Len(N)
         /\ \A n \in 1..Len(N) : n # b => native'[n] = N[n]
<1>1. PICK M : M = AppendNative(N, b, x) OBVIOUS
<1>2. /\ Len(native) \in Nat /\ Len(N) \in Nat /\ Len(native) <= Len(N)
      /\ \A n \in 1..Len(native) : n \in 1..Len(N)
  <2>1. native \in Seq(Seq(NativeType)) BY DEF CompilerTypeOK
  <2>2. Len(native) \in Nat /\ Len(N) \in Nat BY <2>1, LenProperties
  <2> QED BY <2>2
<1>3. b \in 1..Len(N) BY <1>2
<1>4. /\ M \in Seq(Seq(NativeType)) /\ Len(M) = Len(N)
      /\ Len(M[b]) = Len(N[b]) + 1 /\ M[b][Len(N[b]) + 1] = x
      /\ \A k \in 1..Len(N[b]) : M[b][k] = N[b][k]
      /\ \A n \in 1..Len(N) : n # b => M[n] = N[n]
  <2>1. /\ AppendNative(N, b, x) \in Seq(Seq(NativeType))
        /\ Len(AppendNative(N, b, x)) = Len(N)
        /\ Len(AppendNative(N, b, x)[b]) = Len(N[b]) + 1
        /\ AppendNative(N, b, x)[b][Len(N[b]) + 1] = x
        /\ \A k \in 1..Len(N[b]) : AppendNative(N, b, x)[b][k] = N[b][k]
        /\ \A n \in 1..Len(N) : n # b => AppendNative(N, b, x)[n] = N[n]
    BY <1>3, AppendNativeLemma
  <2> QED BY ONLY <1>1, <2>1
<1>5. N[b] = native[b] OBVIOUS
<1>6. \A n \in 1..Len(native) : n # b => M[n] = native[n] BY <1>2, <1>4
<1>7. \A n \in Len(native) + 1 .. Len(M) :
         Len(M[n]) <= 1 /\ \A k \in 1..Len(M[n]) : M[n][k].op = "LandingPad"
  <2> SUFFICES ASSUME NEW n \in Len(native) + 1 .. Len(M) PROVE Len(M[n]) = 0 OBVIOUS
  <2>1. n \in 1..Len(N) /\ n # b BY <1>2, <1>4
  <2>2. M[n] = N[n] /\ N[n] = <<>> BY <1>4, <2>1
  <2>3. Len(N[n]) = 0 BY <2>1, <2>2, PlacesOf
  <2> QED BY <2>2, <2>3
<1>8. native' = M BY <1>1
<1>9. Len(native) <= Len(M) BY <1>4
<1>10. b \in 1..Len(native) /\ x.op # "LandingPad" OBVIOUS
<1>11. Grown(b, x)
  <2>1. /\ Len(M[b]) = Len(native[b]) + 1 /\ M[b][Len(native[b]) + 1] = x
        /\ \A k \in 1..Len(native[b]) : M[b][k] = native[b][k]
        /\ M \in Seq(Seq(NativeType))
    BY ONLY <1>4, <1>5
  <2> QED BY ONLY <1>6, <1>7, <1>8, <1>9, <1>10, <2>1 DEF Grown
<1> QED BY ONLY <1>4, <1>8, <1>11

LEMMA OperandsType ==
  ASSUME Compilable, CompilerTypeOK, NEW p \in CodePlaces
  PROVE  /\ Operands(CodeAt(p)) \in Seq(Nat \X Nat)
         /\ DOMAIN Operands(CodeAt(p)) = DOMAIN CodeAt(p).args
<1>1. /\ CodeAt(p).args \in Seq(Nat)
      /\ \A k \in DOMAIN CodeAt(p).args : CodeAt(p).args[k] \in 1..tempCount
  BY PlaceLemma DEF Instruction, NamesExist
<1>2. PICK args : args = CodeAt(p).args OBVIOUS
<1>3. DOMAIN args = 1..Len(args) /\ Len(args) \in Nat BY <1>1, <1>2, LenProperties
<1>4. \A k \in 1..Len(args) : temps[args[k]] \in Nat \X Nat
  BY <1>1, <1>2, <1>3 DEF CompilerTypeOK
<1>5. [k \in 1..Len(args) |-> temps[args[k]]] \in Seq(Nat \X Nat)
  BY <1>3, <1>4, IsASeq
<1> QED BY <1>2, <1>3, <1>5 DEF Operands

LEMMA NewOperands ==
  ASSUME Compilable, CompilerTypeOK, UNCHANGED codeVars,
         NEW starts \in Seq(Nat \X Nat),
         NEW v, NEW p, NEW o, Visiting(starts, v, p, o),
         NEW b, b = v.target, NEW x, Grown(b, x), x.operands = Operands(CodeAt(p))
  PROVE  OperandsOK(x, p, Origin(b, p))'
<1>1. Origin(b, p)' = o
  <2>1. native[b] # <<>> => native'[b][1] = native[b][1]
    <3>1. native[b] # <<>> => 1 \in 1..Len(native[b])
      BY NativeLemma DEF Visiting
    <3> QED BY <3>1, GrownMade DEF Visiting
  <2>2. native[b] = <<>> => native'[b][1].op # "LandingPad"
    <3>1. native[b] = <<>> => Len(native[b]) + 1 = 1 BY NativeLemma DEF Visiting
    <3> QED BY <3>1 DEF Grown
  <2>3. o = IF native[b] # <<>> /\ native[b][1].op = "LandingPad"
            THEN native[b][1].source ELSE p
    BY DEF Visiting
  <2> QED BY <2>1, <2>2, <2>3 DEF Origin
<1>2. DOMAIN x.operands = DOMAIN CodeAt(p)'.args
  BY OperandsType, SameCode DEF Visiting
<1>3. \A k \in DOMAIN x.operands : \E j \in Nat :
          /\ LastWrite(o, CodeAt(p).args[k], j)
          /\ x.operands[k] \in MadeFrom(Place(o[1], j))'
  <2> SUFFICES ASSUME NEW k \in DOMAIN x.operands
               PROVE  \E j \in Nat : /\ LastWrite(o, CodeAt(p).args[k], j)
                                     /\ x.operands[k] \in MadeFrom(Place(o[1], j))'
    OBVIOUS
  <2>1. k \in DOMAIN CodeAt(p).args /\ p \in CodePlaces
    BY OperandsType DEF Visiting
  <2>2. x.operands[k] = temps[CodeAt(p).args[k]] BY <2>1 DEF Operands
  <2>3. PICK j \in Nat : LastWrite(o, CodeAt(p).args[k], j)
    BY <2>1 DEF Visiting
  <2>4. CodeAt(p).args[k] \in 1..tempCount BY SMTT(60), <2>1, PlaceLemma DEF NamesExist
  <2>5. temps[CodeAt(p).args[k]] \in MadeFrom(Place(o[1], j))
    BY <2>3, <2>4 DEF Visiting, TempsOK
  <2>6. x.operands[k] \in MadeFrom(Place(o[1], j))' BY <2>2, <2>5, GrownMade
  <2> QED BY <2>3, <2>6
<1>4. OperandsOK(x, p, o)' BY <1>2, <1>3, SameCode DEF OperandsOK
<1> QED BY <1>1, <1>4

(* The values of the temporaries after the instruction at p. *)
LEMMA TempsKept ==
  ASSUME UNCHANGED codeVars, temps' = temps, NEW p, TempsOK(p),
         \A q : MadeFrom(q) \subseteq MadeFrom(q)'
  PROVE  TempsOK(p)'
BY SameCode DEF TempsOK, codeVars

LEMMA TempsBound ==
  ASSUME Compilable, CompilerTypeOK, UNCHANGED codeVars, NEW p \in CodePlaces,
         TempsOK(p), NEW value, value \in MadeFrom(p)',
         \A q : MadeFrom(q) \subseteq MadeFrom(q)',
         temps' = Bind(CodeAt(p).dest, value)
  PROVE  TempsOK(Following(p))'
<1>1. PICK c, n : c = p[1] /\ n = p[2] OBVIOUS
<1>2. /\ p = Place(c, n) /\ Following(p) = Place(c, n + 1) /\ n \in Nat
      /\ Following(p)[1] = c
  BY <1>1, PlaceLemma, PlacesLemma DEF Following, Place
<1>3. CodeAt(p) = blocks[c][n] BY <1>1 DEF CodeAt
<1> SUFFICES ASSUME NEW t \in 1..tempCount, NEW j \in Nat,
                    LastWrite(Following(p), t, j)
             PROVE  temps'[t] \in MadeFrom(Place(c, j))'
  BY <1>2, SameCode DEF TempsOK, codeVars
<1>4. temps \in [1..tempCount -> Nat \X Nat] BY DEF CompilerTypeOK
<1>5. CASE j = n /\ blocks[c][n].dest = t
  <2>1. t # NoTemp BY DEF NoTemp
  <2>2. temps' = [temps EXCEPT ![t] = value] BY <1>3, <1>5, <2>1 DEF Bind
  <2>3. temps'[t] = value BY <1>4, <2>2
  <2> QED BY <1>2, <1>5, <2>3
<1>6. CASE blocks[c][n].dest # t /\ LastWrite(Place(c, n), t, j)
  <2>1. temps[t] \in MadeFrom(Place(c, j)) BY <1>1, <1>2, <1>6 DEF TempsOK
  <2>2. temps'[t] = temps[t] BY <1>3, <1>4, <1>6 DEF Bind
  <2> QED BY <2>1, <2>2
<1> QED BY <1>2, <1>5, <1>6, LastWriteNext

(* The blocks that a step maps, in the new blocks, and queues. *)
Mapped == DOMAIN blockMap' \ DOMAIN blockMap
NowMapped(new) ==
    /\ DOMAIN blockMap \subseteq DOMAIN blockMap'
    /\ \A c \in DOMAIN blockMap : blockMap'[c] = blockMap[c]
    /\ \A c \in Mapped : /\ blockMap'[c] \in Len(native) + 1 .. Len(native')
                         /\ native'[blockMap'[c]] = <<>>
                         /\ new[blockMap'[c]] = Place(c, 1)
    /\ IsInjective(queue') /\ ToSet(queue') = ToSet(queue) \cup Mapped
    /\ \A n \in Len(native) + 1 .. Len(native') :
          /\ new[n][1] \notin ToSet(queue)
          /\ new[n][1] \in Mapped => n = blockMap'[new[n][1]]

LEMMA MapKept ==
  ASSUME CompilerTypeOK, NEW starts \in Seq(Nat \X Nat), MapOK(starts),
         NEW new, Continued(starts, new), NowMapped(new)
  PROVE  MapOK(new)'
<1>1. \A c \in DOMAIN blockMap : blockMap[c] \in 1..Len(native) BY DEF CompilerTypeOK
<1>2. ASSUME NEW c \in DOMAIN blockMap' PROVE new[blockMap'[c]] = Place(c, 1)
  <2>1. CASE c \in DOMAIN blockMap
    BY <1>1, <2>1 DEF MapOK, NowMapped, Continued
  <2>2. CASE c \notin DOMAIN blockMap
    BY <2>2 DEF NowMapped, Mapped
  <2> QED BY <2>1, <2>2
<1>3. 1 \in DOMAIN blockMap' /\ blockMap'[1] = 1 BY DEF MapOK, NowMapped
<1> QED BY ONLY <1>2, <1>3 DEF MapOK, Place

LEMMA QueueKept ==
  ASSUME Compilable, CompilerTypeOK, UNCHANGED codeVars,
         NEW starts \in Seq(Nat \X Nat), CodeOK(starts),
         NEW v, NEW p, NEW o, Visiting(starts, v, p, o),
         NEW b, b = v.target, NEW x, Grown(b, x),
         NEW new, Continued(starts, new), NowMapped(new), NewBlocks(new, p),
         \A n \in 1..Len(native) : n # b /\ IsTarget(n) => IsTarget(n)',
         IsTarget(b)' \/ EndsBlock(x),
         \A n \in Len(native) + 1 .. Len(native') :
            IsTarget(n)' \/ n \in {blockMap'[c] : c \in Mapped}
  PROVE  QueueOK(new)'
<1>0. /\ Len(native) \in Nat /\ Len(native') \in Nat /\ Len(native) <= Len(native')
      /\ Len(new) = Len(native') /\ Len(starts) = Len(native)
      /\ \A n \in 1..Len(native) : new[n] = starts[n] /\ n \in 1..Len(native')
      /\ b \in 1..Len(native)
  <2>1. native \in Seq(Seq(NativeType)) /\ native' \in Seq(Seq(NativeType))
    BY DEF Grown, CompilerTypeOK
  <2>2. Len(native) \in Nat /\ Len(native') \in Nat BY <2>1, PlacesOf
  <2>3. Len(native) <= Len(native') /\ b \in 1..Len(native) BY DEF Grown
  <2>4. /\ Len(new) = Len(native') /\ Len(starts) = Len(native)
        /\ \A n \in 1..Len(native) : new[n] = starts[n]
    BY DEF Continued, StartsOK, CodeOK
  <2> QED BY <2>2, <2>3, <2>4
<1>1. \A c \in ToSet(queue) : /\ c \in DOMAIN blockMap /\ native[blockMap[c]] = <<>>
                              /\ blockMap[c] \in 1..Len(native) /\ blockMap[c] # b
                              /\ \A n \in 1..Len(starts) : starts[n][1] = c => n = blockMap[c]
  BY DEF CodeOK, QueueOK, CompilerTypeOK, Visiting
<1>2. ASSUME NEW c \in ToSet(queue')
      PROVE  /\ c \in DOMAIN blockMap' /\ native'[blockMap'[c]] = <<>>
             /\ \A n \in 1..Len(new) : new[n][1] = c => n = blockMap'[c]
  <2>1. CASE c \in ToSet(queue)
    <3>1. c \in DOMAIN blockMap' /\ blockMap'[c] = blockMap[c]
      BY <1>1, <2>1 DEF NowMapped
    <3>2. native'[blockMap[c]] = <<>> BY <1>1, <2>1 DEF Grown
    <3>3. \A n \in Len(native) + 1 .. Len(native') : new[n][1] # c
      BY <2>1 DEF NowMapped
    <3>4. \A n \in 1..Len(native) : new[n][1] = c => n = blockMap[c]
      BY <1>0, <1>1, <2>1
    <3> QED BY <1>0, <3>1, <3>2, <3>3, <3>4
  <2>2. CASE c \in Mapped
    <3>1. /\ c \in DOMAIN blockMap' /\ native'[blockMap'[c]] = <<>>
          /\ new[blockMap'[c]] = Place(c, 1) /\ c \notin DOMAIN blockMap
          /\ blockMap'[c] \in Len(native) + 1 .. Len(native')
      BY <2>2 DEF NowMapped, Mapped
    <3>2. \A n \in Len(native) + 1 .. Len(native') : new[n][1] = c => n = blockMap'[c]
      BY <2>2 DEF NowMapped
    <3>3. ~ IsPad(c)
      <4>1. new[blockMap'[c]][1] = c /\ new[blockMap'[c]][2] = 1 BY <3>1 DEF Place
      <4>2. \A n \in Len(native) + 1 .. Len(native') :
               native'[n] = <<>> => ~ IsPad(new[n][1]) \/ new[n] = Following(p)
        BY DEF NewBlocks
      <4>3. p[2] # 0 /\ p[2] \in Nat BY PlaceLemma, PlacesLemma DEF Visiting
      <4>4. Following(p)[2] = p[2] + 1 BY DEF Following, Place
      <4> QED BY <3>1, <4>1, <4>2, <4>3, <4>4
    <3>4. ASSUME NEW n \in 1..Len(native), starts[n][1] = c PROVE FALSE
      <4>1. n \in 1..Len(starts) BY <1>0
      <4> QED BY <4>1, <3>1, <3>3, <3>4 DEF CodeOK, StartsOK
    <3>5. \A n \in 1..Len(native) : new[n][1] # c BY <1>0, <3>4
    <3>6. \A n \in 1..Len(new) : n \in 1..Len(native)
                                \/ n \in Len(native) + 1 .. Len(native')
      BY <1>0
    <3> QED BY ONLY <3>1, <3>2, <3>5, <3>6
  <2> QED BY <2>1, <2>2 DEF NowMapped
<1>3. ASSUME NEW n \in 1..Len(native') PROVE (Closed(n) \/ IsTarget(n) \/ Waits(n))'
  <2>1. CASE n = b
    <3>1. EndsBlock(x) => Closed(n)'
      <4>1. /\ Len(native'[b]) = Len(native[b]) + 1 /\ native'[b][Len(native[b]) + 1] = x
            /\ Len(native[b]) \in Nat
        BY <1>0, NativeLemma DEF Grown
      <4>2. native'[b] # <<>> BY <4>1
      <4>3. native'[n][Len(native'[n])] = x BY <4>1, <2>1
      <4> QED BY <2>1, <4>2, <4>3 DEF Closed
    <3> QED BY <2>1, <3>1
  <2>2. CASE n \in 1..Len(native) /\ n # b
    <3>1. Closed(n) \/ IsTarget(n) \/ Waits(n) BY <2>2 DEF CodeOK, QueueOK
    <3>2. Closed(n) => Closed(n)' BY <2>2 DEF Grown, Closed
    <3>3. Waits(n) => Waits(n)'
      <4> SUFFICES ASSUME NEW c \in ToSet(queue), blockMap[c] = n PROVE Waits(n)'
        BY DEF Waits
      <4>1. c \in ToSet(queue') /\ blockMap'[c] = n BY <1>1 DEF NowMapped
      <4> QED BY <4>1 DEF Waits
    <3> QED BY <2>2, <3>1, <3>2, <3>3
  <2>3. CASE n \in Len(native) + 1 .. Len(native')
    <3> SUFFICES ASSUME NEW c \in Mapped, n = blockMap'[c] PROVE Waits(n)'
      BY <2>3
    <3>1. c \in ToSet(queue') BY DEF NowMapped
    <3> QED BY <3>1 DEF Waits
  <2> QED BY <1>0, <2>1, <2>2, <2>3
<1>4. IsInjective(queue') BY DEF NowMapped
<1> QED BY ONLY <1>0, <1>2, <1>3, <1>4 DEF QueueOK

LEMMA OuterKept ==
  ASSUME Compilable, CompilerTypeOK, UNCHANGED codeVars,
         NEW starts \in Seq(Nat \X Nat), StartsOK(starts),
         NEW b, NEW x, Grown(b, x), NEW new, Continued(starts, new),
         NEW w \in VisitorType, OuterOK(starts, w), NEW u \in VisitorType,
         u.block = w.block, u.dest = w.dest, w.next <= u.next,
         w.block \notin ToSet(queue'),
         starts[b][1] = w.block => starts[b][2] + Len(native[b]) + 1 <= u.next,
         \A n \in Len(native) + 1 .. Len(native') : new[n][1] = w.block =>
            new[n][2] + Len(native'[n]) <= u.next /\ new[n][2] <= u.next
  PROVE  OuterOK(new, u)'
<1>1. ASSUME NEW n \in 1..Len(native), starts[n][1] = w.block
      PROVE  starts[n][2] + Len(native'[n]) <= u.next /\ starts[n][2] <= u.next
  <2>1. starts[n][2] + Len(native[n]) <= w.next /\ starts[n][2] <= w.next
    BY <1>1, StartsLemma DEF OuterOK
  <2>2. /\ starts[n][2] \in Nat /\ Len(native[n]) \in Nat /\ w.next \in Nat
        /\ u.next \in Nat
    BY StartsLemma, NativeLemma DEF VisitorType
  <2>3. CASE n = b
    <3>1. Len(native'[n]) = Len(native[n]) + 1 BY <2>3 DEF Grown
    <3>2. starts[n][2] + Len(native[n]) + 1 <= u.next BY <2>3, <1>1
    <3>3. w.next <= u.next OBVIOUS
    <3> QED BY ONLY SMTT(60), <2>1, <2>2, <3>1, <3>2, <3>3
  <2>4. CASE n # b
    <3>1. native'[n] = native[n] BY <2>4 DEF Grown
    <3> QED BY SMTT(60), <2>1, <2>2, <3>1
  <2> QED BY <2>3, <2>4
<1>2. /\ Len(native) \in Nat /\ Len(native') \in Nat /\ Len(native) <= Len(native')
      /\ Len(new) = Len(native')
      /\ \A n \in 1..Len(native) : new[n] = starts[n]
  BY LenProperties DEF Grown, Continued, CompilerTypeOK
<1>3. ASSUME NEW n \in 1..Len(new), new[n][1] = u.block
      PROVE  new[n][2] + Len(native'[n]) <= u.next /\ new[n][2] <= u.next
  <2>1. CASE n \in 1..Len(native)
    <3>1. starts[n][1] = w.block BY <1>2, <1>3, <2>1
    <3> QED BY <1>1, <1>2, <2>1, <3>1
  <2>2. CASE n \in Len(native) + 1 .. Len(native') BY <1>3, <2>2
  <2> QED BY <1>2, <2>1, <2>2
<1>4. ~ IsPad(u.block)' BY SameCode DEF OuterOK
<1>5. u.dest = NoTemp /\ u.block \notin ToSet(queue') BY DEF OuterOK
<1> QED BY ONLY <1>3, <1>4, <1>5 DEF OuterOK

(* The Visitors after an instruction without a landing pad. *)
LEMMA AdvancedOK ==
  ASSUME Compilable, CompilerTypeOK, UNCHANGED codeVars,
         NEW starts \in Seq(Nat \X Nat), CodeOK(starts),
         NEW v, NEW p, NEW o, Visiting(starts, v, p, o),
         NEW b, b = v.target, NEW x, Grown(b, x), x.source = p,
         EndsBlock(x) <=> v.next = Len(blocks[v.block]),
         NEW new, Continued(starts, new), NowMapped(new),
         \A n \in Len(native) + 1 .. Len(native') : new[n][1] \in Mapped,
         NEW at, at = NewPlace(b), visitors' = Advanced(b),
         (EndsBlock(x) /\ temps' = temps) \/ temps' = Bind(CodeAt(p).dest, at)
  PROVE  /\ VisitorsOK(new)' /\ visitors' \in Seq(VisitorType)
         /\ \A n : IsTarget(n) => IsTarget(n)'
<1>1. StartsOK(starts) /\ MapOK(starts) /\ visitors \in Seq(VisitorType)
  BY DEF CodeOK, CompilerTypeOK
<1>2. /\ v \in VisitorType /\ v = Top /\ b \in 1..Len(native) /\ ~ Closed(b)
      /\ p = Place(v.block, v.next) /\ p \in CodePlaces
      /\ v.block \in 1..Len(blocks) /\ v.next \in 1..Len(blocks[v.block])
      /\ starts[b][1] = v.block /\ starts[b][2] + Len(native[b]) = v.next
  BY DEF Visiting
<1>3. Len(visitors) \in {1, 2} /\ visitors # <<>>
  <2>1. Len(visitors) = 1 \/ Len(visitors) = 2 BY DEF Visiting
  <2>2. visitors # <<>> BY DEF Visiting
  <2> QED BY <2>1, <2>2
<1>4. PICK u : u = [v EXCEPT !.next = @ + 1, !.target = b] OBVIOUS
<1>5. /\ u \in VisitorType /\ u.block = v.block /\ u.next = v.next + 1
      /\ u.target = b /\ u.dest = v.dest /\ u.value = v.value
  <2>1. /\ b \in Nat /\ v.next \in Nat /\ v.block \in Nat /\ v.dest \in Nat
        /\ v.value \in Nat \X Nat
    BY <1>2, NativeLemma DEF VisitorType
  <2>2. /\ u = [block |-> v.block, next |-> v.next + 1, target |-> b, dest |-> v.dest,
                value |-> v.value]
    BY ONLY <1>2, <1>4 DEF VisitorType
  <2> QED BY ONLY <2>1, <2>2 DEF VisitorType
<1>6. visitors' = Append(Front(visitors), u) BY <1>2, <1>4 DEF Advanced
<1>7. /\ visitors' \in Seq(VisitorType) /\ Len(visitors') = Len(visitors)
      /\ \A i \in 1..Len(visitors) - 1 : visitors'[i] = visitors[i]
      /\ visitors'[Len(visitors)] = u
  BY <1>1, <1>3, <1>5, <1>6, StackLemma
<1>8. v = visitors[Len(visitors)] BY <1>1, <1>2, <1>3, <1>5, StackLemma DEF Top
<1>9. ASSUME NEW n, IsTarget(n) PROVE IsTarget(n)'
  <2>1. PICK i \in 1..Len(visitors) : visitors[i].target = n BY <1>9 DEF IsTarget
  <2>2. CASE i = Len(visitors)
    <3>1. visitors'[i].target = n BY <1>5, <1>7, <1>8, <2>1, <2>2
    <3> QED BY <3>1, <1>7 DEF IsTarget
  <2>3. CASE i # Len(visitors)
    <3>1. i \in 1..Len(visitors) - 1 BY <1>3, <2>3
    <3>2. visitors'[i].target = n BY <3>1, <1>7, <2>1
    <3> QED BY <3>2, <1>7 DEF IsTarget
  <2> QED BY <2>2, <2>3
<1>10. /\ Len(native) \in Nat /\ Len(native') \in Nat /\ Len(native) <= Len(native')
       /\ Len(native[b]) \in Nat /\ starts[b][2] \in Nat /\ new[b] = starts[b]
       /\ Len(native'[b]) = Len(native[b]) + 1
       /\ native'[b][Len(native[b]) + 1] = x
  BY <1>1, <1>2, LenProperties, NativeLemma, StartsLemma
     DEF Grown, Continued, CompilerTypeOK
<1>11. Closed(b)' <=> EndsBlock(x)
  <2>1. native'[b] # <<>> BY <1>10
  <2>2. native'[b][Len(native'[b])] = x BY <1>10
  <2> QED BY <2>1, <2>2 DEF Closed
<1>12. VisitorOK(new, u)'
  <2>1. Len(blocks[v.block]) \in Nat BY <1>2, PlacesLemma
  <2>2. u.next \in 1..Len(blocks[u.block]) + 1 BY ONLY SMTT(60), <1>2, <1>5, <2>1
  <2>3. u.target \in 1..Len(native') BY <1>2, <1>5, <1>10
  <2>4. Place(u.block, u.next) = PlaceIn(new, u.target, Len(native'[u.target]) + 1)
    <3>1. new[b][1] = u.block BY ONLY <1>2, <1>5, <1>10
    <3>2. new[b][2] + (Len(native'[b]) + 1) - 1 = u.next BY ONLY SMTT(60), <1>2, <1>5, <1>10
    <3> QED BY <1>5, <3>1, <3>2 DEF PlaceIn
  <2>5. u.next = Len(blocks[u.block]) + 1 <=> Closed(u.target)'
    BY <1>2, <1>5, <1>11, <2>1
  <2>6. blocks' = blocks BY DEF codeVars
  <2> QED BY ONLY <1>2, <1>5, <2>2, <2>3, <2>4, <2>5, <2>6
          DEF VisitorOK, Place, PlaceIn, Closed
<1>13. \A q : MadeFrom(q) \subseteq MadeFrom(q)' BY GrownMade
<1>14. ASSUME NEW w \in VisitorType, OuterOK(starts, w), w.block \in DOMAIN blockMap
       PROVE  /\ w.block \notin ToSet(queue')
              /\ \A n \in Len(native) + 1 .. Len(native') : new[n][1] # w.block
  <2>1. w.block \notin Mapped BY <1>14 DEF Mapped
  <2>2. w.block \notin ToSet(queue) BY <1>14 DEF OuterOK
  <2> QED BY <2>1, <2>2 DEF NowMapped
<1>15. ASSUME NEW w \in VisitorType, OuterOK(starts, w), VisitorOK(starts, w)
       PROVE  w.block \in DOMAIN blockMap
  <2>1. w.target \in 1..Len(native) /\ starts[w.target][1] = w.block
    BY <1>15 DEF VisitorOK, PlaceIn, Place
  <2>2. w.target \in 1..Len(starts) BY <1>1, <2>1, StartsLemma
  <2>3. starts[w.target][2] # 0 BY SMTT(60), <1>1, <2>1, <1>15, StartsLemma DEF OuterOK
  <2> QED BY <1>1, <2>1, <2>2, <2>3 DEF StartsOK
<1>16. CASE Len(visitors) = 1
  <2>1. /\ v = visitors[1] /\ OneVisitor(starts, v) /\ o = p
    BY <1>16 DEF Visiting
  <2>2. OuterOK(starts, v) /\ VisitorOK(starts, v) /\ TempsOK(p)
    BY <1>2, <2>1 DEF OneVisitor
  <2>3. /\ v.block \notin ToSet(queue')
        /\ \A n \in Len(native) + 1 .. Len(native') : new[n][1] # v.block
    BY <1>2, <1>14, <1>15, <2>2
  <2>4. v.next <= u.next /\ starts[b][2] + Len(native[b]) + 1 <= u.next
    BY SMTT(60), <1>2, <1>5, <1>10
  <2>5. OuterOK(new, u)' BY <1>1, <1>2, <1>5, <2>2, <2>3, <2>4, OuterKept
  <2>6. Closed(u.target)' \/ TempsOK(Place(u.block, u.next))'
    <3>1. EndsBlock(x) => Closed(u.target)' BY <1>5, <1>11
    <3>2. ASSUME temps' = Bind(CodeAt(p).dest, at)
          PROVE  TempsOK(Place(u.block, u.next))'
      <4>1. at \in MadeFrom(p)' BY GrownMade
      <4>2. TempsOK(Following(p))' BY <1>2, <1>13, <2>2, <3>2, <4>1, TempsBound
      <4>3. Following(p) = Place(u.block, u.next) BY <1>2, <1>5 DEF Following, Place
      <4> QED BY <4>2, <4>3
    <3> QED BY <3>1, <3>2
  <2>7. OneVisitor(new, u)' BY <1>12, <2>5, <2>6 DEF OneVisitor
  <2>8. visitors'[1] = u /\ Len(visitors') = 1 BY <1>7, <1>16
  <2>9. OneVisitor(new, visitors[1])' BY <2>7, <2>8
  <2> QED BY <1>7, <1>9, <2>8, <2>9 DEF VisitorsOK
<1>17. CASE Len(visitors) = 2
  <2>0. PICK w : w = visitors[1] OBVIOUS
  <2>1. /\ TwoVisitors(starts, w, v) /\ w \in VisitorType
        /\ o = Place(w.block, w.next - 1) /\ CodeAt(p).dest = NoTemp
        /\ w.target # b /\ TempsOK(o) /\ IsPad(v.block) /\ native[b] # <<>>
    BY <1>17, <2>0 DEF Visiting
  <2>2. /\ OuterOK(starts, w) /\ VisitorOK(starts, w) /\ InnerOK(w, v)
    BY <2>1 DEF TwoVisitors
  <2>3. /\ w.block \notin ToSet(queue')
        /\ \A n \in Len(native) + 1 .. Len(native') : new[n][1] # w.block
    BY <2>1, <1>14, <1>15, <2>2
  <2>4. starts[b][1] # w.block BY <1>2, <2>1, <2>2 DEF OuterOK
  <2>5. OuterOK(new, w)'
    <3>1. w.next <= w.next BY <2>1 DEF VisitorType
    <3> QED BY ZenonT(60), <1>1, <2>1, <2>2, <2>3, <2>4, <3>1, OuterKept
  <2>6. VisitorOK(new, w)'
    <3>1. w.target \in 1..Len(native) BY <2>2 DEF VisitorOK
    <3>2. native'[w.target] = native[w.target] /\ new[w.target] = starts[w.target]
      BY <2>1, <3>1 DEF Grown, Continued
    <3>3. w.target \in 1..Len(native') BY <1>10, <3>1
    <3>4. blocks' = blocks BY DEF codeVars
    <3>5. Closed(w.target)' <=> Closed(w.target) BY <3>2 DEF Closed
    <3> QED BY ONLY <2>2, <3>2, <3>3, <3>4, <3>5 DEF VisitorOK, PlaceIn, Place
  <2>7. temps' = temps BY <2>1 DEF Bind
  <2>8. TempsOK(o)' BY <1>13, <2>1, <2>7, TempsKept
  <2>9. InnerOK(w, u)'
    <3>1. 1 \in 1..Len(native[b]) BY <1>2, <2>1, NativeLemma
    <3>2. native'[b][1] = native[b][1] BY <1>2, <3>1, GrownMade
    <3>3. v.value \in MadeFrom(o)' BY <1>13, <2>1, <2>2 DEF InnerOK
    <3>4. CodeAt(o)' = CodeAt(o) BY SameCode
    <3>5. /\ w.next > 1 /\ v.block = CodeAt(o).lpad /\ v.block # NoBlock
          /\ v.dest = CodeAt(o).dest /\ native[b][1].source = o
      BY <1>2, <2>1, <2>2 DEF InnerOK
    <3>6. o = Place(w.block, w.next - 1) BY <2>1
    <3> QED BY ONLY <1>5, <3>2, <3>3, <3>4, <3>5, <3>6 DEF InnerOK
  <2>10. TwoVisitors(new, w, u)'
    <3>1. TempsOK(Place(w.block, w.next - 1))' BY <2>1, <2>8
    <3> QED BY <3>1, <1>12, <2>5, <2>6, <2>9 DEF TwoVisitors
  <2>11. visitors'[1] = w /\ visitors'[2] = u /\ Len(visitors') = 2
    BY <1>7, <1>17, <2>0
  <2>12. TwoVisitors(new, visitors[1], visitors[2])' BY <2>10, <2>11
  <2> QED BY <1>7, <1>9, <2>11, <2>12 DEF VisitorsOK
<1> QED BY <1>3, <1>16, <1>17

LEMMA VisitSimpleOK ==
  ASSUME Compilable, CompilerTypeOK, NEW starts \in Seq(Nat \X Nat), CodeOK(starts),
         VisitSimple
  PROVE  CompilerTypeOK' /\ CodeOK(starts)'
<1>1. Compiling /\ UNCHANGED codeVars BY DEF VisitSimple
<1>2. PICK v, p, o : Visiting(starts, v, p, o) BY <1>1, VisitingLemma
<1>3. PICK b : b = v.target OBVIOUS
<1>4. /\ v = Top /\ p = Here /\ Current = CodeAt(p) /\ p \in CodePlaces
      /\ b \in 1..Len(native) /\ p = Place(v.block, v.next)
      /\ ~ Closed(b) /\ v.block \in 1..Len(blocks)
  BY <1>2, <1>3 DEF Visiting
<1>5. PICK ins : ins = CodeAt(p) OBVIOUS
<1>6. PICK x : x = NativeInstruction(ins.op, p, Operands(ins), <<>>) OBVIOUS
<1>7. /\ ins.op \notin Terminator /\ ins.lpad = NoBlock
      /\ native' = AppendNative(native, b, x)
      /\ temps' = Bind(ins.dest, NextValue(b)) /\ visitors' = Advanced(b)
      /\ blockMap' = blockMap /\ queue' = queue
  BY <1>3, <1>4, <1>5, <1>6 DEF VisitSimple
<1>8. x.op = ins.op /\ x.source = p /\ x.operands = Operands(ins) /\ x.to = <<>>
  BY <1>6 DEF NativeInstruction
<1>9. ins \in Instruction /\ p \in Nat \X Nat /\ NamesExist(ins)
  BY <1>4, <1>5, PlaceLemma
<1>10. x \in NativeType /\ x.op # "LandingPad"
  <2>1. Operands(ins) \in Seq(Nat \X Nat) BY <1>4, <1>5, OperandsType
  <2>2. ins.op \in Kind BY <1>9 DEF Instruction
  <2>3. <<>> \in Seq(Nat) OBVIOUS
  <2>4. ins.op # "LandingPad" BY <2>2 DEF Kind
  <2> QED BY <1>6, <1>9, <2>1, <2>2, <2>3, <2>4 DEF NativeInstruction, NativeType
<1>11. native \in Seq(Seq(NativeType)) /\ Len(native) \in Nat
  BY LenProperties DEF CompilerTypeOK
<1>12. Grown(b, x) /\ Len(native') = Len(native)
  <2>1. \A n : n \notin Len(native) + 1 .. Len(native) BY <1>11
  <2>2. Len(native) <= Len(native) BY <1>11
  <2> QED BY <1>4, <1>7, <1>10, <1>11, <2>1, <2>2, GrownBy
<1>13. Len(native') = Len(native) BY <1>12
<1>14. Continued(starts, starts)
  BY <1>13 DEF Continued, CodeOK, StartsOK
<1>15. \A n : n \notin Len(native) + 1 .. Len(native') BY <1>11, <1>13
<1>16. Mapped = {} BY <1>7 DEF Mapped
<1>17. NowMapped(starts)
  BY <1>7, <1>15, <1>16 DEF NowMapped, CodeOK, QueueOK
<1>18. NewBlocks(starts, p) BY <1>15 DEF NewBlocks
<1>19. ~ EndsBlock(x) BY <1>7, <1>8 DEF EndsBlock, Terminator
<1>20. v.next # Len(blocks[v.block])
  <2>1. p[1] = v.block /\ p[2] = v.next BY <1>4 DEF Place
  <2> QED BY <1>4, <1>5, <1>7, <2>1, PlaceLemma
<1>21. TranslationOK(starts, b, x, p)'
  <2>1. OperandsOK(x, p, Origin(b, p))'
    BY <1>1, <1>2, <1>3, <1>5, <1>8, <1>12, NewOperands
  <2>2. ins.to = <<>>
    <3>1. ins.to \in Seq(Nat) BY <1>9 DEF Instruction
    <3>2. Len(ins.to) = 0 BY <1>7, <1>9 DEF NamesExist, Terminator
    <3>3. \A s \in Seq(Nat) : s # <<>> => Len(s) # 0 BY EmptySeq
    <3> QED BY ONLY <3>1, <3>2, <3>3
  <2>3. Jumps(starts, x, p)' BY <1>1, <1>5, <1>8, <2>2, SameCode DEF Jumps
  <2>4. CodePlaces' = CodePlaces /\ CodeAt(p)' = ins BY <1>1, <1>5, SameCode
  <2> QED BY <1>4, <1>7, <1>8, <2>1, <2>3, <2>4 DEF TranslationOK
<1>22. PICK at : at = NewPlace(b) OBVIOUS
<1>23. NextValue(b) = at BY <1>22 DEF NextValue, NewPlace
<1>24. temps' = Bind(CodeAt(p).dest, at) BY <1>5, <1>7, <1>23
<1>25. /\ VisitorsOK(starts)' /\ visitors' \in Seq(VisitorType)
       /\ \A n : IsTarget(n) => IsTarget(n)'
  BY <1>1, <1>2, <1>3, <1>7, <1>8, <1>12, <1>14, <1>15, <1>17, <1>19, <1>20, <1>22,
     <1>24, AdvancedOK
<1>26. IsTarget(b)
  <2>1. /\ visitors \in Seq(VisitorType) /\ visitors # <<>>
        /\ v = visitors[Len(visitors)]
    BY <1>4, <1>1 DEF CompilerTypeOK, Compiling, Active, Top, Last
  <2>2. Len(visitors) \in 1..Len(visitors) BY <2>1, FrontLemma
  <2> QED BY <1>3, <2>1, <2>2 DEF IsTarget
<1>27. QueueOK(starts)'
  BY <1>1, <1>2, <1>3, <1>12, <1>14, <1>15, <1>17, <1>18, <1>25, <1>26, QueueKept
<1>28. MapOK(starts)' BY <1>14, <1>17, MapKept DEF CodeOK
<1>29. StartsOK(starts)'
  BY <1>1, <1>2, <1>3, <1>7, <1>12, <1>14, <1>18, NewStarts DEF CodeOK
<1>30. NativeOK(starts)'
  BY <1>1, <1>2, <1>3, <1>12, <1>14, <1>18, <1>21, NewNative DEF CodeOK
<1>31. CompilerTypeOK'
  <2>1. temps' \in [1..tempCount -> Nat \X Nat]
    <3>1. temps \in [1..tempCount -> Nat \X Nat] BY DEF CompilerTypeOK
    <3>2. at \in Nat \X Nat
      <4>1. Len(native[b]) \in Nat /\ b \in Nat BY <1>4, NativeLemma
      <4> QED BY <4>1, <1>22 DEF NewPlace, Place
    <3> QED BY <1>24, <3>1, <3>2 DEF Bind
  <2>2. native' \in Seq(Seq(NativeType)) BY <1>12 DEF Grown
  <2>3. blocks' = blocks /\ tempCount' = tempCount BY <1>1 DEF codeVars
  <2> QED BY <1>7, <1>13, <1>25, <2>1, <2>2, <2>3 DEF CompilerTypeOK
<1> QED BY <1>25, <1>27, <1>28, <1>29, <1>30, <1>31 DEF CodeOK

(* What mapBlock() makes of the map, the native blocks and the queue.      *)
MapMade(m) ==
    /\ m.native \in Seq(Seq(NativeType)) /\ Len(native) <= Len(m.native)
    /\ \A n \in 1..Len(native) : m.native[n] = native[n]
    /\ \A n \in Len(native) + 1 .. Len(m.native) :
          /\ m.native[n] = <<>>
          /\ \E c \in DOMAIN m.map \ DOMAIN blockMap : m.map[c] = n
    /\ m.map \in [DOMAIN m.map -> 1..Len(m.native)]
    /\ DOMAIN blockMap \subseteq DOMAIN m.map /\ DOMAIN m.map \subseteq 1..Len(blocks)
    /\ \A c \in DOMAIN blockMap : m.map[c] = blockMap[c]
    /\ \A c \in DOMAIN m.map \ DOMAIN blockMap :
          /\ m.map[c] \in Len(native) + 1 .. Len(m.native) /\ ~ IsPad(c)
          /\ \A d \in DOMAIN m.map \ DOMAIN blockMap : m.map[c] = m.map[d] => c = d
    /\ m.queue \in Seq(Nat) /\ IsInjective(m.queue)
    /\ ToSet(m.queue) = ToSet(queue) \cup (DOMAIN m.map \ DOMAIN blockMap)

LEMMA MapMadeFirst ==
  ASSUME CompilerTypeOK, IsInjective(queue)
  PROVE  MapMade(MappedState)
<1>1. Len(native) \in Nat BY LenProperties DEF CompilerTypeOK
<1>2. /\ MappedState.map = blockMap /\ MappedState.native = native
      /\ MappedState.queue = queue
  BY DEF MappedState
<1>3. \A n : n \notin Len(native) + 1 .. Len(native) BY <1>1
<1>4. DOMAIN blockMap \ DOMAIN blockMap = {} OBVIOUS
<1>5. /\ native \in Seq(Seq(NativeType)) /\ queue \in Seq(Nat)
      /\ blockMap \in [DOMAIN blockMap -> 1..Len(native)]
      /\ DOMAIN blockMap \subseteq 1..Len(blocks)
  BY DEF CompilerTypeOK
<1>6. Len(native) <= Len(native) BY <1>1
<1> QED BY <1>2, <1>3, <1>4, <1>5, <1>6 DEF MapMade

LEMMA MapMadeNext ==
  ASSUME Compilable, CompilerTypeOK, ToSet(queue) \subseteq DOMAIN blockMap,
         NEW m, MapMade(m), NEW c \in 1..Len(blocks), ~ IsPad(c)
  PROVE  /\ MapMade(mapBlock(m, c))
         /\ DOMAIN mapBlock(m, c).map = DOMAIN m.map \cup {c}
<1>1. CASE c \in DOMAIN m.map BY <1>1 DEF mapBlock
<1>2. CASE c \notin DOMAIN m.map
  <2>1. PICK r : r = newBlock(m, c) OBVIOUS
  <2>2. mapBlock(m, c) = r BY <1>2, <2>1 DEF mapBlock
  <2>3. /\ r.native = Append(m.native, <<>>) /\ r.queue = Append(m.queue, c)
        /\ r.map = [d \in DOMAIN m.map \cup {c} |->
                       IF d = c THEN Len(m.native) + 1 ELSE m.map[d]]
    BY <2>1 DEF newBlock
  <2>4. <<>> \in Seq(NativeType) OBVIOUS
  <2>5. /\ m.native \in Seq(Seq(NativeType)) /\ m.queue \in Seq(Nat)
        /\ Len(native) <= Len(m.native) /\ Len(m.native) \in Nat /\ Len(native) \in Nat
        /\ m.map \in [DOMAIN m.map -> 1..Len(m.native)]
        /\ DOMAIN blockMap \subseteq DOMAIN m.map
        /\ DOMAIN m.map \subseteq 1..Len(blocks)
    BY LenProperties DEF MapMade, CompilerTypeOK
  <2>6. /\ r.native \in Seq(Seq(NativeType)) /\ Len(r.native) = Len(m.native) + 1
        /\ \A n \in 1..Len(m.native) : r.native[n] = m.native[n]
        /\ r.native[Len(m.native) + 1] = <<>>
    BY <2>3, <2>4, <2>5, AppendProperties
  <2>7. /\ DOMAIN r.map = DOMAIN m.map \cup {c} /\ r.map[c] = Len(m.native) + 1
        /\ \A d \in DOMAIN m.map : r.map[d] = m.map[d]
    BY <1>2, <2>3
  <2>8. c \in Nat /\ c \notin DOMAIN blockMap BY <1>2, <2>5, PlacesLemma
  <2>9. DOMAIN r.map \ DOMAIN blockMap = (DOMAIN m.map \ DOMAIN blockMap) \cup {c}
    BY <2>7, <2>8
  <2>10. /\ r.queue \in Seq(Nat) /\ IsInjective(r.queue)
         /\ ToSet(r.queue) = ToSet(queue) \cup (DOMAIN r.map \ DOMAIN blockMap)
    <3>1. /\ IsInjective(m.queue)
          /\ ToSet(m.queue) = ToSet(queue) \cup (DOMAIN m.map \ DOMAIN blockMap)
      BY DEF MapMade
    <3>2. c \notin ToSet(m.queue) BY <3>1, <1>2, <2>8
    <3>3. /\ Append(m.queue, c) \in Seq(Nat)
          /\ ToSet(Append(m.queue, c)) = ToSet(m.queue) \cup {c}
          /\ IsInjective(Append(m.queue, c))
      BY <2>5, <2>8, <3>1, <3>2, AppendLemma
    <3> QED BY <2>3, <2>9, <3>1, <3>3
  <2>11. \A n \in 1..Len(native) : r.native[n] = native[n]
    <3>1. \A n \in 1..Len(native) : n \in 1..Len(m.native) BY <2>5
    <3>2. \A n \in 1..Len(native) : m.native[n] = native[n] BY DEF MapMade
    <3> QED BY <3>1, <3>2, <2>6
  <2>12. ASSUME NEW n \in Len(native) + 1 .. Len(r.native)
         PROVE  /\ r.native[n] = <<>>
                /\ \E d \in DOMAIN r.map \ DOMAIN blockMap : r.map[d] = n
    <3>1. CASE n = Len(m.native) + 1 BY <3>1, <2>6, <2>7, <2>9
    <3>2. CASE n \in Len(native) + 1 .. Len(m.native)
      <4>1. m.native[n] = <<>> /\ n \in 1..Len(m.native)
        BY <3>2, <2>5 DEF MapMade
      <4>2. PICK d \in DOMAIN m.map \ DOMAIN blockMap : m.map[d] = n
        BY <3>2 DEF MapMade
      <4> QED BY <4>1, <4>2, <2>6, <2>7, <2>9
    <3> QED BY <2>5, <2>6, <3>1, <3>2
  <2>13. r.map \in [DOMAIN r.map -> 1..Len(r.native)]
    <3>1. \A d \in DOMAIN r.map : r.map[d] \in 1..Len(r.native)
      <4> SUFFICES ASSUME NEW d \in DOMAIN r.map PROVE r.map[d] \in 1..Len(r.native)
        OBVIOUS
      <4>1. CASE d = c BY <4>1, <2>5, <2>6, <2>7
      <4>2. CASE d \in DOMAIN m.map
        <5>1. m.map[d] \in 1..Len(m.native) BY <4>2, <2>5
        <5> QED BY <4>2, <5>1, <2>5, <2>6, <2>7
      <4> QED BY <4>1, <4>2, <2>7
    <3>2. r.map = [d \in DOMAIN r.map |-> r.map[d]] BY <2>3
    <3> QED BY <3>1, <3>2
  <2>14. ASSUME NEW d \in DOMAIN r.map \ DOMAIN blockMap
         PROVE  /\ r.map[d] \in Len(native) + 1 .. Len(r.native) /\ ~ IsPad(d)
                /\ \A e \in DOMAIN r.map \ DOMAIN blockMap : r.map[d] = r.map[e] => d = e
    <3>1. \A e \in DOMAIN m.map \ DOMAIN blockMap :
             /\ r.map[e] = m.map[e] /\ m.map[e] \in Len(native) + 1 .. Len(m.native)
             /\ ~ IsPad(e)
             /\ \A f \in DOMAIN m.map \ DOMAIN blockMap : m.map[e] = m.map[f] => e = f
      BY <2>7 DEF MapMade
    <3>2. \A e \in DOMAIN m.map \ DOMAIN blockMap :
             /\ r.map[e] # Len(m.native) + 1
             /\ r.map[e] \in Len(native) + 1 .. Len(m.native) + 1
      BY <3>1, <2>5
    <3>3. Len(m.native) + 1 \in Len(native) + 1 .. Len(m.native) + 1 BY <2>5
    <3> QED BY ONLY <3>1, <3>2, <3>3, <2>6, <2>7, <2>9, ~ IsPad(c)
  <2>15. \A d \in DOMAIN blockMap : r.map[d] = blockMap[d]
    BY <2>5, <2>7 DEF MapMade
  <2>16. Len(native) <= Len(r.native) BY <2>5, <2>6
  <2>17. DOMAIN blockMap \subseteq DOMAIN r.map /\ DOMAIN r.map \subseteq 1..Len(blocks)
    BY <2>5, <2>7
  <2>18. MapMade(r)
    BY ONLY <2>6, <2>10, <2>11, <2>12, <2>13, <2>14, <2>15, <2>16, <2>17 DEF MapMade
  <2> QED BY <2>2, <2>7, <2>18
<1> QED BY <1>1, <1>2

(* The blocks that have been mapped begin at their first instructions. *)
StartsOf(m, starts, new) ==
    /\ Len(new) = Len(m.native)
    /\ \A n \in 1..Len(native) : new[n] = starts[n]
    /\ \A c \in DOMAIN m.map \ DOMAIN blockMap : new[m.map[c]] = Place(c, 1)
    /\ \A n \in Len(native) + 1 .. Len(m.native) :
          \E c \in DOMAIN m.map \ DOMAIN blockMap :
             m.map[c] = n /\ new[n] = Place(c, 1)

LEMMA NewStartsExist ==
  ASSUME Compilable, CompilerTypeOK, NEW starts \in Seq(Nat \X Nat),
         Len(starts) = Len(native), NEW m, MapMade(m)
  PROVE  \E new \in Seq(Nat \X Nat) : StartsOf(m, starts, new)
<1> DEFINE M == DOMAIN m.map \ DOMAIN blockMap
           New == Len(native) + 1 .. Len(m.native)
           Of(n) == CHOOSE c \in M : m.map[c] = n
           new == [n \in 1..Len(m.native) |->
                      IF n <= Len(native) THEN starts[n] ELSE Place(Of(n), 1)]
<1>1. /\ Len(native) \in Nat /\ Len(m.native) \in Nat /\ Len(native) <= Len(m.native)
      /\ M \subseteq 1..Len(blocks)
  BY LenProperties DEF CompilerTypeOK, MapMade
<1>2. M \subseteq Nat BY <1>1, PlacesLemma
<1>3. /\ \A c \in M : m.map[c] \in New
      /\ \A c, d \in M : m.map[c] = m.map[d] => c = d
      /\ \A n \in New : \E c \in M : m.map[c] = n
  BY DEF MapMade
<1> HIDE DEF M
<1>4. \A n \in New : Of(n) \in M /\ m.map[Of(n)] = n BY <1>3
<1> HIDE DEF Of
<1>5. \A c \in M : Of(m.map[c]) = c BY <1>3, <1>4
<1>6. \A n \in 1..Len(m.native) : new[n] = IF n <= Len(native) THEN starts[n]
                                           ELSE Place(Of(n), 1)
  OBVIOUS
<1>7. new \in Seq(Nat \X Nat) /\ Len(new) = Len(m.native)
  <2>1. ASSUME NEW n \in 1..Len(m.native)
        PROVE  (IF n <= Len(native) THEN starts[n] ELSE Place(Of(n), 1)) \in Nat \X Nat
    <3>1. CASE n <= Len(native)
      <4>1. n \in 1..Len(starts) BY <1>1, <3>1
      <4>2. starts[n] \in Nat \X Nat BY <4>1, ElementOfSeq
      <4> QED BY <3>1, <4>2
    <3>2. CASE ~ (n <= Len(native))
      <4>1. n \in New BY <1>1, <3>2
      <4>2. Of(n) \in Nat BY <1>2, <1>4, <4>1
      <4> QED BY <3>2, <4>2 DEF Place
    <3> QED BY <3>1, <3>2
  <2>2. new \in [1..Len(m.native) -> Nat \X Nat] BY <2>1
  <2> HIDE DEF new
  <2>3. new \in Seq(Nat \X Nat) BY ZenonT(60), <1>1, <2>2, SeqDef
  <2>4. DOMAIN new = 1..Len(new) /\ Len(new) \in Nat BY <2>3, LenProperties
  <2>5. 1..Len(new) = 1..Len(m.native) BY <2>2, <2>4
  <2> QED BY <1>1, <2>3, <2>4, <2>5
<1> HIDE DEF new
<1>8. \A n \in 1..Len(native) : new[n] = starts[n] BY <1>1, <1>6
<1>9. \A n \in New : n \in 1..Len(m.native) /\ ~ (n <= Len(native)) BY <1>1
<1>10. \A n \in New : new[n] = Place(Of(n), 1) BY <1>6, <1>9
<1>11. \A c \in M : new[m.map[c]] = Place(c, 1) BY <1>3, <1>5, <1>10
<1>12. \A n \in New : \E c \in M : m.map[c] = n /\ new[n] = Place(c, 1) BY <1>4, <1>10
<1> QED BY <1>7, <1>8, <1>11, <1>12 DEF M, StartsOf

LEMMA TerminateOK ==
  ASSUME Compilable, CompilerTypeOK, NEW starts \in Seq(Nat \X Nat), CodeOK(starts),
         UNCHANGED codeVars, NEW v, NEW p, NEW o, Visiting(starts, v, p, o),
         NEW b, b = v.target, NEW ins, ins = CodeAt(p), ins.op \in Terminator,
         NEW m, MapMade(m), \A k \in DOMAIN ins.to : ins.to[k] \in DOMAIN m.map,
         NEW x, x = NativeInstruction(ins.op, p, Operands(ins),
                                      [k \in DOMAIN ins.to |-> m.map[ins.to[k]]]),
         native' = AppendNative(m.native, b, x), blockMap' = m.map, queue' = m.queue,
         visitors' = Advanced(b), temps' = temps
  PROVE  CompilerTypeOK' /\ \E new \in Seq(Nat \X Nat) : CodeOK(new)'
<1>1. /\ p \in CodePlaces /\ b \in 1..Len(native) /\ p = Place(v.block, v.next)
      /\ ~ Closed(b) /\ v.block \in 1..Len(blocks) /\ v = Top /\ visitors # <<>>
  BY ZenonT(60) DEF Visiting
<1>2. /\ x.op = ins.op /\ x.source = p /\ x.operands = Operands(ins)
      /\ x.to = [k \in DOMAIN ins.to |-> m.map[ins.to[k]]]
  BY DEF NativeInstruction
<1>3. ins \in Instruction /\ p \in Nat \X Nat /\ NamesExist(ins) /\ ins.lpad = NoBlock
  <2>1. /\ CodeAt(p) \in Instruction /\ p \in Nat \X Nat /\ NamesExist(CodeAt(p))
        /\ CodeAt(p).lpad # NoBlock => CodeAt(p).op \in Throwing
    BY <1>1, PlaceLemma
  <2> QED BY <2>1 DEF Terminator, Throwing
<1>4. /\ m.native \in Seq(Seq(NativeType)) /\ Len(m.native) \in Nat
      /\ Len(native) \in Nat /\ Len(native) <= Len(m.native)
      /\ m.map \in [DOMAIN m.map -> 1..Len(m.native)]
      /\ Len(starts) = Len(native)
  BY LenProperties DEF MapMade, CompilerTypeOK, CodeOK, StartsOK
<1>5. ins.to \in Seq(Nat) /\ DOMAIN ins.to = 1..Len(ins.to) /\ Len(ins.to) \in Nat
  <2>1. ins.to \in Seq(Nat) BY <1>3 DEF Instruction
  <2> QED BY <2>1, LenProperties
<1>6. \A k \in DOMAIN ins.to : m.map[ins.to[k]] \in 1..Len(m.native) BY <1>4
<1>7. x \in NativeType /\ x.op # "LandingPad"
  <2>1. Operands(ins) \in Seq(Nat \X Nat) BY <1>1, OperandsType
  <2>2. ins.op \in Kind BY <1>3 DEF Instruction
  <2>3. [k \in 1..Len(ins.to) |-> m.map[ins.to[k]]] \in Seq(Nat)
    <3>1. \A k \in 1..Len(ins.to) : m.map[ins.to[k]] \in Nat
      <4>1. \A i \in 1..Len(m.native) : i \in Nat OBVIOUS
      <4>2. \A k \in 1..Len(ins.to) : m.map[ins.to[k]] \in 1..Len(m.native)
        BY ONLY <1>5, <1>6
      <4> QED BY ONLY <4>1, <4>2
    <3> QED BY <1>5, <3>1, IsASeq
  <2>4. ins.op # "LandingPad" BY <2>2 DEF Kind
  <2>5. [k \in DOMAIN ins.to |-> m.map[ins.to[k]]] \in Seq(Nat) BY SMTT(60), <1>5, <2>3
  <2> QED BY <1>3, <2>1, <2>2, <2>4, <2>5 DEF NativeInstruction, NativeType
<1>8. /\ Grown(b, x) /\ Len(native') = Len(m.native)
      /\ \A n \in 1..Len(m.native) : n # b => native'[n] = m.native[n]
  <2>1. /\ \A n \in 1..Len(native) : m.native[n] = native[n]
        /\ \A n \in Len(native) + 1 .. Len(m.native) : m.native[n] = <<>>
    BY DEF MapMade
  <2> QED BY ZenonT(60), <1>1, <1>4, <1>7, <2>1, GrownBy
<1>0. PICK new \in Seq(Nat \X Nat) : StartsOf(m, starts, new)
  BY <1>4, NewStartsExist
<1>9. /\ Len(new) = Len(m.native)
      /\ \A n \in 1..Len(native) : new[n] = starts[n]
      /\ \A c \in DOMAIN m.map \ DOMAIN blockMap : new[m.map[c]] = Place(c, 1)
      /\ \A n \in Len(native) + 1 .. Len(m.native) :
            \E c \in DOMAIN m.map \ DOMAIN blockMap :
               m.map[c] = n /\ new[n] = Place(c, 1)
  BY <1>0 DEF StartsOf
<1>10. Mapped = DOMAIN m.map \ DOMAIN blockMap BY DEF Mapped
<1>11. Continued(starts, new) BY <1>8, <1>9 DEF Continued
<1>12. ASSUME NEW n \in Len(native) + 1 .. Len(native')
       PROVE  /\ native'[n] = <<>> /\ new[n][1] \in Mapped /\ new[n][2] = 1
              /\ n = blockMap'[new[n][1]]
  <2>1. n \in Len(native) + 1 .. Len(m.native) BY <1>8
  <2>2. PICK c \in Mapped : m.map[c] = n /\ new[n] = Place(c, 1)
    BY <1>9, <1>10, <2>1
  <2>3. new[n][1] = c /\ new[n][2] = 1 BY <2>2 DEF Place
  <2>4. n # b /\ n \in 1..Len(m.native) BY <1>1, <1>4, <2>1
  <2>5. native'[n] = <<>> BY <1>8, <2>1, <2>4 DEF MapMade
  <2> QED BY <2>2, <2>3, <2>5
<1>13. ToSet(queue) \subseteq DOMAIN blockMap BY DEF CodeOK, QueueOK
<1>14. NowMapped(new)
  <2>1. \A c \in Mapped : /\ blockMap'[c] \in Len(native) + 1 .. Len(native')
                          /\ new[blockMap'[c]] = Place(c, 1)
    BY <1>8, <1>9, <1>10 DEF MapMade
  <2>2. \A c \in Mapped : native'[blockMap'[c]] = <<>> BY <1>12, <2>1
  <2>3. \A n \in Len(native) + 1 .. Len(native') : new[n][1] \notin ToSet(queue)
    BY <1>12, <1>13 DEF Mapped
  <2>4. /\ DOMAIN blockMap \subseteq DOMAIN blockMap'
        /\ \A c \in DOMAIN blockMap : blockMap'[c] = blockMap[c]
        /\ IsInjective(queue') /\ ToSet(queue') = ToSet(queue) \cup Mapped
    BY <1>10 DEF MapMade
  <2> QED BY <1>12, <2>1, <2>2, <2>3, <2>4 DEF NowMapped
<1>15. NewBlocks(new, p)
  <2>1. ASSUME NEW n \in Len(native) + 1 .. Len(native')
        PROVE  /\ native'[n] = <<>> /\ new[n][2] = 1 /\ new[n][1] \in 1..Len(blocks)
               /\ ~ IsPad(new[n][1])
               /\ new[n][1] \notin DOMAIN blockMap /\ new[n][1] \in DOMAIN blockMap'
    <3>1. /\ native'[n] = <<>> /\ new[n][2] = 1 /\ new[n][1] \in Mapped BY <1>12
    <3> QED BY <3>1, <1>10 DEF MapMade, Mapped
  <2>2. ASSUME NEW i \in Len(native) + 1 .. Len(native'),
               NEW j \in Len(native) + 1 .. Len(native'), new[i] = new[j]
        PROVE  i = j
    <3>1. i = blockMap'[new[i][1]] /\ j = blockMap'[new[j][1]] BY <1>12
    <3> QED BY ONLY <2>2, <3>1
  <2> QED BY ONLY <2>1, <2>2 DEF NewBlocks
<1>16. EndsBlock(x)
  <2>1. CASE ins.op \in {"Branch", "Jump"}
    <3>1. Len(ins.to) # 0 BY <1>3, <2>1 DEF NamesExist
    <3>2. 1 \in DOMAIN x.to BY <1>2, <1>5, <3>1
    <3> QED BY <3>2 DEF EndsBlock
  <2>2. CASE ins.op \notin {"Branch", "Jump"}
    BY <1>2, <2>2 DEF EndsBlock, Terminator
  <2> QED BY <2>1, <2>2
<1>17. v.next = Len(blocks[v.block])
  <2>1. p[1] = v.block /\ p[2] = v.next BY SMTT(60), <1>1 DEF Place
  <2> QED BY <1>1, <2>1, PlaceLemma
<1>18. TranslationOK(new, b, x, p)'
  <2>1. OperandsOK(x, p, Origin(b, p))' BY <1>2, <1>8, NewOperands
  <2>2. CodePlaces' = CodePlaces /\ CodeAt(p)' = ins BY SameCode
  <2>3. Jumps(new, x, p)'
    <3>1. ASSUME NEW k \in DOMAIN x.to
          PROVE  x.to[k] \in 1..Len(native') /\ new[x.to[k]] = Place(ins.to[k], 1)
      <4>1. k \in DOMAIN ins.to /\ x.to[k] = m.map[ins.to[k]] BY <1>2
      <4>2. ins.to[k] \in DOMAIN m.map BY SMTT(60), <4>1
      <4>3. CASE ins.to[k] \in DOMAIN blockMap
        <5>1. m.map[ins.to[k]] = blockMap[ins.to[k]] BY <4>3 DEF MapMade
        <5>2. blockMap[ins.to[k]] \in 1..Len(native) BY <4>3 DEF CompilerTypeOK
        <5>3. starts[blockMap[ins.to[k]]] = Place(ins.to[k], 1)
          BY <4>3 DEF CodeOK, MapOK
        <5>4. new[blockMap[ins.to[k]]] = Place(ins.to[k], 1) BY <1>9, <5>2, <5>3
        <5>5. blockMap[ins.to[k]] \in 1..Len(native') BY SMTT(60), <1>4, <1>8, <5>2
        <5> QED BY ZenonT(60), <4>1, <5>1, <5>4, <5>5
      <4>4. CASE ins.to[k] \notin DOMAIN blockMap
        <5>1. new[m.map[ins.to[k]]] = Place(ins.to[k], 1) BY <1>9, <4>2, <4>4
        <5> QED BY ZenonT(60), <4>1, <5>1, <1>6, <1>8
      <4> QED BY <4>3, <4>4
    <3>2. DOMAIN x.to = DOMAIN ins.to BY <1>2
    <3> QED BY ONLY SMTT(60), <2>2, <3>1, <3>2 DEF Jumps, Place
  <2> QED BY ZenonT(60), <1>1, <1>2, <1>3, <2>1, <2>2, <2>3 DEF TranslationOK
<1>19. PICK at : at = NewPlace(b) OBVIOUS
<1>20. \A n \in Len(native) + 1 .. Len(native') : new[n][1] \in Mapped BY <1>12
<1>21. /\ VisitorsOK(new)' /\ visitors' \in Seq(VisitorType)
       /\ \A n : IsTarget(n) => IsTarget(n)'
  BY <1>2, <1>8, <1>11, <1>14, <1>16, <1>17, <1>19, <1>20, AdvancedOK
<1>22. QueueOK(new)'
  <2>1. \A n \in Len(native) + 1 .. Len(native') : n \in {blockMap'[c] : c \in Mapped}
    BY <1>12
  <2> QED BY <1>8, <1>11, <1>14, <1>15, <1>16, <1>21, <2>1, QueueKept
<1>23. MapOK(new)' BY <1>11, <1>14, MapKept DEF CodeOK
<1>24. StartsOK(new)' BY <1>8, <1>11, <1>14, <1>15, NewStarts DEF CodeOK, NowMapped
<1>25. NativeOK(new)' BY <1>8, <1>11, <1>15, <1>18, NewNative DEF CodeOK
<1>26. CompilerTypeOK'
  <2>1. blocks' = blocks /\ tempCount' = tempCount BY DEF codeVars
  <2>2. native' \in Seq(Seq(NativeType)) BY ZenonT(60), <1>8 DEF Grown
  <2>3. /\ blockMap' \in [DOMAIN blockMap' -> 1..Len(native')]
        /\ DOMAIN blockMap' \subseteq 1..Len(blocks) /\ queue' \in Seq(Nat)
    BY <1>4, <1>8 DEF MapMade
  <2>4. temps' \in [1..tempCount -> Nat \X Nat] BY DEF CompilerTypeOK
  <2> QED BY ZenonT(60), <1>21, <2>1, <2>2, <2>3, <2>4 DEF CompilerTypeOK
<1>27. CodeOK(new)' BY <1>21, <1>22, <1>23, <1>24, <1>25 DEF CodeOK
<1> QED BY <1>26, <1>27

LEMMA TerminatorMaps ==
  ASSUME Compilable, CompilerTypeOK, NEW starts \in Seq(Nat \X Nat), CodeOK(starts),
         VisitTerminator, NEW ins, ins = Current
  PROVE  \E m :
            /\ MapMade(m) /\ DOMAIN m.map = DOMAIN blockMap \cup ToSet(ins.to)
            /\ \A k \in DOMAIN ins.to : ins.to[k] \in DOMAIN m.map
            /\ native' = AppendNative(m.native, Top.target,
                             NativeInstruction(ins.op, Here, Operands(ins),
                                 [k \in DOMAIN ins.to |-> m.map[ins.to[k]]]))
            /\ blockMap' = m.map /\ queue' = m.queue
<1>1. Compiling BY DEF VisitTerminator
<1>2. PICK v, p, o : Visiting(starts, v, p, o) BY <1>1, VisitingLemma
<1>3. p = Here /\ ins = CodeAt(p) /\ p \in CodePlaces BY <1>2 DEF Visiting
<1> DEFINE X(m) == NativeInstruction(ins.op, Here, Operands(ins),
                                     [k \in DOMAIN ins.to |-> m.map[ins.to[k]]])
           Terminates(m) == /\ native' = AppendNative(m.native, Top.target, X(m))
                            /\ blockMap' = m.map /\ queue' = m.queue
           Maps(m) == /\ MapMade(m) /\ DOMAIN m.map = DOMAIN blockMap \cup ToSet(ins.to)
                      /\ \A k \in DOMAIN ins.to : ins.to[k] \in DOMAIN m.map
<1>6. /\ CASE ins.to = <<>>    -> Terminates(MappedState)
           [] Len(ins.to) = 1 -> Terminates(mapBlock(MappedState, ins.to[1]))
           [] Len(ins.to) = 2 -> \E first \in {1, 2} :
                  Terminates(mapBlock(mapBlock(MappedState, ins.to[first]),
                                      ins.to[3 - first]))
  BY DEF VisitTerminator
<1>7. /\ ins.to \in Seq(Nat) /\ DOMAIN ins.to = 1..Len(ins.to)
      /\ Len(ins.to) \in {0, 1, 2} /\ (ins.to = <<>> <=> Len(ins.to) = 0)
      /\ \A k \in DOMAIN ins.to : ins.to[k] \in 1..Len(blocks) /\ ~ IsPad(ins.to[k])
  <2>1. ins \in Instruction /\ NamesExist(ins) BY <1>3, PlaceLemma
  <2>2. ins.to \in Seq(Nat) BY <2>1 DEF Instruction
  <2>3. Len(ins.to) \in {0, 1, 2} BY <2>1 DEF NamesExist
  <2>4. \A k \in DOMAIN ins.to : ins.to[k] \in 1..Len(blocks) /\ ~ IsPad(ins.to[k])
    BY <2>1 DEF NamesExist
  <2>5. \A s \in Seq(Nat) : s # <<>> => Len(s) # 0 BY EmptySeq
  <2>6. ins.to = <<>> => Len(ins.to) = 0 OBVIOUS
  <2> QED BY <2>2, <2>3, <2>4, <2>5, <2>6, LenProperties
<1> HIDE DEF X, Terminates
<1>8. ToSet(ins.to) = {ins.to[k] : k \in DOMAIN ins.to} BY DEF ToSet
<1>9. IsInjective(queue) /\ ToSet(queue) \subseteq DOMAIN blockMap
  BY DEF CodeOK, QueueOK
<1>10. PICK m0 : m0 = MappedState OBVIOUS
<1>11. MapMade(m0) BY <1>9, <1>10, MapMadeFirst
<1>0. DOMAIN m0.map = DOMAIN blockMap BY <1>10 DEF MappedState
<1>12. ASSUME Len(ins.to) = 0 PROVE \E m : Maps(m) /\ Terminates(m)
  <2>0. ins.to = <<>> BY ONLY <1>7, <1>12
  <2>1. Terminates(m0) BY ONLY <1>6, <1>10, <1>12, <2>0
  <2>2. DOMAIN ins.to = {} BY <1>7, <1>12
  <2>3. Maps(m0) BY <1>0, <1>8, <1>11, <2>2
  <2> QED BY <2>1, <2>3
<1>13. ASSUME Len(ins.to) = 1 PROVE \E m : Maps(m) /\ Terminates(m)
  <2>1. PICK m : m = mapBlock(m0, ins.to[1]) OBVIOUS
  <2>2. Terminates(m) BY <1>6, <1>7, <1>10, <1>13, <2>1
  <2>3. ins.to[1] \in 1..Len(blocks) /\ ~ IsPad(ins.to[1]) BY <1>7, <1>13
  <2>4. MapMade(m) /\ DOMAIN m.map = DOMAIN blockMap \cup {ins.to[1]}
    BY <1>0, <1>9, <1>11, <2>1, <2>3, MapMadeNext
  <2>5. DOMAIN ins.to = {1} BY <1>7, <1>13
  <2>6. Maps(m) BY <1>8, <2>4, <2>5
  <2> QED BY <2>2, <2>6
<1>14. ASSUME Len(ins.to) = 2 PROVE \E m : Maps(m) /\ Terminates(m)
  <2>1. PICK first \in {1, 2} :
           Terminates(mapBlock(mapBlock(m0, ins.to[first]), ins.to[3 - first]))
    BY <1>6, <1>7, <1>10, <1>14
  <2>2. PICK second : second = 3 - first OBVIOUS
  <2>3. DOMAIN ins.to = {first, second} BY <1>7, <1>14, <2>2
  <2>4. PICK c, d : c = ins.to[first] /\ d = ins.to[second] OBVIOUS
  <2>5. /\ c \in 1..Len(blocks) /\ ~ IsPad(c) /\ d \in 1..Len(blocks) /\ ~ IsPad(d)
    BY <1>7, <2>3, <2>4
  <2>6. PICK m1 : m1 = mapBlock(m0, c) OBVIOUS
  <2>7. MapMade(m1) /\ DOMAIN m1.map = DOMAIN blockMap \cup {c}
    BY <1>0, <1>9, <1>11, <2>5, <2>6, MapMadeNext
  <2>8. PICK m2 : m2 = mapBlock(m1, d) OBVIOUS
  <2>9. MapMade(m2) /\ DOMAIN m2.map = DOMAIN m1.map \cup {d}
    BY <1>9, <2>5, <2>7, <2>8, MapMadeNext
  <2>10. Terminates(m2) BY <2>1, <2>2, <2>4, <2>6, <2>8
  <2>11. ToSet(ins.to) = {c, d} BY ONLY <1>8, <2>3, <2>4
  <2>12. Maps(m2) BY <1>8, <2>7, <2>9, <2>11
  <2> QED BY <2>10, <2>12
<1>15. PICK m : Maps(m) /\ Terminates(m) BY <1>7, <1>12, <1>13, <1>14
<1> QED BY <1>15 DEF X, Terminates

LEMMA VisitTerminatorOK ==
  ASSUME Compilable, CompilerTypeOK, NEW starts \in Seq(Nat \X Nat), CodeOK(starts),
         VisitTerminator
  PROVE  CompilerTypeOK' /\ \E new \in Seq(Nat \X Nat) : CodeOK(new)'
<1>1. Compiling /\ UNCHANGED codeVars BY DEF VisitTerminator
<1>2. PICK v, p, o : Visiting(starts, v, p, o) BY <1>1, VisitingLemma
<1>3. PICK b, ins : b = v.target /\ ins = CodeAt(p) OBVIOUS
<1>4. v = Top /\ p = Here /\ Current = ins BY <1>2, <1>3 DEF Visiting
<1>5. ins.op \in Terminator /\ visitors' = Advanced(b) /\ temps' = temps
  BY <1>3, <1>4 DEF VisitTerminator
<1>6. PICK m :
         /\ MapMade(m) /\ \A k \in DOMAIN ins.to : ins.to[k] \in DOMAIN m.map
         /\ native' = AppendNative(m.native, Top.target,
                          NativeInstruction(ins.op, Here, Operands(ins),
                              [k \in DOMAIN ins.to |-> m.map[ins.to[k]]]))
         /\ blockMap' = m.map /\ queue' = m.queue
  BY <1>4, TerminatorMaps
<1>7. PICK x : x = NativeInstruction(ins.op, p, Operands(ins),
                                     [k \in DOMAIN ins.to |-> m.map[ins.to[k]]])
  OBVIOUS
<1>8. native' = AppendNative(m.native, b, x) BY <1>3, <1>4, <1>6, <1>7
<1> QED BY <1>1, <1>2, <1>3, <1>5, <1>6, <1>7, <1>8, TerminateOK

LEMMA TwoMore ==
  ASSUME NEW S, NEW s \in Seq(S), NEW e \in S, NEW f \in S
  PROVE  /\ s \o <<e, f>> \in Seq(S) /\ Len(s \o <<e, f>>) = Len(s) + 2
         /\ \A i \in 1..Len(s) : (s \o <<e, f>>)[i] = s[i]
         /\ (s \o <<e, f>>)[Len(s) + 1] = e /\ (s \o <<e, f>>)[Len(s) + 2] = f
<1>1. PICK t : t = <<e, f>> OBVIOUS
<1>2. t \in Seq(S) /\ Len(t) = 2 /\ t[1] = e /\ t[2] = f BY <1>1
<1>3. /\ s \o t \in Seq(S) /\ Len(s \o t) = Len(s) + Len(t)
      /\ \A i \in 1..Len(s) + Len(t) :
            (s \o t)[i] = IF i <= Len(s) THEN s[i] ELSE t[i - Len(s)]
  BY <1>2, ConcatProperties
<1>4. PICK u : u = s \o t OBVIOUS
<1>5. PICK n : n = Len(s) OBVIOUS
<1>6. n \in Nat BY <1>5, LenProperties
<1>7. /\ u \in Seq(S) /\ Len(u) = n + 2
      /\ \A i \in 1..n + 2 : u[i] = IF i <= n THEN s[i] ELSE t[i - n]
  BY ONLY <1>2, <1>3, <1>4, <1>5
<1>8. (\A i \in 1..n : u[i] = s[i]) /\ u[n + 1] = t[1] /\ u[n + 2] = t[2]
  <2>1. /\ n + 1 \in 1..n + 2 /\ ~ (n + 1 <= n) /\ (n + 1) - n = 1
        /\ n + 2 \in 1..n + 2 /\ ~ (n + 2 <= n) /\ (n + 2) - n = 2
        /\ \A i \in 1..n : i \in 1..n + 2 /\ i <= n
    BY ONLY <1>6
  <2>2. u[n + 1] = t[(n + 1) - n] /\ u[n + 2] = t[(n + 2) - n] BY ONLY <1>7, <2>1
  <2>3. \A i \in 1..n : u[i] = s[i] BY ONLY <1>7, <2>1
  <2> QED BY ONLY <2>1, <2>2, <2>3
<1> QED BY <1>1, <1>2, <1>4, <1>5, <1>7, <1>8

LEMMA makeInvokeOK ==
  ASSUME Compilable, CompilerTypeOK, NEW starts \in Seq(Nat \X Nat), CodeOK(starts),
         makeInvoke
  PROVE  CompilerTypeOK' /\ \E new \in Seq(Nat \X Nat) : CodeOK(new)'
<1>1. Compiling /\ UNCHANGED codeVars BY DEF makeInvoke
<1>2. PICK v, p, o : Visiting(starts, v, p, o) BY <1>1, VisitingLemma
<1>3. PICK b, L : b = v.target /\ L = Len(native) OBVIOUS
<1>4. /\ v = Top /\ v \in VisitorType /\ p = Here /\ Current = CodeAt(p)
      /\ p \in CodePlaces
      /\ b \in 1..L /\ p = Place(v.block, v.next) /\ ~ Closed(b)
      /\ v.block \in 1..Len(blocks) /\ v.next \in 1..Len(blocks[v.block])
      /\ starts[b][1] = v.block /\ starts[b][2] + Len(native[b]) = v.next
  BY <1>2, <1>3 DEF Visiting
<1>5. PICK ins, pad : ins = CodeAt(p) /\ pad = ins.lpad OBVIOUS
<1>6. PICK x : x = NativeInstruction(ins.op, p, Operands(ins), <<L + 1, L + 2>>) OBVIOUS
<1>7. PICK y : y = NativeInstruction("LandingPad", p, <<>>, <<>>) OBVIOUS
<1>8. PICK at : at = NewPlace(b) OBVIOUS
<1>9. PICK w : w = Visitor(pad, L + 2, ins.dest, at) OBVIOUS
<1>10. /\ pad # NoBlock
       /\ native' = AppendNative(native, b, x) \o << <<>>, <<y>> >>
       /\ visitors' = Append(Advanced(L + 1), w)
       /\ temps' = temps /\ blockMap' = blockMap /\ queue' = queue
  <2>1. NextValue(b) = at BY <1>8 DEF NextValue, NewPlace
  <2> QED BY <1>3, <1>4, <1>5, <1>6, <1>7, <1>9, <2>1
          DEF makeInvoke, SetInsertPoint, compileNow
<1>11. /\ x.op = ins.op /\ x.source = p /\ x.operands = Operands(ins)
       /\ x.to = <<L + 1, L + 2>>
       /\ y.op = "LandingPad" /\ y.source = p /\ y.operands = <<>> /\ y.to = <<>>
  BY <1>6, <1>7 DEF NativeInstruction
<1>12. /\ ins \in Instruction /\ p \in Nat \X Nat /\ NamesExist(ins)
       /\ ins.op \in Throwing /\ IsPad(pad) /\ ~ IsPad(p[1]) /\ p[1] = v.block
       /\ pad \in 1..Len(blocks) /\ v.next # Len(blocks[v.block])
  <2>1. /\ ins \in Instruction /\ p \in Nat \X Nat /\ NamesExist(ins)
        /\ ins.op \in Throwing /\ IsPad(pad) /\ ~ IsPad(p[1])
        /\ ins.op \in Terminator <=> p[2] = Len(blocks[p[1]])
    BY <1>4, <1>5, <1>10, PlaceLemma
  <2>2. p[1] = v.block /\ p[2] = v.next BY <1>4 DEF Place
  <2>3. ins.op \notin Terminator BY <2>1 DEF Throwing, Terminator
  <2>4. pad \in 1..Len(blocks)
    <3>1. pad \in 0..Len(blocks) BY <1>5, <2>1 DEF NamesExist
    <3> QED BY <3>1, <1>10, PlacesLemma DEF NoBlock
  <2> QED BY <2>1, <2>2, <2>3, <2>4
<1>13. /\ Len(visitors) = 1 /\ v = visitors[1] /\ OneVisitor(starts, v) /\ o = p
       /\ TempsOK(p) /\ visitors # <<>>
  BY <1>2, <1>5, <1>10 DEF Visiting
<1>14. OuterOK(starts, v) BY <1>13 DEF OneVisitor
<1>15. /\ L \in Nat /\ native \in Seq(Seq(NativeType)) /\ Len(starts) = L
       /\ Len(native[b]) \in Nat /\ starts[b][2] \in Nat /\ v.next \in Nat
  BY <1>3, <1>4, LenProperties, NativeLemma, StartsLemma
     DEF CompilerTypeOK, CodeOK, StartsOK, VisitorType
<1>16. x \in NativeType /\ x.op # "LandingPad" /\ y \in NativeType
  <2>1. Operands(ins) \in Seq(Nat \X Nat) BY <1>4, <1>5, OperandsType
  <2>2. ins.op \in Kind BY <1>12 DEF Instruction
  <2>3. <<L + 1, L + 2>> \in Seq(Nat)
    <3>1. L + 1 \in Nat /\ L + 2 \in Nat BY <1>15
    <3> QED BY <3>1
  <2>4. ins.op # "LandingPad" BY <2>2 DEF Kind
  <2>5. <<>> \in Seq(Nat) /\ <<>> \in Seq(Nat \X Nat) OBVIOUS
  <2>6. x \in NativeType
    BY <1>6, <1>12, <2>1, <2>2, <2>3 DEF NativeInstruction, NativeType
  <2>7. y \in NativeType BY <1>7, <1>12, <2>5 DEF NativeInstruction, NativeType
  <2> QED BY <1>11, <2>4, <2>6, <2>7
<1>17. /\ native' \in Seq(Seq(NativeType)) /\ Len(native') = L + 2
       /\ Len(native'[b]) = Len(native[b]) + 1 /\ native'[b][Len(native[b]) + 1] = x
       /\ \A k \in 1..Len(native[b]) : native'[b][k] = native[b][k]
       /\ \A n \in 1..L : n # b => native'[n] = native[n]
       /\ native'[L + 1] = <<>> /\ native'[L + 2] = <<y>>
  <2>1. PICK M : M = AppendNative(native, b, x) OBVIOUS
  <2>2. b \in 1..Len(native) BY <1>3, <1>4
  <2>3. /\ AppendNative(native, b, x) \in Seq(Seq(NativeType))
        /\ Len(AppendNative(native, b, x)) = Len(native)
        /\ Len(AppendNative(native, b, x)[b]) = Len(native[b]) + 1
        /\ AppendNative(native, b, x)[b][Len(native[b]) + 1] = x
        /\ \A k \in 1..Len(native[b]) :
              AppendNative(native, b, x)[b][k] = native[b][k]
        /\ \A n \in 1..Len(native) :
              n # b => AppendNative(native, b, x)[n] = native[n]
    BY <1>15, <1>16, <2>2, AppendNativeLemma
  <2>4. /\ M \in Seq(Seq(NativeType)) /\ Len(M) = L
        /\ Len(M[b]) = Len(native[b]) + 1 /\ M[b][Len(native[b]) + 1] = x
        /\ \A k \in 1..Len(native[b]) : M[b][k] = native[b][k]
        /\ \A n \in 1..L : n # b => M[n] = native[n]
    BY ONLY <1>3, <2>1, <2>3
  <2>5. <<y>> \in Seq(NativeType) /\ <<>> \in Seq(NativeType) BY <1>16
  <2>6. PICK U : U = M \o << <<>>, <<y>> >> OBVIOUS
  <2>7. /\ U \in Seq(Seq(NativeType)) /\ Len(U) = Len(M) + 2
        /\ \A n \in 1..Len(M) : U[n] = M[n]
        /\ U[Len(M) + 1] = <<>> /\ U[Len(M) + 2] = <<y>>
    BY SMTT(60), <2>4, <2>5, <2>6, TwoMore
  <2>8. /\ U \in Seq(Seq(NativeType)) /\ Len(U) = L + 2 /\ U[b] = M[b]
        /\ \A n \in 1..L : n # b => U[n] = native[n]
        /\ U[L + 1] = <<>> /\ U[L + 2] = <<y>>
    BY ONLY <2>4, <2>7, <1>4
  <2>9. /\ Len(U[b]) = Len(native[b]) + 1 /\ U[b][Len(native[b]) + 1] = x
        /\ \A k \in 1..Len(native[b]) : U[b][k] = native[b][k]
    BY ONLY <2>4, <2>8
  <2>10. native' = U BY <1>10, <2>1, <2>6
  <2> QED BY ONLY <2>8, <2>9, <2>10
<1>18. /\ Len(native'[L + 1]) = 0 /\ Len(native'[L + 2]) = 1
       /\ native'[L + 2][1] = y /\ native'[L + 2] # <<>>
  BY <1>17
<1>19. \A n : n \in Len(native) + 1 .. Len(native') <=> n \in {L + 1, L + 2}
  <2>1. L \in Nat /\ Len(native) = L /\ Len(native') = L + 2 BY <1>3, <1>15, <1>17
  <2>2. L + 1 .. L + 2 = {L + 1, L + 2} BY ONLY <2>1
  <2> QED BY ONLY <2>1, <2>2
<1>Numbers. /\ L \in Nat /\ v.next \in Nat /\ Len(native) = L /\ Len(native') = L + 2
            /\ L + 1 \in 1..L + 2 /\ L + 2 \in 1..L + 2
  <2>1. L \in Nat BY <1>15
  <2>2. L + 1 \in 1..L + 2 /\ L + 2 \in 1..L + 2 BY ONLY <2>1
  <2> QED BY <1>3, <1>15, <1>17, <2>1, <2>2
<1>20. Grown(b, x)
  <2>1. \A n \in Len(native) + 1 .. Len(native') :
            /\ Len(native'[n]) <= 1
            /\ \A k \in 1..Len(native'[n]) : native'[n][k].op = "LandingPad"
    <3> SUFFICES ASSUME NEW n \in {L + 1, L + 2}
                 PROVE  /\ Len(native'[n]) <= 1
                        /\ \A k \in 1..Len(native'[n]) : native'[n][k].op = "LandingPad"
      BY <1>19
    <3>1. CASE n = L + 1 BY ONLY <3>1, <1>17, <1>18
    <3>2. CASE n = L + 2 BY ONLY <3>2, <1>11, <1>17, <1>18
    <3> QED BY <3>1, <3>2
  <2>2. Len(native) <= Len(native') BY ONLY <1>3, <1>15, <1>17
  <2> QED BY ONLY <1>3, <1>4, <1>16, <1>17, <2>1, <2>2 DEF Grown
<1>21. PICK new : new = starts \o <<Following(p), Place(pad, 0)>> OBVIOUS
<1>22. /\ new \in Seq(Nat \X Nat) /\ Len(new) = L + 2
       /\ \A n \in 1..L : new[n] = starts[n]
       /\ new[L + 1] = Following(p) /\ new[L + 2] = Place(pad, 0)
  <2>1. pad \in Nat /\ p[1] \in Nat /\ p[2] \in Nat BY <1>12, PlacesLemma
  <2>2. Following(p) \in Nat \X Nat /\ Place(pad, 0) \in Nat \X Nat
    BY <2>1 DEF Following, Place
  <2>3. /\ new \in Seq(Nat \X Nat) /\ Len(new) = Len(starts) + 2
        /\ \A n \in 1..Len(starts) : new[n] = starts[n]
        /\ new[Len(starts) + 1] = Following(p) /\ new[Len(starts) + 2] = Place(pad, 0)
    BY <1>21, <2>2, TwoMore
  <2> QED BY ONLY <1>15, <2>3
<1>23. Continued(starts, new) BY <1>3, <1>17, <1>22 DEF Continued
<1>24. /\ new[L + 1][1] = v.block /\ new[L + 1][2] = v.next + 1
       /\ new[L + 2][1] = pad /\ new[L + 2][2] = 0
  BY ONLY <1>4, <1>22 DEF Following, Place
<1>25. Mapped = {} BY <1>10 DEF Mapped
<1>26. NowMapped(new)
  <2>1. v.block \notin ToSet(queue) BY <1>14 DEF OuterOK
  <2>2. pad \notin ToSet(queue)
    <3> SUFFICES ASSUME pad \in ToSet(queue) PROVE FALSE OBVIOUS
    <3>1. pad \in DOMAIN blockMap BY DEF CodeOK, QueueOK
    <3>2. starts[blockMap[pad]] = Place(pad, 1) /\ blockMap[pad] \in 1..Len(native)
      BY <3>1 DEF CodeOK, MapOK, CompilerTypeOK
    <3>3. starts[blockMap[pad]][1] = pad /\ starts[blockMap[pad]][2] = 1
      BY <3>2 DEF Place
    <3> QED BY SMTT(60), <3>2, <3>3, <1>12, StartsLemma DEF CodeOK
  <2>3. \A n \in Len(native) + 1 .. Len(native') : new[n][1] \notin ToSet(queue)
    BY <1>19, <1>24, <2>1, <2>2
  <2>4. IsInjective(queue) BY DEF CodeOK, QueueOK
  <2> QED BY <1>10, <1>25, <2>3, <2>4 DEF NowMapped
<1>27. at \in MadeFrom(p)' /\ NativeAt(at)' = x
  BY <1>8, <1>11, <1>20, GrownMade
<1>28. CodePlaces' = CodePlaces /\ CodeAt(p)' = ins BY <1>1, <1>5, SameCode
<1>29. NewBlocks(new, p)
  <2>1. PadOK(new, L + 2, y)'
    <3>1. NativeAt(at)'.to[2] = L + 2 BY <1>11, <1>27
    <3>2. \E r \in MadeFrom(p)' : NativeAt(r)'.to[2] = L + 2 BY <1>27, <3>1
    <3> QED BY ONLY <1>4, <1>5, <1>11, <1>24, <1>28, <3>2 DEF PadOK
  <2>2. \E z : z = native'[L + 2][1] /\ PadOK(new, L + 2, z)' BY <2>1, <1>17, <1>18
  <2>3. Len(native'[L + 2]) = 1 BY <1>17, <1>18
  <2>4. new[L + 1] # new[L + 2] BY <1>24, <1>15
  <2>5. ASSUME NEW n \in Len(native) + 1 .. Len(native')
        PROVE  \/ native'[n] = <<>> /\ new[n] = Following(p) /\ ~ IsPad(p[1])
               \/ /\ Len(native'[n]) = 1 /\ new[n][2] = 0 /\ new[n][1] \in 1..Len(blocks)
                  /\ IsPad(new[n][1])
                  /\ \E z : z = native'[n][1] /\ PadOK(new, n, z)'
    <3>1. CASE n = L + 1 BY ONLY <3>1, <1>12, <1>17, <1>22
    <3>2. CASE n = L + 2 BY ONLY <3>2, <1>12, <1>24, <2>2, <2>3
    <3> QED BY <1>19, <3>1, <3>2
  <2>6. \A m, n \in Len(native) + 1 .. Len(native') : new[m] = new[n] => m = n
    BY ONLY <1>19, <2>4
  <2> QED BY ONLY <2>5, <2>6 DEF NewBlocks
<1>30. x.to # <<>> /\ Len(x.to) = 2 /\ DOMAIN x.to = {1, 2} /\ x.to[1] = L + 1
       /\ x.to[2] = L + 2
  BY <1>11
<1>31. TranslationOK(new, b, x, p)'
  <2>1. OperandsOK(x, p, Origin(b, p))'
    BY <1>1, <1>2, <1>3, <1>5, <1>11, <1>20, NewOperands
  <2>2. GoesOn(new, x, p)'
    <3>1. native'[L + 2] # <<>> /\ native'[L + 2][1].source = p
      BY ONLY <1>11, <1>17, <1>18
    <3>2. L + 1 \in 1..Len(native') /\ L + 2 \in 1..Len(native') BY ONLY <1>Numbers
    <3> QED BY ONLY <1>5, <1>22, <1>28, <1>30, <3>1, <3>2 DEF GoesOn, Following, Place
  <2> QED BY ONLY <1>4, <1>5, <1>10, <1>11, <1>28, <2>1, <2>2 DEF TranslationOK
<1>32. PICK u : u = [v EXCEPT !.next = @ + 1, !.target = L + 1] OBVIOUS
<1>33. /\ u \in VisitorType /\ u.block = v.block /\ u.next = v.next + 1
       /\ u.target = L + 1 /\ u.dest = v.dest
  <2>1. /\ v.next \in Nat /\ v.block \in Nat /\ v.dest \in Nat
        /\ v.value \in Nat \X Nat
    BY <1>4 DEF VisitorType
  <2>2. u = [block |-> v.block, next |-> v.next + 1, target |-> L + 1, dest |-> v.dest,
             value |-> v.value]
    BY ONLY <1>4, <1>32 DEF VisitorType
  <2> QED BY ONLY SMTT(60), <1>15, <2>1, <2>2 DEF VisitorType
<1>34. /\ w \in VisitorType /\ w.block = pad /\ w.next = 1 /\ w.target = L + 2
       /\ w.dest = ins.dest /\ w.value = at
  <2>1. ins.dest \in Nat /\ pad \in Nat BY <1>12, PlacesLemma DEF Instruction
  <2>2. b \in Nat BY <1>4, <1>15
  <2>3. at \in Nat \X Nat BY <1>8, <1>15, <2>2 DEF NewPlace, Place
  <2> QED BY <1>9, <1>15, <2>1, <2>3 DEF Visitor, VisitorType
<1>35. /\ visitors' \in Seq(VisitorType) /\ Len(visitors') = 2
       /\ visitors'[1] = u /\ visitors'[2] = w
  <2>1. visitors \in Seq(VisitorType) BY DEF CompilerTypeOK
  <2>2. PICK s : s = Append(Front(visitors), u) OBVIOUS
  <2>3. s = Advanced(L + 1) BY <1>4, <1>32, <2>2 DEF Advanced
  <2>4. s \in Seq(VisitorType) /\ Len(s) = 1 /\ s[1] = u
    BY <1>13, <1>33, <2>1, <2>2, StackLemma
  <2>5. s \in Seq(VisitorType) /\ w \in VisitorType BY <1>34, <2>4
  <2>6. /\ Append(s, w) \in Seq(VisitorType) /\ Len(Append(s, w)) = Len(s) + 1
        /\ \A i \in 1..Len(s) : Append(s, w)[i] = s[i]
        /\ Append(s, w)[Len(s) + 1] = w
    BY ONLY <2>5, AppendProperties
  <2>7. visitors' = Append(s, w) BY <1>10, <2>3
  <2> QED BY ONLY <2>4, <2>6, <2>7
<1>36. VisitorOK(new, u)'
  <2>1. Len(blocks[v.block]) \in Nat BY <1>4, PlacesLemma
  <2>0. PICK e : e = Len(blocks[v.block]) OBVIOUS
  <2>7. e \in Nat /\ v.next \in 1..e /\ v.next # e /\ u.next = v.next + 1
    BY <1>4, <1>12, <1>33, <2>0, <2>1
  <2>8. u.next \in 1..e + 1 /\ u.next # e + 1 BY ONLY <2>7
  <2>2. u.next \in 1..Len(blocks[v.block]) + 1 /\ u.next # Len(blocks[v.block]) + 1
    BY ONLY <2>0, <2>8
  <2>3. L + 1 \in 1..Len(native') BY ONLY <1>Numbers
  <2>4. ~ Closed(L + 1)' BY <1>17 DEF Closed
  <2>5. Place(u.block, u.next) = PlaceIn(new, L + 1, Len(native'[L + 1]) + 1)
    <3>1. new[L + 1][2] + (Len(native'[L + 1]) + 1) - 1 = u.next
      BY ONLY <1>15, <1>17, <1>18, <1>24, <1>33
    <3> QED BY <1>24, <1>33, <3>1 DEF PlaceIn
  <2>6. blocks' = blocks BY <1>1 DEF codeVars
  <2> QED BY ONLY <1>4, <1>33, <2>2, <2>3, <2>4, <2>5, <2>6
          DEF VisitorOK, PlaceIn, Place, Closed
<1>37. OuterOK(new, u)'
  <2>0. /\ starts[b][2] \in Nat /\ Len(native[b]) \in Nat /\ v.next \in Nat
        /\ starts[b][2] + Len(native[b]) = v.next /\ u.next = v.next + 1
    BY <1>4, <1>15, <1>33
  <2>1. starts[b][2] + Len(native[b]) + 1 <= u.next /\ v.next <= u.next
    BY ONLY <2>0
  <2>2. v.block \notin ToSet(queue') BY <1>10, <1>14 DEF OuterOK
  <2>3. pad # v.block BY <1>12
  <2>4. \A n \in Len(native) + 1 .. Len(native') : new[n][1] = v.block =>
            new[n][2] + Len(native'[n]) <= u.next /\ new[n][2] <= u.next
    <3> SUFFICES ASSUME NEW n \in Len(native) + 1 .. Len(native'), new[n][1] = v.block
                 PROVE  new[n][2] + Len(native'[n]) <= u.next /\ new[n][2] <= u.next
      OBVIOUS
    <3>1. n = L + 1 BY <1>19, <1>24, <2>3
    <3>2. /\ Len(native'[n]) = 0 /\ new[n][2] = v.next + 1 /\ u.next = v.next + 1
          /\ v.next \in Nat
      BY <3>1, <1>18, <1>24, <1>33, <2>0
    <3> QED BY ONLY <3>2
  <2>5. StartsOK(starts) BY DEF CodeOK
  <2> QED BY <1>1, <1>4, <1>14, <1>20, <1>23, <1>33, <2>1, <2>2, <2>4, <2>5, OuterKept
<1>38. VisitorOK(new, w)'
  <2>1. Len(blocks[pad]) \in Nat \ {0} BY <1>12, PlacesLemma
  <2>2. 1 \in 1..Len(blocks[pad]) + 1 /\ 1 # Len(blocks[pad]) + 1 BY <2>1
  <2>3. L + 2 \in 1..Len(native') BY ONLY <1>Numbers
  <2>4. ~ Closed(L + 2)'
    <3>1. ~ EndsBlock(y) BY <1>11 DEF EndsBlock
    <3>2. native'[L + 2][Len(native'[L + 2])] = y BY ONLY <1>17, <1>18
    <3> QED BY <3>1, <3>2 DEF Closed
  <2>5. Place(pad, 1) = PlaceIn(new, L + 2, Len(native'[L + 2]) + 1)
    <3>1. new[L + 2][2] + (Len(native'[L + 2]) + 1) - 1 = 1
      BY ONLY <1>17, <1>18, <1>24
    <3> QED BY <1>24, <3>1 DEF PlaceIn
  <2>6. blocks' = blocks BY <1>1 DEF codeVars
  <2> QED BY ONLY <1>12, <1>34, <2>2, <2>3, <2>4, <2>5, <2>6
          DEF VisitorOK, PlaceIn, Place, Closed
<1>39. Place(u.block, u.next - 1) = p
  <2>1. u.next - 1 = v.next BY ONLY <1>15, <1>33
  <2> QED BY ONLY <1>4, <1>33, <2>1
<1>40. InnerOK(u, w)'
  <2>1. u.next > 1 BY <1>4, <1>15, <1>33
  <2>2. native'[L + 2][1].source = p BY ONLY <1>11, <1>17, <1>18
  <2> QED BY ONLY <1>5, <1>10, <1>27, <1>28, <1>34, <1>39, <2>1, <2>2 DEF InnerOK, Place
<1>41. TempsOK(p)'
  <2>1. \A q : MadeFrom(q) \subseteq MadeFrom(q)' BY <1>8, <1>20, GrownMade
  <2> QED BY <1>1, <1>10, <1>13, <2>1, TempsKept
<1>42. VisitorsOK(new)'
  <2>1. TempsOK(Place(u.block, u.next - 1))' BY <1>39, <1>41
  <2>2. TwoVisitors(new, u, w)'
    BY <1>36, <1>37, <1>38, <1>40, <2>1 DEF TwoVisitors
  <2>3. TwoVisitors(new, visitors[1], visitors[2])' BY <1>35, <2>2
  <2> QED BY <1>35, <2>3 DEF VisitorsOK
<1>43. QueueOK(new)'
  <2>1. \A n \in 1..Len(native) : n # b /\ IsTarget(n) => IsTarget(n)'
    BY <1>3, <1>13 DEF IsTarget
  <2>2. EndsBlock(x) BY <1>30 DEF EndsBlock
  <2>3. \A n \in Len(native) + 1 .. Len(native') : IsTarget(n)'
    BY <1>19, <1>33, <1>34, <1>35 DEF IsTarget
  <2> QED BY <1>1, <1>2, <1>3, <1>20, <1>23, <1>26, <1>29, <2>1, <2>2, <2>3, QueueKept
<1>44. MapOK(new)' BY <1>23, <1>26, MapKept DEF CodeOK
<1>45. StartsOK(new)'
  BY <1>1, <1>2, <1>3, <1>20, <1>23, <1>26, <1>29, NewStarts DEF CodeOK, NowMapped
<1>46. NativeOK(new)'
  BY <1>1, <1>2, <1>3, <1>20, <1>23, <1>29, <1>31, NewNative DEF CodeOK
<1>47. CompilerTypeOK'
  <2>1. blocks' = blocks /\ tempCount' = tempCount BY <1>1 DEF codeVars
  <2>2. /\ blockMap \in [DOMAIN blockMap -> 1..Len(native)]
        /\ DOMAIN blockMap \subseteq 1..Len(blocks) /\ queue \in Seq(Nat)
        /\ temps \in [1..tempCount -> Nat \X Nat]
    BY DEF CompilerTypeOK
  <2>3. \A n \in 1..Len(native) : n \in 1..Len(native') BY <1>3, <1>15, <1>17
  <2>4. blockMap \in [DOMAIN blockMap -> 1..Len(native')] BY <2>2, <2>3
  <2> QED BY <1>10, <1>17, <1>35, <2>1, <2>2, <2>4 DEF CompilerTypeOK
<1>48. CodeOK(new)' BY <1>42, <1>43, <1>44, <1>45, <1>46 DEF CodeOK
<1> QED BY <1>22, <1>47, <1>48

(* The steps that add no instruction. *)
LEMMA SameNative ==
  ASSUME UNCHANGED codeVars, native' = native, blockMap' = blockMap,
         NEW starts \in Seq(Nat \X Nat)
  PROVE  /\ \A p : MadeFrom(p)' = MadeFrom(p)
         /\ \A q : NativeAt(q)' = NativeAt(q)
         /\ \A n : Closed(n)' <=> Closed(n)
         /\ StartsOK(starts) => StartsOK(starts)'
         /\ MapOK(starts) => MapOK(starts)'
         /\ NativeOK(starts) => NativeOK(starts)'
         /\ \A v : VisitorOK(starts, v) => VisitorOK(starts, v)'
         /\ \A v, w : InnerOK(v, w) => InnerOK(v, w)'
         /\ \A p : temps' = temps /\ TempsOK(p) => TempsOK(p)'
<1>1. blocks' = blocks /\ tempCount' = tempCount BY DEF codeVars
<1>2. /\ CodePlaces' = CodePlaces /\ \A p : CodeAt(p)' = CodeAt(p)
      /\ \A b : IsPad(b)' <=> IsPad(b)
      /\ \A p, t, j : LastWrite(p, t, j)' <=> LastWrite(p, t, j)
  BY SameCode
<1>3. NativePlaces' = NativePlaces /\ \A q : NativeAt(q)' = NativeAt(q)
  BY DEF NativePlaces, NativeAt
<1>4. \A p : MadeFrom(p)' = MadeFrom(p) BY <1>3 DEF MadeFrom
<1>5. \A n : Closed(n)' <=> Closed(n) BY DEF Closed
<1>6. StartsOK(starts) => StartsOK(starts)' BY <1>1, <1>2 DEF StartsOK
<1>7. MapOK(starts) => MapOK(starts)' BY DEF MapOK
<1>8. \A n, p : Origin(n, p)' = Origin(n, p) BY DEF Origin
<1>9. \A x, p, o : OperandsOK(x, p, o) => OperandsOK(x, p, o)'
  BY <1>2, <1>4 DEF OperandsOK
<1>10. \A x, p : GoesOn(starts, x, p) => GoesOn(starts, x, p)'
  BY <1>2 DEF GoesOn
<1>11. \A x, p : Jumps(starts, x, p) => Jumps(starts, x, p)' BY <1>2 DEF Jumps
<1>12. \A n, x : PadOK(starts, n, x) => PadOK(starts, n, x)'
  BY <1>2, <1>3, <1>4 DEF PadOK
<1>13. \A n, x, p : TranslationOK(starts, n, x, p) => TranslationOK(starts, n, x, p)'
  <2> SUFFICES ASSUME NEW n, NEW x, NEW p, TranslationOK(starts, n, x, p)
               PROVE  TranslationOK(starts, n, x, p)'
    OBVIOUS
  <2>1. PICK o : o = Origin(n, p) OBVIOUS
  <2>2. OperandsOK(x, p, o)' /\ o = Origin(n, p)'
    BY <1>8, <1>9, <2>1 DEF TranslationOK
  <2>3. OperandsOK(x, p, Origin(n, p))' BY <2>2
  <2> QED BY <1>2, <1>10, <1>11, <2>3 DEF TranslationOK
<1>14. NativeOK(starts) => NativeOK(starts)'
  <2> SUFFICES ASSUME NativeOK(starts), NEW n \in 1..Len(native),
                      NEW k \in 1..Len(native[n])
               PROVE  InstructionOK(starts, n, k)'
    BY DEF NativeOK
  <2>1. PICK x, p : x = native[n][k] /\ p = PlaceIn(starts, n, k) OBVIOUS
  <2>2. InstructionOK(starts, n, k) BY DEF NativeOK
  <2> QED BY <1>12, <1>13, <2>1, <2>2 DEF InstructionOK, PlaceIn
<1>15. \A v : VisitorOK(starts, v) => VisitorOK(starts, v)'
  BY <1>1, <1>5 DEF VisitorOK
<1>16. \A v, w : InnerOK(v, w) => InnerOK(v, w)'
  <2> SUFFICES ASSUME NEW v, NEW w, InnerOK(v, w) PROVE InnerOK(v, w)' OBVIOUS
  <2>1. PICK s : s = Place(v.block, v.next - 1) OBVIOUS
  <2> QED BY <1>2, <1>4, <2>1 DEF InnerOK
<1>17. \A p : temps' = temps /\ TempsOK(p) => TempsOK(p)'
  BY <1>1, <1>2, <1>4 DEF TempsOK
<1> QED BY <1>3, <1>4, <1>5, <1>6, <1>7, <1>14, <1>15, <1>16, <1>17

LEMMA EndVisitorOK ==
  ASSUME Compilable, CompilerTypeOK, NEW starts \in Seq(Nat \X Nat), CodeOK(starts),
         EndVisitor
  PROVE  CompilerTypeOK' /\ CodeOK(starts)'
<1>1. /\ visitors # <<>> /\ UNCHANGED codeVars
      /\ native' = native /\ blockMap' = blockMap /\ queue' = queue
      /\ visitors' = Front(visitors)
  BY DEF EndVisitor, Active
<1>2. visitors \in Seq(VisitorType) BY DEF CompilerTypeOK
<1>3. PICK vs : vs = Front(visitors) OBVIOUS
<1>4. /\ vs \in Seq(VisitorType) /\ Len(vs) = Len(visitors) - 1
      /\ \A i \in 1..Len(visitors) - 1 : vs[i] = visitors[i]
      /\ Len(visitors) \in Nat \ {0}
  BY <1>1, <1>2, <1>3, FrontLemma
<1>5. PICK w : w = Top OBVIOUS
<1>6. w = visitors[Len(visitors)] /\ temps' = Bind(w.dest, w.value)
      /\ w.next > Len(blocks[w.block])
  BY <1>5 DEF Top, Last, EndVisitor
<1>7. StartsOK(starts)' /\ MapOK(starts)' /\ NativeOK(starts)'
  BY <1>1, SameNative DEF CodeOK
<1>8. \A s \in Seq(VisitorType) : Len(s) = 0 => s = <<>> BY EmptySeq
<1>9. blocks' = blocks /\ tempCount' = tempCount BY <1>1 DEF codeVars
<1>10. ASSUME NEW v, VisitorOK(starts, v), v.next > Len(blocks[v.block])
       PROVE  Closed(v.target)
  <2>1. /\ v.next \in 1..Len(blocks[v.block]) + 1
        /\ v.next = Len(blocks[v.block]) + 1 <=> Closed(v.target)
        /\ v.block \in 1..Len(blocks)
    BY <1>10 DEF VisitorOK
  <2>2. Len(blocks[v.block]) \in Nat BY <2>1, PlacesLemma
  <2>3. PICK e : e = Len(blocks[v.block]) OBVIOUS
  <2>4. e \in Nat /\ v.next \in 1..e + 1 /\ v.next > e BY <1>10, <2>1, <2>2, <2>3
  <2>5. v.next = e + 1 BY ONLY <2>4
  <2> QED BY <2>1, <2>3, <2>5
<1>11. ASSUME Closed(w.target), \A n : IsTarget(n) => IsTarget(n)' \/ n = w.target
       PROVE  QueueOK(starts)'
  <2>1. QueueOK(starts) BY DEF CodeOK
  <2>2. \A n : Waits(n) => Waits(n)' BY <1>1 DEF Waits
  <2>3. \A n : Closed(n)' <=> Closed(n) BY <1>1, SameNative
  <2>4. \A n \in 1..Len(native) : (Closed(n) \/ IsTarget(n) \/ Waits(n))'
    BY <1>11, <2>1, <2>2, <2>3 DEF QueueOK
  <2> QED BY <1>1, <2>1, <2>4 DEF QueueOK
<1>12. CASE Len(visitors) = 1
  <2>1. w = visitors[1] /\ OneVisitor(starts, w)
    BY <1>6, <1>12, <1>1 DEF CodeOK, VisitorsOK
  <2>2. w.dest = NoTemp /\ VisitorOK(starts, w) BY <2>1 DEF OneVisitor, OuterOK
  <2>3. temps' = temps BY <1>6, <2>2 DEF Bind
  <2>4. vs = <<>> BY <1>4, <1>8, <1>12
  <2>5. visitors' = <<>> BY <1>1, <1>3, <2>4
  <2>6. Closed(w.target) BY <1>6, <1>10, <2>2
  <2>7. \A n : IsTarget(n) => n = w.target BY <1>12, <2>1 DEF IsTarget
  <2>8. QueueOK(starts)' BY <1>11, <2>6, <2>7
  <2>9. VisitorsOK(starts)' BY <2>5 DEF VisitorsOK
  <2>10. CompilerTypeOK' BY <1>1, <1>3, <1>4, <1>9, <2>3 DEF CompilerTypeOK
  <2> QED BY <1>7, <2>8, <2>9, <2>10 DEF CodeOK
<1>13. CASE Len(visitors) = 2
  <2>0. PICK v : v = visitors[1] OBVIOUS
  <2>1. w = visitors[2] /\ TwoVisitors(starts, v, w)
    BY <1>6, <1>13, <1>1, <2>0 DEF CodeOK, VisitorsOK
  <2>2. v \in VisitorType /\ w \in VisitorType
    <3>1. 1 \in 1..Len(visitors) /\ 2 \in 1..Len(visitors) BY <1>13
    <3>2. visitors[1] \in VisitorType /\ visitors[2] \in VisitorType
      BY <1>2, <3>1, ElementOfSeq
    <3> QED BY <2>0, <2>1, <3>2
  <2>3. PICK p : p = Place(v.block, v.next - 1) OBVIOUS
  <2>4. /\ VisitorOK(starts, v) /\ OuterOK(starts, v) /\ VisitorOK(starts, w)
        /\ InnerOK(v, w) /\ TempsOK(p)
    BY <2>1, <2>3 DEF TwoVisitors
  <2>5. /\ v.next > 1 /\ w.dest = CodeAt(p).dest /\ w.value \in MadeFrom(p)
    BY <2>3, <2>4 DEF InnerOK
  <2>6. /\ v.next - 1 \in 1..Len(blocks[v.block]) /\ v.block \in 1..Len(blocks)
        /\ v.next \in Nat
    <3>1. v.next \in Nat BY <2>2 DEF VisitorType
    <3>2. v.next \in 1..Len(blocks[v.block]) + 1 /\ v.block \in 1..Len(blocks)
      BY <2>4 DEF VisitorOK
    <3>3. Len(blocks[v.block]) \in Nat BY <3>2, PlacesLemma
    <3>4. PICK e, n : e = Len(blocks[v.block]) /\ n = v.next OBVIOUS
    <3>5. n \in Nat /\ e \in Nat /\ n > 1 /\ n \in 1..e + 1
      BY <2>5, <3>1, <3>2, <3>3, <3>4
    <3>6. n - 1 \in 1..e BY ONLY <3>5
    <3> QED BY <3>1, <3>2, <3>4, <3>6
  <2>7. p \in CodePlaces BY <2>3, <2>6, CodeLemma
  <2>8. Following(p) = Place(v.block, v.next)
    <3>1. p[1] = v.block /\ p[2] = v.next - 1 BY <2>3 DEF Place
    <3>2. p[2] + 1 = v.next BY <2>6, <3>1
    <3> QED BY <3>1, <3>2 DEF Following
  <2>9. \A q : MadeFrom(q) \subseteq MadeFrom(q)' BY <1>1, SameNative
  <2>10. w.value \in MadeFrom(p)' BY <2>5, <2>9
  <2>11. temps' = Bind(CodeAt(p).dest, w.value) BY <1>6, <2>5
  <2>12. TempsOK(Following(p))' BY <1>1, <2>4, <2>7, <2>9, <2>10, <2>11, TempsBound
  <2>13. VisitorOK(starts, v)' BY <1>1, <2>4, SameNative
  <2>14. OuterOK(starts, v)'
    <3>1. \A b : IsPad(b)' <=> IsPad(b) BY <1>1, SameCode
    <3> QED BY <1>1, <2>4, <3>1 DEF OuterOK
  <2>15. OneVisitor(starts, v)'
    <3>1. TempsOK(Place(v.block, v.next))' BY <2>8, <2>12
    <3> QED BY <2>13, <2>14, <3>1 DEF OneVisitor
  <2>16. Len(vs) = 1 /\ vs[1] = v BY <1>4, <1>13, <2>0
  <2>17. visitors' = vs BY <1>1, <1>3
  <2>18. Len(visitors') = 1 /\ visitors'[1] = v BY ONLY <2>16, <2>17
  <2>19. VisitorsOK(starts)'
    <3>1. OneVisitor(starts, visitors[1])' BY <2>15, <2>18
    <3> QED BY <2>18, <3>1 DEF VisitorsOK
  <2>20. QueueOK(starts)'
    <3>1. Closed(w.target) BY <1>6, <1>10, <2>4
    <3>2. ASSUME NEW n, IsTarget(n) PROVE IsTarget(n)' \/ n = w.target
      <4>1. PICK i \in 1..Len(visitors) : visitors[i].target = n BY <3>2 DEF IsTarget
      <4>2. i = 1 \/ i = 2 BY <1>13, <4>1
      <4>3. CASE i = 1
        <5>1. visitors'[1].target = n /\ 1 \in 1..Len(visitors')
          BY <2>0, <2>18, <4>1, <4>3
        <5> QED BY <5>1 DEF IsTarget
      <4>4. CASE i = 2 BY <2>1, <4>1, <4>4
      <4> QED BY <4>2, <4>3, <4>4
    <3> QED BY <1>11, <3>1, <3>2
  <2>21. temps' \in [1..tempCount -> Nat \X Nat]
    <3>1. temps \in [1..tempCount -> Nat \X Nat] BY DEF CompilerTypeOK
    <3>2. w.value \in Nat \X Nat BY <2>2 DEF VisitorType
    <3> QED BY <1>6, <3>1, <3>2 DEF Bind
  <2>22. CompilerTypeOK' BY <1>1, <1>4, <1>9, <2>17, <2>21 DEF CompilerTypeOK
  <2> QED BY <1>7, <2>19, <2>20, <2>22 DEF CodeOK
<1>14. Len(visitors) = 1 \/ Len(visitors) = 2 BY <1>1 DEF CodeOK, VisitorsOK
<1> QED BY <1>12, <1>13, <1>14

LEMMA TakeBlockOK ==
  ASSUME Compilable, CompilerTypeOK, NEW starts \in Seq(Nat \X Nat), CodeOK(starts),
         TakeBlock
  PROVE  CompilerTypeOK' /\ CodeOK(starts)'
<1>1. /\ visitors = <<>> /\ queue # <<>> /\ UNCHANGED codeVars
      /\ native' = native /\ blockMap' = blockMap /\ temps' = temps
      /\ queue' = Front(queue)
  BY DEF TakeBlock
<1>2. PICK c, b : c = Last(queue) /\ b = blockMap[c] OBVIOUS
<1>3. PICK v : v = Visitor(c, b, NoTemp, NoValue) OBVIOUS
<1>4. visitors' = <<v>> BY <1>2, <1>3 DEF TakeBlock
<1>5. PICK q : q = Front(queue) OBVIOUS
<1>6. queue \in Seq(Nat) /\ IsInjective(queue) BY DEF CompilerTypeOK, CodeOK, QueueOK
<1>7. /\ q \in Seq(Nat) /\ IsInjective(q) /\ ToSet(q) = ToSet(queue) \ {c}
  BY <1>1, <1>2, <1>5, <1>6, FrontLemma, FrontInjective
<1>8. c \in ToSet(queue)
  <2>1. Len(queue) \in Nat \ {0} BY <1>1, <1>6, FrontLemma
  <2>2. ToSet(queue) = {queue[i] : i \in 1..Len(queue)} BY <1>6, ToSetLemma
  <2>3. Len(queue) \in 1..Len(queue) BY <2>1
  <2> QED BY <1>2, <2>2, <2>3 DEF Last
<1>9. /\ c \in DOMAIN blockMap /\ native[b] = <<>>
      /\ \A n \in 1..Len(starts) : starts[n][1] = c => n = b
      /\ b \in 1..Len(native) /\ c \in 1..Len(blocks) /\ starts[b] = Place(c, 1)
  BY <1>2, <1>8 DEF CodeOK, QueueOK, MapOK, CompilerTypeOK
<1>10. /\ v.block = c /\ v.next = 1 /\ v.target = b /\ v.dest = NoTemp
       /\ v \in VisitorType
  <2>1. c \in Nat /\ b \in Nat BY <1>9, PlacesLemma
  <2>2. NoTemp \in Nat /\ NoValue \in Nat \X Nat BY DEF NoTemp, NoValue
  <2> QED BY <1>3, <2>1, <2>2 DEF Visitor, VisitorType
<1>11. starts[b][1] = c /\ starts[b][2] = 1 BY <1>9 DEF Place
<1>12. ~ Closed(b) BY <1>9 DEF Closed
<1>13. Len(native[b]) = 0 BY <1>9, NativeLemma
<1>14. VisitorOK(starts, v)
  <2>1. Len(blocks[c]) \in Nat \ {0} BY <1>9, PlacesLemma
  <2>2. 1 \in 1..Len(blocks[c]) + 1 /\ 1 # Len(blocks[c]) + 1 BY <2>1
  <2>3. PlaceIn(starts, b, Len(native[b]) + 1) = Place(c, 1)
    <3>1. starts[b][2] + (Len(native[b]) + 1) - 1 = 1 BY <1>11, <1>13
    <3> QED BY <1>11, <3>1 DEF PlaceIn
  <2> QED BY <1>9, <1>10, <1>12, <2>2, <2>3 DEF VisitorOK
<1>15. OuterOK(starts, v)'
  <2>1. ~ IsPad(c) BY <1>9, <1>11, StartsLemma DEF CodeOK
  <2>2. \A e : IsPad(e)' <=> IsPad(e) BY <1>1, SameCode
  <2>3. c \notin ToSet(queue') BY <1>1, <1>5, <1>7
  <2>4. \A n \in 1..Len(starts) : starts[n][1] = c =>
            starts[n][2] + Len(native[n]) <= 1 /\ starts[n][2] <= 1
    <3>1. starts[b][2] + Len(native[b]) <= 1 /\ starts[b][2] <= 1
      BY <1>11, <1>13
    <3> QED BY <1>9, <3>1
  <2> QED BY <1>1, <1>10, <2>1, <2>2, <2>3, <2>4 DEF OuterOK
<1>16. VisitorsOK(starts)'
  <2>1. VisitorOK(starts, v)' BY <1>1, <1>14, SameNative
  <2>2. TempsOK(Place(c, 1)) BY NoWrite DEF TempsOK
  <2>3. TempsOK(Place(v.block, v.next))' BY <1>1, <1>10, <2>2, SameNative
  <2>4. OneVisitor(starts, v)' BY <1>15, <2>1, <2>3 DEF OneVisitor
  <2>5. Len(visitors') = 1 /\ visitors'[1] = v BY <1>4
  <2>6. OneVisitor(starts, visitors[1])' BY <2>4, <2>5
  <2> QED BY <2>5, <2>6 DEF VisitorsOK
<1>17. QueueOK(starts)'
  <2>1. QueueOK(starts) BY DEF CodeOK
  <2>2. \A n : ~ IsTarget(n) BY <1>1 DEF IsTarget
  <2>3. IsTarget(b)' BY <1>4, <1>10 DEF IsTarget
  <2>4. \A n : Waits(n) => Waits(n)' \/ n = b BY <1>1, <1>2, <1>5, <1>7 DEF Waits
  <2>5. \A n : Closed(n)' <=> Closed(n) BY <1>1, SameNative
  <2>6. \A n \in 1..Len(native) : (Closed(n) \/ IsTarget(n) \/ Waits(n))'
    BY <2>1, <2>2, <2>3, <2>4, <2>5 DEF QueueOK
  <2>7. IsInjective(queue') /\ ToSet(queue') \subseteq ToSet(queue)
    BY <1>1, <1>5, <1>7
  <2> QED BY <1>1, <2>1, <2>6, <2>7 DEF QueueOK
<1>18. StartsOK(starts)' /\ MapOK(starts)' /\ NativeOK(starts)'
  BY <1>1, SameNative DEF CodeOK
<1>19. CompilerTypeOK'
  <2>1. visitors' \in Seq(VisitorType) BY <1>4, <1>10
  <2>2. blocks' = blocks /\ tempCount' = tempCount BY <1>1 DEF codeVars
  <2>3. queue' \in Seq(Nat) BY <1>1, <1>5, <1>7
  <2> QED BY <1>1, <2>1, <2>2, <2>3 DEF CompilerTypeOK
<1> QED BY <1>16, <1>17, <1>18, <1>19 DEF CodeOK

-----------------------------------------------------------------------------
(* The beginning of the translation, and of the execution. *)

LEMMA ConstructOK ==
  ASSUME Compilable, Construct, visitors = <<>>
  PROVE  CompilerTypeOK' /\ \E starts \in Seq(Nat \X Nat) : CodeOK(starts)'
<1>1. /\ UNCHANGED codeVars /\ visitors' = <<>>
      /\ native' = << <<>> >> /\ blockMap' = <<1>> /\ queue' = <<1>>
      /\ temps' = [t \in 1..tempCount |-> NoValue]
  BY DEF Construct
<1>2. blocks' = blocks /\ tempCount' = tempCount BY <1>1 DEF codeVars
<1>3. 1 \in 1..Len(blocks) /\ ~ IsPad(1)' /\ ~ IsPad(1)
  BY <1>1, PlacesLemma, SameCode DEF Compilable
<1>4. PICK starts : starts = <<Place(1, 1)>> OBVIOUS
<1>5. /\ starts \in Seq(Nat \X Nat) /\ Len(starts) = 1 /\ starts[1] = Place(1, 1)
      /\ starts[1][1] = 1 /\ starts[1][2] = 1
  BY <1>4 DEF Place
<1>6. /\ native' \in Seq(Seq(NativeType)) /\ Len(native') = 1 /\ native'[1] = <<>>
      /\ Len(native'[1]) = 0
  <2>1. <<>> \in Seq(NativeType) OBVIOUS
  <2> QED BY <1>1, <2>1
<1>7. \A i : i \in 1..1 <=> i = 1 OBVIOUS
<1>8. DOMAIN blockMap' = {1} /\ blockMap'[1] = 1
  <2>1. DOMAIN <<1>> = 1..1 /\ <<1>>[1] = 1 OBVIOUS
  <2> QED BY <1>1, <1>7, <2>1
<1>9. ToSet(queue') = {1} /\ IsInjective(queue') /\ queue' \in Seq(Nat)
  <2>1. <<1>> \in Seq(Nat) OBVIOUS
  <2> QED BY <1>1, <2>1, SingletonLemma
<1>10. StartsOK(starts)'
  <2>1. \A n \in 1..Len(starts) : n = 1 BY <1>5, <1>7
  <2>2. \A k : k \notin 1..Len(native'[1]) BY <1>6
  <2> QED BY ONLY <1>2, <1>3, <1>5, <1>6, <1>8, <2>1, <2>2 DEF StartsOK
<1>11. MapOK(starts)' BY <1>5, <1>8 DEF MapOK
<1>12. NativeOK(starts)'
  <2>1. \A n \in 1..Len(native') : \A k : k \notin 1..Len(native'[n])
    BY <1>6, <1>7
  <2> QED BY <2>1 DEF NativeOK
<1>13. QueueOK(starts)'
  <2>1. Waits(1)' BY <1>8, <1>9 DEF Waits
  <2> QED BY <1>5, <1>6, <1>7, <1>8, <1>9, <2>1 DEF QueueOK
<1>14. VisitorsOK(starts)' BY <1>1 DEF VisitorsOK
<1>15. CompilerTypeOK'
  <2>1. temps' \in [1..tempCount -> Nat \X Nat] BY <1>1 DEF NoValue
  <2>2. blockMap' \in [DOMAIN blockMap' -> 1..Len(native')]
    <3>1. blockMap' \in [1..1 -> 1..1] BY <1>1
    <3> QED BY <1>6, <1>7, <1>8, <3>1
  <2>3. visitors' \in Seq(VisitorType) BY <1>1
  <2> QED BY <1>2, <1>3, <1>6, <1>8, <1>9, <2>1, <2>2, <2>3 DEF CompilerTypeOK
<1> QED BY <1>5, <1>10, <1>11, <1>12, <1>13, <1>14, <1>15 DEF CodeOK

(* When nothing is left to compile, every native block is finished. *)
LEMMA AllClosed ==
  ASSUME CompilerTypeOK, NEW starts \in Seq(Nat \X Nat), CodeOK(starts),
         queue = <<>>, visitors = <<>>
  PROVE  \A n \in 1..Len(native) : Closed(n) /\ native[n] # <<>> /\ 1 \in 1..Len(native[n])
<1>1. ToSet(queue) = {} BY EmptyLemma
<1>2. \A n : ~ Waits(n) BY <1>1 DEF Waits
<1>3. \A n : ~ IsTarget(n) BY DEF IsTarget
<1>4. \A n \in 1..Len(native) : Closed(n) BY <1>2, <1>3 DEF CodeOK, QueueOK
<1>5. \A n \in 1..Len(native) : native[n] # <<>> BY <1>4 DEF Closed
<1>6. \A n \in 1..Len(native) : 1 \in 1..Len(native[n]) BY <1>5, NativeLemma
<1> QED BY <1>4, <1>5, <1>6

(* What a native instruction that is not the first of a landing pad does,  *)
(* and where it gets its operands from. *)
LEMMA Translated ==
  ASSUME Compilable, CompilerTypeOK, NEW starts \in Seq(Nat \X Nat), CodeOK(starts),
         NEW n \in 1..Len(native), NEW k \in 1..Len(native[n]),
         NEW x, x = native[n][k], x.op # "LandingPad"
  PROVE  /\ TranslationOK(starts, n, x, x.source) /\ x.source = PlaceIn(starts, n, k)
         /\ x.source \in CodePlaces /\ x.op = CodeAt(x.source).op
         /\ Closed(n) => (k < Len(native[n]) <=> ~ EndsBlock(x))
         /\ ~ (k = 1 /\ starts[n][2] = 0)
<1>1. InstructionOK(starts, n, k) BY DEF CodeOK, NativeOK
<1>2. ~ (k = 1 /\ starts[n][2] = 0) BY <1>1 DEF InstructionOK, PadOK
<1>3. TranslationOK(starts, n, x, PlaceIn(starts, n, k)) BY <1>1, <1>2 DEF InstructionOK
<1>4. PICK p : p = PlaceIn(starts, n, k) OBVIOUS
<1>5. x.source = p /\ p \in CodePlaces /\ x.op = CodeAt(p).op
  BY <1>3, <1>4 DEF TranslationOK
<1>6. TranslationOK(starts, n, x, x.source) BY <1>3, <1>4, <1>5
<1>7. ASSUME Closed(n) PROVE k < Len(native[n]) <=> ~ EndsBlock(x)
  <2>1. Len(native[n]) \in Nat BY NativeLemma
  <2>2. k < Len(native[n]) => ~ EndsBlock(x) BY <1>1 DEF InstructionOK
  <2>3. k = Len(native[n]) => EndsBlock(x) BY <1>7 DEF Closed
  <2> QED BY <2>1, <2>2, <2>3
<1> QED BY <1>2, <1>4, <1>5, <1>6, <1>7

(* The first instruction of a native block that is not a landing pad's, and *)
(* an instruction that follows another. *)
LEMMA Entered ==
  ASSUME Compilable, CompilerTypeOK, NEW starts \in Seq(Nat \X Nat), CodeOK(starts),
         NEW n \in 1..Len(native), starts[n][2] # 0, native[n] # <<>>,
         NEW x, x = native[n][1]
  PROVE  /\ x.op # "LandingPad" /\ x.source = starts[n]
         /\ Origin(n, x.source) = x.source
<1>1. /\ starts[n] = <<starts[n][1], starts[n][2]>> /\ starts[n][2] \in Nat
  BY StartsLemma DEF CodeOK
<1>2. x.op # "LandingPad" BY PadFirst DEF CodeOK
<1>3. 1 \in 1..Len(native[n]) BY NativeLemma
<1>4. x.source = PlaceIn(starts, n, 1) BY SMTT(60), <1>2, <1>3, Translated
<1>5. starts[n][2] + 1 - 1 = starts[n][2] BY <1>1
<1>6. x.source = starts[n] BY <1>1, <1>4, <1>5 DEF PlaceIn, Place
<1> QED BY <1>2, <1>6 DEF Origin

LEMMA Followed ==
  ASSUME Compilable, CompilerTypeOK, NEW starts \in Seq(Nat \X Nat), CodeOK(starts),
         NEW n \in 1..Len(native), NEW k \in 1..Len(native[n]), k < Len(native[n]),
         NEW x, NEW next, next = k + 1, x = native[n][next]
  PROVE  /\ k + 1 \in 1..Len(native[n]) /\ x.op # "LandingPad"
         /\ x.source = Place(starts[n][1], starts[n][2] + k)
         /\ x.source \in CodePlaces
<1>1. Len(native[n]) \in Nat BY NativeLemma
<1>2. k + 1 \in 1..Len(native[n]) /\ k + 1 # 1 BY <1>1
<1>3. InstructionOK(starts, n, k + 1) BY <1>2 DEF CodeOK, NativeOK
<1>4. TranslationOK(starts, n, x, PlaceIn(starts, n, k + 1))
  BY <1>2, <1>3 DEF InstructionOK
<1>5. PICK p : p = PlaceIn(starts, n, k + 1) OBVIOUS
<1>6. p \in CodePlaces /\ x.source = p /\ x.op = CodeAt(p).op
  BY <1>4, <1>5 DEF TranslationOK
<1>7. x.op # "LandingPad"
  <2>1. CodeAt(p) \in Instruction BY <1>6, PlaceLemma
  <2> QED BY <1>6, <2>1 DEF Instruction, Kind
<1>8. starts[n][2] + (k + 1) - 1 = starts[n][2] + k
  <2>1. starts[n][2] \in Nat BY StartsLemma DEF CodeOK
  <2> QED BY <2>1
<1> QED BY <1>2, <1>5, <1>6, <1>7, <1>8 DEF PlaceIn

LEMMA WrittenNext ==
  ASSUME Compilable, machine.place \in CodePlaces, DOMAIN machine.written = 1..tempCount,
         HasWritten(machine.place, machine.written, machine.computed),
         machine.at \in MadeFrom(machine.place),
         NEW computed, computed = machine.computed \cup {machine.at}
  PROVE  HasWritten(Following(machine.place), Written, computed)
<1>1. PICK p, c, n : p = machine.place /\ c = p[1] /\ n = p[2] OBVIOUS
<1>2. /\ p = Place(c, n) /\ Following(p) = Place(c, n + 1) /\ n \in Nat
      /\ Following(p)[1] = c
  BY <1>1, PlaceLemma, PlacesLemma DEF Following, Place
<1>3. PICK ins : ins = blocks[c][n] OBVIOUS
<1>4. Source = ins BY <1>1, <1>3 DEF Source
<1>5. PICK W : W = Written OBVIOUS
<1> SUFFICES ASSUME NEW t \in 1..tempCount, NEW j \in Nat,
                    LastWrite(Following(p), t, j)
             PROVE  W[t] = Place(c, j) /\ computed \cap MadeFrom(Place(c, j)) # {}
  BY <1>1, <1>2, <1>5 DEF HasWritten
<1>6. CASE j = n /\ ins.dest = t
  <2>1. t # NoTemp BY DEF NoTemp
  <2>2. W = [machine.written EXCEPT ![t] = machine.place]
    BY <1>4, <1>5, <1>6, <2>1 DEF Written
  <2>3. W[t] = p BY <1>1, <2>2
  <2>4. machine.at \in computed \cap MadeFrom(p) BY <1>1
  <2> QED BY <1>2, <1>6, <2>3, <2>4
<1>7. CASE ins.dest # t /\ LastWrite(Place(c, n), t, j)
  <2>1. machine.written[t] = Place(c, j) /\ machine.computed \cap MadeFrom(Place(c, j)) # {}
    BY <1>1, <1>2, <1>7 DEF HasWritten
  <2>2. W[t] = machine.written[t] BY <1>4, <1>5, <1>7 DEF Written
  <2> QED BY <2>1, <2>2
<1> QED BY <1>2, <1>3, <1>6, <1>7, LastWriteNext

LEMMA WrittenDomain ==
  ASSUME DOMAIN machine.written = 1..tempCount
  PROVE  DOMAIN Written = 1..tempCount
BY DEF Written

(* A step of the machine. *)
LEMMA Arrives ==
  ASSUME Compilable, CompilerTypeOK,
         UNCHANGED <<codeVars, native, blockMap, queue, temps, visitors>>,
         queue = <<>>, visitors = <<>>,
         NEW n \in 1..Len(native), NEW k \in 1..Len(native[n]),
         NEW x, x = native[n][k],
         NEW place, NEW written, NEW computed, GoTo(Place(n, k), place, written, computed),
         place = IF x.op = "LandingPad" THEN Place(CodeAt(x.source).lpad, 1) ELSE x.source,
         DOMAIN written = 1..tempCount,
         NEW o, o = Origin(n, x.source), HasWritten(o, written, computed)
  PROVE  MachineOK'
<1>1. /\ machine'.at = Place(n, k) /\ machine'.place = place
      /\ machine'.written = written /\ machine'.computed = computed
  BY DEF GoTo
<1>2. machine'.at[1] = n /\ machine'.at[2] = k BY <1>1 DEF Place
<1>3. At' = x BY <1>2 DEF At
<1>4. /\ UNCHANGED codeVars /\ native' = native /\ blockMap' = blockMap
      /\ tempCount' = tempCount
  BY DEF codeVars
<1>5. \A p : CodeAt(p)' = CodeAt(p) BY <1>4, SameCode
<1>6. \A p, t, j : LastWrite(p, t, j)' <=> LastWrite(p, t, j) BY <1>4, SameCode
<1>7. \A p : MadeFrom(p)' = MadeFrom(p)
  <2>1. \E starts \in Seq(Nat \X Nat) : TRUE
    <3>1. <<>> \in Seq(Nat \X Nat) OBVIOUS
    <3> QED BY <3>1
  <2> QED BY <1>4, <2>1, SameNative
<1>8. Origin(machine.at[1], At.source)' = o
  BY <1>2, <1>3, <1>4 DEF Origin
<1>9. machine'.at \in NativePlaces'
  <2>1. Place(n, k) \in NativePlaces BY NativeLemma
  <2> QED BY <1>1, <1>4, <2>1 DEF NativePlaces
<1>10. (machine.place = IF At.op = "LandingPad" THEN Place(CodeAt(At.source).lpad, 1)
                        ELSE At.source)'
  <2>1. CodeAt(At.source)' = CodeAt(x.source) BY <1>3, <1>4 DEF CodeAt, codeVars
  <2> QED BY SMTT(60), <1>1, <1>3, <2>1
<1>11. HasWritten(Origin(machine.at[1], At.source), machine.written, machine.computed)'
  <2>1. HasWritten(o, written, computed)' BY <1>4, <1>6, <1>7 DEF HasWritten
  <2> QED BY <1>1, <1>8, <2>1
<1>12. queue' = <<>> /\ visitors' = <<>> /\ DOMAIN machine'.written = 1..tempCount'
  BY <1>1, <1>4
<1> QED BY <1>9, <1>10, <1>11, <1>12 DEF MachineOK

LEMMA StartOK ==
  ASSUME Compilable, CompilerTypeOK, NEW starts \in Seq(Nat \X Nat), CodeOK(starts),
         Start
  PROVE  MachineOK'
<1>1. /\ queue = <<>> /\ visitors = <<>>
      /\ UNCHANGED <<codeVars, native, blockMap, queue, temps, visitors>>
  BY DEF Start, Compiled
<1>2. PICK W : W = [t \in 1..tempCount |-> NoValue] OBVIOUS
<1>3. GoTo(Place(1, 1), Place(1, 1), W, {})
  BY <1>2 DEF Start, GoTo, Begin, Place
<1>4. starts[1] = Place(1, 1) /\ 1 \in 1..Len(native)
  <2>1. 1 \in DOMAIN blockMap /\ blockMap[1] = 1 BY DEF CodeOK, MapOK
  <2>2. blockMap[1] \in 1..Len(native) BY <2>1 DEF CompilerTypeOK
  <2>3. starts[blockMap[1]] = Place(1, 1) BY <2>1 DEF CodeOK, MapOK
  <2> QED BY <2>1, <2>2, <2>3
<1>5. starts[1][2] # 0 BY <1>4 DEF Place
<1>6. native[1] # <<>> /\ 1 \in 1..Len(native[1]) BY <1>1, <1>4, AllClosed
<1>7. PICK x : x = native[1][1] OBVIOUS
<1>8. /\ x.op # "LandingPad" /\ x.source = Place(1, 1)
      /\ Origin(1, x.source) = Place(1, 1)
  BY <1>4, <1>5, <1>6, <1>7, Entered
<1>9. HasWritten(Place(1, 1), W, {}) BY NoWrite DEF HasWritten
<1>10. DOMAIN W = 1..tempCount BY <1>2
<1>11. PICK o : o = Origin(1, x.source) OBVIOUS
<1>12. HasWritten(o, W, {}) BY <1>8, <1>9, <1>11
<1> QED BY <1>1, <1>3, <1>4, <1>6, <1>7, <1>8, <1>10, <1>11, <1>12, Arrives

LEMMA ExecuteOK ==
  ASSUME Compilable, CompilerTypeOK, NEW starts \in Seq(Nat \X Nat), CodeOK(starts),
         MachineOK, Execute
  PROVE  MachineOK'
<1>1. /\ queue = <<>> /\ visitors = <<>>
      /\ UNCHANGED <<codeVars, native, blockMap, queue, temps, visitors>>
  BY DEF Execute, MachineOK
<1>0. PICK n \in 1..Len(native) : \E k \in 1..Len(native[n]) : machine.at = Place(n, k)
  BY NativeLemma DEF MachineOK
<1>2. PICK k \in 1..Len(native[n]) : machine.at = Place(n, k) BY <1>0
<1>Given. /\ starts \in Seq(Nat \X Nat) /\ n \in 1..Len(native)
          /\ k \in 1..Len(native[n])
  OBVIOUS
<1>3. PICK x : x = native[n][k] OBVIOUS
<1>4. machine.at[1] = n /\ machine.at[2] = k /\ At = x BY <1>2, <1>3 DEF Place, At
<1>5. PICK p, written, computed : /\ p = machine.place /\ written = machine.written
                                  /\ computed = machine.computed
  OBVIOUS
<1>6. /\ p = IF x.op = "LandingPad" THEN Place(CodeAt(x.source).lpad, 1) ELSE x.source
      /\ DOMAIN written = 1..tempCount
      /\ HasWritten(Origin(n, x.source), written, computed)
  BY <1>4, <1>5 DEF MachineOK
<1>7. Source = CodeAt(p) BY <1>5 DEF Source, CodeAt
<1>8. \A m \in 1..Len(native) : /\ Closed(m) /\ native[m] # <<>>
                                /\ 1 \in 1..Len(native[m])
  BY <1>1, AllClosed
<1>9. StartsOK(starts) /\ NativeOK(starts) BY DEF CodeOK
<1>10. /\ native[n][1].op = "LandingPad" <=> starts[n][2] = 0
       /\ starts[n][2] = 0 => CodeAt(native[n][1].source).lpad = starts[n][1]
       /\ starts[n][2] = 0 <=> IsPad(starts[n][1])
       /\ starts[n][2] \in Nat /\ Len(native[n]) \in Nat /\ k \in Nat
  BY SMTT(60), <1>8, <1>9, PadFirst, StartsLemma, NativeLemma
<1>11. ASSUME x.op = "LandingPad" PROVE k = 1 /\ starts[n][2] = 0 /\ k < Len(native[n])
  <2>1. k = 1 /\ starts[n][2] = 0
    <3> SUFFICES ASSUME ~ (k = 1 /\ starts[n][2] = 0) PROVE FALSE OBVIOUS
    <3>1. InstructionOK(starts, n, k) BY <1>9 DEF NativeOK
    <3>2. PICK q : q \in CodePlaces /\ x.op = CodeAt(q).op
      BY <1>3, <3>1 DEF InstructionOK, TranslationOK
    <3>3. CodeAt(q) \in Instruction BY <3>2, PlaceLemma
    <3> QED BY <1>11, <3>2, <3>3 DEF Instruction, Kind
  <2>2. ~ EndsBlock(x)
    <3>1. InstructionOK(starts, n, k) BY <1>9 DEF NativeOK
    <3>2. x.to = <<>> BY <1>3, <2>1, <3>1 DEF InstructionOK, PadOK
    <3> QED BY <1>11, <3>2 DEF EndsBlock
  <2>3. k # Len(native[n]) BY <1>3, <1>8, <2>2 DEF Closed
  <2>4. PICK e : e = Len(native[n]) OBVIOUS
  <2>5. e \in Nat /\ k \in 1..e /\ k # e BY <1>10, <2>3, <2>4
  <2>6. k < e BY ONLY <2>5
  <2> QED BY <2>1, <2>4, <2>6
<1>12. ASSUME x.op # "LandingPad"
       PROVE  /\ p = x.source /\ p \in CodePlaces /\ p = PlaceIn(starts, n, k)
              /\ TranslationOK(starts, n, x, p) /\ x.op = CodeAt(p).op
              /\ k < Len(native[n]) <=> ~ EndsBlock(x)
              /\ p[1] = starts[n][1] /\ p[2] = starts[n][2] + k - 1
              /\ machine.at \in MadeFrom(p)
  <2>1. p = x.source BY <1>6, <1>12
  <2>2. /\ p \in CodePlaces /\ p = PlaceIn(starts, n, k)
        /\ TranslationOK(starts, n, x, p) /\ x.op = CodeAt(p).op
        /\ k < Len(native[n]) <=> ~ EndsBlock(x)
    BY SMTT(60), <1>3, <1>8, <1>12, <2>1, Translated
  <2>3. machine.at \in MadeFrom(p)
    BY <1>2, <1>3, <1>12, <2>1, NativeLemma DEF MadeFrom
  <2> QED BY <2>1, <2>2, <2>3 DEF PlaceIn, Place
<1>13. ASSUME x.op # "LandingPad", starts[n][2] # 0
       PROVE  /\ HasWritten(p, written, computed)
              /\ HasWritten(Following(p), Written, computed \cup {machine.at})
  <2>1. Origin(n, p) = p BY <1>10, <1>13 DEF Origin
  <2>2. HasWritten(p, written, computed) BY <1>6, <1>12, <1>13, <2>1
  <2>3. p \in CodePlaces /\ machine.at \in MadeFrom(p) BY <1>12, <1>13
  <2> QED BY <1>5, <1>6, <2>2, <2>3, WrittenNext
<1>14. ASSUME CodeAt(p).lpad # NoBlock
       PROVE  x.op # "LandingPad" /\ starts[n][2] # 0 /\ GoesOn(starts, x, p)
  <2>1. x.op # "LandingPad"
    <3> SUFFICES ASSUME x.op = "LandingPad" PROVE FALSE OBVIOUS
    <3>1. p = Place(starts[n][1], 1) BY <1>3, <1>6, <1>10, <1>11
    <3>2. starts[n][1] \in 1..Len(blocks) /\ IsPad(starts[n][1])
      BY <1>9, <1>10, <1>11, StartsLemma
    <3>3. 1 \in 1..Len(blocks[starts[n][1]]) BY SMTT(60), <3>2, PlacesLemma
    <3>4. PICK b : b = starts[n][1] OBVIOUS
    <3>5. PICK i : i = 1 OBVIOUS
    <3>6. b \in 1..Len(blocks) /\ IsPad(b) /\ i \in 1..Len(blocks[b]) /\ p = Place(b, i)
      BY <3>1, <3>2, <3>3, <3>4, <3>5
    <3>7. CodeAt(Place(b, i)) = blocks[b][i] /\ blocks[b][i].lpad = NoBlock
      BY ONLY Compilable, <3>6, CodeLemma
    <3> QED BY <1>14, <3>6, <3>7
  <2>2. ~ IsPad(p[1]) BY <1>12, <1>14, <2>1, PlaceLemma
  <2>3. starts[n][2] # 0 BY <1>10, <1>12, <2>1, <2>2
  <2>4. GoesOn(starts, x, p) BY <1>12, <1>14, <2>1 DEF TranslationOK
  <2> QED BY <2>1, <2>3, <2>4
<1>15. ASSUME NEW m \in 1..Len(native), starts[m][2] # 0, NEW w, NEW c,
              GoTo(Place(m, 1), starts[m], w, c), DOMAIN w = 1..tempCount,
              HasWritten(starts[m], w, c)
       PROVE  MachineOK'
  <2>1. PICK y : y = native[m][1] OBVIOUS
  <2>2. /\ y.op # "LandingPad" /\ y.source = starts[m]
        /\ Origin(m, y.source) = y.source
    BY SMTT(60), <1>8, <1>15, <2>1, Entered
  <2>3. PICK o : o = Origin(m, y.source) OBVIOUS
  <2>4. HasWritten(o, w, c) BY <1>15, <2>2, <2>3
  <2>5. PICK q : q = starts[m] OBVIOUS
  <2>6. GoTo(Place(m, 1), q, w, c) BY <1>15, <2>5
  <2>7. 1 \in 1..Len(native[m]) BY <1>8
  <2> QED BY <1>1, <1>15, <2>1, <2>2, <2>3, <2>4, <2>5, <2>6, <2>7, Arrives
<1>16. DOMAIN Written = 1..tempCount BY <1>5, <1>6, WrittenDomain
<1>17. CASE /\ x.op = "LandingPad"
            /\ GoTo(Following(machine.at), machine.place, machine.written, machine.computed)
  <2>1. k = 1 /\ starts[n][2] = 0 /\ k < Len(native[n]) BY <1>11, <1>17
  <2>2. PICK y, next : next = k + 1 /\ y = native[n][next] OBVIOUS
  <2>3. /\ k + 1 \in 1..Len(native[n]) /\ y.op # "LandingPad"
        /\ y.source = Place(starts[n][1], starts[n][2] + k)
    <3>1. k < Len(native[n]) BY <2>1
    <3> QED BY ONLY SMTT(60), Compilable, CompilerTypeOK, CodeOK(starts), <1>Given, <2>2, <3>1, Followed
  <2>4. Following(machine.at) = Place(n, k + 1) BY <1>4 DEF Following
  <2>5. GoTo(Place(n, k + 1), p, written, computed) BY <1>5, <1>17, <2>4
  <2>6. p = y.source BY <1>3, <1>6, <1>10, <1>17, <2>1, <2>3
  <2>7. Origin(n, y.source) = Origin(n, x.source) BY <1>10, <2>1 DEF Origin
  <2>8. PICK o : o = Origin(n, y.source) OBVIOUS
  <2>9. HasWritten(o, written, computed) BY <1>6, <2>7, <2>8
  <2> QED BY <1>1, <1>6, <2>2, <2>3, <2>5, <2>6, <2>8, <2>9, Arrives
<1>18. CASE /\ x.op # "LandingPad" /\ ~ EndsBlock(x)
            /\ GoTo(Following(machine.at), Following(machine.place), Written,
                    machine.computed \cup {machine.at})
  <2>1. k < Len(native[n]) BY <1>12, <1>18
  <2>2. PICK y, next : next = k + 1 /\ y = native[n][next] OBVIOUS
  <2>3. /\ k + 1 \in 1..Len(native[n]) /\ y.op # "LandingPad"
        /\ y.source = Place(starts[n][1], starts[n][2] + k)
    BY ONLY SMTT(60), Compilable, CompilerTypeOK, CodeOK(starts), <1>Given, <2>1, <2>2, Followed
  <2>4. Following(machine.at) = Place(n, k + 1) BY <1>4 DEF Following
  <2>5. Following(p) = y.source
    <3>1. p[1] = starts[n][1] /\ p[2] = starts[n][2] + k - 1 BY <1>12, <1>18
    <3>2. p[2] + 1 = starts[n][2] + k BY <1>10, <3>1
    <3> QED BY <2>3, <3>1, <3>2 DEF Following
  <2>6. PICK o, q, w, c : /\ o = Origin(n, y.source) /\ q = Following(p) /\ w = Written
                          /\ c = computed \cup {machine.at}
    OBVIOUS
  <2>7. GoTo(Place(n, k + 1), q, w, c) BY <1>5, <1>18, <2>4, <2>6
  <2>8. HasWritten(o, w, c)
    <3>1. CASE starts[n][2] # 0
      <4>1. o = Following(p) BY <1>10, <2>5, <2>6, <3>1 DEF Origin
      <4> QED BY <1>13, <1>18, <2>6, <3>1, <4>1
    <3>2. CASE starts[n][2] = 0
      <4>1. o = Origin(n, x.source) BY <1>10, <2>6, <3>2 DEF Origin
      <4>2. p \in CodePlaces /\ IsPad(p[1]) BY <1>10, <1>12, <1>18, <3>2
      <4>3. Source.dest = NoTemp BY <1>7, <4>2, PlaceLemma
      <4>4. w = written BY <1>5, <2>6, <4>3 DEF Written
      <4>5. HasWritten(o, written, computed) BY <1>6, <4>1
      <4>6. \A M : computed \cap M # {} => c \cap M # {} BY <2>6
      <4> QED BY <4>4, <4>5, <4>6 DEF HasWritten
    <3> QED BY <3>1, <3>2
  <2>9. q = y.source BY <2>5, <2>6
  <2>10. DOMAIN w = 1..tempCount BY <1>16, <2>6
  <2> QED BY <1>1, <2>2, <2>3, <2>6, <2>7, <2>8, <2>9, <2>10, Arrives
<1>19. CASE /\ Source.lpad # NoBlock
            /\ GoTo(Place(x.to[1], 1), Following(machine.place), Written,
                    machine.computed \cup {machine.at})
  <2>1. x.op # "LandingPad" /\ starts[n][2] # 0 /\ GoesOn(starts, x, p)
    BY <1>7, <1>14, <1>19
  <2>2. PICK m : m = x.to[1] OBVIOUS
  <2>3. m \in 1..Len(native) /\ starts[m] = Following(p)
    <3>1. x \in NativeType BY <1>3, NativeLemma
    <3>2. 1 \in DOMAIN x.to BY <2>1, <3>1, LenProperties DEF GoesOn, NativeType
    <3> QED BY <2>1, <2>2, <3>2 DEF GoesOn
  <2>4. starts[m][2] # 0
    <3>1. p[2] \in Nat BY <1>12, <2>1, PlaceLemma, PlacesLemma
    <3>2. starts[m][2] = p[2] + 1 BY <2>3 DEF Following, Place
    <3> QED BY <3>1, <3>2
  <2>5. PICK w, c : w = Written /\ c = computed \cup {machine.at} OBVIOUS
  <2>6. GoTo(Place(m, 1), starts[m], w, c) BY <1>5, <1>19, <2>2, <2>3, <2>5
  <2>7. HasWritten(starts[m], w, c) BY <1>13, <2>1, <2>3, <2>5
  <2>8. DOMAIN w = 1..tempCount BY <1>16, <2>5
  <2> QED BY <1>15, <2>3, <2>4, <2>6, <2>7, <2>8
<1>20. CASE /\ Source.lpad # NoBlock
            /\ GoTo(Place(x.to[2], 1), Place(Source.lpad, 1), machine.written,
                    machine.computed)
  <2>1. x.op # "LandingPad" /\ starts[n][2] # 0 /\ GoesOn(starts, x, p)
    BY <1>7, <1>14, <1>20
  <2>2. PICK m, pad : m = x.to[2] /\ pad = CodeAt(p).lpad OBVIOUS
  <2>3. /\ m \in 1..Len(native) /\ starts[m] = Place(pad, 0)
        /\ native[m][1].source = p
    <3>1. x \in NativeType BY <1>3, NativeLemma
    <3>2. 2 \in DOMAIN x.to BY <2>1, <3>1, LenProperties DEF GoesOn, NativeType
    <3> QED BY <2>1, <2>2, <3>2 DEF GoesOn
  <2>4. PICK y : y = native[m][1] OBVIOUS
  <2>5. y.op = "LandingPad" /\ y.source = p
    <3>1. starts[m][2] = 0 BY <2>3 DEF Place
    <3> QED BY <1>8, <1>9, <2>3, <2>4, <3>1, PadFirst
  <2>6. PICK o : o = Origin(m, y.source) OBVIOUS
  <2>7. o = p BY <2>4, <2>5, <2>6 DEF Origin
  <2>8. HasWritten(o, written, computed) BY <1>13, <2>1, <2>7
  <2>9. PICK q : q = Place(pad, 1) OBVIOUS
  <2>10. GoTo(Place(m, 1), q, written, computed)
    BY <1>5, <1>7, <1>20, <2>2, <2>9
  <2>11. q = IF y.op = "LandingPad" THEN Place(CodeAt(y.source).lpad, 1) ELSE y.source
    BY <2>2, <2>5, <2>9
  <2>12. 1 \in 1..Len(native[m]) BY <1>8, <2>3
  <2> QED BY <1>1, <1>6, <2>3, <2>4, <2>6, <2>8, <2>10, <2>11, <2>12, Arrives
<1>21. CASE /\ x.op \in {"Jump", "Branch"}
            /\ \E i \in DOMAIN x.to :
                  GoTo(Place(x.to[i], 1), Place(Source.to[i], 1), machine.written,
                       machine.computed)
  <2>1. PICK i \in DOMAIN x.to : GoTo(Place(x.to[i], 1), Place(Source.to[i], 1),
                                      machine.written, machine.computed)
    BY <1>21
  <2>2. p \in CodePlaces /\ TranslationOK(starts, n, x, p) /\ x.op = CodeAt(p).op
    BY <1>12, <1>21
  <2>3. CodeAt(p).lpad = NoBlock
    <3>1. CodeAt(p).lpad # NoBlock => CodeAt(p).op \in Throwing BY <2>2, PlaceLemma
    <3> QED BY <1>21, <2>2, <3>1 DEF Throwing
  <2>4. PICK m, b : m = x.to[i] /\ b = CodeAt(p).to[i] OBVIOUS
  <2>5. m \in 1..Len(native) /\ starts[m] = Place(b, 1)
    BY <2>2, <2>3, <2>4 DEF TranslationOK, Jumps
  <2>6. starts[m][2] # 0 BY <2>5 DEF Place
  <2>7. GoTo(Place(m, 1), starts[m], written, computed)
    BY <1>5, <1>7, <2>1, <2>4, <2>5
  <2>8. HasWritten(starts[m], written, computed) BY <2>5, NoWrite DEF HasWritten
  <2> QED BY <1>6, <1>15, <2>5, <2>6, <2>7, <2>8
<1> QED BY <1>4, <1>17, <1>18, <1>19, <1>20, <1>21 DEF Execute

-----------------------------------------------------------------------------
(* The invariant is inductive. *)

LEMMA CodeKept ==
  ASSUME Compilable, CompilerTypeOK, NEW starts \in Seq(Nat \X Nat), CodeOK(starts),
         UNCHANGED <<codeVars, native, blockMap, queue, temps, visitors>>
  PROVE  Compilable' /\ CompilerTypeOK' /\ CodeOK(starts)'
<1>1. /\ UNCHANGED codeVars /\ native' = native /\ blockMap' = blockMap
      /\ queue' = queue /\ temps' = temps /\ visitors' = visitors
      /\ blocks' = blocks /\ tempCount' = tempCount
  BY DEF codeVars
<1>2. /\ Compilable' /\ \A b : IsPad(b)' <=> IsPad(b) BY <1>1, SameCode
<1>3. StartsOK(starts)' /\ MapOK(starts)' /\ NativeOK(starts)'
  BY <1>1, SameNative DEF CodeOK
<1>4. /\ \A n : Closed(n)' <=> Closed(n)
      /\ \A v : VisitorOK(starts, v) => VisitorOK(starts, v)'
      /\ \A v, w : InnerOK(v, w) => InnerOK(v, w)'
      /\ \A p : TempsOK(p) => TempsOK(p)'
  BY <1>1, SameNative
<1>5. \A n : (IsTarget(n) => IsTarget(n)') /\ (Waits(n) => Waits(n)')
  BY <1>1 DEF IsTarget, Waits
<1>6. QueueOK(starts)' BY <1>1, <1>4, <1>5 DEF CodeOK, QueueOK
<1>7. \A v : OuterOK(starts, v) => OuterOK(starts, v)' BY <1>1, <1>2 DEF OuterOK
<1>8. \A v : OneVisitor(starts, v) => OneVisitor(starts, v)'
  <2> SUFFICES ASSUME NEW v, OneVisitor(starts, v) PROVE OneVisitor(starts, v)'
    OBVIOUS
  <2>1. PICK p : p = Place(v.block, v.next) OBVIOUS
  <2> QED BY <1>4, <1>7, <2>1 DEF OneVisitor
<1>9. \A v, w : TwoVisitors(starts, v, w) => TwoVisitors(starts, v, w)'
  <2> SUFFICES ASSUME NEW v, NEW w, TwoVisitors(starts, v, w)
               PROVE  TwoVisitors(starts, v, w)'
    OBVIOUS
  <2>1. PICK p : p = Place(v.block, v.next - 1) OBVIOUS
  <2> QED BY <1>4, <1>7, <2>1 DEF TwoVisitors
<1>10. VisitorsOK(starts)'
  <2>1. PICK v, w : v = visitors[1] /\ w = visitors[2] OBVIOUS
  <2>2. visitors'[1] = v /\ visitors'[2] = w BY <1>1, <2>1
  <2>3. CASE visitors = <<>> BY <1>1, <2>3 DEF VisitorsOK
  <2>4. CASE Len(visitors) = 1 /\ OneVisitor(starts, v)
    <3>1. OneVisitor(starts, visitors[1])' BY <1>8, <2>2, <2>4
    <3> QED BY <1>1, <2>4, <3>1 DEF VisitorsOK
  <2>5. CASE Len(visitors) = 2 /\ TwoVisitors(starts, v, w)
    <3>1. TwoVisitors(starts, visitors[1], visitors[2])' BY <1>9, <2>2, <2>5
    <3> QED BY <1>1, <2>5, <3>1 DEF VisitorsOK
  <2> QED BY <2>1, <2>3, <2>4, <2>5 DEF CodeOK, VisitorsOK
<1>11. CompilerTypeOK' BY <1>1 DEF CompilerTypeOK
<1> QED BY <1>2, <1>3, <1>6, <1>10, <1>11 DEF CodeOK

LEMMA MachineKept ==
  ASSUME Compilable, CompilerTypeOK, MachineOK, UNCHANGED <<codeVars, compilerVars>>
  PROVE  MachineOK'
<1>1. /\ UNCHANGED <<codeVars, native, blockMap, queue, temps, visitors>>
      /\ machine' = machine
  BY DEF compilerVars
<1>0. PICK n \in 1..Len(native) : \E k \in 1..Len(native[n]) : machine.at = Place(n, k)
  BY NativeLemma DEF MachineOK
<1>2. PICK k \in 1..Len(native[n]) : machine.at = Place(n, k) BY <1>0
<1>3. PICK x : x = native[n][k] OBVIOUS
<1>4. machine.at[1] = n /\ At = x BY <1>2, <1>3 DEF Place, At
<1>5. PICK o, p, w, c : /\ o = Origin(n, x.source) /\ p = machine.place
                        /\ w = machine.written /\ c = machine.computed
  OBVIOUS
<1>6. /\ queue = <<>> /\ visitors = <<>> /\ DOMAIN w = 1..tempCount
      /\ p = IF x.op = "LandingPad" THEN Place(CodeAt(x.source).lpad, 1) ELSE x.source
      /\ HasWritten(o, w, c)
  BY <1>4, <1>5 DEF MachineOK
<1>7. HasWritten(o, w, c)'
  <2>1. \A q, t, j : LastWrite(q, t, j)' <=> LastWrite(q, t, j) BY <1>1, SameCode
  <2>2. <<>> \in Seq(Nat \X Nat) OBVIOUS
  <2>3. PICK starts : starts = <<>> /\ starts \in Seq(Nat \X Nat) BY <2>2
  <2>4. \A q : MadeFrom(q)' = MadeFrom(q) BY <1>1, <2>3, SameNative
  <2>5. tempCount' = tempCount BY <1>1 DEF codeVars
  <2> QED BY <1>6, <2>1, <2>4, <2>5 DEF HasWritten
<1>8. machine'.at = Place(n, k) /\ At' = x /\ machine'.at[1] = n
  BY <1>1, <1>2, <1>3 DEF At, Place
<1>9. Origin(machine.at[1], At.source)' = o BY <1>1, <1>5, <1>8 DEF Origin
<1>10. HasWritten(Origin(machine.at[1], At.source), machine.written, machine.computed)'
  BY <1>1, <1>5, <1>7, <1>9
<1>11. CodeAt(At.source)' = CodeAt(x.source) BY <1>1, <1>8 DEF CodeAt, codeVars
<1>12. machine'.at \in NativePlaces' BY <1>1 DEF MachineOK, NativePlaces
<1>13. tempCount' = tempCount BY <1>1 DEF codeVars
<1> QED BY <1>1, <1>5, <1>6, <1>8, <1>10, <1>11, <1>12, <1>13 DEF MachineOK

LEMMA CompilerInvFirst == CompilerInit => CompilerInv
BY DEF CompilerInit, CompilerInv

LEMMA CompilerInvNext == CompilerInv /\ [CompilerNext]_<<codeVars, compilerVars>> => CompilerInv'
<1> SUFFICES ASSUME CompilerInv, [CompilerNext]_<<codeVars, compilerVars>>
             PROVE  CompilerInv'
  OBVIOUS
<1> DEFINE Translates == /\ Compilable /\ CompilerTypeOK
                         /\ \E starts \in Seq(Nat \X Nat) : CodeOK(starts)
<1>1. ASSUME phase \in {"compiling", "running"}
      PROVE  Translates
  BY <1>1 DEF CompilerInv
<1>2. CASE phase = "none" /\ UNCHANGED compilerVars
  BY <1>2 DEF CompilerInv, compilerVars
<1>3. CASE /\ phase = "none" /\ phase' = "notImplemented"
  BY <1>3 DEF CompilerInv
<1>4. CASE Compilable /\ Construct
  <2>1. phase = "none" /\ phase' = "compiling" /\ UNCHANGED codeVars /\ visitors = <<>>
    BY <1>4 DEF Construct, CompilerInv
  <2>2. CompilerTypeOK' /\ \E starts \in Seq(Nat \X Nat) : CodeOK(starts)'
    BY <1>4, <2>1, ConstructOK
  <2>3. Compilable' BY <1>4, <2>1, SameCode
  <2> QED BY <2>1, <2>2, <2>3 DEF CompilerInv
<1>5. CASE Compile
  <2>1. phase = "compiling" /\ UNCHANGED codeVars
    BY <1>5 DEF Compile, TakeBlock, VisitSimple, VisitTerminator, makeInvoke, EndVisitor,
                VisitOther, Compiling, Active
  <2>2. PICK starts \in Seq(Nat \X Nat) : CodeOK(starts) BY <1>1, <2>1
  <2>3. Compilable /\ CompilerTypeOK /\ Compilable' BY <1>1, <2>1, SameCode
  <2>4. CASE VisitOther BY <2>4 DEF VisitOther, CompilerInv
  <2>5. ASSUME phase' = "compiling", CompilerTypeOK',
               \E new \in Seq(Nat \X Nat) : CodeOK(new)'
        PROVE  CompilerInv'
    BY <2>3, <2>5 DEF CompilerInv
  <2>6. CASE TakeBlock
    <3>1. phase' = "compiling" BY <2>1, <2>6 DEF TakeBlock
    <3>2. CompilerTypeOK' /\ CodeOK(starts)' BY <2>2, <2>3, <2>6, TakeBlockOK
    <3> QED BY <2>2, <2>5, <3>1, <3>2
  <2>7. CASE VisitSimple
    <3>1. phase' = "compiling" BY <2>1, <2>7 DEF VisitSimple
    <3>2. CompilerTypeOK' /\ CodeOK(starts)' BY <2>2, <2>3, <2>7, VisitSimpleOK
    <3> QED BY <2>2, <2>5, <3>1, <3>2
  <2>8. CASE VisitTerminator
    <3>1. phase' = "compiling" BY <2>1, <2>8 DEF VisitTerminator
    <3> QED BY <2>2, <2>3, <2>5, <2>8, <3>1, VisitTerminatorOK
  <2>9. CASE makeInvoke
    <3>1. phase' = "compiling" BY <2>1, <2>9 DEF makeInvoke
    <3> QED BY <2>2, <2>3, <2>5, <2>9, <3>1, makeInvokeOK
  <2>10. CASE EndVisitor
    <3>1. phase' = "compiling" BY <2>1, <2>10 DEF EndVisitor
    <3>2. CompilerTypeOK' /\ CodeOK(starts)' BY <2>2, <2>3, <2>10, EndVisitorOK
    <3> QED BY <2>2, <2>5, <3>1, <3>2
  <2> QED BY SMTT(60), <1>5, <2>4, <2>6, <2>7, <2>8, <2>9, <2>10 DEF Compile
<1>6. CASE Start
  <2>1. phase = "compiling" /\ phase' = "running"
        /\ UNCHANGED <<codeVars, native, blockMap, queue, temps, visitors>>
    BY <1>6 DEF Start, Compiled
  <2>2. PICK starts \in Seq(Nat \X Nat) : CodeOK(starts) BY <1>1, <2>1
  <2>3. Compilable /\ CompilerTypeOK BY <1>1, <2>1
  <2>4. MachineOK' BY <1>6, <2>2, <2>3, StartOK
  <2>5. Compilable' /\ CompilerTypeOK' /\ CodeOK(starts)' BY <2>1, <2>2, <2>3, CodeKept
  <2> QED BY <2>1, <2>2, <2>4, <2>5 DEF CompilerInv
<1>7. CASE Execute
  <2>1. phase = "running" /\ phase' = "running"
        /\ UNCHANGED <<codeVars, native, blockMap, queue, temps, visitors>>
    BY <1>7 DEF Execute
  <2>2. PICK starts \in Seq(Nat \X Nat) : CodeOK(starts) BY <1>1, <2>1
  <2>3. Compilable /\ CompilerTypeOK /\ MachineOK BY <1>1, <2>1 DEF CompilerInv
  <2>4. MachineOK' BY <1>7, <2>2, <2>3, ExecuteOK
  <2>5. Compilable' /\ CompilerTypeOK' /\ CodeOK(starts)' BY <2>1, <2>2, <2>3, CodeKept
  <2> QED BY <2>1, <2>2, <2>4, <2>5 DEF CompilerInv
<1>8. CASE UNCHANGED <<codeVars, compilerVars>>
  <2>1. phase' = phase /\ visitors' = visitors
        /\ UNCHANGED <<codeVars, native, blockMap, queue, temps, visitors>>
    BY <1>8 DEF compilerVars
  <2>2. CASE phase \in {"compiling", "running"}
    <3>1. PICK starts \in Seq(Nat \X Nat) : CodeOK(starts) BY <1>1, <2>2
    <3>2. Compilable /\ CompilerTypeOK BY <1>1, <2>2
    <3>3. Compilable' /\ CompilerTypeOK' /\ CodeOK(starts)' BY <2>1, <3>1, <3>2, CodeKept
    <3>4. phase = "running" => MachineOK' BY <1>8, <3>2, MachineKept DEF CompilerInv
    <3> QED BY <2>1, <2>2, <3>1, <3>3, <3>4 DEF CompilerInv
  <2>3. CASE phase \notin {"compiling", "running"} BY <2>1, <2>3 DEF CompilerInv
  <2> QED BY <2>2, <2>3
<1> QED BY <1>2, <1>3, <1>4, <1>5, <1>6, <1>7, <1>8 DEF CompilerNext

(* Whatever Compilable code is compiled and executed, the invariant holds. *)
THEOREM CodeIsTranslated == CompilerSpec => []CompilerInv
<1>1. CompilerInit => CompilerInv BY CompilerInvFirst
<1>2. CompilerInv /\ [CompilerNext]_<<codeVars, compilerVars>> => CompilerInv'
  BY CompilerInvNext
<1> QED BY <1>1, <1>2, PTL DEF CompilerSpec

-----------------------------------------------------------------------------
(* What the invariant says of the native code. *)

(* Native instruction q, made from p, and where it is. *)
MadeIn(starts, p, q, n, k) ==
    /\ n \in 1..Len(native) /\ k \in 1..Len(native[n]) /\ q = Place(n, k)
    /\ q[1] = n /\ q[2] = k /\ NativeAt(q) = native[n][k]
    /\ TranslationOK(starts, n, NativeAt(q), p) /\ p = PlaceIn(starts, n, k)
    /\ p \in CodePlaces /\ NativeAt(q).op = CodeAt(p).op /\ NativeAt(q).source = p
    /\ starts[n][1] = p[1] /\ starts[n][2] + k - 1 = p[2]

LEMMA MadeLemma ==
  ASSUME Compilable, CompilerTypeOK, NEW starts \in Seq(Nat \X Nat), CodeOK(starts),
         NEW p, NEW q \in MadeFrom(p)
  PROVE  \E n, k : MadeIn(starts, p, q, n, k)
<1>1. PICK n \in 1..Len(native) : \E k \in 1..Len(native[n]) : q = Place(n, k)
  BY NativeLemma
<1>2. PICK k \in 1..Len(native[n]) : q = Place(n, k) BY <1>1
<1>3. PICK x : x = native[n][k] OBVIOUS
<1>4. q[1] = n /\ q[2] = k /\ NativeAt(q) = x BY <1>2, <1>3 DEF Place, NativeAt
<1>5. x.source = p /\ x.op # "LandingPad" BY <1>4 DEF MadeFrom
<1>6. /\ TranslationOK(starts, n, x, x.source) /\ x.source = PlaceIn(starts, n, k)
      /\ x.source \in CodePlaces /\ x.op = CodeAt(x.source).op
  BY SMTT(60), <1>3, <1>5, Translated
<1>7. p = PlaceIn(starts, n, k) BY <1>5, <1>6
<1>8. starts[n][1] = p[1] /\ starts[n][2] + k - 1 = p[2] BY <1>7 DEF PlaceIn, Place
<1> QED BY <1>2, <1>3, <1>4, <1>5, <1>6, <1>8 DEF MadeIn

(* Only instructions of landing pads are compiled more than once. *)
LEMMA MadeOnce ==
  ASSUME Compilable, CompilerTypeOK, NEW starts \in Seq(Nat \X Nat), CodeOK(starts),
         NEW p, ~ IsPad(p[1]), NEW q \in MadeFrom(p), NEW r \in MadeFrom(p)
  PROVE  q = r
<1>1. PICK m, k : MadeIn(starts, p, q, m, k) BY MadeLemma
<1>2. PICK n, l : MadeIn(starts, p, r, n, l) BY MadeLemma
<1>3. starts[m][2] # 0 BY <1>1, StartsLemma DEF CodeOK, MadeIn
<1>4. /\ m \in 1..Len(starts) /\ n \in 1..Len(starts)
      /\ k \in 1..Len(native[m]) /\ l \in 1..Len(native[n])
  BY <1>1, <1>2 DEF CodeOK, StartsOK, MadeIn
<1>5. PlaceIn(starts, m, k) = PlaceIn(starts, n, l) BY <1>1, <1>2 DEF MadeIn
<1>6. \A a, b \in 1..Len(starts) : \A c \in 1..Len(native[a]), d \in 1..Len(native[b]) :
          PlaceIn(starts, a, c) = PlaceIn(starts, b, d) /\ starts[a][2] # 0
              => a = b /\ c = d
  BY DEF CodeOK, StartsOK
<1>7. m = n /\ k = l
  <2>1. \A c \in 1..Len(native[m]), d \in 1..Len(native[n]) :
          PlaceIn(starts, m, c) = PlaceIn(starts, n, d) => m = n /\ c = d
    BY ONLY SMTT(60), <1>3, <1>4, <1>6
  <2> QED BY ONLY <1>4, <1>5, <2>1
<1> QED BY <1>1, <1>2, <1>7 DEF MadeIn

LEMMA ExecutesSame ==
  ASSUME CompilerInv
  PROVE  SameExecution
<1> SUFFICES ASSUME phase = "running", At.op # "LandingPad"
             PROVE  /\ At.source = machine.place
                    /\ \A i \in DOMAIN At.operands :
                          /\ At.operands[i] \in machine.computed
                          /\ NativeAt(At.operands[i]).source
                                = machine.written[Source.args[i]]
  BY DEF SameExecution
<1>1. /\ Compilable /\ CompilerTypeOK /\ MachineOK
      /\ \E starts \in Seq(Nat \X Nat) : CodeOK(starts)
  BY DEF CompilerInv
<1>2. PICK starts \in Seq(Nat \X Nat) : CodeOK(starts) BY <1>1
<1>0. PICK n \in 1..Len(native) : \E k \in 1..Len(native[n]) : machine.at = Place(n, k)
  BY <1>1, NativeLemma DEF MachineOK
<1>3. PICK k \in 1..Len(native[n]) : machine.at = Place(n, k) BY <1>0
<1>Given. /\ starts \in Seq(Nat \X Nat) /\ n \in 1..Len(native)
          /\ k \in 1..Len(native[n])
  OBVIOUS
<1>4. PICK x : x = native[n][k] OBVIOUS
<1>5. machine.at[1] = n /\ At = x BY <1>3, <1>4 DEF Place, At
<1>6. PICK p, o : p = x.source /\ o = Origin(n, p) OBVIOUS
<1>7. machine.place = p /\ HasWritten(o, machine.written, machine.computed)
  BY <1>1, <1>5, <1>6 DEF MachineOK
<1>8. /\ TranslationOK(starts, n, x, p) /\ p = PlaceIn(starts, n, k) /\ p \in CodePlaces
  <2>1. x.op # "LandingPad" BY <1>5
  <2>2. Compilable /\ CompilerTypeOK /\ CodeOK(starts) BY <1>1, <1>2
  <2>3. /\ TranslationOK(starts, n, x, x.source) /\ x.source = PlaceIn(starts, n, k)
        /\ x.source \in CodePlaces
    BY ONLY <1>4, <2>1, <2>2, <1>Given, Translated
  <2> QED BY <1>6, <2>3
<1>9. Source = CodeAt(p) BY <1>7 DEF Source, CodeAt
<1>10. OperandsOK(x, p, o) BY <1>6, <1>8 DEF TranslationOK
<1>11. ~ IsPad(o[1])
  <2>0. native[n] # <<>> BY <1>1, NativeLemma
  <2>1. /\ native[n][1].op = "LandingPad" <=> starts[n][2] = 0
        /\ starts[n][2] = 0 => /\ native[n][1].source \in CodePlaces
                               /\ CodeAt(native[n][1].source).lpad = starts[n][1]
        /\ starts[n][2] = 0 <=> IsPad(starts[n][1])
        /\ starts[n][1] \in 1..Len(blocks)
    BY <1>1, <1>2, <2>0, PadFirst, StartsLemma DEF CodeOK
  <2>2. CASE starts[n][2] = 0
    <3>1. o = native[n][1].source BY <1>6, <2>1, <2>2 DEF Origin
    <3>2. starts[n][1] # NoBlock BY <2>1 DEF NoBlock
    <3> QED BY <1>1, <2>1, <2>2, <3>1, <3>2, PlaceLemma
  <2>3. CASE starts[n][2] # 0
    <3>1. o = p BY <1>6, <2>1, <2>3 DEF Origin
    <3>2. p[1] = starts[n][1] BY <1>8 DEF PlaceIn, Place
    <3> QED BY <2>1, <2>3, <3>1, <3>2
  <2> QED BY <2>2, <2>3
<1>12. ASSUME NEW i \in DOMAIN x.operands
       PROVE  /\ x.operands[i] \in machine.computed
              /\ NativeAt(x.operands[i]).source = machine.written[Source.args[i]]
  <2>1. PICK t : t = CodeAt(p).args[i] OBVIOUS
  <2>2. PICK j \in Nat : /\ LastWrite(o, t, j)
                         /\ x.operands[i] \in MadeFrom(Place(o[1], j))
    BY <1>10, <2>1 DEF OperandsOK
  <2>3. PICK q : q = Place(o[1], j) OBVIOUS
  <2>4. t \in 1..tempCount
    <3>1. NamesExist(CodeAt(p)) BY <1>1, <1>8, PlaceLemma
    <3>2. i \in DOMAIN CodeAt(p).args BY <1>10 DEF OperandsOK
    <3> QED BY <2>1, <3>1, <3>2 DEF NamesExist
  <2>5. machine.written[t] = q /\ machine.computed \cap MadeFrom(q) # {}
    BY <1>7, <2>2, <2>3, <2>4 DEF HasWritten
  <2>6. PICK r : r \in machine.computed /\ r \in MadeFrom(q) BY <2>5
  <2>7. x.operands[i] \in MadeFrom(q) BY <2>2, <2>3
  <2>8. ~ IsPad(q[1]) BY <1>11, <2>3 DEF Place
  <2>9. x.operands[i] = r BY <1>1, <1>2, <2>6, <2>7, <2>8, MadeOnce
  <2>10. NativeAt(r).source = q BY <2>6 DEF MadeFrom
  <2> QED BY <1>9, <2>1, <2>5, <2>6, <2>9, <2>10
<1> QED BY <1>5, <1>6, <1>7, <1>12

(* Where the native instructions go. *)
GoesWell(starts, x) ==
    /\ x.op \in Throwing /\ x.to # <<>> =>
          /\ x.to[2] \in 1..Len(native) /\ starts[x.to[2]][2] = 0
          /\ native[x.to[2]] # <<>> /\ 2 \in DOMAIN x.to
          /\ x.source \in CodePlaces /\ GoesOn(starts, x, x.source)
    /\ \A i \in DOMAIN x.to : x.to[i] \in 1..Len(native) /\ x.to[i] # 1

LEMMA GoesTo ==
  ASSUME Compilable, CompilerTypeOK, NEW starts \in Seq(Nat \X Nat), CodeOK(starts),
         NEW n \in 1..Len(native), NEW k \in 1..Len(native[n]), NEW x, x = native[n][k]
  PROVE  GoesWell(starts, x)
<1> SUFFICES /\ x.op \in Throwing /\ x.to # <<>> =>
                   /\ x.to[2] \in 1..Len(native) /\ starts[x.to[2]][2] = 0
                   /\ native[x.to[2]] # <<>> /\ 2 \in DOMAIN x.to
                   /\ x.source \in CodePlaces /\ GoesOn(starts, x, x.source)
             /\ \A i \in DOMAIN x.to : x.to[i] \in 1..Len(native) /\ x.to[i] # 1
  BY DEF GoesWell
<1>1. starts[1] = Place(1, 1)
  BY DEF CodeOK, MapOK
<1>2. starts[1][1] = 1 /\ starts[1][2] = 1 BY <1>1 DEF Place
<1>3. x \in NativeType BY NativeLemma
<1>4. x.to \in Seq(Nat) /\ DOMAIN x.to = 1..Len(x.to) BY <1>3, LenProperties DEF NativeType
<1>5. CASE x.op = "LandingPad"
  <2>1. k = 1 /\ starts[n][2] = 0
    <3> SUFFICES ASSUME ~ (k = 1 /\ starts[n][2] = 0) PROVE FALSE OBVIOUS
    <3>1. InstructionOK(starts, n, k) BY DEF CodeOK, NativeOK
    <3>2. PICK q : q \in CodePlaces /\ x.op = CodeAt(q).op
      BY <3>1 DEF InstructionOK, TranslationOK
    <3>3. CodeAt(q) \in Instruction BY <3>2, PlaceLemma
    <3> QED BY <1>5, <3>2, <3>3 DEF Instruction, Kind
  <2>2. InstructionOK(starts, n, k) BY DEF CodeOK, NativeOK
  <2>3. x.to = <<>> BY <2>1, <2>2 DEF InstructionOK, PadOK
  <2>4. DOMAIN x.to = {} BY <2>3
  <2> QED BY <2>3, <2>4
<1>6. CASE x.op # "LandingPad"
  <2>1. PICK p : p = x.source OBVIOUS
  <2>2. TranslationOK(starts, n, x, p) /\ p \in CodePlaces /\ x.op = CodeAt(p).op
    <3>1. /\ TranslationOK(starts, n, x, x.source) /\ x.source \in CodePlaces
          /\ x.op = CodeAt(x.source).op
      BY <1>6, Translated
    <3> QED BY ONLY <2>1, <3>1
  <2>3. NamesExist(CodeAt(p)) /\ p[2] \in Nat
    BY <2>2, PlaceLemma, PlacesLemma
  <2>4. CASE CodeAt(p).lpad # NoBlock
    <3>1. GoesOn(starts, x, p) BY <2>2, <2>4 DEF TranslationOK
    <3>2. /\ DOMAIN x.to = 1..2 /\ starts[x.to[1]] = Following(p)
          /\ starts[x.to[2]] = Place(CodeAt(p).lpad, 0) /\ native[x.to[2]] # <<>>
          /\ \A i \in DOMAIN x.to : x.to[i] \in 1..Len(native)
      BY <1>4, <3>1 DEF GoesOn
    <3>3. starts[x.to[1]][2] = p[2] + 1 /\ starts[x.to[2]][2] = 0
      BY <3>2 DEF Following, Place
    <3>4. p[2] \in Nat \ {0} BY <2>2, PlaceLemma, PlacesLemma
    <3>5. starts[x.to[1]][2] # 1 /\ starts[x.to[2]][2] # 1 BY <3>3, <3>4
    <3>6. \A i \in DOMAIN x.to : i = 1 \/ i = 2 BY <3>2
    <3>7. \A i \in DOMAIN x.to : starts[x.to[i]][2] # 1 BY ONLY <3>5, <3>6
    <3>8. \A i \in DOMAIN x.to : x.to[i] # 1 BY ONLY <1>2, <3>7
    <3>9. 1 \in DOMAIN x.to /\ 2 \in DOMAIN x.to BY <3>2
    <3> QED BY ONLY <2>1, <2>2, <3>1, <3>2, <3>3, <3>8, <3>9
  <2>5. CASE CodeAt(p).lpad = NoBlock
    <3>1. Jumps(starts, x, p) BY <2>2, <2>5 DEF TranslationOK
    <3>2. /\ DOMAIN x.to = DOMAIN CodeAt(p).to
          /\ \A i \in DOMAIN x.to : /\ x.to[i] \in 1..Len(native)
                                    /\ starts[x.to[i]] = Place(CodeAt(p).to[i], 1)
      BY <3>1 DEF Jumps
    <3>3. \A i \in DOMAIN x.to : CodeAt(p).to[i] # 1 BY <2>3, <3>2 DEF NamesExist
    <3>4. \A i \in DOMAIN x.to : x.to[i] # 1
      <4> SUFFICES ASSUME NEW i \in DOMAIN x.to, x.to[i] = 1 PROVE FALSE OBVIOUS
      <4>1. PICK c : c = CodeAt(p).to[i] OBVIOUS
      <4>2. starts[1] = Place(c, 1) /\ c # 1 BY <3>2, <3>3, <4>1
      <4>3. starts[1][1] = c BY ONLY <4>2 DEF Place
      <4> QED BY ONLY <1>2, <4>2, <4>3
    <3>5. x.op \in Throwing => x.to = <<>>
      <4> SUFFICES ASSUME x.op \in Throwing PROVE x.to = <<>> OBVIOUS
      <4>1. Len(CodeAt(p).to) = 0 BY <2>2, <2>3 DEF NamesExist, Throwing
      <4>2. CodeAt(p).to \in Seq(Nat) BY <2>2, PlaceLemma DEF Instruction
      <4>3. DOMAIN CodeAt(p).to = 1..0 BY <4>1, <4>2, LenProperties
      <4>4. Len(x.to) \in Nat BY <1>4, LenProperties
      <4>7. PICK e : e = Len(x.to) OBVIOUS
      <4>8. e \in Nat /\ 1..e = 1..0 BY <1>4, <3>2, <4>3, <4>4, <4>7
      <4>9. e = 0 BY ONLY <4>8
      <4>5. Len(x.to) = 0 BY ONLY <4>7, <4>9
      <4>6. \A s \in Seq(Nat) : s # <<>> => Len(s) # 0 BY EmptySeq
      <4> QED BY ONLY <1>4, <4>5, <4>6
    <3> QED BY ONLY <3>2, <3>4, <3>5
  <2> QED BY <2>4, <2>5
<1> QED BY <1>5, <1>6

LEMMA EntryIsFirst ==
  ASSUME Compilable, CompilerTypeOK, NEW starts \in Seq(Nat \X Nat), CodeOK(starts),
         NEW n \in 1..Len(native), NEW k \in 1..Len(native[n]), NEW x, x = native[n][k]
  PROVE  \A i \in DOMAIN x.to : x.to[i] # 1
<1>1. GoesWell(starts, x) BY GoesTo
<1> QED BY ONLY <1>1 DEF GoesWell

LEMMA ToSetOfType ==
  ASSUME NEW x \in NativeType
  PROVE  \A e : e \in ToSet(x.to) <=> \E i \in DOMAIN x.to : e = x.to[i]
BY DEF ToSet

LEMMA IsWellFormed ==
  ASSUME CompilerInv
  PROVE  WellFormed
<1> DEFINE Unwinds == {q \in NativePlaces : /\ NativeAt(q).op \in Throwing
                                           /\ NativeAt(q).to # <<>>}
           UnwindTo == {NativeAt(q).to[2] : q \in Unwinds}
           To       == (UNION {ToSet(NativeAt(q).to) : q \in NativePlaces}) \ UnwindTo
<1> SUFFICES ASSUME Done
             PROVE  /\ \A b \in DOMAIN native : native[b] # <<>>
                    /\ \A q \in NativePlaces :
                          EndsBlock(NativeAt(q)) <=> q[2] = Len(native[q[1]])
                    /\ \A q \in NativePlaces :
                          NativeAt(q).op = "LandingPad" <=> q[2] = 1 /\ q[1] \in UnwindTo
                    /\ 1 \notin To \cup UnwindTo
                    /\ To \cap UnwindTo = {}
  BY DEF WellFormed
<1>1. /\ Compilable /\ CompilerTypeOK /\ MachineOK
      /\ \E starts \in Seq(Nat \X Nat) : CodeOK(starts)
  BY DEF CompilerInv, Done
<1>2. PICK starts \in Seq(Nat \X Nat) : CodeOK(starts) BY <1>1
<1>3. \A n \in 1..Len(native) : /\ Closed(n) /\ native[n] # <<>>
                                /\ 1 \in 1..Len(native[n])
  BY <1>1, <1>2, AllClosed DEF MachineOK
<1>4. DOMAIN native = 1..Len(native) BY <1>1, LenProperties DEF CompilerTypeOK
<1>5. ASSUME NEW q \in NativePlaces
      PROVE  \E n \in 1..Len(native) : \E k \in 1..Len(native[n]) :
                q = Place(n, k) /\ q[1] = n /\ q[2] = k /\ NativeAt(q) = native[n][k]
  <2>1. PICK n \in 1..Len(native) : \E k \in 1..Len(native[n]) : q = Place(n, k)
    BY <1>1, NativeLemma
  <2>2. PICK k \in 1..Len(native[n]) : q = Place(n, k) BY <2>1
  <2> QED BY <2>2 DEF Place, NativeAt
<1>6. ASSUME NEW q \in NativePlaces
      PROVE  EndsBlock(NativeAt(q)) <=> q[2] = Len(native[q[1]])
  <2>0. PICK n \in 1..Len(native) : \E k \in 1..Len(native[n]) :
           q[1] = n /\ q[2] = k /\ NativeAt(q) = native[n][k]
    BY <1>5
  <2>1. PICK k \in 1..Len(native[n]) :
           q[1] = n /\ q[2] = k /\ NativeAt(q) = native[n][k]
    BY <2>0
  <2>2. InstructionOK(starts, n, k) BY <1>2 DEF CodeOK, NativeOK
  <2>3. k < Len(native[n]) => ~ EndsBlock(native[n][k]) BY <2>2 DEF InstructionOK
  <2>4. EndsBlock(native[n][Len(native[n])]) BY <1>3 DEF Closed
  <2>5. PICK e : e = Len(native[n]) OBVIOUS
  <2>6. e \in Nat /\ k \in 1..e BY <1>1, <2>5, NativeLemma
  <2>7. k < e \/ k = e BY ONLY <2>6
  <2> QED BY <2>1, <2>3, <2>4, <2>5, <2>6, <2>7
<1>7. ASSUME NEW m \in UnwindTo
      PROVE  m \in 1..Len(native) /\ starts[m][2] = 0 /\ m # 1
  <2>1. PICK q \in NativePlaces : /\ NativeAt(q).op \in Throwing
                                  /\ NativeAt(q).to # <<>> /\ m = NativeAt(q).to[2]
    OBVIOUS
  <2>0. PICK n \in 1..Len(native) : \E k \in 1..Len(native[n]) :
           NativeAt(q) = native[n][k]
    BY <1>5
  <2>2. PICK k \in 1..Len(native[n]) : NativeAt(q) = native[n][k] BY <2>0
  <2>3. PICK x : x = native[n][k] OBVIOUS
  <2>4. x.op \in Throwing /\ x.to # <<>> /\ m = x.to[2] BY ONLY <2>1, <2>2, <2>3
  <2>5. Compilable /\ CompilerTypeOK /\ CodeOK(starts) BY <1>1, <1>2
  <2>6. /\ x.to[2] \in 1..Len(native) /\ starts[x.to[2]][2] = 0 /\ 2 \in DOMAIN x.to
        /\ x.to[2] # 1
    <3>1. /\ starts \in Seq(Nat \X Nat) /\ n \in 1..Len(native)
          /\ k \in 1..Len(native[n])
      OBVIOUS
    <3>2. x.op \in Throwing /\ x.to # <<>> =>
               /\ x.to[2] \in 1..Len(native) /\ starts[x.to[2]][2] = 0 /\ 2 \in DOMAIN x.to
      <4>1. GoesWell(starts, x) BY ONLY <2>3, <2>5, <3>1, GoesTo
      <4> QED BY ONLY <4>1 DEF GoesWell
    <3>3. \A i \in DOMAIN x.to : x.to[i] # 1 BY <2>3, <2>5, EntryIsFirst
    <3>4. /\ x.to[2] \in 1..Len(native) /\ starts[x.to[2]][2] = 0
          /\ 2 \in DOMAIN x.to
      BY ONLY <2>4, <3>2
    <3>5. x.to[2] # 1 BY ONLY <3>3, <3>4
    <3> QED BY ONLY <3>4, <3>5
  <2> QED BY ONLY <2>4, <2>6
<1>8. ASSUME NEW n \in 1..Len(native), starts[n][2] = 0 PROVE n \in UnwindTo
  <2>1. InstructionOK(starts, n, 1) BY <1>2, <1>3 DEF CodeOK, NativeOK
  <2>2. PICK s : s = native[n][1].source OBVIOUS
  <2>3. PadOK(starts, n, native[n][1]) BY <1>8, <2>1 DEF InstructionOK
  <2>4. /\ s \in CodePlaces /\ CodeAt(s).lpad = starts[n][1]
        /\ \E r \in MadeFrom(s) : NativeAt(r).to[2] = n
    BY <2>2, <2>3 DEF PadOK
  <2>5. PICK r \in MadeFrom(s) : NativeAt(r).to[2] = n BY <2>4
  <2>6. CodeAt(s).lpad # NoBlock
    <3>1. starts[n][1] \in 1..Len(blocks) BY <1>1, <1>2, StartsLemma DEF CodeOK
    <3> QED BY <2>4, <3>1 DEF NoBlock
  <2>7. r \in NativePlaces /\ NativeAt(r).source = s /\ NativeAt(r).op # "LandingPad"
    BY DEF MadeFrom
  <2>8. PICK m, k : MadeIn(starts, s, r, m, k) BY <1>1, <1>2, MadeLemma
  <2>9. PICK x : x = NativeAt(r) OBVIOUS
  <2>10. TranslationOK(starts, m, x, s) /\ x.op = CodeAt(s).op
    BY ONLY <2>8, <2>9 DEF MadeIn
  <2>11. Len(x.to) = 2 BY <2>6, <2>10 DEF TranslationOK, GoesOn
  <2>12. x.to # <<>>
    <3>1. Len(<<>>) = 0 OBVIOUS
    <3> QED BY SMTT(60), <2>11, <3>1
  <2>13. CodeAt(s).op \in Throwing BY <1>1, <2>4, <2>6, PlaceLemma
  <2> QED BY <2>5, <2>7, <2>9, <2>10, <2>12, <2>13
<1> HIDE DEF UnwindTo, Unwinds
<1>9. ASSUME NEW q \in NativePlaces
      PROVE  NativeAt(q).op = "LandingPad" <=> q[2] = 1 /\ q[1] \in UnwindTo
  <2>0. PICK n \in 1..Len(native) : \E k \in 1..Len(native[n]) :
           q[1] = n /\ q[2] = k /\ NativeAt(q) = native[n][k]
    BY <1>5
  <2>1. PICK k \in 1..Len(native[n]) :
           q[1] = n /\ q[2] = k /\ NativeAt(q) = native[n][k]
    BY <2>0
  <2>2. native[n][1].op = "LandingPad" <=> starts[n][2] = 0
    BY <1>1, <1>2, <1>3, PadFirst DEF CodeOK
  <2>3. n \in UnwindTo <=> starts[n][2] = 0 BY <1>7, <1>8
  <2>4. native[n][k].op = "LandingPad" => k = 1
    <3> SUFFICES ASSUME native[n][k].op = "LandingPad", k # 1 PROVE FALSE OBVIOUS
    <3>1. InstructionOK(starts, n, k) BY <1>2 DEF CodeOK, NativeOK
    <3>2. PICK p : p \in CodePlaces /\ native[n][k].op = CodeAt(p).op
      BY <3>1 DEF InstructionOK, TranslationOK
    <3>3. CodeAt(p) \in Instruction BY <1>1, <3>2, PlaceLemma
    <3> QED BY <3>2, <3>3 DEF Instruction, Kind
  <2> QED BY <2>1, <2>2, <2>3, <2>4
<1>10. 1 \notin To
  <2> SUFFICES ASSUME NEW q \in NativePlaces, 1 \in ToSet(NativeAt(q).to) PROVE FALSE
    OBVIOUS
  <2>0. PICK n \in 1..Len(native) : \E k \in 1..Len(native[n]) :
           NativeAt(q) = native[n][k]
    BY <1>5
  <2>1. PICK k \in 1..Len(native[n]) : NativeAt(q) = native[n][k] BY <2>0
  <2>2. PICK x : x = native[n][k] OBVIOUS
  <2>6. Compilable /\ CompilerTypeOK /\ CodeOK(starts) BY <1>1, <1>2
  <2>3. \A i \in DOMAIN x.to : x.to[i] # 1 BY <2>2, <2>6, EntryIsFirst
  <2>4. x \in NativeType BY <1>1, <2>2, NativeLemma
  <2>5. 1 \in ToSet(x.to) BY <2>1, <2>2
  <2> QED BY <2>3, <2>4, <2>5, ToSetOfType
<1>11. 1 \notin UnwindTo BY <1>7
<1>12. To \cap UnwindTo = {} OBVIOUS
<1> QED BY <1>3, <1>4, <1>6, <1>9, <1>10, <1>11, <1>12 DEF UnwindTo, Unwinds

(* The native code does what the intermediate code does. *)
THEOREM NativeExecutesSame == CompilerSpec => []SameExecution
BY CodeIsTranslated, ExecutesSame, PTL

(* LLVM accepts the native code. *)
THEOREM NativeIsWellFormed == CompilerSpec => []WellFormed
BY CodeIsTranslated, IsWellFormed, PTL
-----------------------------------------------------------------------------
(* Only what can be reached is compiled: the blocks that are known, those  *)
(* of the Visitors and those of the code are in every set that has the     *)
(* entry block and the successors of its blocks. *)
Follows(R) == 1 \in R /\ \A b \in R : Successors(b) \subseteq R

SourcesIn(N, R) == \A n \in 1..Len(N) : \A k \in 1..Len(N[n]) : N[n][k].source[1] \in R

FromEntry(R) ==
    /\ DOMAIN blockMap \subseteq R /\ SourcesIn(native, R)
    /\ \A i \in 1..Len(visitors) : visitors[i].block \in R

ReachedInv ==
    phase \in {"compiling", "running"} => \A R : Follows(R) => FromEntry(R)

LEMMA SuccessorsLemma ==
  ASSUME Compilable, NEW b \in 1..Len(blocks)
  PROVE  /\ \A c \in Successors(b) : \E k \in 1..Len(blocks[b]) :
               \/ c = blocks[b][k].lpad /\ c # NoBlock
               \/ \E i \in DOMAIN blocks[b][k].to : c = blocks[b][k].to[i]
         /\ \A k \in 1..Len(blocks[b]) :
               /\ blocks[b][k].lpad # NoBlock => blocks[b][k].lpad \in Successors(b)
               /\ \A i \in DOMAIN blocks[b][k].to : blocks[b][k].to[i] \in Successors(b)
<1>1. blocks[b] \in Seq(Instruction) BY PlacesLemma
<1>2. ToSet(blocks[b]) = {blocks[b][k] : k \in 1..Len(blocks[b])} BY <1>1, ToSetLemma
<1>3. \A k \in 1..Len(blocks[b]) : NamesExist(blocks[b][k]) BY CodeLemma
<1>4. \A k \in 1..Len(blocks[b]) : \A i \in DOMAIN blocks[b][k].to :
         blocks[b][k].to[i] # NoBlock
  BY <1>3 DEF NamesExist, NoBlock
<1>5. \A s : ToSet(s) = {s[i] : i \in DOMAIN s} BY DEF ToSet
<1> DEFINE Named(ins) == {ins.lpad} \cup ToSet(ins.to)
<1>6. Successors(b) = (UNION {Named(blocks[b][k]) : k \in 1..Len(blocks[b])}) \ {NoBlock}
  BY <1>2 DEF Successors
<1>7. \A ins, c : c \in Named(ins) <=>
         c = ins.lpad \/ \E i \in DOMAIN ins.to : c = ins.to[i]
  BY <1>5
<1> HIDE DEF Named
<1> QED BY <1>4, <1>6, <1>7

LEMMA SourcesAppended ==
  ASSUME NEW N \in Seq(Seq(NativeType)), NEW R, SourcesIn(N, R)
  PROVE  /\ \A b \in 1..Len(N), x \in NativeType :
               x.source[1] \in R => SourcesIn(AppendNative(N, b, x), R)
         /\ SourcesIn(Append(N, <<>>), R)
         /\ \A y \in NativeType :
               y.source[1] \in R => SourcesIn(N \o << <<>>, <<y>> >>, R)
<1>0. Len(N) \in Nat /\ \A n \in 1..Len(N) : Len(N[n]) \in Nat BY PlacesOf
<1>1. ASSUME NEW b \in 1..Len(N), NEW x \in NativeType, x.source[1] \in R
      PROVE  SourcesIn(AppendNative(N, b, x), R)
  <2>1. PICK M : M = AppendNative(N, b, x) OBVIOUS
  <2>2. /\ Len(M) = Len(N) /\ Len(M[b]) = Len(N[b]) + 1 /\ M[b][Len(N[b]) + 1] = x
        /\ \A k \in 1..Len(N[b]) : M[b][k] = N[b][k]
        /\ \A n \in 1..Len(N) : n # b => M[n] = N[n]
    BY ZenonT(60), <2>1, AppendNativeLemma
  <2>3. ASSUME NEW n \in 1..Len(M), NEW k \in 1..Len(M[n]) PROVE M[n][k].source[1] \in R
    <3>1. CASE n # b BY <2>2, <2>3, <3>1 DEF SourcesIn
    <3>2. CASE n = b /\ k = Len(N[b]) + 1 BY <1>1, <2>2, <3>2
    <3>3. CASE n = b /\ k # Len(N[b]) + 1
      <4>1. k \in 1..Len(N[b]) BY <1>0, <2>2, <2>3, <3>3
      <4> QED BY <2>2, <3>3, <4>1 DEF SourcesIn
    <3> QED BY <3>1, <3>2, <3>3
  <2> QED BY <2>1, <2>3 DEF SourcesIn
<1>2. SourcesIn(Append(N, <<>>), R)
  <2>1. <<>> \in Seq(NativeType) OBVIOUS
  <2>2. PICK M : M = Append(N, <<>>) OBVIOUS
  <2>3. /\ Len(M) = Len(N) + 1 /\ M[Len(N) + 1] = <<>>
        /\ \A n \in 1..Len(N) : M[n] = N[n]
    BY <2>1, <2>2, AppendProperties
  <2>4. ASSUME NEW n \in 1..Len(M), NEW k \in 1..Len(M[n]) PROVE M[n][k].source[1] \in R
    <3>1. CASE n \in 1..Len(N) BY <2>3, <2>4, <3>1 DEF SourcesIn
    <3>2. CASE n = Len(N) + 1
      <4>1. Len(<<>>) = 0 OBVIOUS
      <4> QED BY <2>3, <2>4, <3>2, <4>1
    <3> QED BY <1>0, <2>3, <2>4, <3>1, <3>2
  <2> QED BY <2>2, <2>4 DEF SourcesIn
<1>3. ASSUME NEW y \in NativeType, y.source[1] \in R
      PROVE  SourcesIn(N \o << <<>>, <<y>> >>, R)
  <2>1. <<>> \in Seq(NativeType) /\ <<y>> \in Seq(NativeType) OBVIOUS
  <2>2. PICK M : M = N \o << <<>>, <<y>> >> OBVIOUS
  <2>3. /\ Len(M) = Len(N) + 2 /\ \A n \in 1..Len(N) : M[n] = N[n]
        /\ M[Len(N) + 1] = <<>> /\ M[Len(N) + 2] = <<y>>
    BY <2>1, <2>2, TwoMore
  <2>4. ASSUME NEW n \in 1..Len(M), NEW k \in 1..Len(M[n]) PROVE M[n][k].source[1] \in R
    <3>1. CASE n \in 1..Len(N) BY <2>3, <2>4, <3>1 DEF SourcesIn
    <3>2. CASE n = Len(N) + 1
      <4>1. Len(<<>>) = 0 OBVIOUS
      <4> QED BY <2>3, <2>4, <3>2, <4>1
    <3>3. CASE n = Len(N) + 2
      <4>1. M[n] = <<y>> BY <2>3, <3>3
      <4>2. k = 1 BY <2>4, <4>1
      <4> QED BY <1>3, <4>1, <4>2
    <3>4. n \in 1..Len(N) \/ n = Len(N) + 1 \/ n = Len(N) + 2
      <4>1. PICK e : e = Len(N) OBVIOUS
      <4>2. e \in Nat /\ n \in 1..e + 2 BY <1>0, <2>3, <4>1
      <4>3. n \in 1..e \/ n = e + 1 \/ n = e + 2 BY ONLY <4>2
      <4> QED BY <4>1, <4>3
    <3> QED BY ONLY <3>1, <3>2, <3>3, <3>4
  <2> QED BY <2>2, <2>4 DEF SourcesIn
<1> QED BY <1>1, <1>2, <1>3

LEMMA FollowsKept ==
  ASSUME UNCHANGED codeVars, NEW R, Follows(R)'
  PROVE  Follows(R)
<1>1. blocks' = blocks BY DEF codeVars
<1>2. \A b : Successors(b)' = Successors(b) BY <1>1 DEF Successors
<1> QED BY <1>2 DEF Follows

(* The places that a step of a Visitor compiles and goes on to. *)
LEMMA AdvancedFrom ==
  ASSUME Compilable, CompilerTypeOK, Compiling,
         NEW starts \in Seq(Nat \X Nat), CodeOK(starts), NEW R, FromEntry(R),
         NEW target
  PROVE  /\ Here[1] \in R /\ Here = Place(Top.block, Top.next)
         /\ Top.block \in 1..Len(blocks) /\ Top.next \in 1..Len(blocks[Top.block])
         /\ Current = blocks[Top.block][Top.next] /\ Here \in CodePlaces
         /\ Current = CodeAt(Here) /\ Here \in Nat \X Nat
         /\ Top.target \in 1..Len(native)
         /\ target \in Nat => /\ Advanced(target) \in Seq(VisitorType)
                              /\ \A i \in 1..Len(Advanced(target)) :
                                    Advanced(target)[i].block \in R
<1>1. PICK v, p, o : Visiting(starts, v, p, o) BY VisitingLemma
<1>2. /\ v = Top /\ p = Here /\ p = Place(v.block, v.next) /\ p \in CodePlaces
      /\ v.block \in 1..Len(blocks) /\ v.next \in 1..Len(blocks[v.block])
      /\ v.target \in 1..Len(native) /\ Current = CodeAt(p)
      /\ v \in VisitorType /\ visitors # <<>>
  BY <1>1 DEF Visiting
<1>3. Current = blocks[v.block][v.next] BY <1>2 DEF Current
<1>4. p \in Nat \X Nat BY <1>2, PlaceLemma
<1>5. visitors \in Seq(VisitorType) BY DEF CompilerTypeOK
<1>6. v = visitors[Len(visitors)] /\ Len(visitors) \in 1..Len(visitors)
  BY <1>2, <1>5, FrontLemma DEF Top, Last
<1>7. v.block \in R BY <1>6 DEF FromEntry
<1>8. p[1] \in R BY <1>2, <1>7 DEF Place
<1>9. ASSUME target \in Nat
      PROVE  /\ Advanced(target) \in Seq(VisitorType)
             /\ \A i \in 1..Len(Advanced(target)) : Advanced(target)[i].block \in R
  <2>1. PICK u : u = [v EXCEPT !.next = @ + 1, !.target = target] OBVIOUS
  <2>2. u \in VisitorType /\ u.block = v.block
    <3>1. /\ v.next \in Nat /\ v.block \in Nat /\ v.dest \in Nat
          /\ v.value \in Nat \X Nat /\ target \in Nat
      BY <1>2, <1>9 DEF VisitorType
    <3>2. u = [block |-> v.block, next |-> v.next + 1, target |-> target,
               dest |-> v.dest, value |-> v.value]
      BY ONLY <1>2, <2>1 DEF VisitorType
    <3>3. v.next + 1 \in Nat BY <3>1
    <3> QED BY ONLY <3>1, <3>2, <3>3 DEF VisitorType
  <2>3. Advanced(target) = Append(Front(visitors), u) BY <1>2, <2>1 DEF Advanced
  <2>4. PICK s : s = Append(Front(visitors), u) OBVIOUS
  <2>5. /\ s \in Seq(VisitorType) /\ Len(s) = Len(visitors)
        /\ \A i \in 1..Len(visitors) - 1 : s[i] = visitors[i]
        /\ s[Len(visitors)] = u /\ Len(visitors) \in Nat \ {0}
    BY <1>2, <1>5, <2>2, <2>4, StackLemma
  <2>6. ASSUME NEW i \in 1..Len(s) PROVE s[i].block \in R
    <3>1. CASE i = Len(visitors) BY <1>7, <2>2, <2>5, <3>1
    <3>2. CASE i # Len(visitors)
      <4>1. i \in 1..Len(visitors) - 1 /\ i \in 1..Len(visitors) BY <2>5, <3>2
      <4> QED BY <2>5, <4>1 DEF FromEntry
    <3> QED BY <3>1, <3>2
  <2> QED BY <2>3, <2>4, <2>5, <2>6
<1> QED BY <1>2, <1>3, <1>4, <1>8, <1>9

LEMMA ConstructFrom ==
  ASSUME Construct, NEW R, Follows(R)
  PROVE  (\A i \in 1..Len(visitors) : visitors[i].block \in R) => FromEntry(R)'
<1>1. /\ native' = << <<>> >> /\ blockMap' = <<1>> /\ visitors' = visitors
  BY DEF Construct
<1>2. 1 \in R BY DEF Follows
<1>3. PICK N : N = << <<>> >> OBVIOUS
<1>4. SourcesIn(N, R)
  <2>1. Len(N) = 1 /\ N[1] = <<>> /\ Len(<<>>) = 0 BY <1>3
  <2>2. \A n \in 1..Len(N) : Len(N[n]) = 0 BY <2>1
  <2> QED BY <2>2 DEF SourcesIn
<1>5. DOMAIN <<1>> = {1} OBVIOUS
<1> QED BY <1>1, <1>2, <1>3, <1>4, <1>5 DEF FromEntry, SourcesIn

LEMMA TakeBlockFrom ==
  ASSUME CompilerTypeOK, NEW starts \in Seq(Nat \X Nat), CodeOK(starts),
         NEW R, FromEntry(R), TakeBlock
  PROVE  FromEntry(R)'
<1>1. /\ queue # <<>> /\ native' = native /\ blockMap' = blockMap
      /\ visitors' = <<Visitor(Last(queue), blockMap[Last(queue)], NoTemp, NoValue)>>
  BY DEF TakeBlock
<1>2. Last(queue) \in DOMAIN blockMap
  <2>1. queue \in Seq(Nat) BY DEF CompilerTypeOK
  <2>2. Last(queue) \in ToSet(queue) BY <1>1, <2>1, FrontInjective, ToSetLemma, FrontLemma
                                     DEF CodeOK, QueueOK, Last
  <2> QED BY <2>2 DEF CodeOK, QueueOK
<1>3. PICK v : v = Visitor(Last(queue), blockMap[Last(queue)], NoTemp, NoValue) OBVIOUS
<1>4. v.block = Last(queue) BY <1>3 DEF Visitor
<1>5. Len(<<v>>) = 1 /\ <<v>>[1] = v OBVIOUS
<1>6. visitors' = <<v>> BY <1>1, <1>3
<1>7. \A i \in 1..Len(<<v>>) : <<v>>[i].block \in R BY <1>2, <1>4, <1>5 DEF FromEntry
<1> QED BY <1>1, <1>6, <1>7 DEF FromEntry, SourcesIn

LEMMA VisitSimpleFrom ==
  ASSUME Compilable, CompilerTypeOK, NEW starts \in Seq(Nat \X Nat), CodeOK(starts),
         NEW R, FromEntry(R), VisitSimple
  PROVE  FromEntry(R)'
<1>1. PICK ins, b, p : ins = Current /\ b = Top.target /\ p = Here OBVIOUS
<1>2. PICK x : x = NativeInstruction(ins.op, p, Operands(ins), <<>>) OBVIOUS
<1>3. /\ Compiling /\ native' = AppendNative(native, b, x) /\ blockMap' = blockMap
      /\ visitors' = Advanced(b)
  BY <1>1, <1>2 DEF VisitSimple
<1>4. /\ p[1] \in R /\ b \in 1..Len(native) /\ p \in CodePlaces /\ ins = CodeAt(p)
      /\ p \in Nat \X Nat
  BY <1>1, <1>3, AdvancedFrom
<1>5. b \in Nat BY <1>4, NativeLemma
<1>6. \A i \in 1..Len(Advanced(b)) : Advanced(b)[i].block \in R
  BY <1>3, <1>5, AdvancedFrom
<1>7. x \in NativeType /\ x.source = p
  <2>1. ins \in Instruction BY <1>4, PlaceLemma
  <2>2. Operands(ins) \in Seq(Nat \X Nat) BY <1>4, OperandsType
  <2>3. ins.op \in Kind BY <2>1 DEF Instruction
  <2>4. <<>> \in Seq(Nat) OBVIOUS
  <2> QED BY <1>2, <1>4, <2>2, <2>3, <2>4 DEF NativeInstruction, NativeType
<1>8. SourcesIn(AppendNative(native, b, x), R)
  <2>1. native \in Seq(Seq(NativeType)) /\ SourcesIn(native, R)
    BY DEF CompilerTypeOK, FromEntry
  <2>2. x.source[1] \in R BY <1>4, <1>7
  <2> QED BY <1>4, <1>7, <2>1, <2>2, SourcesAppended
<1> QED BY <1>3, <1>6, <1>8 DEF FromEntry, SourcesIn

LEMMA VisitTerminatorFrom ==
  ASSUME Compilable, CompilerTypeOK, NEW starts \in Seq(Nat \X Nat), CodeOK(starts),
         NEW R, Follows(R), FromEntry(R), VisitTerminator
  PROVE  FromEntry(R)'
<1>1. PICK ins, b, p : ins = Current /\ b = Top.target /\ p = Here OBVIOUS
<1>2. Compiling /\ visitors' = Advanced(b) BY <1>1 DEF VisitTerminator
<1>3. PICK m :
         /\ MapMade(m) /\ DOMAIN m.map = DOMAIN blockMap \cup ToSet(ins.to)
         /\ \A k \in DOMAIN ins.to : ins.to[k] \in DOMAIN m.map
         /\ native' = AppendNative(m.native, Top.target,
                          NativeInstruction(ins.op, Here, Operands(ins),
                              [k \in DOMAIN ins.to |-> m.map[ins.to[k]]]))
         /\ blockMap' = m.map /\ queue' = m.queue
  BY <1>1, TerminatorMaps
<1>4. PICK x : x = NativeInstruction(ins.op, p, Operands(ins),
                                     [k \in DOMAIN ins.to |-> m.map[ins.to[k]]])
  OBVIOUS
<1>5. native' = AppendNative(m.native, b, x) BY <1>1, <1>3, <1>4
<1>6. /\ p[1] \in R /\ b \in 1..Len(native) /\ p \in CodePlaces /\ ins = CodeAt(p)
      /\ p \in Nat \X Nat /\ p = Place(Top.block, Top.next)
      /\ Top.block \in 1..Len(blocks) /\ Top.next \in 1..Len(blocks[Top.block])
      /\ Current = blocks[Top.block][Top.next]
  BY <1>1, <1>2, AdvancedFrom
<1>7. b \in Nat BY <1>6, NativeLemma
<1>8. \A i \in 1..Len(Advanced(b)) : Advanced(b)[i].block \in R
  BY <1>2, <1>7, AdvancedFrom
<1>9. ToSet(ins.to) \subseteq R
  <2>1. PICK c, k : c = Top.block /\ k = Top.next OBVIOUS
  <2>2. /\ c \in 1..Len(blocks) /\ k \in 1..Len(blocks[c]) /\ ins = blocks[c][k]
        /\ p = Place(c, k)
    BY ONLY <1>1, <1>6, <2>1
  <2>6. c = p[1] BY ONLY <2>2 DEF Place
  <2>3. \A i \in DOMAIN ins.to : ins.to[i] \in Successors(c) BY <2>2, SuccessorsLemma
  <2>4. Successors(c) \subseteq R BY <1>6, <2>6 DEF Follows
  <2>5. ToSet(ins.to) = {ins.to[i] : i \in DOMAIN ins.to} BY DEF ToSet
  <2> QED BY <2>3, <2>4, <2>5
<1>10. DOMAIN m.map \subseteq R BY <1>3, <1>9 DEF FromEntry
<1>11. /\ m.native \in Seq(Seq(NativeType)) /\ Len(native) <= Len(m.native)
       /\ Len(native) \in Nat /\ Len(m.native) \in Nat
       /\ m.map \in [DOMAIN m.map -> 1..Len(m.native)]
  BY <1>3, LenProperties DEF MapMade, CompilerTypeOK
<1>12. SourcesIn(m.native, R)
  <2>1. ASSUME NEW n \in 1..Len(m.native), NEW k \in 1..Len(m.native[n])
        PROVE  m.native[n][k].source[1] \in R
    <3>1. CASE n \in 1..Len(native)
      <4>1. m.native[n] = native[n] BY <1>3, <3>1 DEF MapMade
      <4> QED BY <2>1, <3>1, <4>1 DEF FromEntry, SourcesIn
    <3>2. CASE n \notin 1..Len(native)
      <4>1. n \in Len(native) + 1 .. Len(m.native) BY <1>11, <3>2
      <4>2. m.native[n] = <<>> BY <1>3, <4>1 DEF MapMade
      <4>3. Len(<<>>) = 0 OBVIOUS
      <4> QED BY <2>1, <4>2, <4>3
    <3> QED BY <3>1, <3>2
  <2> QED BY <2>1 DEF SourcesIn
<1>13. x \in NativeType /\ x.source = p
  <2>1. ins \in Instruction BY <1>6, PlaceLemma
  <2>2. Operands(ins) \in Seq(Nat \X Nat) BY <1>6, OperandsType
  <2>3. ins.op \in Kind /\ ins.to \in Seq(Nat) BY <2>1 DEF Instruction
  <2>4. DOMAIN ins.to = 1..Len(ins.to) /\ Len(ins.to) \in Nat BY <2>3, LenProperties
  <2>5. \A k \in 1..Len(ins.to) : m.map[ins.to[k]] \in Nat
    <3>1. \A i \in 1..Len(m.native) : i \in Nat OBVIOUS
    <3>2. \A k \in 1..Len(ins.to) : m.map[ins.to[k]] \in 1..Len(m.native)
      BY <1>3, <1>11, <2>4
    <3> QED BY ONLY <3>1, <3>2
  <2>6. [k \in 1..Len(ins.to) |-> m.map[ins.to[k]]] \in Seq(Nat) BY <2>4, <2>5, IsASeq
  <2>7. [k \in DOMAIN ins.to |-> m.map[ins.to[k]]] \in Seq(Nat) BY <2>4, <2>6
  <2> QED BY <1>4, <1>6, <2>2, <2>3, <2>7 DEF NativeInstruction, NativeType
<1>14. SourcesIn(AppendNative(m.native, b, x), R)
  <2>1. x.source[1] \in R /\ b \in 1..Len(m.native) BY <1>6, <1>11, <1>13
  <2> QED BY <1>11, <1>12, <1>13, <2>1, SourcesAppended
<1> QED BY <1>2, <1>3, <1>5, <1>8, <1>10, <1>14 DEF FromEntry, SourcesIn

LEMMA makeInvokeFrom ==
  ASSUME Compilable, CompilerTypeOK, NEW starts \in Seq(Nat \X Nat), CodeOK(starts),
         NEW R, Follows(R), FromEntry(R), makeInvoke
  PROVE  FromEntry(R)'
<1>1. PICK ins, b, p, L : ins = Current /\ b = Top.target /\ p = Here /\ L = Len(native)
  OBVIOUS
<1>2. PICK x, y : /\ x = NativeInstruction(ins.op, p, Operands(ins), <<L + 1, L + 2>>)
                  /\ y = NativeInstruction("LandingPad", p, <<>>, <<>>)
  OBVIOUS
<1>3. PICK w : w = Visitor(ins.lpad, L + 2, ins.dest, NextValue(b)) OBVIOUS
<1>4. /\ Compiling /\ ins.lpad # NoBlock /\ blockMap' = blockMap
      /\ native' = AppendNative(native, b, x) \o << <<>>, <<y>> >>
      /\ visitors' = Append(Advanced(L + 1), w)
  BY <1>1, <1>2, <1>3 DEF makeInvoke, SetInsertPoint, compileNow
<1>5. /\ native \in Seq(Seq(NativeType)) /\ SourcesIn(native, R) /\ L \in Nat
  BY <1>1, LenProperties DEF CompilerTypeOK, FromEntry
<1>6. /\ p[1] \in R /\ b \in 1..Len(native) /\ p \in CodePlaces /\ ins = CodeAt(p)
      /\ p \in Nat \X Nat /\ p = Place(Top.block, Top.next)
      /\ Top.block \in 1..Len(blocks) /\ Top.next \in 1..Len(blocks[Top.block])
      /\ Current = blocks[Top.block][Top.next]
  BY <1>1, <1>4, AdvancedFrom
<1>7. L + 1 \in Nat /\ L + 2 \in Nat BY <1>5
<1>8. PICK vs : vs = Advanced(L + 1) OBVIOUS
<1>9. vs \in Seq(VisitorType) /\ \A i \in 1..Len(vs) : vs[i].block \in R
  BY <1>4, <1>7, <1>8, AdvancedFrom
<1>10. ins \in Instruction BY <1>6, PlaceLemma
<1>11. ins.lpad \in R
  <2>1. PICK c, k : c = Top.block /\ k = Top.next OBVIOUS
  <2>2. /\ c \in 1..Len(blocks) /\ k \in 1..Len(blocks[c]) /\ ins = blocks[c][k]
        /\ p = Place(c, k)
    BY ONLY <1>1, <1>6, <2>1
  <2>6. c = p[1] BY ONLY <2>2 DEF Place
  <2>3. ins.lpad \in Successors(c) BY <1>4, <2>2, SuccessorsLemma
  <2>4. Successors(c) \subseteq R BY <1>6, <2>6 DEF Follows
  <2> QED BY <2>3, <2>4
<1>12. w \in VisitorType /\ w.block = ins.lpad
  <2>1. ins.lpad \in Nat /\ ins.dest \in Nat BY <1>10 DEF Instruction
  <2>2. NextValue(b) \in Nat \X Nat
    <3>1. b \in Nat /\ Len(native[b]) + 1 \in Nat BY <1>6, NativeLemma
    <3> QED BY <3>1 DEF NextValue, Place
  <2>3. 1 \in Nat OBVIOUS
  <2> QED BY <1>3, <1>7, <2>1, <2>2, <2>3 DEF Visitor, VisitorType
<1>13. ASSUME NEW i \in 1..Len(Append(vs, w)) PROVE Append(vs, w)[i].block \in R
  <2>1. /\ Len(Append(vs, w)) = Len(vs) + 1 /\ Len(vs) \in Nat
        /\ \A j \in 1..Len(vs) : Append(vs, w)[j] = vs[j]
        /\ Append(vs, w)[Len(vs) + 1] = w
    BY <1>9, <1>12, AppendProperties, LenProperties
  <2>2. i \in 1..Len(vs) \/ i = Len(vs) + 1 BY <2>1
  <2> QED BY <1>9, <1>11, <1>12, <2>1, <2>2
<1>14. x \in NativeType /\ x.source = p /\ y \in NativeType /\ y.source = p
  <2>2. Operands(ins) \in Seq(Nat \X Nat) BY <1>6, OperandsType
  <2>3. ins.op \in Kind BY <1>10 DEF Instruction
  <2>4. <<L + 1, L + 2>> \in Seq(Nat) BY <1>7
  <2>5. <<>> \in Seq(Nat) /\ <<>> \in Seq(Nat \X Nat) OBVIOUS
  <2>6. x \in NativeType /\ x.source = p
    BY <1>2, <1>6, <2>2, <2>3, <2>4 DEF NativeInstruction, NativeType
  <2>7. y \in NativeType /\ y.source = p
    BY <1>2, <1>6, <2>5 DEF NativeInstruction, NativeType
  <2> QED BY <2>6, <2>7
<1>15. PICK M : M = AppendNative(native, b, x) OBVIOUS
<1>16. M \in Seq(Seq(NativeType)) /\ SourcesIn(M, R)
  <2>1. x.source[1] \in R BY <1>6, <1>14
  <2>2. M \in Seq(Seq(NativeType)) BY <1>5, <1>6, <1>14, <1>15, AppendNativeLemma
  <2>3. SourcesIn(AppendNative(native, b, x), R)
    BY <1>5, <1>6, <1>14, <2>1, SourcesAppended
  <2> QED BY <1>15, <2>2, <2>3
<1>17. SourcesIn(M \o << <<>>, <<y>> >>, R)
  <2>1. y.source[1] \in R BY <1>6, <1>14
  <2> QED BY <1>14, <1>16, <2>1, SourcesAppended
<1>18. native' = M \o << <<>>, <<y>> >> BY <1>4, <1>15
<1>19. visitors' = Append(vs, w) BY <1>4, <1>8
<1>20. SourcesIn(native, R)'
  <2>1. PICK N : N = M \o << <<>>, <<y>> >> OBVIOUS
  <2>2. native' = N /\ SourcesIn(N, R) BY <1>17, <1>18, <2>1
  <2> QED BY <2>2 DEF SourcesIn
<1>21. (\A i \in 1..Len(visitors) : visitors[i].block \in R)'
  <2>1. PICK us : us = Append(vs, w) OBVIOUS
  <2>2. visitors' = us /\ \A i \in 1..Len(us) : us[i].block \in R
    BY <1>13, <1>19, <2>1
  <2> QED BY <2>2
<1> QED BY <1>4, <1>20, <1>21 DEF FromEntry

LEMMA EndVisitorFrom ==
  ASSUME CompilerTypeOK, NEW R, FromEntry(R), EndVisitor
  PROVE  FromEntry(R)'
<1>1. /\ visitors # <<>> /\ visitors' = Front(visitors) /\ native' = native
      /\ blockMap' = blockMap
  BY DEF EndVisitor, Active
<1>2. visitors \in Seq(VisitorType) BY DEF CompilerTypeOK
<1>3. PICK vs : vs = Front(visitors) OBVIOUS
<1>4. /\ Len(vs) = Len(visitors) - 1 /\ Len(visitors) \in Nat \ {0}
      /\ \A i \in 1..Len(visitors) - 1 : vs[i] = visitors[i]
  BY <1>1, <1>2, <1>3, FrontLemma
<1>5. \A i \in 1..Len(vs) : i \in 1..Len(visitors) /\ vs[i] = visitors[i] BY <1>4
<1>6. \A i \in 1..Len(vs) : vs[i].block \in R BY <1>5 DEF FromEntry
<1>7. visitors' = vs BY <1>1, <1>3
<1> QED BY <1>1, <1>6, <1>7 DEF FromEntry, SourcesIn

LEMMA ReachedInvNext ==
  CompilerInv /\ ReachedInv /\ [CompilerNext]_<<codeVars, compilerVars>> => ReachedInv'
<1> SUFFICES ASSUME CompilerInv, ReachedInv, [CompilerNext]_<<codeVars, compilerVars>>,
                    phase' \in {"compiling", "running"}, NEW R, Follows(R)'
             PROVE  FromEntry(R)'
  BY DEF ReachedInv
<1>1. UNCHANGED codeVars => Follows(R) BY FollowsKept
<1>2. CASE phase = "none" /\ UNCHANGED compilerVars BY <1>2 DEF compilerVars
<1>3. CASE phase = "none" /\ phase' = "notImplemented" BY <1>3
<1>4. CASE Compilable /\ Construct
  <2>1. UNCHANGED codeVars /\ visitors = <<>> BY <1>4 DEF Construct, CompilerInv
  <2>2. Len(<<>>) = 0 OBVIOUS
  <2>3. \A i \in 1..Len(visitors) : visitors[i].block \in R BY <2>1, <2>2
  <2> QED BY <1>1, <1>4, <2>1, <2>3, ConstructFrom
<1>5. CASE Compile
  <2>1. phase = "compiling" /\ UNCHANGED codeVars
    BY <1>5 DEF Compile, TakeBlock, VisitSimple, VisitTerminator, makeInvoke, EndVisitor,
                VisitOther, Compiling, Active
  <2>2. Compilable /\ CompilerTypeOK /\ \E starts \in Seq(Nat \X Nat) : CodeOK(starts)
    BY <2>1 DEF CompilerInv
  <2>3. PICK starts \in Seq(Nat \X Nat) : CodeOK(starts) BY <2>2
  <2>4. Follows(R) /\ FromEntry(R) BY <1>1, <2>1 DEF ReachedInv
  <2>5. CASE VisitOther BY <2>5 DEF VisitOther
  <2>6. CASE TakeBlock BY <2>2, <2>3, <2>4, <2>6, TakeBlockFrom
  <2>7. CASE VisitSimple BY <2>2, <2>3, <2>4, <2>7, VisitSimpleFrom
  <2>8. CASE VisitTerminator BY <2>2, <2>3, <2>4, <2>8, VisitTerminatorFrom
  <2>9. CASE makeInvoke BY <2>2, <2>3, <2>4, <2>9, makeInvokeFrom
  <2>10. CASE EndVisitor BY <2>2, <2>4, <2>10, EndVisitorFrom
  <2> QED BY <1>5, <2>5, <2>6, <2>7, <2>8, <2>9, <2>10 DEF Compile
<1>6. CASE Start \/ Execute \/ UNCHANGED <<codeVars, compilerVars>>
  <2>1. /\ phase \in {"compiling", "running"} /\ UNCHANGED codeVars
        /\ native' = native /\ blockMap' = blockMap /\ visitors' = visitors
    BY <1>6 DEF Start, Compiled, Execute, compilerVars
  <2>2. FromEntry(R) BY <1>1, <2>1 DEF ReachedInv
  <2> QED BY <2>1, <2>2 DEF FromEntry, SourcesIn
<1> QED BY <1>2, <1>3, <1>4, <1>5, <1>6 DEF CompilerNext

LEMMA ReachedIsInvariant == CompilerSpec => []ReachedInv
<1>1. CompilerInit => ReachedInv BY DEF CompilerInit, ReachedInv
<1>2. CompilerInv /\ ReachedInv /\ [CompilerNext]_<<codeVars, compilerVars>> => ReachedInv'
  BY ReachedInvNext
<1> QED BY <1>1, <1>2, CodeIsTranslated, PTL DEF CompilerSpec

(* Reached is the smallest set that has the entry block and the successors *)
(* of its blocks. *)
LEMMA WithinLemma ==
  ASSUME Compilable
  PROVE  /\ Within[0] = {1}
         /\ \A k \in 1..Len(blocks) : Within[k] = More(Within[k - 1])
<1> DEFINE L == Len(blocks)
           Step(f, k) == IF k = 0 THEN {1} ELSE More(f[k - 1])
           Is(n, f) == f = [k \in 0..n |-> Step(f, k)]
           Missing == {n \in Nat : n <= L /\ ~ \E f : Is(n, f)}
<1>1. L \in Nat BY PlacesLemma
<1>2. Missing = {}
  <2> SUFFICES ASSUME Missing # {} PROVE FALSE OBVIOUS
  <2>1. Missing \in SUBSET Nat OBVIOUS
  <2> HIDE DEF Is
  <2>2. PICK n \in Missing : \A m \in Missing : n =< m BY <2>1, IndexMinimum
  <2>3. n # 0
    <3>1. PICK f : f = [k \in 0..0 |-> {1}] OBVIOUS
    <3>2. \A k \in 0..0 : k = 0 OBVIOUS
    <3>3. f = [k \in 0..0 |-> Step(f, k)] BY <3>1, <3>2
    <3>4. Is(0, f) BY ONLY <3>3 DEF Is
    <3> QED BY <2>2, <3>4
  <2>4. n - 1 \in Nat /\ n - 1 <= L /\ n \in Nat /\ n - 1 \notin Missing
    <3>1. n \in Nat /\ n <= L OBVIOUS
    <3>2. n - 1 \in Nat /\ n - 1 <= L /\ ~(n <= n - 1) BY <1>1, <2>3, <3>1
    <3> HIDE DEF Missing
    <3> QED BY <2>2, <3>1, <3>2
  <2>5. PICK f : Is(n - 1, f) BY <2>4
  <2> DEFINE g == [k \in 0..n |-> Step(f, k)]
  <2>6. \A k \in 0..n - 1 : f[k] = g[k]
    <3>1. \A k \in 0..n - 1 : k \in 0..n BY <2>4
    <3>2. f = [k \in 0..n - 1 |-> Step(f, k)] BY <2>5 DEF Is
    <3> HIDE DEF Step
    <3>3. \A k \in 0..n - 1 : f[k] = Step(f, k) BY <3>2
    <3> QED BY <3>1, <3>3
  <2>7. \A k \in 0..n : Step(f, k) = Step(g, k)
    <3>1. \A k \in 0..n : k # 0 => k - 1 \in 0..n - 1 BY <2>4
    <3> HIDE DEF g
    <3>2. \A k \in 0..n : k # 0 => f[k - 1] = g[k - 1] BY <2>6, <3>1
    <3> QED BY <3>2
  <2>8. g = [k \in 0..n |-> Step(g, k)]
    <3> DEFINE h(x) == [k \in 0..n |-> Step(x, k)]
    <3>1. g = h(f) OBVIOUS
    <3> HIDE DEF g, Step
    <3>2. h(f) = h(g) BY <2>7
    <3> QED BY <3>1, <3>2
  <2>9. Is(n, g) BY <2>8 DEF Is
  <2> QED BY <2>2, <2>9
<1>3. Is(L, Within)
  <2>1. \E f : Is(L, f)
    <3> HIDE DEF Is
    <3> QED BY <1>1, <1>2
  <2>2. Within = CHOOSE f : Is(L, f) BY DEF Within
  <2> HIDE DEF Is
  <2> QED BY <2>1, <2>2
<1> HIDE DEF Step
<1>4. \A k \in 0..L : Within[k] = Step(Within, k) BY <1>3
<1>5. 0 \in 0..L /\ \A k \in 1..L : k \in 0..L /\ k # 0 BY <1>1
<1> QED BY <1>4, <1>5 DEF Step

LEMMA ReachedLemma ==
  ASSUME Compilable
  PROVE  /\ Reached \subseteq 1..Len(blocks) /\ Follows(Reached)
         /\ \A R : Follows(R) => Reached \subseteq R
<1> DEFINE L == Len(blocks)
<1>1. L \in Nat \ {0} BY PlacesLemma
<1>2. Within[0] = {1} /\ \A k \in 1..L : Within[k] = More(Within[k - 1])
  BY WithinLemma
<1>3. \A R : More(R) = R \cup UNION {Successors(b) : b \in R} BY DEF More
<1>4. \A k \in 0..L : k \in Nat /\ (k # 0 => k - 1 \in 0..L /\ k \in 1..L) BY <1>1
<1> HIDE DEF L
<1>5. ASSUME NEW R, Follows(R), NEW j \in 0..L PROVE Within[j] \subseteq R
  <2> DEFINE Bad == {k \in 0..L : ~ (Within[k] \subseteq R)}
  <2> SUFFICES ASSUME Bad # {} PROVE FALSE OBVIOUS
  <2>1. Bad \in SUBSET Nat BY <1>4
  <2>2. PICK k \in Bad : \A i \in Bad : k =< i BY <2>1, IndexMinimum
  <2>3. k # 0 BY <1>2, <1>5, <2>2 DEF Follows
  <2>4. k - 1 \in 0..L /\ k \in 1..L /\ ~ (k =< k - 1) BY <1>4, <2>2, <2>3
  <2>5. Within[k - 1] \subseteq R BY <2>2, <2>4
  <2>6. More(Within[k - 1]) \subseteq R BY <1>3, <1>5, <2>5 DEF Follows
  <2> QED BY <1>2, <2>2, <2>4, <2>6
<1>6. ASSUME NEW i \in 0..L, NEW j \in 0..L, i <= j PROVE Within[i] \subseteq Within[j]
  <2> DEFINE Bad == {k \in 0..L : i <= k /\ ~ (Within[i] \subseteq Within[k])}
  <2> SUFFICES ASSUME Bad # {} PROVE FALSE BY <1>6
  <2>1. Bad \in SUBSET Nat BY <1>4
  <2>2. PICK k \in Bad : \A l \in Bad : k =< l BY <2>1, IndexMinimum
  <2>3. k # i /\ i <= k /\ k \in Nat /\ i \in Nat BY <1>4, <2>2
  <2>4. k # 0 /\ i <= k - 1 BY <2>3
  <2>5. k - 1 \in 0..L /\ k \in 1..L /\ ~ (k =< k - 1) BY <1>4, <2>2, <2>4
  <2>6. Within[i] \subseteq Within[k - 1] BY <2>2, <2>4, <2>5
  <2>7. Within[k - 1] \subseteq Within[k] BY <1>2, <1>3, <2>5
  <2> QED BY <2>2, <2>6, <2>7
<1>7. Follows(1..L)
  <2>1. 1 \in 1..L BY <1>1
  <2>2. ASSUME NEW b \in 1..L, NEW c \in Successors(b) PROVE c \in 1..L
    <3>1. b \in 1..Len(blocks) BY DEF L
    <3>2. PICK k \in 1..Len(blocks[b]) :
             \/ c = blocks[b][k].lpad /\ c # NoBlock
             \/ \E i \in DOMAIN blocks[b][k].to : c = blocks[b][k].to[i]
      BY <3>1, SuccessorsLemma
    <3>3. NamesExist(blocks[b][k]) BY <3>1, CodeLemma
    <3>4. /\ blocks[b][k].lpad \in 0..L
          /\ \A i \in DOMAIN blocks[b][k].to : blocks[b][k].to[i] \in 2..L
      BY <3>3 DEF NamesExist, L
    <3> QED BY <1>1, <3>2, <3>4 DEF NoBlock
  <2> QED BY <2>1, <2>2 DEF Follows
<1>8. \A k \in 0..L : Within[k] \subseteq 1..L BY <1>5, <1>7
<1>9. IsFiniteSet(1..L) /\ Cardinality(1..L) = L
  <2>1. 1 \in Int /\ L \in Int /\ ~ (1 > L) /\ L - 1 + 1 = L BY <1>1
  <2> QED BY <2>1, FS_Interval
<1>10. \A k \in 0..L : /\ IsFiniteSet(Within[k]) /\ Cardinality(Within[k]) \in Nat
                       /\ Cardinality(Within[k]) <= L
  BY <1>8, <1>9, FS_Subset, FS_CardinalityType
<1>11. \E k \in 1..L : Within[k] = Within[k - 1]
  <2> SUFFICES ASSUME \A k \in 1..L : Within[k] # Within[k - 1] PROVE FALSE OBVIOUS
  <2> DEFINE Bad == {k \in 0..L : ~ (Cardinality(Within[k]) >= k + 1)}
  <2>1. Bad = {}
    <3> SUFFICES ASSUME Bad # {} PROVE FALSE OBVIOUS
    <3>1. Bad \in SUBSET Nat BY <1>4
    <3>2. PICK k \in Bad : \A i \in Bad : k =< i BY <3>1, IndexMinimum
    <3>3. k # 0
      <4>1. Cardinality({1}) = 1 BY FS_Singleton
      <4>2. Cardinality(Within[0]) >= 0 + 1 BY <1>2, <4>1
      <4> QED BY <3>2, <4>2
    <3>4. k - 1 \in 0..L /\ k \in 1..L /\ ~ (k =< k - 1) BY <1>4, <3>2, <3>3
    <3>5. PICK A, B : A = Within[k - 1] /\ B = Within[k] OBVIOUS
    <3>6. A \subseteq B /\ A # B BY <1>2, <1>3, <3>4, <3>5
    <3>7. k \in 0..L BY <3>2
    <3>8. IsFiniteSet(B) /\ Cardinality(A) \in Nat /\ Cardinality(B) \in Nat
      BY <1>10, <3>4, <3>5, <3>7
    <3>9. Cardinality(A) <= Cardinality(B) /\ Cardinality(A) # Cardinality(B)
      BY <3>6, <3>8, FS_Subset
    <3>10. Cardinality(A) >= (k - 1) + 1 BY <3>2, <3>4, <3>5
    <3>11. Cardinality(B) >= k + 1
      <4>1. PICK x, y : x = Cardinality(A) /\ y = Cardinality(B) OBVIOUS
      <4>2. /\ x \in Nat /\ y \in Nat /\ x <= y /\ x # y /\ x >= (k - 1) + 1
            /\ k \in Nat
        BY <1>4, <3>7, <3>8, <3>9, <3>10, <4>1
      <4>3. y >= k + 1 BY ONLY <4>2
      <4> QED BY ONLY <4>1, <4>3
    <3> QED BY <3>2, <3>5, <3>11
  <2>2. L \in 0..L BY <1>1
  <2>3. Cardinality(Within[L]) >= L + 1 BY <2>1, <2>2
  <2>4. Cardinality(Within[L]) \in Nat /\ Cardinality(Within[L]) <= L BY <1>10, <2>2
  <2> QED BY <1>1, <2>3, <2>4
<1>12. PICK k \in 1..L : Within[k] = Within[k - 1] BY <1>11
<1>13. k - 1 \in 0..L /\ 0 \in 0..L /\ L \in 0..L /\ 0 <= k - 1 /\ k - 1 <= L BY <1>1
<1>14. PICK R : R = Within[k - 1] OBVIOUS
<1>15. Follows(R)
  <2>1. R = More(R) BY <1>2, <1>12, <1>14
  <2>2. 1 \in R BY <1>2, <1>6, <1>13, <1>14
  <2> QED BY <1>3, <2>1, <2>2 DEF Follows
<1>16. Reached = R
  <2>1. Within[L] \subseteq R BY <1>5, <1>13, <1>15
  <2>2. R \subseteq Within[L] BY <1>6, <1>13, <1>14
  <2> QED BY <2>1, <2>2 DEF Reached, L
<1>17. \A S : Follows(S) => R \subseteq S BY <1>5, <1>13, <1>14
<1> QED BY <1>7, <1>15, <1>16, <1>17 DEF L
-----------------------------------------------------------------------------
(* All that can be reached is compiled.                                    *)

(* The code is complete.                                                   *)
Finished(starts) ==
    /\ Compilable /\ CompilerTypeOK /\ CodeOK(starts)
    /\ queue = <<>> /\ visitors = <<>>

LEMMA MadeFirst ==
  ASSUME NEW starts \in Seq(Nat \X Nat), Finished(starts),
         NEW n \in 1..Len(native), starts[n][2] # 0
  PROVE  Place(n, 1) \in MadeFrom(starts[n])
<1>1. Compilable /\ CompilerTypeOK /\ CodeOK(starts) BY DEF Finished
<1>2. native[n] # <<>> /\ 1 \in 1..Len(native[n]) BY <1>1, AllClosed DEF Finished
<1>3. PICK x : x = native[n][1] OBVIOUS
<1>4. x.op # "LandingPad" /\ x.source = starts[n] BY SMTT(60), <1>1, <1>2, <1>3, Entered
<1>5. Place(n, 1) \in NativePlaces /\ NativeAt(Place(n, 1)) = x
  BY <1>1, <1>2, <1>3, NativeLemma
<1> QED BY <1>4, <1>5 DEF MadeFrom

LEMMA NoNames ==
  ASSUME NEW s \in Seq(Nat), NEW t \in Seq(Nat), DOMAIN s = DOMAIN t, Len(t) = 0
  PROVE  s = <<>>
<1>1. DOMAIN s = 1..Len(s) /\ Len(s) \in Nat /\ DOMAIN t = 1..Len(t) BY LenProperties
<1>2. 1..Len(s) = 1..0 BY <1>1
<1>3. Len(s) = 0
  <2>1. PICK e : e = Len(s) OBVIOUS
  <2>2. e \in Nat /\ 1..e = 1..0 BY <1>1, <1>2, <2>1
  <2>3. 1 \notin 1..e BY ONLY <2>2
  <2>4. e = 0 BY ONLY <2>2, <2>3
  <2> QED BY <2>1, <2>4
<1> QED BY <1>3, EmptySeq

LEMMA MadeNext ==
  ASSUME NEW starts \in Seq(Nat \X Nat), Finished(starts),
         NEW p \in CodePlaces, MadeFrom(p) # {}, p[2] < Len(blocks[p[1]])
  PROVE  MadeFrom(Following(p)) # {}
<1>1. Compilable /\ CompilerTypeOK /\ CodeOK(starts) BY DEF Finished
<1>2. PICK q \in MadeFrom(p) : TRUE OBVIOUS
<1>3. PICK n, k : MadeIn(starts, p, q, n, k) BY <1>1, MadeLemma
<1>4. PICK x : x = NativeAt(q) OBVIOUS
<1>5. /\ n \in 1..Len(native) /\ k \in 1..Len(native[n]) /\ x = native[n][k]
      /\ TranslationOK(starts, n, x, p) /\ x.op = CodeAt(p).op
      /\ starts[n][1] = p[1] /\ starts[n][2] + k - 1 = p[2]
  BY ONLY <1>3, <1>4 DEF MadeIn
<1>6. /\ CodeAt(p) \in Instruction /\ NamesExist(CodeAt(p)) /\ p \in Nat \X Nat
      /\ CodeAt(p).op \notin Terminator
  BY <1>1, PlaceLemma, PlacesLemma
<1>7. Closed(n) BY <1>1, <1>5, AllClosed DEF Finished
<1>8. Len(native[n]) \in Nat /\ x \in NativeType BY <1>1, <1>5, NativeLemma
<1>9. CASE k < Len(native[n])
  <2>1. PICK next : next = k + 1 OBVIOUS
  <2>2. PICK y : y = native[n][next] OBVIOUS
  <2>3. /\ k + 1 \in 1..Len(native[n]) /\ y.op # "LandingPad"
        /\ y.source = Place(starts[n][1], starts[n][2] + k)
    BY SMTT(60), <1>1, <1>5, <1>9, <2>1, <2>2, Followed
  <2>4. next \in 1..Len(native[n]) BY <2>1, <2>3
  <2>5. Place(n, next) \in NativePlaces /\ NativeAt(Place(n, next)) = y
    BY <1>1, <1>5, <2>2, <2>4, NativeLemma
  <2>6. starts[n][2] + k = p[2] + 1
    <3>1. PICK s : s = starts[n][2] OBVIOUS
    <3>2. s \in Nat /\ k \in Nat /\ s + k - 1 = p[2]
      BY <1>1, <1>5, <1>8, <3>1, StartsLemma DEF CodeOK
    <3>3. s + k = p[2] + 1 BY ONLY <3>2
    <3> QED BY <3>1, <3>3
  <2>7. y.source = Following(p) BY <1>5, <2>3, <2>6 DEF Following
  <2> QED BY <2>3, <2>5, <2>7 DEF MadeFrom
<1>10. CASE k = Len(native[n])
  <2>1. EndsBlock(x) BY <1>5, <1>7, <1>10 DEF Closed
  <2>2. x.to # <<>> BY <1>5, <1>6, <2>1 DEF EndsBlock, Terminator
  <2>3. CodeAt(p).lpad # NoBlock
    <3> SUFFICES ASSUME CodeAt(p).lpad = NoBlock PROVE FALSE OBVIOUS
    <3>1. DOMAIN x.to = DOMAIN CodeAt(p).to BY <1>5 DEF TranslationOK, Jumps
    <3>2. Len(CodeAt(p).to) = 0 BY <1>6 DEF NamesExist, Terminator
    <3>3. CodeAt(p).to \in Seq(Nat) /\ x.to \in Seq(Nat)
      BY <1>6, <1>8 DEF Instruction, NativeType
    <3>4. x.to = <<>> BY <3>1, <3>2, <3>3, NoNames
    <3> QED BY <2>2, <3>4
  <2>4. GoesOn(starts, x, p) BY <1>5, <2>3 DEF TranslationOK
  <2>5. PICK m, i : i = 1 /\ m = x.to[i] OBVIOUS
  <2>6. m \in 1..Len(native) /\ starts[m] = Following(p)
    <3>1. Len(x.to) = 2 /\ x.to \in Seq(Nat) BY <1>8, <2>4 DEF GoesOn, NativeType
    <3>2. i \in DOMAIN x.to BY <2>5, <3>1, LenProperties
    <3> QED BY <2>4, <2>5, <3>2 DEF GoesOn
  <2>7. starts[m][2] # 0 BY <1>6, <2>6 DEF Following, Place
  <2>8. Place(m, 1) \in MadeFrom(starts[m]) BY <2>6, <2>7, MadeFirst
  <2> QED BY <2>6, <2>8
<1> QED BY <1>5, <1>8, <1>9, <1>10

LEMMA BlockMade ==
  ASSUME NEW starts \in Seq(Nat \X Nat), Finished(starts),
         NEW b \in 1..Len(blocks), MadeFrom(Place(b, 1)) # {},
         NEW l \in 1..Len(blocks[b])
  PROVE  MadeFrom(Place(b, l)) # {}
<1> DEFINE Bad == {k \in 1..Len(blocks[b]) : MadeFrom(Place(b, k)) = {}}
<1> SUFFICES ASSUME Bad # {} PROVE FALSE OBVIOUS
<1>1. Compilable BY DEF Finished
<1>2. Bad \in SUBSET Nat OBVIOUS
<1>3. PICK k \in Bad : \A i \in Bad : k =< i BY <1>2, IndexMinimum
<1>4. PICK j, e : j = k - 1 /\ e = Len(blocks[b]) OBVIOUS
<1>5. k # 1 /\ k \in 1..e /\ e \in Nat BY <1>1, <1>3, <1>4, PlacesLemma
<1>6. j \in 1..e /\ j < e /\ j + 1 = k /\ ~ (k =< j) BY ONLY <1>4, <1>5
<1>7. j \notin Bad BY <1>3, <1>6
<1>8. j \in 1..Len(blocks[b]) /\ j < Len(blocks[b]) BY <1>4, <1>6
<1>9. PICK p : p = Place(b, j) OBVIOUS
<1>10. p \in CodePlaces /\ p[1] = b /\ p[2] = j BY <1>1, <1>8, <1>9, CodeLemma DEF Place
<1>11. MadeFrom(p) # {} BY <1>7, <1>8, <1>9
<1>12. MadeFrom(Following(p)) # {} BY <1>8, <1>10, <1>11, MadeNext
<1>13. Following(p) = Place(b, k) BY <1>6, <1>10 DEF Following
<1> QED BY <1>3, <1>12, <1>13

(* The native block of the landing pad of an instruction. *)
LEMMA SitePad ==
  ASSUME NEW starts \in Seq(Nat \X Nat), Finished(starts),
         NEW p \in CodePlaces, CodeAt(p).lpad # NoBlock, NEW r \in MadeFrom(p),
         NEW n, n = NativeAt(r).to[2]
  PROVE  /\ n \in 1..Len(native) /\ starts[n] = Place(CodeAt(p).lpad, 0)
         /\ native[n][1].source = p
<1>1. Compilable /\ CompilerTypeOK /\ CodeOK(starts) BY DEF Finished
<1>2. PICK m, k : MadeIn(starts, p, r, m, k) BY <1>1, MadeLemma
<1>3. PICK x : x = NativeAt(r) OBVIOUS
<1>4. /\ TranslationOK(starts, m, x, p) /\ x = native[m][k]
      /\ m \in 1..Len(native) /\ k \in 1..Len(native[m])
  BY ONLY <1>2, <1>3 DEF MadeIn
<1>5. GoesOn(starts, x, p) BY <1>4 DEF TranslationOK
<1>6. PICK i : i = 2 OBVIOUS
<1>7. i \in DOMAIN x.to
  <2>1. x \in NativeType BY <1>1, <1>4, NativeLemma
  <2>2. Len(x.to) = 2 /\ x.to \in Seq(Nat) BY <1>5, <2>1 DEF GoesOn, NativeType
  <2> QED BY <1>6, <2>2, LenProperties
<1>8. n = x.to[i] BY <1>3, <1>6
<1> QED BY <1>5, <1>6, <1>7, <1>8 DEF GoesOn

(* It has all of the instructions of the landing pad. *)
LEMMA PadMade ==
  ASSUME NEW starts \in Seq(Nat \X Nat), Finished(starts),
         NEW n \in 1..Len(native), NEW c \in 1..Len(blocks),
         starts[n] = Place(c, 0), NEW k \in 1..Len(blocks[c])
  PROVE  k + 1 \in 1..Len(native[n]) /\ Place(n, k + 1) \in MadeFrom(Place(c, k))
<1>1. Compilable /\ CompilerTypeOK /\ CodeOK(starts) BY DEF Finished
<1>2. starts[n][1] = c /\ starts[n][2] = 0 BY DEF Place
<1>3. IsPad(c) BY <1>1, <1>2, StartsLemma DEF CodeOK
<1>4. PICK e, f : e = Len(native[n]) /\ f = Len(blocks[c]) OBVIOUS
<1>5. e \in Nat \ {0} /\ f \in Nat /\ k \in 1..f
  BY <1>1, <1>4, AllClosed, NativeLemma, PlacesLemma DEF Finished
<1>6. PICK x : x = native[n][e] OBVIOUS
<1>7. EndsBlock(x) /\ e \in 1..Len(native[n]) /\ InstructionOK(starts, n, e)
  <2>1. Closed(n) BY <1>1, AllClosed DEF Finished
  <2>2. e \in 1..Len(native[n]) BY <1>4, <1>5
  <2> QED BY <1>1, <1>4, <1>6, <2>1, <2>2 DEF Closed, CodeOK, NativeOK
<1>8. e # 1
  <2> SUFFICES ASSUME e = 1 PROVE FALSE OBVIOUS
  <2>1. PadOK(starts, n, x) BY <1>2, <1>6, <1>7 DEF InstructionOK
  <2> QED BY <1>7, <2>1 DEF PadOK, EndsBlock
<1>9. ~ (e <= f)
  <2> SUFFICES ASSUME e <= f PROVE FALSE OBVIOUS
  <2>1. PICK p : p = PlaceIn(starts, n, e) OBVIOUS
  <2>2. TranslationOK(starts, n, x, p) BY <1>6, <1>7, <1>8, <2>1 DEF InstructionOK
  <2>3. 0 + e - 1 = e - 1 /\ e - 1 # f BY <1>5, <2>1
  <2>4. p[1] = c /\ p[2] = e - 1 BY <1>2, <2>1, <2>3 DEF PlaceIn, Place
  <2>5. p \in CodePlaces /\ x.op = CodeAt(p).op BY <2>2 DEF TranslationOK
  <2>6. /\ CodeAt(p) \in Instruction /\ NamesExist(CodeAt(p))
        /\ CodeAt(p).op \notin Terminator /\ CodeAt(p).lpad = NoBlock
    BY <1>1, <1>3, <1>4, <2>3, <2>4, <2>5, PlaceLemma
  <2>7. DOMAIN x.to = DOMAIN CodeAt(p).to BY <2>2, <2>6 DEF TranslationOK, Jumps
  <2>8. Len(CodeAt(p).to) = 0 BY <2>6 DEF NamesExist, Terminator
  <2>9. CodeAt(p).to \in Seq(Nat) /\ x.to \in Seq(Nat)
    <3>1. x \in NativeType BY <1>1, <1>6, <1>7, NativeLemma
    <3> QED BY <2>6, <3>1 DEF Instruction, NativeType
  <2>10. x.to = <<>> BY <2>7, <2>8, <2>9, NoNames
  <2> QED BY <1>7, <2>5, <2>6, <2>10 DEF EndsBlock, Terminator
<1>10. PICK next : next = k + 1 OBVIOUS
<1>11. k \in 1..e /\ k < e /\ next \in 1..e BY ONLY <1>5, <1>9, <1>10
<1>12. PICK y : y = native[n][next] OBVIOUS
<1>13. y.op # "LandingPad" /\ y.source = Place(starts[n][1], starts[n][2] + k)
  <2>1. k \in 1..Len(native[n]) /\ k < Len(native[n]) BY <1>4, <1>11
  <2>2. PICK m, l : m = n /\ l = k OBVIOUS
  <2>3. /\ m \in 1..Len(native) /\ l \in 1..Len(native[m]) /\ l < Len(native[m])
        /\ next = l + 1 /\ y = native[m][next]
    BY <1>10, <1>12, <2>1, <2>2
  <2>4. starts \in Seq(Nat \X Nat) OBVIOUS
  <2>5. /\ l + 1 \in 1..Len(native[m]) /\ y.op # "LandingPad"
        /\ y.source = Place(starts[m][1], starts[m][2] + l)
        /\ y.source \in CodePlaces
    BY ONLY <1>1, <2>3, <2>4, Followed, SMTT(60)
  <2> QED BY <2>2, <2>5
<1>14. 0 + k = k BY <1>5
<1>15. y.source = Place(c, k) BY <1>2, <1>13, <1>14
<1>16. Place(n, next) \in NativePlaces /\ NativeAt(Place(n, next)) = y
  BY <1>1, <1>4, <1>11, <1>12, NativeLemma
<1>17. Place(n, next) \in MadeFrom(Place(c, k)) BY <1>13, <1>15, <1>16 DEF MadeFrom
<1> QED BY <1>4, <1>10, <1>11, <1>17

LEMMA AllMade ==
  ASSUME NEW starts \in Seq(Nat \X Nat), Finished(starts),
         NEW p \in CodePlaces, p[1] \in Reached
  PROVE  MadeFrom(p) # {}
<1>1. Compilable /\ CompilerTypeOK /\ CodeOK(starts) BY DEF Finished
<1> DEFINE All(b) == \A k \in 1..Len(blocks[b]) : MadeFrom(Place(b, k)) # {}
           X == {b \in 1..Len(blocks) : All(b)}
<1>2. ASSUME NEW n \in 1..Len(native), NEW c \in 1..Len(blocks), starts[n] = Place(c, 1)
      PROVE  c \in X
  <2>1. starts[n][2] # 0 BY <1>2 DEF Place
  <2>2. MadeFrom(Place(c, 1)) # {} BY <1>2, <2>1, MadeFirst
  <2> QED BY <2>2, BlockMade
<1>3. ASSUME NEW n \in 1..Len(native), NEW c \in 1..Len(blocks), starts[n] = Place(c, 0)
      PROVE  c \in X
  BY <1>3, PadMade
<1> HIDE DEF All
<1>4. 1 \in X
  <2>1. blockMap[1] \in 1..Len(native) /\ starts[blockMap[1]] = Place(1, 1)
    BY <1>1 DEF CodeOK, MapOK, CompilerTypeOK
  <2>2. 1 \in 1..Len(blocks) BY <1>1, PlacesLemma
  <2>3. PICK n : n = blockMap[1] OBVIOUS
  <2> QED BY <1>2, <2>1, <2>2, <2>3
<1>5. ASSUME NEW b \in X, NEW c \in Successors(b) PROVE c \in X
  <2>1. b \in 1..Len(blocks) OBVIOUS
  <2>2. PICK k \in 1..Len(blocks[b]) :
           \/ c = blocks[b][k].lpad /\ c # NoBlock
           \/ \E i \in DOMAIN blocks[b][k].to : c = blocks[b][k].to[i]
    BY <1>1, <2>1, SuccessorsLemma
  <2>3. PICK q : q = Place(b, k) OBVIOUS
  <2>4. /\ q \in CodePlaces /\ CodeAt(q) = blocks[b][k] /\ NamesExist(CodeAt(q))
        /\ CodeAt(q).lpad # NoBlock => CodeAt(q).op \in Throwing
    <3>1. q \in CodePlaces /\ CodeAt(q) = blocks[b][k] BY <1>1, <2>1, <2>3, CodeLemma
    <3> QED BY <1>1, <3>1, PlaceLemma
  <2>5. PICK r \in MadeFrom(q) : TRUE
    <3>1. MadeFrom(Place(b, k)) # {} BY DEF All
    <3> QED BY <2>3, <3>1
  <2>6. CASE c = CodeAt(q).lpad /\ c # NoBlock
    <3>1. PICK n : n = NativeAt(r).to[2] OBVIOUS
    <3>2. n \in 1..Len(native) /\ starts[n] = Place(c, 0) BY SMTT(60), <2>4, <2>6, <3>1, SitePad
    <3>3. c \in 1..Len(blocks)
      <4>1. c \in 0..Len(blocks) BY <2>4, <2>6 DEF NamesExist
      <4> QED BY <1>1, <2>6, <4>1, PlacesLemma DEF NoBlock
    <3> QED BY <1>3, <3>2, <3>3
  <2>7. ASSUME NEW i \in DOMAIN CodeAt(q).to, c = CodeAt(q).to[i] PROVE c \in X
    <3>1. PICK m, l : MadeIn(starts, q, r, m, l) BY <1>1, MadeLemma
    <3>2. TranslationOK(starts, m, NativeAt(r), q) BY <3>1 DEF MadeIn
    <3>3. CodeAt(q).lpad = NoBlock
      <4> SUFFICES ASSUME CodeAt(q).lpad # NoBlock PROVE FALSE OBVIOUS
      <4>1. Len(CodeAt(q).to) = 0 BY <2>4 DEF NamesExist, Throwing
      <4>2. CodeAt(q).to \in Seq(Nat) BY <1>1, <2>4, PlaceLemma DEF Instruction
      <4>3. CodeAt(q).to = <<>> BY <4>1, <4>2, EmptySeq
      <4>4. DOMAIN CodeAt(q).to = {} BY <4>3
      <4> QED BY <2>7, <4>4
    <3>4. PICK n : n = NativeAt(r).to[i] OBVIOUS
    <3>5. n \in 1..Len(native) /\ starts[n] = Place(c, 1)
      BY <2>7, <3>2, <3>3, <3>4 DEF TranslationOK, Jumps
    <3>6. c \in 1..Len(blocks)
      <4>1. c \in 2..Len(blocks) BY <2>4, <2>7 DEF NamesExist
      <4> QED BY <1>1, <4>1, PlacesLemma
    <3> QED BY <1>2, <3>5, <3>6
  <2> QED BY <2>2, <2>4, <2>6, <2>7
<1> HIDE DEF X
<1>6. Follows(X) BY <1>4, <1>5 DEF Follows
<1>7. p[1] \in X BY <1>1, <1>6, ReachedLemma
<1>8. /\ p = Place(p[1], p[2]) /\ p[2] \in 1..Len(blocks[p[1]]) BY <1>1, PlaceLemma
<1> QED BY <1>7, <1>8 DEF X, All

LEMMA OnlyReached ==
  ASSUME Compilable, CompilerTypeOK, FromEntry(Reached), NEW q \in NativePlaces
  PROVE  NativeAt(q).source[1] \in Reached
<1>1. PICK n \in 1..Len(native) : \E k \in 1..Len(native[n]) : q = Place(n, k)
  BY NativeLemma
<1>2. PICK k \in 1..Len(native[n]) : q = Place(n, k) BY <1>1
<1>3. NativeAt(q) = native[n][k] BY <1>2, NativeLemma
<1> QED BY <1>3 DEF FromEntry, SourcesIn

LEMMA CodeIsFinite ==
  ASSUME Compilable
  PROVE  IsFiniteSet(CodePlaces)
<1> DEFINE L == Len(blocks)
           Of(b) == {Place(b, k) : k \in 1..Len(blocks[b])}
           Blocks == {Of(b) : b \in 1..L}
<1>1. L \in Nat /\ \A b \in 1..L : Len(blocks[b]) \in Nat BY PlacesLemma
<1>2. \A n \in Nat : IsFiniteSet(1..n)
  <2>1. \A n \in Nat : n \in Int /\ 1 \in Int OBVIOUS
  <2> QED BY <2>1, FS_Interval
<1>3. ASSUME NEW b \in 1..L PROVE IsFiniteSet(Of(b))
  <2>1. PICK f : f = [k \in 1..Len(blocks[b]) |-> Place(b, k)] OBVIOUS
  <2>2. /\ f \in [1..Len(blocks[b]) -> Of(b)]
        /\ \A q \in Of(b) : \E k \in 1..Len(blocks[b]) : f[k] = q
    BY <2>1
  <2>3. f \in Surjection(1..Len(blocks[b]), Of(b)) BY <2>2, Fun_IsSurj
  <2> QED BY <1>1, <1>2, <2>3, FS_Surjection
<1> HIDE DEF Of
<1>4. IsFiniteSet(Blocks)
  <2>1. PICK f : f = [b \in 1..L |-> Of(b)] OBVIOUS
  <2>2. f \in [1..L -> Blocks] /\ \A T \in Blocks : \E b \in 1..L : f[b] = T BY <2>1
  <2>3. f \in Surjection(1..L, Blocks) BY <2>2, Fun_IsSurj
  <2> QED BY <1>1, <1>2, <2>3, FS_Surjection
<1>5. \A T \in Blocks : IsFiniteSet(T) BY <1>3
<1>6. IsFiniteSet(UNION Blocks)
  <2> HIDE DEF Blocks
  <2> QED BY <1>4, <1>5, FS_UNION
<1>7. CodePlaces \subseteq UNION Blocks
  <2>1. ASSUME NEW p \in CodePlaces PROVE p \in UNION Blocks
    <3>1. /\ p = Place(p[1], p[2]) /\ p[1] \in 1..L /\ p[2] \in 1..Len(blocks[p[1]])
      BY PlaceLemma
    <3>2. p \in Of(p[1]) BY <3>1 DEF Of
    <3> QED BY <3>1, <3>2
  <2> QED BY <2>1
<1> QED BY <1>6, <1>7, FS_Subset

(* Every reached place is made once, or once for each site of its pad.     *)
LEMMA PadsCounted ==
  ASSUME NEW starts \in Seq(Nat \X Nat), Finished(starts), FromEntry(Reached),
         NEW p \in CodePlaces, p[1] \in Reached, IsPad(p[1]),
         NEW S, S = {s \in CodePlaces : s[1] \in Reached /\ CodeAt(s).lpad = p[1]}
  PROVE  Cardinality(MadeFrom(p)) = Cardinality(S)
<1> DEFINE M == MadeFrom(p)
           f == [q \in M |-> native[q[1]][1].source]
<1>1. Compilable /\ CompilerTypeOK /\ CodeOK(starts) BY DEF Finished
<1>2. p = Place(p[1], p[2]) /\ p[1] \in 1..Len(blocks) /\ p[2] \in 1..Len(blocks[p[1]])
  BY <1>1, PlaceLemma
<1>3. p[1] # NoBlock BY <1>1, <1>2, PlacesLemma DEF NoBlock
<1>4. ASSUME NEW q \in M
      PROVE  \E n \in 1..Len(native) :
                /\ q = Place(n, p[2] + 1) /\ q[1] = n /\ starts[n] = Place(p[1], 0)
                /\ native[n][1].source \in S
                /\ \E r \in MadeFrom(native[n][1].source) : NativeAt(r).to[2] = n
  <2>1. PICK n, k : MadeIn(starts, p, q, n, k) BY <1>1, MadeLemma
  <2>2. /\ n \in 1..Len(native) /\ k \in 1..Len(native[n]) /\ q = Place(n, k) /\ q[1] = n
        /\ starts[n][1] = p[1] /\ starts[n][2] + k - 1 = p[2]
    BY <2>1 DEF MadeIn
  <2>3. starts[n][2] = 0 /\ starts[n] = <<starts[n][1], starts[n][2]>>
    BY <1>1, <2>2, StartsLemma DEF CodeOK
  <2>4. k = p[2] + 1
    <3>1. k \in Nat BY <1>1, <2>2, NativeLemma
    <3>2. 0 + k - 1 = p[2] BY <2>2, <2>3
    <3>3. p[2] \in Nat BY <1>1, <1>2, PlacesLemma
    <3>4. PICK x : x = p[2] OBVIOUS
    <3>5. k \in Nat /\ x \in Nat /\ 0 + k - 1 = x BY <3>1, <3>2, <3>3, <3>4
    <3>6. k = x + 1 BY ONLY <3>5
    <3> QED BY <3>4, <3>6
  <2>5. native[n] # <<>> /\ 1 \in 1..Len(native[n]) BY <1>1, <2>2, AllClosed DEF Finished
  <2>6. InstructionOK(starts, n, 1) BY <1>1, <2>2, <2>5 DEF CodeOK, NativeOK
  <2>7. PadOK(starts, n, native[n][1]) BY <2>3, <2>6 DEF InstructionOK
  <2>8. PICK s : s = native[n][1].source OBVIOUS
  <2>9. /\ s \in CodePlaces /\ CodeAt(s).lpad = p[1]
        /\ \E r \in MadeFrom(s) : NativeAt(r).to[2] = n
    BY <2>2, <2>7, <2>8 DEF PadOK
  <2>10. PICK r \in MadeFrom(s) : NativeAt(r).to[2] = n BY <2>9
  <2>11. s[1] \in Reached
    <3>1. r \in NativePlaces /\ NativeAt(r).source = s BY DEF MadeFrom
    <3> QED BY <1>1, <3>1, OnlyReached
  <2>12. s \in S BY <2>9, <2>11
  <2> QED BY <2>2, <2>3, <2>4, <2>8, <2>9, <2>12 DEF Place
<1>5. f \in [M -> S]
  <2>1. \A q \in M : native[q[1]][1].source \in S BY <1>4
  <2> QED BY <2>1
<1>6. ASSUME NEW q \in M, NEW r \in M, f[q] = f[r] PROVE q = r
  <2>1. PICK n \in 1..Len(native) :
           /\ q = Place(n, p[2] + 1) /\ q[1] = n /\ native[n][1].source \in S
           /\ \E v \in MadeFrom(native[n][1].source) : NativeAt(v).to[2] = n
    BY <1>4
  <2>2. PICK m \in 1..Len(native) :
           /\ r = Place(m, p[2] + 1) /\ r[1] = m
           /\ \E v \in MadeFrom(native[m][1].source) : NativeAt(v).to[2] = m
    BY <1>4
  <2>3. PICK s : s = native[n][1].source OBVIOUS
  <2>4. s = native[m][1].source BY <1>6, <2>1, <2>2, <2>3
  <2>5. PICK v \in MadeFrom(s) : NativeAt(v).to[2] = n BY <2>1, <2>3
  <2>6. PICK w \in MadeFrom(s) : NativeAt(w).to[2] = m BY <2>2, <2>4
  <2>7. s \in CodePlaces /\ CodeAt(s).lpad = p[1] BY <2>1, <2>3
  <2>8. ~ IsPad(s[1]) BY <1>1, <1>3, <2>7, PlaceLemma
  <2>9. v = w BY <1>1, <2>5, <2>6, <2>8, MadeOnce
  <2> QED BY <2>1, <2>2, <2>5, <2>6, <2>9
<1>7. ASSUME NEW s \in S PROVE \E q \in M : f[q] = s
  <2>1. s \in CodePlaces /\ s[1] \in Reached /\ CodeAt(s).lpad = p[1] OBVIOUS
  <2>2. PICK r \in MadeFrom(s) : TRUE BY <2>1, AllMade
  <2>3. PICK n : n = NativeAt(r).to[2] OBVIOUS
  <2>4. n \in 1..Len(native) /\ starts[n] = Place(p[1], 0) /\ native[n][1].source = s
    BY <1>3, <2>1, <2>2, <2>3, SitePad
  <2>5. PICK c, k : c = p[1] /\ k = p[2] OBVIOUS
  <2>6. Place(n, k + 1) \in MadeFrom(Place(c, k)) BY <1>2, <2>4, <2>5, PadMade
  <2>7. PICK q : q = Place(n, k + 1) OBVIOUS
  <2>8. q \in M /\ q[1] = n BY <1>2, <2>5, <2>6, <2>7 DEF Place
  <2>9. f[q] = s BY <2>4, <2>8
  <2> QED BY <2>8, <2>9
<1> HIDE DEF M, f
<1>8. f \in Bijection(M, S) BY <1>5, <1>6, <1>7, Fun_IsBij
<1>9. IsFiniteSet(S)
  <2>1. S \subseteq CodePlaces OBVIOUS
  <2> QED BY <1>1, <2>1, CodeIsFinite, FS_Subset
<1>10. ExistsBijection(S, M)
  <2>1. ExistsBijection(M, S) BY <1>8 DEF ExistsBijection
  <2> QED BY <2>1, Fun_ExistsBijSymmetric
<1>11. Cardinality(M) = Cardinality(S) BY <1>9, <1>10, FS_Bijection
<1> QED BY <1>11 DEF M

LEMMA IsCompiledOnce ==
  ASSUME CompilerInv, ReachedInv
  PROVE  CompiledOnce
<1> SUFFICES ASSUME Done PROVE CompiledOnce BY DEF CompiledOnce
<1>1. /\ Compilable /\ CompilerTypeOK /\ MachineOK
      /\ \E starts \in Seq(Nat \X Nat) : CodeOK(starts)
  BY DEF CompilerInv, Done
<1>2. PICK starts \in Seq(Nat \X Nat) : CodeOK(starts) BY <1>1
<1>3. Finished(starts) BY <1>1, <1>2 DEF MachineOK, Finished
<1>4. FromEntry(Reached) BY <1>1, ReachedLemma DEF ReachedInv, Done
<1>5. ASSUME NEW p \in CodePlaces, p[1] \notin Reached
      PROVE  Cardinality(MadeFrom(p)) = 0
  <2>1. ASSUME NEW q \in MadeFrom(p) PROVE FALSE
    <3>1. q \in NativePlaces /\ NativeAt(q).source = p BY DEF MadeFrom
    <3> QED BY <1>1, <1>4, <1>5, <3>1, OnlyReached
  <2>2. MadeFrom(p) = {} BY <2>1
  <2> QED BY <2>2, FS_EmptySet
<1>6. ASSUME NEW p \in CodePlaces, p[1] \in Reached, ~ IsPad(p[1])
      PROVE  Cardinality(MadeFrom(p)) = 1
  <2>1. PICK q : q \in MadeFrom(p) BY <1>3, <1>6, AllMade
  <2>2. \A r \in MadeFrom(p) : r = q BY <1>1, <1>2, <1>6, <2>1, MadeOnce
  <2>3. MadeFrom(p) = {q} BY <2>1, <2>2
  <2> QED BY <2>3, FS_Singleton
<1> DEFINE ReachedCode  == {p \in CodePlaces : p[1] \in Reached}
           LeadsTo(pad) == {p \in ReachedCode : CodeAt(p).lpad = pad}
<1>7. ASSUME NEW p \in CodePlaces, p[1] \in Reached, IsPad(p[1])
      PROVE  Cardinality(MadeFrom(p)) = Cardinality(LeadsTo(p[1]))
  <2>1. PICK S : S = LeadsTo(p[1]) OBVIOUS
  <2>2. S = {s \in CodePlaces : s[1] \in Reached /\ CodeAt(s).lpad = p[1]} BY <2>1
  <2>3. Cardinality(MadeFrom(p)) = Cardinality(S)
    BY <1>3, <1>4, <1>7, <2>2, PadsCounted
  <2> QED BY <2>1, <2>3
<1>8. \A p \in CodePlaces : p \in ReachedCode <=> p[1] \in Reached OBVIOUS
<1> QED BY <1>5, <1>6, <1>7, <1>8 DEF CompiledOnce

(* Every instruction that can be reached is compiled, once or, in a landing *)
(* pad, once for each instruction that leads there; nothing else is.        *)
THEOREM NativeIsComplete == CompilerSpec => []CompiledOnce
<1>1. CompilerInv /\ ReachedInv => CompiledOnce BY IsCompiledOnce
<1> QED BY <1>1, CodeIsTranslated, ReachedIsInvariant, PTL
=============================================================================
