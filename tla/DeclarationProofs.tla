-------------------------- MODULE DeclarationProofs --------------------------
(***************************************************************************)
(* Proofs about Declarations, for both drivers and whatever is declared:   *)
(* names are unambiguous, a global variable is initialized once, and the   *)
(* order in which the queues are worked off is right.                      *)
(***************************************************************************)
EXTENDS Declarations, SequenceLemmas

(* What is to be processed is a declaration in a namespace that exists.    *)
TodoOK ==
    /\ Root \in DOMAIN namespaces
    /\ DOMAIN namespaces \subseteq Seq(STRING)
    /\ todo \in Seq([ns : DOMAIN namespaces, decl : Nodes])

NamesInv == TodoOK /\ NamesAreUnambiguous

-----------------------------------------------------------------------------
(* Paths. *)

LEMMA PutDomain ==
  ASSUME NEW f, NEW k, NEW v
  PROVE  DOMAIN Put(f, k, v) = DOMAIN f \cup {k}
BY DEF Put

(* The parent of a path is what is left without its last identifier. *)
LEMMA FrontOfPath ==
  ASSUME NEW n \in Seq(STRING), NEW ids \in Seq(STRING), ids # <<>>
  PROVE  /\ n \o ids \in Seq(STRING)
         /\ n \o ids # <<>>
         /\ Len(ids) = 1 => Front(n \o ids) = n
         /\ Len(ids) # 1 => /\ Len(ids) - 1 \in 1..(Len(ids) - 1)
                            /\ Front(n \o ids) = n \o SubSeq(ids, 1, Len(ids) - 1)
<1> DEFINE p == n \o ids
<1>1. Len(ids) \in Nat \ {0} /\ Len(n) \in Nat /\ p \in Seq(STRING)
      /\ Len(p) = Len(n) + Len(ids)
  OBVIOUS
<1>2. p # <<>> BY <1>1
<1>3. /\ Front(p) \in Seq(STRING) /\ Len(Front(p)) = Len(p) - 1
      /\ \A i \in 1..(Len(p) - 1) : Front(p)[i] = p[i]
  BY <1>1, <1>2, FrontLemma
<1>4. CASE Len(ids) = 1
  <2>1. Len(Front(p)) = Len(n) BY <1>1, <1>3, <1>4
  <2>2. \A i \in 1..Len(n) : Front(p)[i] = n[i] BY <1>1, <1>3, <1>4
  <2>3. Front(p) = n BY <1>3, <2>1, <2>2, SeqEqual
  <2> QED BY <1>1, <1>2, <1>4, <2>3
<1>5. CASE Len(ids) # 1
  <2> DEFINE m == SubSeq(ids, 1, Len(ids) - 1)
  <2>1. /\ m \in Seq(STRING) /\ Len(m) = Len(ids) - 1
        /\ \A i \in 1..Len(m) : m[i] = ids[i]
    BY FrontLemma DEF Front
  <2>2. n \o m \in Seq(STRING) /\ Len(n \o m) = Len(p) - 1 BY <1>1, <2>1
  <2>3. \A i \in 1..(Len(p) - 1) : Front(p)[i] = (n \o m)[i]
    BY <1>1, <1>3, <2>1
  <2>4. Front(p) = n \o m BY <1>3, <2>2, <2>3, SeqEqual
  <2>5. Len(ids) - 1 \in 1..(Len(ids) - 1)
    <3>1. \A k \in Nat \ {0} : k # 1 => k - 1 \in 1..(k - 1) OBVIOUS
    <3>2. Len(ids) \in Nat \ {0} BY <1>1
    <3> QED BY <1>5, <3>1, <3>2
  <2> QED BY <1>1, <1>2, <1>5, <2>4, <2>5
<1> QED BY <1>4, <1>5

(* What is declared next *)
LEMMA HereLemma ==
  ASSUME TodoOK, todo # <<>>
  PROVE  /\ here.ns \in DOMAIN namespaces /\ here.ns \in Seq(STRING)
         /\ here.decl \in Nodes /\ here.decl.members \in Seq(Nodes)
         /\ name.ids \in Seq(STRING)
<1>1. here \in [ns : DOMAIN namespaces, decl : Nodes]
  BY HeadTailProperties DEF TodoOK, here
<1>2. here.ns \in DOMAIN namespaces /\ here.decl \in Nodes BY <1>1
<1> QED BY <1>2, DriverAssumption DEF TodoOK, name

(* findParentFor() finds the parent of what is declared. *)
LEMMA ParentExists ==
  ASSUME TodoOK, todo # <<>>, HasParent
  PROVE  /\ path \in Seq(STRING)
         /\ path # Root
         /\ Front(path) \in DOMAIN namespaces
<1>2. here.ns \in DOMAIN namespaces /\ here.ns \in Seq(STRING) BY HereLemma
<1>3. name.ids \in Seq(STRING) /\ name.ids # <<>> BY HereLemma DEF HasParent
<1>4. path = here.ns \o name.ids BY DEF path
<1>5. CASE Len(name.ids) = 1
  BY <1>2, <1>3, <1>4, <1>5, FrontOfPath DEF Root
<1>6. CASE Len(name.ids) # 1
  <2> DEFINE k == Len(name.ids) - 1
  <2>1. /\ k \in 1..(Len(name.ids) - 1)
        /\ Front(path) = here.ns \o SubSeq(name.ids, 1, k)
    BY <1>2, <1>3, <1>4, <1>6, FrontOfPath
  <2>2. here.ns \o SubSeq(name.ids, 1, k) \in DOMAIN namespaces
    BY <2>1 DEF HasParent, MissingParents
  <2> QED BY <1>2, <1>3, <1>4, <2>1, <2>2, FrontOfPath DEF Root
<1> QED BY <1>5, <1>6

(* The members of a declaration come first, in the namespace it is. *)
LEMMA AdvanceLemma ==
  ASSUME TodoOK, todo # <<>>, NEW members \in Seq(Nodes),
         Advance(members),
         DOMAIN namespaces \subseteq DOMAIN namespaces',
         members = <<>> \/ path \in DOMAIN namespaces'
  PROVE  todo' \in Seq([ns : DOMAIN namespaces', decl : Nodes])
<1> DEFINE new == [i \in 1..Len(members) |-> [ns |-> path, decl |-> members[i]]]
           T   == [ns : DOMAIN namespaces', decl : Nodes]
<1>1. todo' = new \o Tail(todo) BY DEF Advance
<1>2. Tail(todo) \in Seq([ns : DOMAIN namespaces, decl : Nodes])
  BY HeadTailProperties DEF TodoOK
<1>3. [ns : DOMAIN namespaces, decl : Nodes] \subseteq T OBVIOUS
<1>4. Tail(todo) \in Seq(T) BY <1>2, <1>3, SeqMonotonic
<1>5. Len(members) \in Nat OBVIOUS
<1>6. \A i \in 1..Len(members) : members[i] \in Nodes OBVIOUS
<1>7. \A i \in 1..Len(members) : new[i] \in T
  <2> SUFFICES ASSUME NEW i \in 1..Len(members) PROVE new[i] \in T OBVIOUS
  <2>1. members # <<>> BY <1>5
  <2> QED BY <1>6, <2>1
<1>8. new \in Seq(T) BY <1>5, <1>7, IsASeq
<1> QED BY <1>1, <1>4, <1>8

-----------------------------------------------------------------------------
(* Names. *)

LEMMA NamesInit == Init => NamesInv
<1> SUFFICES ASSUME Init PROVE NamesInv OBVIOUS
<1>1. /\ DOMAIN namespaces = {Root}
      /\ DOMAIN classes = {} /\ DOMAIN globals = {} /\ DOMAIN groups = {}
  BY DEF Init
<1>2. Root \in Seq(STRING) BY EmptySeq DEF Root
<1>3. todo \in Seq([ns : DOMAIN namespaces, decl : Nodes]) BY EmptySeq DEF Init
<1> QED BY <1>1, <1>2, <1>3 DEF NamesInv, TodoOK, NamesAreUnambiguous

(* A step that adds no symbol *)
LEMMA SameNames ==
  ASSUME NamesInv, UNCHANGED <<namespaces, classes, globals>>,
         DOMAIN groups' = DOMAIN groups,
         todo' \in Seq([ns : DOMAIN namespaces, decl : Nodes])
  PROVE  NamesInv'
BY DEF NamesInv, TodoOK, NamesAreUnambiguous, Root

LEMMA RejectLemma ==
  ASSUME NamesInv, todo # <<>>, NEW reports, Reject(reports)
  PROVE  NamesInv'
<1>1. Advance(<<>>) /\ UNCHANGED symbolVars BY DEF Reject
<1>2. <<>> \in Seq(Nodes) BY EmptySeq
<1>3. todo' \in Seq([ns : DOMAIN namespaces', decl : Nodes])
  BY <1>1, <1>2, AdvanceLemma DEF NamesInv, symbolVars
<1> QED BY <1>1, <1>3, SameNames DEF symbolVars

LEMMA AddNamespaceLemma ==
  ASSUME NamesInv, AddNamespace
  PROVE  NamesInv'
<1>1. todo # <<>> /\ HasParent /\ Advance(here.decl.members)
      /\ path \notin DOMAIN classes
      /\ UNCHANGED <<classes, globals, groups>>
  BY DEF AddNamespace, Processing
<1>2. DOMAIN namespaces' = DOMAIN namespaces \cup {path}
  BY PutDomain DEF AddNamespace
<1>3. path \in Seq(STRING) /\ Front(path) \in DOMAIN namespaces
  BY <1>1, ParentExists DEF NamesInv
<1>5. here.decl.members \in Seq(Nodes) BY <1>1, HereLemma DEF NamesInv
<1>6. todo' \in Seq([ns : DOMAIN namespaces', decl : Nodes])
  BY <1>1, <1>2, <1>5, AdvanceLemma DEF NamesInv
<1> QED BY <1>1, <1>2, <1>3, <1>6 DEF NamesInv, TodoOK, NamesAreUnambiguous, Root

(* A step that adds a class, a global variable or a group of functions *)
LEMMA AddSymbolLemma ==
  ASSUME NamesInv, todo # <<>>, HasParent, Advance(<<>>),
         UNCHANGED namespaces,
         DOMAIN classes' \subseteq DOMAIN classes \cup {path},
         DOMAIN globals' \subseteq DOMAIN globals \cup {path},
         DOMAIN groups' \subseteq DOMAIN groups \cup {path},
         path \in DOMAIN classes' => path \notin DOMAIN namespaces,
         path \in DOMAIN globals' => path \notin DOMAIN groups'
  PROVE  NamesInv'
<1>1. Front(path) \in DOMAIN namespaces BY ParentExists DEF NamesInv
<1>2. <<>> \in Seq(Nodes) BY EmptySeq
<1>3. todo' \in Seq([ns : DOMAIN namespaces', decl : Nodes])
  BY <1>2, AdvanceLemma DEF NamesInv
<1> QED BY <1>1, <1>3 DEF NamesInv, TodoOK, NamesAreUnambiguous, Root

LEMMA DeclareLemma ==
  ASSUME NamesInv, Declare
  PROVE  NamesInv'
<1>1. ASSUME NEW kinds, Processing(kinds) PROVE todo # <<>>
  BY <1>1 DEF Processing
<1>2. CASE RejectName BY <1>1, <1>2, RejectLemma DEF RejectName
<1>3. CASE ProcessConstant \/ ClashWithDeletedTree
  BY <1>3, SameNames
  DEF ProcessConstant, ClashWithDeletedTree, End, treeVars, symbolVars, NamesInv, TodoOK
<1>4. CASE AddNamespace BY <1>4, AddNamespaceLemma
<1>5. CASE ReopenNamespace
  <2>1. todo # <<>> /\ path \in DOMAIN namespaces /\ UNCHANGED symbolVars
        /\ Advance(here.decl.members)
    BY <1>1, <1>5 DEF ReopenNamespace
  <2>3. here.decl.members \in Seq(Nodes) BY <2>1, HereLemma DEF NamesInv
  <2>4. todo' \in Seq([ns : DOMAIN namespaces', decl : Nodes])
    BY <2>1, <2>3, AdvanceLemma DEF NamesInv, symbolVars
  <2> QED BY <2>1, <2>4, SameNames DEF symbolVars
<1>6. CASE RejectNamespace BY <1>1, <1>6, RejectLemma DEF RejectNamespace
<1>7. CASE AddClass
  <2>1. /\ todo # <<>> /\ HasParent /\ Advance(<<>>)
        /\ path \notin DOMAIN namespaces
        /\ UNCHANGED <<namespaces, globals, groups>>
    BY <1>1, <1>7 DEF AddClass, ClassClash
  <2>2. DOMAIN classes' = DOMAIN classes \cup {path}
    BY <1>7, PutDomain DEF AddClass
  <2>3. path \in DOMAIN globals' => path \notin DOMAIN groups'
    BY <2>1 DEF NamesInv, NamesAreUnambiguous
  <2> QED BY <2>1, <2>2, <2>3, AddSymbolLemma
<1>8. CASE RejectClass BY <1>1, <1>8, RejectLemma DEF RejectClass
<1>9. CASE AddGlobalVariable
  <2>1. /\ todo # <<>> /\ HasParent /\ Advance(<<>>)
        /\ path \notin DOMAIN groups
        /\ UNCHANGED <<namespaces, classes, groups>>
    BY <1>1, <1>9 DEF AddGlobalVariable
  <2>2. DOMAIN globals' = DOMAIN globals \cup {path}
    BY <1>9, PutDomain DEF AddGlobalVariable
  <2>3. path \in DOMAIN classes' => path \notin DOMAIN namespaces
    BY <2>1 DEF NamesInv, NamesAreUnambiguous
  <2> QED BY <2>1, <2>2, <2>3, AddSymbolLemma
<1>10. CASE RejectGlobalVariable
  BY <1>1, <1>10, RejectLemma DEF RejectGlobalVariable
<1>11. CASE AddFunction
  <2>1. /\ todo # <<>> /\ HasParent /\ Advance(<<>>)
        /\ path \notin DOMAIN globals
        /\ UNCHANGED <<namespaces, classes, globals>>
    BY <1>1, <1>11 DEF AddFunction
  <2>2. DOMAIN groups' = DOMAIN groups \cup {path}
    BY <1>11, PutDomain DEF AddFunction
  <2>3. path \in DOMAIN classes' => path \notin DOMAIN namespaces
    BY <2>1 DEF NamesInv, NamesAreUnambiguous
  <2> QED BY <2>1, <2>2, <2>3, AddSymbolLemma
<1>12. CASE RejectFunction BY <1>1, <1>12, RejectLemma DEF RejectFunction
<1>13. CASE FinishDeclaration
  BY <1>13, SameNames
  DEF FinishDeclaration, treeVars, symbolVars, NamesInv, TodoOK
<1> QED
  BY <1>2, <1>3, <1>4, <1>5, <1>6, <1>7, <1>8, <1>9, <1>10, <1>11, <1>12, <1>13
  DEF Declare

LEMMA PendingLemma ==
  ASSUME NamesInv, processPendingDeclarations
  PROVE  NamesInv'
<1> USE DEF treeVars, symbolVars
<1>1. CASE TakeQueue BY <1>1, SameNames DEF TakeQueue, NamesInv, TodoOK
<1>2. CASE ResolveGlobalVariable
  <2>1. UNCHANGED <<treeVars, namespaces, classes, globals, groups>>
    BY <1>2 DEF ResolveGlobalVariable, InPass2
  <2> QED BY <2>1, SameNames DEF NamesInv, TodoOK
<1>3. CASE ResolveOverload
  <2>1. UNCHANGED <<treeVars, namespaces, classes, globals>>
        /\ DOMAIN groups' = DOMAIN groups
    BY <1>3 DEF ResolveOverload, InPass2
  <2> QED BY SMTT(30), <2>1, SameNames DEF NamesInv, TodoOK
<1>4. CASE FinishGroup
  BY SMTT(30), <1>4, SameNames DEF FinishGroup, InPass2, NamesInv, TodoOK
<1>5. CASE AnalyzeFunction
  <2>1. UNCHANGED <<treeVars, namespaces, classes, globals>>
        /\ DOMAIN groups' = DOMAIN groups
    BY <1>5 DEF AnalyzeFunction, InPass2
  <2> QED BY <2>1, SameNames DEF NamesInv, TodoOK
<1>6. CASE FinishPending
  BY <1>6, SameNames DEF FinishPending, NamesInv, TodoOK
<1> QED BY <1>1, <1>2, <1>3, <1>4, <1>5, <1>6 DEF processPendingDeclarations

LEMMA NamesNext == NamesInv /\ [Next]_vars => NamesInv'
<1> SUFFICES ASSUME NamesInv, [Next]_vars PROVE NamesInv' OBVIOUS
<1>1. CASE UNCHANGED <<treeVars, symbolVars>>
  BY <1>1, SameNames DEF treeVars, symbolVars, NamesInv, TodoOK
<1>2. CASE ReadDeclaration
  <2>1. UNCHANGED symbolVars BY <1>2 DEF ReadDeclaration
  <2>2. PICK d \in Input : todo' = <<[ns |-> Root, decl |-> d]>>
    BY <1>2 DEF ReadDeclaration
  <2>3. [ns |-> Root, decl |-> d] \in [ns : DOMAIN namespaces, decl : Nodes]
    BY DriverAssumption DEF NamesInv, TodoOK
  <2> QED BY <2>1, <2>2, <2>3, SameNames DEF symbolVars
<1>3. CASE Declare BY <1>3, DeclareLemma
<1>4. CASE processPendingDeclarations BY <1>4, PendingLemma
<1>5. CASE EndOfScript \/ EndOfSession
  BY <1>1, <1>5 DEF EndOfScript, EndOfSession
<1>6. CASE Command \/ Qinit
  <2>1. \A body, to : ExecuteCommand(body, to) => UNCHANGED <<treeVars, symbolVars>>
    BY DEF ExecuteCommand
  <2> QED BY <1>1, <1>6, <2>1 DEF Command, Qinit
<1>7. UNCHANGED vars => UNCHANGED <<treeVars, symbolVars>> BY DEF vars
<1> QED BY <1>1, <1>2, <1>3, <1>4, <1>5, <1>6, <1>7 DEF Next

(* Whatever is declared, in whatever order and with either driver, a name  *)
(* never stands for two things, and everything is in a namespace.          *)
THEOREM NamesAreAlwaysUnambiguous == Spec => []NamesAreUnambiguous
<1>1. Init => NamesInv BY NamesInit
<1>2. NamesInv /\ [Next]_vars => NamesInv' BY NamesNext
<1>3. NamesInv => NamesAreUnambiguous BY DEF NamesInv
<1> QED BY <1>1, <1>2, <1>3, PTL DEF Spec

-----------------------------------------------------------------------------
(* Initialization. *)

InitInv ==
    /\ initialized \in Seq(DOMAIN globalTypes)
    /\ initializers \in Seq(DOMAIN globalTypes)
    /\ InitializedOnce

(* A step that resolves no global variable and executes nothing *)
LEMMA SameInitializers ==
  ASSUME InitInv, UNCHANGED <<globalTypes, initializers, initialized>>,
         status = "running"
  PROVE  InitInv'
BY DEF InitInv, InitializedOnce

LEMMA ResolveLemma ==
  ASSUME InitInv, ResolveGlobalVariable
  PROVE  InitInv'
<1>1. /\ status = "running" /\ UNCHANGED initialized
      /\ \/ UNCHANGED <<globalTypes, initializers>>
         \/ \E p, type :
              /\ p \notin DOMAIN globalTypes
              /\ globalTypes' = Put(globalTypes, p, type)
              /\ \/ initializers' = Append(initializers, p)
                 \/ UNCHANGED initializers /\ status' = "notImplemented"
  BY DEF ResolveGlobalVariable, InPass2, runVars
<1>2. CASE UNCHANGED <<globalTypes, initializers>> BY <1>1, <1>2, SameInitializers
<1>3. CASE \E p, type :
              /\ p \notin DOMAIN globalTypes
              /\ globalTypes' = Put(globalTypes, p, type)
              /\ \/ initializers' = Append(initializers, p)
                 \/ UNCHANGED initializers /\ status' = "notImplemented"
  <2>1. PICK p, type :
              /\ p \notin DOMAIN globalTypes
              /\ globalTypes' = Put(globalTypes, p, type)
              /\ \/ initializers' = Append(initializers, p)
                 \/ UNCHANGED initializers /\ status' = "notImplemented"
    BY <1>3
  <2> DEFINE S == DOMAIN globalTypes
             T == S \cup {p}
             old == initialized \o initializers
             new == initialized \o Append(initializers, p)
  <2>2. DOMAIN globalTypes' = T BY <2>1, PutDomain
  <2>3. initialized \in Seq(T) /\ initializers \in Seq(T)
    <3>1. S \subseteq T OBVIOUS
    <3> QED BY <3>1, SeqMonotonic DEF InitInv
  <2>4. CASE UNCHANGED initializers /\ status' = "notImplemented"
    BY <1>1, <2>2, <2>3, <2>4 DEF InitInv, InitializedOnce
  <2>5. CASE initializers' = Append(initializers, p)
    <3>1. Append(initializers, p) \in Seq(T) BY <2>3, AppendProperties
    <3>2. old \in Seq(T) /\ new \in Seq(T) BY <2>3, <3>1, ConcatProperties
    <3>3. Len(new) = Len(old) + 1 BY <2>3
    <3>4. \A i \in 1..Len(old) : new[i] = old[i] BY <2>3
    <3>5. new[Len(old) + 1] = p BY <2>3
    <3>6. IsInjective(old) /\ ToSet(old) = S
      BY <1>1 DEF InitInv, InitializedOnce
    <3> HIDE DEF old, new
    <3>7. ToSet(new) = T /\ IsInjective(new)
      BY <2>1, <3>2, <3>3, <3>4, <3>5, <3>6, ExtendLemma
    <3> QED BY <1>1, <2>2, <2>3, <2>5, <3>1, <3>7 DEF InitInv, InitializedOnce, new
  <2> QED BY <2>1, <2>4, <2>5
<1> QED BY <1>1, <1>2, <1>3

LEMMA ExecuteLemma ==
  ASSUME InitInv, status = "running", NEW body, NEW to, ExecuteCommand(body, to)
  PROVE  InitInv'
<1>1. UNCHANGED globalTypes BY DEF ExecuteCommand, symbolVars
<1>2. \/ UNCHANGED <<initializers, initialized>>
      \/ initializers' = <<>> /\ initialized' = initialized \o initializers
  BY DEF ExecuteCommand, Execute, LeftInitializers
<1>3. CASE UNCHANGED <<initializers, initialized>>
  BY <1>1, <1>3, SameInitializers
<1>4. CASE initializers' = <<>> /\ initialized' = initialized \o initializers
  <2>1. initialized' \in Seq(DOMAIN globalTypes)
    BY <1>4, ConcatProperties DEF InitInv
  <2>2. initializers' \in Seq(DOMAIN globalTypes) BY <1>4, EmptySeq
  <2>3. initialized' \o initializers' = initialized \o initializers
    BY <1>4, <2>1, ConcatEmptySeq
  <2> QED BY <1>1, <2>1, <2>2, <2>3 DEF InitInv, InitializedOnce
<1> QED BY <1>2, <1>3, <1>4

(* A declaration becomes a symbol without a run-time object. *)
LEMMA DeclareInitializers ==
  ASSUME Declare
  PROVE  /\ status = "running"
         /\ UNCHANGED <<globalTypes, initializers, initialized>>
<1> USE DEF Processing, Advance, Reject, symbolVars, queueVars, runVars
<1>1. CASE RejectName BY <1>1 DEF RejectName
<1>2. CASE ProcessConstant \/ ClashWithDeletedTree
  BY <1>2 DEF ProcessConstant, ClashWithDeletedTree, End
<1>3. CASE AddNamespace BY <1>3 DEF AddNamespace
<1>4. CASE ReopenNamespace BY <1>4 DEF ReopenNamespace
<1>5. CASE RejectNamespace BY <1>5 DEF RejectNamespace
<1>6. CASE AddClass BY <1>6 DEF AddClass
<1>7. CASE RejectClass BY <1>7 DEF RejectClass
<1>8. CASE AddGlobalVariable BY <1>8 DEF AddGlobalVariable, TypesWhenDeclared
<1>9. CASE RejectGlobalVariable BY <1>9 DEF RejectGlobalVariable
<1>10. CASE AddFunction BY <1>10 DEF AddFunction
<1>11. CASE RejectFunction BY <1>11 DEF RejectFunction
<1>12. CASE FinishDeclaration BY <1>12 DEF FinishDeclaration, Drive
<1> QED
  BY <1>1, <1>2, <1>3, <1>4, <1>5, <1>6, <1>7, <1>8, <1>9, <1>10, <1>11, <1>12
  DEF Declare

LEMMA InitNext == InitInv /\ [Next]_vars => InitInv'
<1> SUFFICES ASSUME InitInv, [Next]_vars PROVE InitInv' OBVIOUS
<1> USE DEF symbolVars, queueVars, runVars
<1>1. CASE Declare BY <1>1, DeclareInitializers, SameInitializers
<1>2. CASE ResolveGlobalVariable BY <1>2, ResolveLemma
<1>3. CASE TakeQueue BY <1>3, SameInitializers DEF TakeQueue
<1>4. CASE ResolveOverload
  <2>1. status = "running" /\ UNCHANGED <<globalTypes, initializers, initialized>>
    BY <1>4 DEF ResolveOverload, InPass2
  <2> QED BY SMTT(30), <2>1, SameInitializers
<1>5. CASE FinishGroup BY SMTT(30), <1>5, SameInitializers DEF FinishGroup, InPass2
<1>6. CASE AnalyzeFunction
  <2>1. status = "running" /\ UNCHANGED <<globalTypes, initializers, initialized>>
    BY <1>6 DEF AnalyzeFunction, InPass2
  <2> QED BY <2>1, SameInitializers
<1>7. CASE FinishPending BY <1>7, SameInitializers DEF FinishPending, Drive
<1>8. CASE ReadDeclaration BY <1>8, SameInitializers DEF ReadDeclaration, Drive
<1>9. CASE EndOfScript BY <1>9, SameInitializers DEF EndOfScript, Drive
<1>10. CASE EndOfSession BY <1>10, SameInitializers DEF EndOfSession, Drive
<1>11. CASE Command BY <1>11, ExecuteLemma DEF Command
<1>12. CASE Qinit BY <1>12, ExecuteLemma DEF Qinit
<1>13. CASE UNCHANGED vars BY <1>13 DEF vars, InitInv, InitializedOnce
<1> QED
  BY <1>1, <1>2, <1>3, <1>4, <1>5, <1>6, <1>7, <1>8, <1>9, <1>10, <1>11, <1>12,
     <1>13
  DEF Next, processPendingDeclarations

LEMMA InitInit == Init => InitInv
<1> SUFFICES ASSUME Init PROVE InitInv OBVIOUS
<1>1. initialized = <<>> /\ initializers = <<>> /\ DOMAIN globalTypes = {}
  BY DEF Init
<1>2. initialized \o initializers = <<>> BY <1>1
<1> QED BY <1>1, <1>2, EmptySeq, EmptyLemma DEF InitInv, InitializedOnce

(* As long as the process runs, each global variable with a run-time       *)
(* object has one initializer, which waits for the next execution or has   *)
(* been executed: none is left out, none is executed again. *)
THEOREM GlobalsAreInitializedOnce == Spec => []InitializedOnce
<1>1. Init => InitInv BY InitInit
<1>2. InitInv /\ [Next]_vars => InitInv' BY InitNext
<1>3. InitInv => InitializedOnce BY DEF InitInv
<1> QED BY <1>1, <1>2, <1>3, PTL DEF Spec

-----------------------------------------------------------------------------
(* Resolution. *)

LEMMA FrontIsAPath ==
  ASSUME NEW p \in Seq(STRING)
  PROVE  Front(p) \in Seq(STRING)
<1>1. Len(p) \in Nat /\ \A i \in 1..(Len(p) - 1) : p[i] \in STRING
  BY LenProperties, ElementOfSeq
<1>2. SubSeq(p, 1, Len(p) - 1) \in Seq(STRING) BY <1>1, SubSeqProperties
<1> QED BY <1>2 DEF Front

(* What resolveClass() finds are classes. *)
LEMMA CandidatesAreClasses ==
  ASSUME NEW ns \in Seq(STRING), NEW n
  PROVE  Candidates(ns, n) \subseteq DOMAIN classes
<1> DEFINE depths == {k \in 1..Len(ns) : SubSeq(ns, 1, k) \o n.ids \in DOMAIN classes}
           inner  == CHOOSE k \in depths : \A j \in depths : j <= k
<1>1. ASSUME depths # {} PROVE SubSeq(ns, 1, inner) \o n.ids \in DOMAIN classes
  <2>1. Len(ns) \in Nat /\ depths \in SUBSET (1..Len(ns)) BY LenProperties
  <2> HIDE DEF depths
  <2>2. \E k \in depths : \A j \in depths : k >= j BY <1>1, <2>1, IndexMaximum
  <2>3. \E k \in depths : \A j \in depths : j <= k
    <3>1. \A j, k \in depths : k >= j => j <= k BY <2>1
    <3> QED BY <2>2, <3>1
  <2>4. inner \in depths BY <2>3
  <2> QED BY <2>4 DEF depths
<1> QED BY <1>1 DEF Candidates

(* resolveType() returns a type, whatever is written. *)
LEMMA ResolvesToAType ==
  ASSUME NEW ns \in Seq(STRING), NEW t
  PROVE  resolveType(ns, t) \in QType
<1> DEFINE found == Candidates(ns, t.name)
           asterisk == t.kind = "asterisk"
           kind == IF asterisk THEN "*object" ELSE "object"
<1>1. \A k \in {"nothing", "<error>", "int", "*int", "string", "*string", "any"} :
        TypeOf(k) \in QType
  BY DEF QType
<1>2. t.name.ids \in BuiltinNames => getBuiltinType(t.name.ids, asterisk) \in QType
  <2> SUFFICES ASSUME t.name.ids \in BuiltinNames
               PROVE  getBuiltinType(t.name.ids, asterisk) \in QType
    OBVIOUS
  <2>1. PICK ids : ids = t.name.ids OBVIOUS
  <2>2. PICK b \in BOOLEAN : b = asterisk OBVIOUS
  <2>3. <<"any">> # <<"int">> /\ <<"any">> # <<"string">> /\ <<"int">> # <<"string">>
    OBVIOUS
  <2>4. ids \in {<<"int">>, <<"string">>, <<"any">>} BY <2>1 DEF BuiltinNames
  <2>5. getBuiltinType(ids, b) \in QType
    <3>1. CASE ids = <<"any">> BY <1>1, <3>1 DEF getBuiltinType
    <3>2. CASE ids = <<"int">> BY <1>1, <2>3, <3>2 DEF getBuiltinType
    <3>3. CASE ids = <<"string">> BY <1>1, <2>3, <3>3 DEF getBuiltinType
    <3> QED BY <2>4, <3>1, <3>2, <3>3
  <2> QED BY <2>1, <2>2, <2>5
<1>3. ASSUME Cardinality(found) = 1
      PROVE  ClassType(kind, CHOOSE c \in found : TRUE) \in QType
  <2> HIDE DEF kind
  <2>1. found # {}
    <3> HIDE DEF found
    <3> SUFFICES ASSUME found = {} PROVE FALSE OBVIOUS
    <3>1. Cardinality({}) = 0 BY FS_EmptySet
    <3> QED BY <1>3, <3>1
  <2>2. (CHOOSE c \in found : TRUE) \in DOMAIN classes
    BY <2>1, CandidatesAreClasses
  <2>3. kind \in {"object", "*object"} BY DEF kind
  <2> HIDE DEF found
  <2>4. \A k \in {"object", "*object"}, c \in DOMAIN classes : ClassType(k, c) \in QType
    BY DEF QType
  <2> QED BY <2>2, <2>3, <2>4
<1> HIDE DEF found
<1> QED BY <1>1, <1>2, <1>3 DEF resolveType, found

(* resolveType() reports at most one error, of the node it works for. *)
UnresolvedReports(where) ==
    [id : {"SemaUnresolvedClass", "SemaAmbiguousClass"}, at : {where}, previous : {0}]

LEMMA TypeReportsLemma ==
  ASSUME NEW ns, NEW t, NEW where
  PROVE  TypeReports(ns, t, where) \in Seq(UnresolvedReports(where))
<1>1. <<>> \in Seq(UnresolvedReports(where)) BY EmptySeq
<1>2. \A id \in {"SemaUnresolvedClass", "SemaAmbiguousClass"} :
        Report(id, where, 0) \in UnresolvedReports(where)
  BY DEF Report, UnresolvedReports
<1> QED BY <1>1, <1>2 DEF TypeReports

LEMMA AllReportsLemma ==
  ASSUME NEW ns, NEW types, Len(types) \in Nat, NEW where
  PROVE  AllReports(ns, types, where) \in Seq(UnresolvedReports(where))
<1> DEFINE s == [i \in 1..Len(types) |-> TypeReports(ns, types[i], where)]
<1>1. \A i \in 1..Len(types) :
        TypeReports(ns, types[i], where) \in Seq(UnresolvedReports(where))
  BY TypeReportsLemma
<1>2. s \in Seq(Seq(UnresolvedReports(where))) BY <1>1, IsASeq
<1> HIDE DEF s
<1>3. FlattenSeq(s) \in Seq(UnresolvedReports(where)) BY <1>2, FlattenLemma
<1> QED BY <1>3 DEF AllReports, s

LEMMA VarReportsLemma ==
  ASSUME NEW ns, NEW r \in Routines, NEW where
  PROVE  VarReports(ns, r, where) \in Seq(UnresolvedReports(where))
<1> DEFINE one(i) == IF r.body[i].kind = "var"
                     THEN TypeReports(ns, r.body[i].type, where) ELSE <<>>
           s == [i \in 1..Len(r.body) |-> one(i)]
<1>1. \A i \in 1..Len(r.body) : one(i) \in Seq(UnresolvedReports(where))
  BY TypeReportsLemma, EmptySeq
<1>2. Len(r.body) \in Nat
  <2>1. r.body \in Bodies BY DEF Routines
  <2> QED BY <2>1, LenProperties DEF Bodies
<1> HIDE DEF one
<1>3. s \in Seq(Seq(UnresolvedReports(where))) BY <1>1, <1>2, IsASeq
<1> HIDE DEF s
<1>4. FlattenSeq(s) \in Seq(UnresolvedReports(where)) BY <1>3, FlattenLemma
<1> QED BY <1>4 DEF VarReports, s, one

(* The globals a body reads and the groups it calls are there. *)
LEMMA UsedLemma ==
  ASSUME NEW ns, NEW r
  PROVE  /\ Used(ns, r, "global") \subseteq DOMAIN globals
         /\ Used(ns, r, "group") \subseteq DOMAIN groups
<1>1. \A n : resolveSymbol(ns, n) = "global" => ns \o n.ids \in DOMAIN globals
  BY DEF resolveSymbol
<1>2. \A n : resolveSymbol(ns, n) = "group" => ns \o n.ids \in DOMAIN groups
  BY DEF resolveSymbol
<1> QED BY <1>1, <1>2 DEF Used, Uses

-----------------------------------------------------------------------------
(* Types. *)

DiagnosticIds ==
    {"SemaInvalidNamespaceMemberName", "SemaNamespaceNotFound",
     "SemaDuplicateNamespaceName", "SemaDuplicateClassName",
     "SemaDuplicateGlobalVariableName", "SemaDuplicateFunctionName",
     "SemaUnresolvedClass", "SemaAmbiguousClass"}

Overload(n, Q, V, G) ==
    [node : 1..n, type : Seq(Q), reads : SUBSET V, calls : SUBSET G,
     analyzed : BOOLEAN]
GroupInfo(n, F)  == [location : 1..n, queue : Seq(1..n), functions : Seq(F)]
Diagnostic(n)    == [id : DiagnosticIds, at : 1..n, previous : Nat]
Overloads        == Overload(Len(nodes), QType, DOMAIN globals, DOMAIN groups)
Groups           == {g \in GroupInfo(Len(nodes), Overloads) : Len(g.functions) <= 1}

(* The groups with an overload, it is the only one, and its index *)
Translatable == {p \in DOMAIN groups : groups[p].functions # <<>>}
Slots(G)     == {<<p, 1>> : p \in G}

TreeOK ==
    /\ nodes \in Seq([ns : Seq(STRING), decl : Nodes])
    /\ since \in 1..(Len(nodes) + 1)

SymbolsOK ==
    /\ \A p \in DOMAIN namespaces : namespaces[p] \in 0..Len(nodes)
    /\ \A p \in DOMAIN classes : classes[p] \in 1..Len(nodes)
    /\ \A p \in DOMAIN globals : globals[p] \in 1..Len(nodes)
    /\ \A p \in DOMAIN groups : groups[p] \in Groups
    /\ DOMAIN classes \cup DOMAIN globals \cup DOMAIN groups \subseteq Seq(STRING)
    /\ DOMAIN globalTypes \subseteq DOMAIN globals
    /\ \A p \in DOMAIN globalTypes : globalTypes[p] \in QType
    /\ IsFiniteSet(DOMAIN groups)

QueuesOK ==
    /\ classQueue \in Seq(DOMAIN classes)
    /\ globalVariableQueue \in Seq(DOMAIN globals)
    /\ functionGroupQueue \in Seq(DOMAIN groups)
    /\ functionQueue \in Seq(Slots(Translatable))

TakenOK ==
    /\ phase = "globals" => taken \in Seq(DOMAIN globals)
    /\ phase = "groups" => taken \in Seq(DOMAIN groups)
    /\ phase = "functions" => taken \in Seq(Slots(Translatable))
    /\ phase \in {"read", "declare", "pending", "main", "end"} => taken = <<>>

ControlOK ==
    /\ phase \in {"read", "declare", "pending", "globals", "groups",
                  "functions", "main", "end"}
    /\ status \in {"running", "assert", "notImplemented", "undefined"}

ReportsOK == diagnostics \in Seq(Diagnostic(Len(nodes)))

ShapeInv == TreeOK /\ SymbolsOK /\ QueuesOK /\ TakenOK /\ ControlOK /\ ReportsOK

LEMMA ShapeImpliesTypes == ShapeInv => TypeOK
<1> SUFFICES ASSUME ShapeInv PROVE TypeOK OBVIOUS
<1> USE DEF ShapeInv
<1>1. ASSUME NEW p \in DOMAIN groups
      PROVE  /\ groups[p].location \in 1..Len(nodes)
             /\ ToSet(groups[p].queue) \subseteq 1..Len(nodes)
             /\ Len(groups[p].functions) <= 1
             /\ \A i \in 1..Len(groups[p].functions) :
                  LET f == groups[p].functions[i]
                  IN  /\ f.node \in 1..Len(nodes)
                      /\ ToSet(f.type) \subseteq QType
                      /\ f.reads \subseteq DOMAIN globals
                      /\ f.calls \subseteq DOMAIN groups
  <2>1. groups[p] \in GroupInfo(Len(nodes), Overloads) /\ Len(groups[p].functions) <= 1
    BY <1>1 DEF SymbolsOK, Groups
  <2>2. /\ groups[p].location \in 1..Len(nodes)
        /\ groups[p].queue \in Seq(1..Len(nodes))
        /\ groups[p].functions \in Seq(Overloads)
    BY <2>1 DEF GroupInfo
  <2>3. ToSet(groups[p].queue) \subseteq 1..Len(nodes) BY <2>2, ToSetLemma
  <2>4. ASSUME NEW f \in Overloads
        PROVE  /\ f.node \in 1..Len(nodes)
               /\ ToSet(f.type) \subseteq QType
               /\ f.reads \subseteq DOMAIN globals
               /\ f.calls \subseteq DOMAIN groups
    <3>1. f.type \in Seq(QType) BY <2>4 DEF Overloads, Overload
    <3>2. ToSet(f.type) \subseteq QType BY <3>1, ToSetLemma
    <3> QED BY <2>4, <3>2 DEF Overloads, Overload
  <2>5. \A i \in 1..Len(groups[p].functions) : groups[p].functions[i] \in Overloads
    BY <2>2, ElementOfSeq
  <2> QED BY <2>1, <2>2, <2>3, <2>4, <2>5
<1>2. ToSet(classQueue) \subseteq DOMAIN classes BY ToSetLemma DEF QueuesOK
<1>3. \A i \in 1..Len(diagnostics) : diagnostics[i].previous \in Nat
  <2>1. \A i \in 1..Len(diagnostics) : diagnostics[i] \in Diagnostic(Len(nodes))
    BY ElementOfSeq DEF ReportsOK
  <2> QED BY <2>1 DEF Diagnostic
<1> QED BY <1>1, <1>2, <1>3 DEF TypeOK, TreeOK, SymbolsOK, ControlOK

(* What is known of the nodes and the symbols only grows. *)
Grows ==
    /\ Len(nodes) \in Nat /\ Len(nodes') \in Nat /\ Len(nodes) <= Len(nodes')
    /\ DOMAIN classes \subseteq DOMAIN classes'
    /\ DOMAIN globals \subseteq DOMAIN globals'
    /\ DOMAIN groups \subseteq DOMAIN groups'
    /\ Translatable \subseteq Translatable'

LEMMA GroupGrows ==
  ASSUME NEW n \in Nat, NEW m \in Nat, n <= m, NEW F, NEW E, F \subseteq E
  PROVE  GroupInfo(n, F) \subseteq GroupInfo(m, E)
<1>1. 1..n \subseteq 1..m OBVIOUS
<1>2. Seq(1..n) \subseteq Seq(1..m) BY <1>1, SeqMonotonic
<1>3. Seq(F) \subseteq Seq(E) BY SeqMonotonic
<1> QED BY <1>1, <1>2, <1>3 DEF GroupInfo

LEMMA OverloadGrows ==
  ASSUME NEW n \in Nat, NEW m \in Nat, n <= m,
         NEW Q, NEW R, Q \subseteq R, NEW V, NEW W, V \subseteq W,
         NEW G, NEW H, G \subseteq H
  PROVE  Overload(n, Q, V, G) \subseteq Overload(m, R, W, H)
<1>1. 1..n \subseteq 1..m OBVIOUS
<1>2. Seq(Q) \subseteq Seq(R) BY SeqMonotonic
<1> QED BY <1>1, <1>2 DEF Overload

LEMMA TypesGrow ==
  ASSUME Grows
  PROVE  /\ QType \subseteq QType'
         /\ Overloads \subseteq Overloads'
         /\ Groups \subseteq Groups'
<1>1. QType \subseteq QType' BY DEF Grows, QType
<1>2. PICK Q, R : Q = QType /\ R = QType' OBVIOUS
<1>3. Overloads \subseteq Overloads'
  BY <1>1, <1>2, OverloadGrows DEF Grows, Overloads
<1>4. GroupInfo(Len(nodes), Overloads) \subseteq GroupInfo(Len(nodes'), Overloads')
  BY <1>3, GroupGrows DEF Grows
<1> QED BY <1>1, <1>3, <1>4 DEF Groups

LEMMA DiagnosticGrows ==
  ASSUME NEW n \in Nat, NEW m \in Nat, n <= m
  PROVE  Diagnostic(n) \subseteq Diagnostic(m)
<1>1. 1..n \subseteq 1..m OBVIOUS
<1> QED BY <1>1 DEF Diagnostic

LEMMA QueuesGrow ==
  ASSUME Grows, QueuesOK
  PROVE  /\ classQueue \in Seq(DOMAIN classes')
         /\ globalVariableQueue \in Seq(DOMAIN globals')
         /\ functionGroupQueue \in Seq(DOMAIN groups')
         /\ functionQueue \in Seq(Slots(Translatable'))
<1>1. \A A, B : A \subseteq B => Slots(A) \subseteq Slots(B) BY DEF Slots
<1>2. Slots(Translatable) \subseteq Slots(Translatable') BY <1>1 DEF Grows
<1>3. functionQueue \in Seq(Slots(Translatable'))
  BY <1>2, SeqMonotonic DEF QueuesOK
<1>4. classQueue \in Seq(DOMAIN classes') BY SeqMonotonic DEF Grows, QueuesOK
<1>5. globalVariableQueue \in Seq(DOMAIN globals')
  BY SeqMonotonic DEF Grows, QueuesOK
<1>6. functionGroupQueue \in Seq(DOMAIN groups') BY SeqMonotonic DEF Grows, QueuesOK
<1> QED BY <1>3, <1>4, <1>5, <1>6

LEMMA ShapeInit == Init => ShapeInv
<1> SUFFICES ASSUME Init PROVE ShapeInv OBVIOUS
<1>1. /\ nodes = <<>> /\ since = 1
      /\ DOMAIN classes = {} /\ DOMAIN globals = {} /\ DOMAIN globalTypes = {}
      /\ DOMAIN groups = {} /\ DOMAIN namespaces = {Root} /\ namespaces[Root] = 0
  BY DEF Init
<1>2. Len(nodes) = 0 BY <1>1
<1>3. TreeOK BY <1>1, <1>2, EmptySeq DEF TreeOK
<1>4. SymbolsOK BY <1>1, <1>2, FS_EmptySet DEF SymbolsOK
<1>5. QueuesOK BY EmptySeq DEF Init, QueuesOK
<1>6. TakenOK /\ ControlOK BY DEF Init, TakenOK, ControlOK
<1>7. ReportsOK BY EmptySeq DEF Init, ReportsOK
<1> QED BY <1>3, <1>4, <1>5, <1>6, <1>7 DEF ShapeInv

(* The declaration that has been processed is a new node. *)
LEMMA AdvanceNodes ==
  ASSUME TreeOK, TodoOK, todo # <<>>, NEW members, Advance(members)
  PROVE  /\ nodes' \in Seq([ns : Seq(STRING), decl : Nodes])
         /\ Len(nodes) \in Nat /\ Len(nodes') = Len(nodes) + 1 /\ at = Len(nodes) + 1
         /\ nodes'[at] = here
         /\ \A i \in 1..Len(nodes) : nodes'[i] = nodes[i]
         /\ TreeOK'
<1>1. nodes' = Append(nodes, here) /\ since' = since BY DEF Advance
<1>2. here \in [ns : Seq(STRING), decl : Nodes]
  <2>1. here \in [ns : DOMAIN namespaces, decl : Nodes]
    BY HeadTailProperties DEF TodoOK, here
  <2> QED BY <2>1 DEF TodoOK
<1>3. Len(nodes) \in Nat BY LenProperties DEF TreeOK
<1>4. at = Len(nodes) + 1 BY DEF at
<1>5. /\ nodes' \in Seq([ns : Seq(STRING), decl : Nodes])
      /\ Len(nodes') = Len(nodes) + 1
      /\ \A i \in 1..Len(nodes) : nodes'[i] = nodes[i]
      /\ nodes'[Len(nodes) + 1] = here
  BY <1>1, <1>2, AppendProperties DEF TreeOK
<1>6. since' \in 1..(Len(nodes') + 1) BY <1>1, <1>3, <1>5 DEF TreeOK
<1> QED BY <1>3, <1>4, <1>5, <1>6 DEF TreeOK

(* A table to which the declaration may have been added *)
Extended(f, g, value) ==
    /\ DOMAIN f \subseteq DOMAIN g
    /\ \A p \in DOMAIN g : \/ p \in DOMAIN f /\ g[p] = f[p]
                           \/ g[p] = value

LEMMA PutExtends ==
  ASSUME NEW f, NEW k, NEW v
  PROVE  Extended(f, Put(f, k, v), v)
BY DEF Put, Extended

LEMMA SameGroups ==
  ASSUME UNCHANGED groups
  PROVE  Translatable' = Translatable
BY DEF Translatable

(* A step that leaves symbols and queues alone *)
LEMMA SameShape ==
  ASSUME ShapeInv, UNCHANGED <<nodes, diagnostics>>, UNCHANGED symbolVars,
         UNCHANGED <<classQueue, globalVariableQueue, functionGroupQueue, functionQueue>>,
         since' \in 1..(Len(nodes) + 1), TakenOK', ControlOK'
  PROVE  ShapeInv' /\ Grows
<1>1. Len(nodes) \in Nat BY LenProperties DEF ShapeInv, TreeOK
<1>2. UNCHANGED <<namespaces, classes, globals, globalTypes, groups>>
  BY DEF symbolVars
<1>3. Grows BY <1>1, <1>2, SameGroups DEF Grows
<1>4. TreeOK' /\ ReportsOK' BY DEF ShapeInv, TreeOK, ReportsOK
<1>5. QueuesOK' BY <1>2, SameGroups DEF ShapeInv, QueuesOK
<1>6. SymbolsOK' BY <1>2, <1>3, TypesGrow DEF ShapeInv, SymbolsOK
<1> QED BY <1>3, <1>4, <1>5, <1>6 DEF ShapeInv

(* A step that processes a declaration *)
LEMMA DeclareShape ==
  ASSUME NamesInv, NamesInv', ShapeInv, todo # <<>>, NEW members, Advance(members),
         UNCHANGED globalTypes,
         Extended(namespaces, namespaces', at), Extended(classes, classes', at),
         Extended(globals, globals', at),
         DOMAIN groups \subseteq DOMAIN groups', IsFiniteSet(DOMAIN groups'),
         Translatable \subseteq Translatable',
         \A p \in DOMAIN groups' : \/ p \in DOMAIN groups /\ groups'[p] = groups[p]
                                   \/ groups'[p] \in Groups',
         DOMAIN classes' \cup DOMAIN globals' \cup DOMAIN groups' \subseteq Seq(STRING),
         classQueue' \in Seq(DOMAIN classes'),
         globalVariableQueue' \in Seq(DOMAIN globals'),
         functionGroupQueue' \in Seq(DOMAIN groups'),
         NEW reports \in Seq(Diagnostic(at)),
         diagnostics' = diagnostics \o reports,
         phase = "declare"
  PROVE  ShapeInv' /\ Grows
<1>1. /\ Len(nodes) \in Nat /\ Len(nodes') = Len(nodes) + 1 /\ at = Len(nodes) + 1
      /\ TreeOK'
  BY AdvanceNodes DEF ShapeInv, NamesInv
<1>2. Grows BY <1>1 DEF Grows, Extended
<1>3. /\ 0..Len(nodes) \subseteq 0..Len(nodes') /\ 1..Len(nodes) \subseteq 1..Len(nodes')
      /\ at \in 1..Len(nodes') /\ at \in 0..Len(nodes')
  BY <1>1
<1>4. /\ QType \subseteq QType' /\ Groups \subseteq Groups'
  BY <1>2, TypesGrow
<1>5. SymbolsOK'
  <2>1. \A p \in DOMAIN namespaces' : namespaces'[p] \in 0..Len(nodes')
    BY <1>3 DEF Extended, ShapeInv, SymbolsOK
  <2>2. \A p \in DOMAIN classes' : classes'[p] \in 1..Len(nodes')
    BY <1>3 DEF Extended, ShapeInv, SymbolsOK
  <2>3. \A p \in DOMAIN globals' : globals'[p] \in 1..Len(nodes')
    BY <1>3 DEF Extended, ShapeInv, SymbolsOK
  <2>4. \A p \in DOMAIN groups' : groups'[p] \in Groups'
    BY <1>4 DEF ShapeInv, SymbolsOK
  <2>5. /\ DOMAIN globalTypes' \subseteq DOMAIN globals'
        /\ \A p \in DOMAIN globalTypes' : globalTypes'[p] \in QType'
    BY <1>4 DEF Extended, ShapeInv, SymbolsOK
  <2> QED BY <2>1, <2>2, <2>3, <2>4, <2>5 DEF SymbolsOK
<1>6. QueuesOK'
  BY <1>2, QueuesGrow DEF ShapeInv, QueuesOK, Advance
<1>7. TakenOK' /\ ControlOK'
  BY DEF Advance, controlVars, ShapeInv, TakenOK, ControlOK
<1>8. ReportsOK'
  <2>1. Diagnostic(Len(nodes)) \subseteq Diagnostic(at)
    <3>1. Len(nodes) \in Nat /\ at \in Nat /\ Len(nodes) <= at BY <1>1
    <3> QED BY <3>1, DiagnosticGrows
  <2>2. diagnostics \in Seq(Diagnostic(at))
    BY <2>1, SeqMonotonic DEF ShapeInv, ReportsOK
  <2>3. diagnostics' \in Seq(Diagnostic(at)) BY <2>2, ConcatProperties
  <2> QED BY <1>1, <2>3 DEF ReportsOK
<1> QED BY <1>1, <1>2, <1>5, <1>6, <1>7, <1>8 DEF ShapeInv

LEMMA NoReports ==
  ASSUME ShapeInv
  PROVE  /\ <<>> \in Seq(Diagnostic(at))
         /\ diagnostics = diagnostics \o <<>>
BY EmptySeq, ConcatEmptySeq DEF ShapeInv, ReportsOK

LEMMA RejectShape ==
  ASSUME NamesInv, NamesInv', ShapeInv, todo # <<>>, phase = "declare",
         NEW reports \in Seq(Diagnostic(at)), Reject(reports)
  PROVE  ShapeInv' /\ Grows
<1>1. /\ Advance(<<>>) /\ UNCHANGED symbolVars /\ UNCHANGED classQueue
      /\ UNCHANGED <<globalVariableQueue, functionGroupQueue>>
      /\ diagnostics' = diagnostics \o reports
  BY DEF Reject
<1>2. UNCHANGED <<namespaces, classes, globals, groups, globalTypes>>
  BY <1>1 DEF symbolVars
<1>3. /\ Extended(namespaces, namespaces', at) /\ Extended(classes, classes', at)
      /\ Extended(globals, globals', at)
  BY <1>2 DEF Extended
<1>4. /\ DOMAIN classes' \cup DOMAIN globals' \cup DOMAIN groups' \subseteq Seq(STRING)
      /\ classQueue' \in Seq(DOMAIN classes')
      /\ globalVariableQueue' \in Seq(DOMAIN globals')
      /\ functionGroupQueue' \in Seq(DOMAIN groups')
      /\ IsFiniteSet(DOMAIN groups')
  BY <1>1, <1>2 DEF ShapeInv, SymbolsOK, QueuesOK
<1> QED BY <1>1, <1>2, <1>3, <1>4, SameGroups, DeclareShape

(* What the checks of names report *)
LEMMA ReportIsDiagnostic ==
  ASSUME ShapeInv, NEW id \in DiagnosticIds, NEW previous \in Nat
  PROVE  <<Report(id, at, previous)>> \in Seq(Diagnostic(at))
<1>1. Len(nodes) \in Nat BY LenProperties DEF ShapeInv, TreeOK
<1>2. at \in 1..at BY <1>1 DEF at
<1>3. Report(id, at, previous) \in Diagnostic(at) BY <1>2 DEF Report, Diagnostic
<1>4. PICK d, D : d = Report(id, at, previous) /\ D = Diagnostic(at) OBVIOUS
<1>5. <<d>> \in Seq(D)
  <2>1. d \in D BY <1>3, <1>4
  <2> QED BY ONLY <2>1
<1> QED BY <1>4, <1>5

LEMMA NameReportsLemma ==
  ASSUME ShapeInv
  PROVE  NameReports \in Seq(Diagnostic(at))
<1>1. 0 \in Nat OBVIOUS
<1>2. \A id \in DiagnosticIds : <<Report(id, at, 0)>> \in Seq(Diagnostic(at))
  BY <1>1, ReportIsDiagnostic
<1>3. <<>> \in Seq(Diagnostic(at)) BY EmptySeq
<1>4. {"SemaInvalidNamespaceMemberName", "SemaNamespaceNotFound"} \subseteq DiagnosticIds
  BY DEF DiagnosticIds
<1>5. \/ NameReports = <<>>
      \/ NameReports = <<Report("SemaInvalidNamespaceMemberName", at, 0)>>
      \/ NameReports = <<Report("SemaNamespaceNotFound", at, 0)>>
  BY DEF NameReports
<1> QED BY <1>2, <1>3, <1>4, <1>5

(* The group a function is added to *)
LEMMA AddFunctionGroup ==
  ASSUME ShapeInv, TodoOK, todo # <<>>, AddFunction
  PROVE  /\ Grows
         /\ GroupOf(path) \in Groups'
         /\ groups'[path] = [GroupOf(path) EXCEPT !.queue = Append(@, at)]
         /\ groups'[path] \in Groups'
         /\ \A p \in DOMAIN groups : p # path => groups'[p] = groups[p]
         /\ DOMAIN groups' = DOMAIN groups \cup {path}
<1>1. /\ Advance(<<>>)
      /\ groups' = Put(groups, path, [GroupOf(path) EXCEPT !.queue = Append(@, at)])
      /\ UNCHANGED <<classes, globals>>
  BY DEF AddFunction
<1>2. /\ DOMAIN groups' = DOMAIN groups \cup {path}
      /\ groups'[path] = [GroupOf(path) EXCEPT !.queue = Append(@, at)]
      /\ \A p \in DOMAIN groups : p # path => groups'[p] = groups[p]
  BY <1>1 DEF Put
<1>3. Len(nodes) \in Nat /\ Len(nodes') = Len(nodes) + 1 /\ at = Len(nodes) + 1
  BY <1>1, AdvanceNodes DEF ShapeInv
<1>4. Grows
  <2>1. [GroupOf(path) EXCEPT !.queue = Append(@, at)].functions = GroupOf(path).functions
    OBVIOUS
  <2>2. \A p \in Translatable : groups'[p].functions = groups[p].functions
    BY <1>2, <2>1 DEF Translatable, GroupOf
  <2>3. Translatable \subseteq Translatable' BY <1>2, <2>2 DEF Translatable
  <2> QED BY <1>1, <1>2, <1>3, <2>3 DEF Grows
<1>5. at \in 1..Len(nodes') BY <1>3
<1>6. GroupOf(path) \in Groups'
  <2>1. CASE path \in DOMAIN groups
    BY <1>4, <2>1, TypesGrow DEF GroupOf, ShapeInv, SymbolsOK
  <2>2. CASE path \notin DOMAIN groups
    <3>1. /\ <<>> \in Seq(1..Len(nodes')) /\ <<>> \in Seq(Overloads')
          /\ Len(<<>>) = 0
      BY EmptySeq
    <3> QED BY <1>5, <2>2, <3>1 DEF GroupOf, Groups, GroupInfo
  <2> QED BY <2>1, <2>2
<1>7. PICK g : g = GroupOf(path) OBVIOUS
<1>8. [g EXCEPT !.queue = Append(@, at)] \in Groups'
  <2>1. g.queue \in Seq(1..Len(nodes')) BY <1>6, <1>7 DEF Groups, GroupInfo
  <2>2. PICK q : q = Append(g.queue, at) OBVIOUS
  <2>3. q \in Seq(1..Len(nodes')) BY <1>5, <2>1, <2>2, AppendProperties
  <2>4. [g EXCEPT !.queue = q] \in Groups'
    BY <1>6, <1>7, <2>3 DEF Groups, GroupInfo
  <2> QED BY <2>2, <2>4
<1> QED BY <1>2, <1>4, <1>6, <1>7, <1>8

LEMMA DeclareNext ==
  ASSUME NamesInv, NamesInv', ShapeInv, Declare
  PROVE  ShapeInv' /\ Grows
<1>1. Len(nodes) \in Nat BY LenProperties DEF ShapeInv, TreeOK
<1>2. ASSUME NEW kinds, Processing(kinds) PROVE todo # <<>> /\ phase = "declare"
  BY <1>2 DEF Processing
<1>3. /\ \A p \in DOMAIN classes : classes[p] \in Nat
      /\ \A p \in DOMAIN namespaces : namespaces[p] \in Nat
      /\ \A p \in DOMAIN globals : globals[p] \in Nat
      /\ \A p \in DOMAIN groups : groups[p].location \in Nat
  <2>1. 0..Len(nodes) \subseteq Nat /\ 1..Len(nodes) \subseteq Nat BY <1>1
  <2>2. \A p \in DOMAIN groups : groups[p].location \in 1..Len(nodes)
    BY DEF ShapeInv, SymbolsOK, Groups, GroupInfo
  <2> QED BY <2>1, <2>2 DEF ShapeInv, SymbolsOK
<1>6. CASE RejectName
  BY <1>2, <1>6, NameReportsLemma, RejectShape DEF RejectName
<1>7. CASE ProcessConstant \/ ClashWithDeletedTree
  <2>1. UNCHANGED <<treeVars, symbolVars, queueVars, controlVars, diagnostics>>
        /\ status' \in {"notImplemented", "undefined"} /\ phase = "declare"
    BY <1>2, <1>7 DEF ProcessConstant, ClashWithDeletedTree, End
  <2> QED
    BY <2>1, SameShape
    DEF treeVars, queueVars, controlVars, ShapeInv, TreeOK, TakenOK, ControlOK
<1>8. CASE AddNamespace
  <2>1. /\ todo # <<>> /\ phase = "declare" /\ Advance(here.decl.members)
        /\ namespaces' = Put(namespaces, path, at)
        /\ UNCHANGED <<classes, globals, globalTypes, groups, classQueue,
                       globalVariableQueue, functionGroupQueue, diagnostics>>
    BY <1>2, <1>8 DEF AddNamespace
  <2>2. /\ Extended(namespaces, namespaces', at) /\ Extended(classes, classes', at)
        /\ Extended(globals, globals', at)
    BY <2>1, PutExtends DEF Extended
  <2> QED BY <2>1, <2>2, NoReports, SameGroups, DeclareShape DEF ShapeInv, SymbolsOK, QueuesOK
<1>9. CASE ReopenNamespace
  <2>1. /\ todo # <<>> /\ phase = "declare" /\ Advance(here.decl.members)
        /\ UNCHANGED <<namespaces, classes, globals, globalTypes, groups, classQueue,
                       globalVariableQueue, functionGroupQueue, diagnostics>>
    BY <1>2, <1>9 DEF ReopenNamespace, symbolVars
  <2>2. /\ Extended(namespaces, namespaces', at) /\ Extended(classes, classes', at)
        /\ Extended(globals, globals', at)
    BY <2>1 DEF Extended
  <2> QED BY <2>1, <2>2, NoReports, SameGroups, DeclareShape DEF ShapeInv, SymbolsOK, QueuesOK
<1>10. CASE RejectNamespace
  <2>1. <<Report("SemaDuplicateNamespaceName", at, classes[path])>>
          \in Seq(Diagnostic(at))
    BY <1>3, <1>10, ReportIsDiagnostic DEF RejectNamespace, DiagnosticIds
  <2> QED BY <1>2, <1>10, <2>1, RejectShape DEF RejectNamespace
<1>11. CASE AddClass
  <2>1. /\ todo # <<>> /\ phase = "declare" /\ Advance(<<>>) /\ HasParent
        /\ classes' = Put(classes, path, at)
        /\ classQueue' = Append(classQueue, path)
        /\ UNCHANGED <<namespaces, globals, globalTypes, groups,
                       globalVariableQueue, functionGroupQueue, diagnostics>>
    BY <1>2, <1>11 DEF AddClass
  <2>2. /\ Extended(namespaces, namespaces', at) /\ Extended(classes, classes', at)
        /\ Extended(globals, globals', at)
    BY <2>1, PutExtends DEF Extended
  <2>3. DOMAIN classes' = DOMAIN classes \cup {path} BY <2>1, PutDomain
  <2>4. path \in Seq(STRING) BY <2>1, ParentExists DEF NamesInv
  <2>5. classQueue' \in Seq(DOMAIN classes')
    <3>1. classQueue \in Seq(DOMAIN classes') /\ path \in DOMAIN classes'
      BY <2>3, SeqMonotonic DEF ShapeInv, QueuesOK
    <3> QED BY <2>1, <3>1, AppendProperties
  <2> QED
    BY <2>1, <2>2, <2>3, <2>4, <2>5, NoReports, SameGroups, DeclareShape
    DEF ShapeInv, SymbolsOK, QueuesOK
<1>12. CASE RejectClass
  <2> DEFINE previous == IF path \in DOMAIN classes THEN classes[path]
                         ELSE namespaces[path]
  <2>1. previous \in Nat
    BY <1>3, <1>12 DEF RejectClass, ClassClash
  <2> HIDE DEF previous
  <2>2. <<Report("SemaDuplicateClassName", at, previous)>> \in Seq(Diagnostic(at))
    BY <2>1, ReportIsDiagnostic DEF DiagnosticIds
  <2>3. Reject(<<Report("SemaDuplicateClassName", at, previous)>>)
    BY <1>12 DEF RejectClass, previous
  <2> QED BY <1>2, <1>12, <2>2, <2>3, RejectShape DEF RejectClass
<1>13. CASE AddGlobalVariable
  <2>1. /\ todo # <<>> /\ phase = "declare" /\ Advance(<<>>) /\ HasParent
        /\ globals' = Put(globals, path, at)
        /\ globalVariableQueue' = Append(globalVariableQueue, path)
        /\ UNCHANGED <<namespaces, classes, globalTypes, groups, classQueue,
                       functionGroupQueue, diagnostics>>
    BY <1>2, <1>13 DEF AddGlobalVariable, TypesWhenDeclared
  <2>2. /\ Extended(namespaces, namespaces', at) /\ Extended(classes, classes', at)
        /\ Extended(globals, globals', at)
    BY <2>1, PutExtends DEF Extended
  <2>3. DOMAIN globals' = DOMAIN globals \cup {path} BY <2>1, PutDomain
  <2>4. path \in Seq(STRING) BY <2>1, ParentExists DEF NamesInv
  <2>5. globalVariableQueue' \in Seq(DOMAIN globals')
    <3>1. globalVariableQueue \in Seq(DOMAIN globals') /\ path \in DOMAIN globals'
      BY <2>3, SeqMonotonic DEF ShapeInv, QueuesOK
    <3> QED BY <2>1, <3>1, AppendProperties
  <2> QED
    BY <2>1, <2>2, <2>3, <2>4, <2>5, NoReports, SameGroups, DeclareShape
    DEF ShapeInv, SymbolsOK, QueuesOK
<1>14. CASE RejectGlobalVariable
  <2> DEFINE previous == IF path \in DOMAIN globals THEN globals[path]
                         ELSE groups[path].location
  <2>1. previous \in Nat BY <1>3, <1>14 DEF RejectGlobalVariable
  <2> HIDE DEF previous
  <2>2. <<Report("SemaDuplicateGlobalVariableName", at, previous)>>
          \in Seq(Diagnostic(at))
    BY <2>1, ReportIsDiagnostic DEF DiagnosticIds
  <2>3. Reject(<<Report("SemaDuplicateGlobalVariableName", at, previous)>>)
    BY <1>14 DEF RejectGlobalVariable, previous
  <2> QED BY <1>2, <1>14, <2>2, <2>3, RejectShape DEF RejectGlobalVariable
<1>15. CASE AddFunction
  <2>1. /\ todo # <<>> /\ phase = "declare" /\ Advance(<<>>) /\ HasParent
        /\ functionGroupQueue' = functionGroupQueue \o Enqueued(GroupOf(path))
        /\ UNCHANGED <<namespaces, classes, globals, globalTypes, classQueue,
                       globalVariableQueue, diagnostics>>
    BY <1>2, <1>15 DEF AddFunction
  <2>2. /\ Extended(namespaces, namespaces', at) /\ Extended(classes, classes', at)
        /\ Extended(globals, globals', at)
    BY <2>1 DEF Extended
  <2>3. /\ DOMAIN groups' = DOMAIN groups \cup {path} /\ groups'[path] \in Groups'
        /\ \A p \in DOMAIN groups : p # path => groups'[p] = groups[p]
        /\ Translatable \subseteq Translatable'
    BY <1>15, <2>1, AddFunctionGroup DEF NamesInv, Grows
  <2>4. path \in Seq(STRING) BY <2>1, ParentExists DEF NamesInv
  <2>5. functionGroupQueue' \in Seq(DOMAIN groups')
    <3>1. functionGroupQueue \in Seq(DOMAIN groups') /\ path \in DOMAIN groups'
      BY <2>3, SeqMonotonic DEF ShapeInv, QueuesOK
    <3>2. Enqueued(GroupOf(path)) \in Seq(DOMAIN groups')
      <4>1. <<path>> \in Seq(DOMAIN groups') BY <3>1
      <4> QED BY <4>1, EmptySeq DEF Enqueued
    <3> QED BY <2>1, <3>1, <3>2, ConcatProperties
  <2>6. IsFiniteSet(DOMAIN groups')
    BY <2>3, FS_AddElement DEF ShapeInv, SymbolsOK
  <2> QED
    BY <2>1, <2>2, <2>3, <2>4, <2>5, <2>6, NoReports, DeclareShape
    DEF ShapeInv, SymbolsOK, QueuesOK
<1>16. CASE RejectFunction
  <2>1. <<Report("SemaDuplicateFunctionName", at, globals[path])>>
          \in Seq(Diagnostic(at))
    BY <1>3, <1>16, ReportIsDiagnostic DEF RejectFunction, DiagnosticIds
  <2> QED BY <1>2, <1>16, <2>1, RejectShape DEF RejectFunction
<1>17. CASE FinishDeclaration
  <2>1. /\ UNCHANGED <<treeVars, symbolVars, queueVars, taken, diagnostics, status>>
        /\ taken = <<>> /\ phase' \in {"read", "pending"}
    BY <1>17 DEF FinishDeclaration, Drive, AfterDeclaration
  <2> QED
    BY <2>1, SameShape
    DEF treeVars, queueVars, controlVars, ShapeInv, TreeOK, TakenOK, ControlOK
<1> QED
  BY <1>6, <1>7, <1>8, <1>9, <1>10, <1>11, <1>12, <1>13, <1>14, <1>15, <1>16, <1>17
  DEF Declare

(* takeGlobalVariableQueue() and so on *)
LEMMA TakeShape ==
  ASSUME ShapeInv, TakeQueue
  PROVE  ShapeInv' /\ Grows
<1>1. /\ UNCHANGED <<treeVars, symbolVars, diagnostics, status>>
      /\ phase' = PhaseAfter[phase] /\ phase \in DOMAIN PhaseAfter
      /\ taken' = CASE phase' = "globals"   -> globalVariableQueue
                    [] phase' = "groups"    -> functionGroupQueue
                    [] phase' = "functions" -> functionQueue
      /\ classQueue' = <<>>
      /\ globalVariableQueue' \in {<<>>, globalVariableQueue}
      /\ functionGroupQueue' \in {<<>>, functionGroupQueue}
      /\ functionQueue' \in {<<>>, functionQueue}
  BY DEF TakeQueue
<1>2. phase' \in {"globals", "groups", "functions"} BY <1>1 DEF PhaseAfter
<1>3. UNCHANGED <<namespaces, classes, globals, globalTypes, groups>>
  BY <1>1 DEF symbolVars
<1>4. Len(nodes) \in Nat BY LenProperties DEF ShapeInv, TreeOK
<1>5. Translatable' = Translatable BY <1>3, SameGroups
<1>6. Grows BY <1>1, <1>3, <1>4, <1>5 DEF Grows, treeVars
<1>7. TreeOK' /\ ControlOK' /\ ReportsOK'
  BY <1>1, <1>2 DEF ShapeInv, TreeOK, ControlOK, ReportsOK, treeVars
<1>8. TakenOK'
  <2>1. CASE phase' = "globals" BY <1>1, <1>3, <2>1 DEF ShapeInv, QueuesOK, TakenOK
  <2>2. CASE phase' = "groups" BY <1>1, <1>3, <2>2 DEF ShapeInv, QueuesOK, TakenOK
  <2>3. CASE phase' = "functions"
    BY <1>1, <1>5, <2>3 DEF ShapeInv, QueuesOK, TakenOK
  <2> QED BY <1>2, <2>1, <2>2, <2>3
<1>9. QueuesOK' BY <1>1, <1>3, <1>5, EmptySeq DEF ShapeInv, QueuesOK
<1>10. SymbolsOK' BY <1>1, <1>3, <1>6, TypesGrow DEF ShapeInv, SymbolsOK, treeVars
<1> QED BY <1>6, <1>7, <1>8, <1>9, <1>10 DEF ShapeInv

(* What resolveType() reports of a node *)
LEMMA ReportsShape ==
  ASSUME ShapeInv, NEW node \in 1..Len(nodes),
         NEW reports \in Seq(UnresolvedReports(node))
  PROVE  diagnostics \o reports \in Seq(Diagnostic(Len(nodes)))
<1>1. UnresolvedReports(node) \subseteq Diagnostic(Len(nodes))
  BY DEF UnresolvedReports, Diagnostic, DiagnosticIds
<1>2. reports \in Seq(Diagnostic(Len(nodes))) BY <1>1, SeqMonotonic
<1> QED BY <1>2, ConcatProperties DEF ShapeInv, ReportsOK

(* The next element of a queue *)
LEMMA HeadOfTaken ==
  ASSUME ShapeInv, taken # <<>>
  PROVE  /\ phase = "globals" => /\ Head(taken) \in DOMAIN globals
                                 /\ Head(taken) \in Seq(STRING)
                                 /\ Tail(taken) \in Seq(DOMAIN globals)
         /\ phase = "groups" => /\ Head(taken) \in DOMAIN groups
                                /\ Head(taken) \in Seq(STRING)
                                /\ Tail(taken) \in Seq(DOMAIN groups)
         /\ phase = "functions" => /\ \E p \in Translatable : Head(taken) = <<p, 1>>
                                   /\ Tail(taken) \in Seq(Slots(Translatable))
<1>1. CASE phase = "globals"
  BY <1>1, HeadTailProperties DEF ShapeInv, TakenOK, SymbolsOK
<1>2. CASE phase = "groups"
  BY <1>2, HeadTailProperties DEF ShapeInv, TakenOK, SymbolsOK
<1>3. CASE phase = "functions"
  <2>1. Head(taken) \in Slots(Translatable) /\ Tail(taken) \in Seq(Slots(Translatable))
    BY <1>3, HeadTailProperties DEF ShapeInv, TakenOK
  <2> QED BY <1>3, <2>1 DEF Slots
<1> QED BY <1>1, <1>2, <1>3

LEMMA ResolveGlobalShape ==
  ASSUME ShapeInv, ResolveGlobalVariable
  PROVE  ShapeInv' /\ Grows
<1>1. /\ phase = "globals" /\ taken # <<>>
      /\ UNCHANGED <<nodes, since, namespaces, classes, globals, groups, classQueue,
                     globalVariableQueue, functionGroupQueue, functionQueue, phase>>
      /\ taken' = Tail(taken)
  BY DEF ResolveGlobalVariable, InPass2, treeVars
<1>2. PICK p : p = Head(taken) OBVIOUS
<1>3. p \in DOMAIN globals /\ p \in Seq(STRING) /\ taken' \in Seq(DOMAIN globals)
  BY <1>1, <1>2, HeadOfTaken
<1>4. PICK node : node = globals[p] OBVIOUS
<1>5. node \in 1..Len(nodes) BY <1>3, <1>4 DEF ShapeInv, SymbolsOK
<1>6. PICK type : type = resolveType(Front(p), nodes[node].decl.type) OBVIOUS
<1>7. type \in QType BY SMTT(30), <1>3, <1>6, FrontIsAPath, ResolvesToAType
<1>8. /\ diagnostics' = diagnostics
                        \o TypeReports(Front(p), nodes[node].decl.type, node)
      /\ globalTypes' \in {globalTypes, Put(globalTypes, p, type)}
      /\ status' \in {"undefined", "assert", "notImplemented", status}
  BY <1>2, <1>4, <1>6 DEF ResolveGlobalVariable
<1>9. diagnostics' \in Seq(Diagnostic(Len(nodes)))
  <2>1. TypeReports(Front(p), nodes[node].decl.type, node)
          \in Seq(UnresolvedReports(node))
    BY TypeReportsLemma
  <2> QED BY <1>5, <1>8, <2>1, ReportsShape
<1>10. Len(nodes) \in Nat /\ Translatable' = Translatable
  BY <1>1, SameGroups, LenProperties DEF ShapeInv, TreeOK
<1>11. Grows BY <1>1, <1>10 DEF Grows
<1>12. /\ DOMAIN globalTypes' \subseteq DOMAIN globals
       /\ \A q \in DOMAIN globalTypes' : globalTypes'[q] \in QType
  BY <1>3, <1>7, <1>8 DEF ShapeInv, SymbolsOK, Put
<1>13. SymbolsOK' BY <1>1, <1>11, <1>12, TypesGrow DEF ShapeInv, SymbolsOK
<1>14. TreeOK' /\ TakenOK' /\ ControlOK' /\ ReportsOK'
  BY <1>1, <1>3, <1>8, <1>9 DEF ShapeInv, TreeOK, TakenOK, ControlOK, ReportsOK
<1>15. QueuesOK' BY <1>1, <1>10 DEF ShapeInv, QueuesOK
<1> QED BY <1>11, <1>13, <1>14, <1>15 DEF ShapeInv

(* A pending overload becomes the function of its group, or the process ends. *)
OverloadStep(p, node, f) ==
    /\ p \in DOMAIN groups /\ p \in Seq(STRING) /\ node \in 1..Len(nodes)
    /\ status = "running" /\ phase = "groups" /\ taken # <<>> /\ p = Head(taken)
    /\ groups[p].queue # <<>> /\ node = Head(groups[p].queue)
    /\ UNCHANGED <<nodes, since, namespaces, classes, globals, globalTypes, classQueue,
                   globalVariableQueue, functionGroupQueue, initializers, initialized,
                   phase, taken>>
    /\ diagnostics' \in Seq(Diagnostic(Len(nodes)))
    /\ \E reports \in Seq(UnresolvedReports(node)) : diagnostics' = diagnostics \o reports
    /\ \/ /\ UNCHANGED <<groups, functionQueue>>
          /\ \/ node < since /\ status' = "undefined"
             \/ node >= since /\ status' = "notImplemented"
       \/ /\ node >= since /\ status' = "running" /\ groups[p].functions = <<>>
          /\ functionQueue' = Append(functionQueue, <<p, 1>>)
          /\ f \in Overloads /\ f.node = node /\ ~f.analyzed /\ f.calls = {}
          /\ f.type[1] = resolveType(Front(p), nodes[node].decl.routine.type)
          /\ groups' = [groups EXCEPT ![p] = [groups[p] EXCEPT
                            !.queue = Tail(groups[p].queue), !.functions = <<f>>]]

LEMMA ResolveOverloadStep ==
  ASSUME ShapeInv, ResolveOverload
  PROVE  \E p, node, f : OverloadStep(p, node, f)
<1> DEFINE p == Head(taken)
           g == groups[p]
           node == Head(g.queue)
           r == nodes[node].decl.routine
           types == <<r.type>> \o [i \in 1..Len(r.params) |-> r.params[i].type]
           resolved == [i \in 1..Len(types) |-> resolveType(Front(p), types[i])]
           f == [node |-> node, type |-> resolved,
                 reads |-> {}, calls |-> {}, analyzed |-> FALSE]
<1>5. /\ status = "running" /\ phase = "groups" /\ taken # <<>> /\ g.queue # <<>>
      /\ UNCHANGED <<nodes, since, namespaces, classes, globals, globalTypes,
                     classQueue, globalVariableQueue, functionGroupQueue,
                     initializers, initialized, phase>>
  BY ZenonT(40) DEF ResolveOverload, InPass2, treeVars, runVars
<1>6. /\ diagnostics' = diagnostics \o AllReports(Front(p), types, node)
      /\ IF node < since \/ ~checkOverload(g)
         THEN /\ status' = IF node < since THEN "undefined" ELSE "notImplemented"
              /\ UNCHANGED <<groups, functionQueue, taken>>
         ELSE /\ groups' = [groups EXCEPT ![p].queue = Tail(@),
                                          ![p].functions = Append(@, f)]
              /\ functionQueue' = Append(functionQueue, <<p, Len(g.functions) + 1>>)
              /\ UNCHANGED <<status, taken>>
  BY DEF ResolveOverload
<1>7. p \in DOMAIN groups /\ p \in Seq(STRING) BY <1>5, HeadOfTaken
<1>8. g \in Groups BY <1>7 DEF ShapeInv, SymbolsOK
<1>9. node \in 1..Len(nodes)
  <2>1. g.queue \in Seq(1..Len(nodes)) BY <1>8 DEF Groups, GroupInfo
  <2> QED BY <1>5, <2>1, HeadTailProperties
<1>10. r \in Routines
  <2>1. nodes[node] \in [ns : Seq(STRING), decl : Nodes]
    BY <1>9, ElementOfSeq DEF ShapeInv, TreeOK
  <2>2. nodes[node].decl \in Nodes BY <2>1
  <2> QED BY <2>2, DriverAssumption
<1> HIDE DEF r
<1>11. types \in Seq(TypeNodes) /\ Len(types) \in Nat \ {0} /\ types[1] = r.type
  <2>1. r.type \in TypeNodes /\ r.params \in Seq([type : TypeNodes, id : STRING])
    BY <1>10 DEF Routines
  <2>2. Len(r.params) \in Nat /\ \A i \in 1..Len(r.params) : r.params[i].type \in TypeNodes
    <3>1. \A i \in 1..Len(r.params) : r.params[i] \in [type : TypeNodes, id : STRING]
      BY <2>1, ElementOfSeq
    <3> QED BY <2>1, <3>1, LenProperties
  <2>3. PICK rest : rest = [i \in 1..Len(r.params) |-> r.params[i].type] OBVIOUS
  <2>4. rest \in Seq(TypeNodes) BY <2>2, <2>3, IsASeq
  <2>5. PICK t : t = r.type OBVIOUS
  <2>6. PICK first \in Seq(TypeNodes) : first = <<t>> /\ Len(first) = 1 /\ first[1] = t
    <3>1. t \in TypeNodes BY <2>1, <2>5
    <3>2. <<t>> \in Seq(TypeNodes) /\ Len(<<t>>) = 1 /\ <<t>>[1] = t BY ONLY <3>1
    <3> QED BY <3>2
  <2>7. /\ first \o rest \in Seq(TypeNodes)
        /\ Len(first \o rest) = 1 + Len(rest)
        /\ \A i \in 1..(1 + Len(rest)) :
              (first \o rest)[i] = IF i <= 1 THEN first[i] ELSE rest[i - 1]
    BY <2>4, <2>6, ConcatProperties
  <2>8. Len(rest) \in Nat BY <2>4, LenProperties
  <2>9. 1 \in 1..(1 + Len(rest)) BY <2>8
  <2>10. (first \o rest)[1] = t BY <2>6, <2>7, <2>9
  <2> QED BY <2>3, <2>5, <2>6, <2>7, <2>8, <2>10
<1> HIDE DEF types
<1> HIDE DEF p, node
<1>12. \A i \in 1..Len(types) : resolveType(Front(p), types[i]) \in QType
  BY <1>7, FrontIsAPath, ResolvesToAType
<1>13. resolved \in Seq(QType) BY <1>11, <1>12, IsASeq
<1>14. resolved[1] = resolveType(Front(p), r.type)
  <2>1. 1 \in 1..Len(types) BY <1>11
  <2> QED BY <1>11, <2>1
<1> HIDE DEF resolved
<1>15. /\ f \in Overloads /\ f.node = node /\ ~f.analyzed /\ f.calls = {}
       /\ f.type = resolved
  BY <1>9, <1>13 DEF Overloads, Overload
<1>16. AllReports(Front(p), types, node) \in Seq(UnresolvedReports(node))
  BY <1>11, AllReportsLemma
<1>17. diagnostics' \in Seq(Diagnostic(Len(nodes))) BY <1>6, <1>9, <1>16, ReportsShape
<1>18. PICK h : h = f OBVIOUS
<1>19. \/ /\ UNCHANGED <<groups, functionQueue>>
          /\ \/ node < since /\ status' = "undefined"
             \/ node >= since /\ status' = "notImplemented"
       \/ /\ node >= since /\ status' = "running" /\ g.functions = <<>>
          /\ functionQueue' = Append(functionQueue, <<p, 1>>)
          /\ groups' = [groups EXCEPT ![p] = [g EXCEPT !.queue = Tail(g.queue),
                                                       !.functions = <<h>>]]
  <2>0. Len(nodes) \in Nat BY LenProperties DEF ShapeInv, TreeOK
  <2>1. node < since <=> ~(node >= since) BY <1>9, <2>0 DEF ShapeInv, TreeOK
  <2>2. CASE node < since \/ ~checkOverload(g) BY <1>6, <2>1, <2>2
  <2>3. CASE ~(node < since \/ ~checkOverload(g))
    <3>1. g.functions = <<>> BY <2>3 DEF checkOverload
    <3>2. Len(g.functions) = 0 BY <3>1
    <3>3. Append(g.functions, h) = <<h>> BY <3>1
    <3>4. groups' = [groups EXCEPT ![p].queue = Tail(@), ![p].functions = Append(@, h)]
      BY <1>6, <1>18, <2>3
    <3>5. groups' = [groups EXCEPT ![p] = [g EXCEPT !.queue = Tail(g.queue),
                                                    !.functions = Append(g.functions, h)]]
      BY <1>7, <1>8, <3>4 DEF Groups, GroupInfo
    <3>6. functionQueue' = Append(functionQueue, <<p, 1>>) BY <1>6, <2>3, <3>2
    <3> QED BY <1>5, <1>6, <2>1, <2>3, <3>1, <3>3, <3>5, <3>6
  <2> QED BY <2>2, <2>3
<1>20. taken' = taken BY SMTT(30), <1>6
<1>21. OverloadStep(p, node, h)
  BY <1>5, <1>6, <1>7, <1>9, <1>14, <1>15, <1>16, <1>17, <1>18, <1>19, <1>20
  DEF OverloadStep, p, node, r
<1> QED BY SMTT(30), <1>21

(* A group whose queue or overload has changed *)
LEMMA GroupChanges ==
  ASSUME ShapeInv, NEW p \in DOMAIN groups, NEW g \in Groups,
         groups' = [groups EXCEPT ![p] = g],
         groups[p].functions # <<>> => g.functions # <<>>,
         UNCHANGED <<nodes, namespaces, classes, globals, globalTypes>>
  PROVE  SymbolsOK' /\ Grows
<1>1. DOMAIN groups' = DOMAIN groups /\ groups'[p] = g
      /\ \A q \in DOMAIN groups : q # p => groups'[q] = groups[q]
  OBVIOUS
<1>2. Translatable \subseteq Translatable' BY <1>1 DEF Translatable
<1>3. Len(nodes) \in Nat BY LenProperties DEF ShapeInv, TreeOK
<1>4. Grows BY <1>1, <1>2, <1>3 DEF Grows
<1>5. Groups \subseteq Groups' /\ QType \subseteq QType' BY <1>4, TypesGrow
<1>6. \A q \in DOMAIN groups' : groups'[q] \in Groups'
  BY <1>1, <1>5 DEF ShapeInv, SymbolsOK
<1> QED BY <1>1, <1>4, <1>5, <1>6 DEF ShapeInv, SymbolsOK

LEMMA OverloadShape ==
  ASSUME ShapeInv, NEW p, NEW node, NEW f, OverloadStep(p, node, f)
  PROVE  ShapeInv' /\ Grows
<1> USE DEF OverloadStep
<1>1. Len(nodes) \in Nat BY LenProperties DEF ShapeInv, TreeOK
<1>2. TreeOK' /\ ControlOK' /\ ReportsOK'
  BY DEF ShapeInv, TreeOK, ControlOK, ReportsOK
<1>3. CASE UNCHANGED <<groups, functionQueue>>
  <2>1. Translatable' = Translatable BY <1>3, SameGroups
  <2>2. Grows BY <1>1, <1>3, <2>1 DEF Grows
  <2>3. SymbolsOK' BY <1>3, <2>2, TypesGrow DEF ShapeInv, SymbolsOK
  <2>4. QueuesOK' BY <1>3, <2>1 DEF ShapeInv, QueuesOK
  <2>5. TakenOK' BY <1>3 DEF ShapeInv, TakenOK
  <2> QED BY <1>2, <2>2, <2>3, <2>4, <2>5 DEF ShapeInv
<1>4. CASE ~UNCHANGED <<groups, functionQueue>>
  <2> DEFINE g == [groups[p] EXCEPT !.queue = Tail(groups[p].queue), !.functions = <<f>>]
  <2>1. /\ groups' = [groups EXCEPT ![p] = g] /\ f \in Overloads
        /\ functionQueue' = Append(functionQueue, <<p, 1>>)
    BY <1>4
  <2>2. groups[p] \in Groups BY DEF ShapeInv, SymbolsOK
  <2>3. Tail(groups[p].queue) \in Seq(1..Len(nodes))
    <3>1. groups[p].queue \in Seq(1..Len(nodes)) BY <2>2 DEF Groups, GroupInfo
    <3> QED BY <3>1, HeadTailProperties
  <2>4. PICK fs : fs = <<f>> OBVIOUS
  <2>5. fs \in Seq(Overloads) /\ Len(fs) = 1 /\ fs # <<>>
    <3>1. \A S : f \in S => <<f>> \in Seq(S) /\ Len(<<f>>) = 1 /\ <<f>> # <<>>
      OBVIOUS
    <3> QED BY <2>1, <2>4, <3>1
  <2>6. PICK h : h = g OBVIOUS
  <2>7. h \in Groups /\ h.functions = fs
    <3>1. PICK q : q = Tail(groups[p].queue) OBVIOUS
    <3>2. h = [groups[p] EXCEPT !.queue = q, !.functions = fs]
      BY <2>4, <2>6, <3>1
    <3>3. PICK o, n, F : o = groups[p] /\ n = Len(nodes) /\ F = Overloads OBVIOUS
    <3>4. o \in GroupInfo(n, F) /\ q \in Seq(1..n) /\ fs \in Seq(F)
      BY <2>2, <2>3, <2>5, <3>1, <3>3 DEF Groups
    <3>5. h \in GroupInfo(n, F) /\ h.functions = fs
      <4>1. h = [o EXCEPT !.queue = q, !.functions = fs] BY <3>2, <3>3
      <4> QED BY ONLY <3>4, <4>1 DEF GroupInfo
    <3>6. h \in GroupInfo(Len(nodes), Overloads) BY <3>3, <3>5
    <3>7. Len(h.functions) <= 1
      <4>1. Len(h.functions) = 1 BY <2>5, <3>5
      <4> QED BY ONLY <4>1
    <3> QED BY ONLY <3>5, <3>6, <3>7 DEF Groups
  <2>8. groups' = [groups EXCEPT ![p] = h] BY <2>1, <2>6
  <2>9. SymbolsOK' /\ Grows
    <3> HIDE DEF g
    <3>1. UNCHANGED <<nodes, namespaces, classes, globals, globalTypes>> OBVIOUS
    <3>2. p \in DOMAIN groups OBVIOUS
    <3> QED BY <2>5, <2>7, <2>8, <3>1, <3>2, GroupChanges
  <2>10. DOMAIN groups' = DOMAIN groups BY <2>8
  <2>11. p \in Translatable'
    <3>1. groups'[p] = h BY <2>8
    <3> QED BY <2>5, <2>7, <2>10, <3>1 DEF Translatable
  <2>12. <<p, 1>> \in Slots(Translatable') BY <2>11 DEF Slots
  <2>13. functionQueue \in Seq(Slots(Translatable'))
    BY <2>9, QueuesGrow DEF ShapeInv
  <2>14. functionQueue' \in Seq(Slots(Translatable'))
    BY <2>1, <2>12, <2>13, AppendProperties
  <2>15. QueuesOK' BY <2>10, <2>14 DEF ShapeInv, QueuesOK
  <2>16. TakenOK' BY SMTT(30), <2>10 DEF ShapeInv, TakenOK
  <2> QED BY <1>2, <2>9, <2>15, <2>16 DEF ShapeInv
<1> QED BY <1>3, <1>4

(* A function is analyzed, once its types are known. *)
AnalysisStep(p, f, e) ==
    /\ p \in DOMAIN groups /\ p \in Seq(STRING) /\ groups[p].functions = <<f>>
    /\ status = "running" /\ phase = "functions" /\ taken # <<>>
    /\ Head(taken) = <<p, 1>> /\ taken' = Tail(taken)
    /\ taken' \in Seq(Slots(Translatable))
    /\ UNCHANGED <<nodes, since, namespaces, classes, globals, globalTypes, classQueue,
                   globalVariableQueue, functionGroupQueue, functionQueue,
                   initializers, initialized, phase>>
    /\ f \in Overloads /\ e \in Overloads
    /\ e.node = f.node /\ e.type = f.type /\ e.analyzed
    /\ e.calls = Used(Front(p), nodes[f.node].decl.routine, "group")
    /\ status' = IF f.node < since THEN "undefined"
                 ELSE Outcome(Front(p), nodes[f.node].decl.routine)
    /\ \E reports \in Seq(UnresolvedReports(f.node)) : diagnostics' = diagnostics \o reports
    /\ groups' = [groups EXCEPT ![p] = [groups[p] EXCEPT !.functions = <<e>>]]

LEMMA AnalyzeFunctionStep ==
  ASSUME ShapeInv, AnalyzeFunction
  PROVE  \E p, f, e : AnalysisStep(p, f, e)
<1> DEFINE p == Head(taken)[1]
           i == Head(taken)[2]
           f == groups[p].functions[i]
           r == nodes[f.node].decl.routine
           e == [f EXCEPT !.reads = Used(Front(p), r, "global"),
                          !.calls = Used(Front(p), r, "group"),
                          !.analyzed = TRUE]
<1>1. /\ status = "running" /\ phase = "functions" /\ taken # <<>>
      /\ UNCHANGED <<nodes, since, namespaces, classes, globals, globalTypes,
                     classQueue, globalVariableQueue, functionGroupQueue,
                     functionQueue, initializers, initialized, phase>>
      /\ taken' = Tail(taken)
  BY ZenonT(40) DEF AnalyzeFunction, InPass2, treeVars, runVars
<1>2. /\ status' = IF f.node < since THEN "undefined" ELSE Outcome(Front(p), r)
      /\ groups' = [groups EXCEPT ![p].functions[i] = e]
      /\ diagnostics' = diagnostics \o VarReports(Front(p), r, f.node)
  BY DEF AnalyzeFunction
<1>3. /\ \E q \in Translatable : Head(taken) = <<q, 1>>
      /\ Tail(taken) \in Seq(Slots(Translatable))
  BY <1>1, HeadOfTaken
<1>4. p \in Translatable /\ i = 1 /\ Head(taken) = <<p, 1>> BY <1>3
<1> HIDE DEF p, i
<1>5. p \in DOMAIN groups /\ groups[p].functions # <<>> /\ p \in Seq(STRING)
  BY <1>4 DEF Translatable, ShapeInv, SymbolsOK
<1>6. groups[p] \in Groups BY <1>5 DEF ShapeInv, SymbolsOK
<1>7. PICK fs : fs = groups[p].functions OBVIOUS
<1>8. fs \in Seq(Overloads) /\ Len(fs) = 1
  <2>1. fs \in Seq(Overloads) /\ Len(fs) <= 1 BY <1>6, <1>7 DEF Groups, GroupInfo
  <2>2. Len(fs) \in Nat \ {0} BY <1>5, <1>7, <2>1, EmptySeq
  <2>3. \A n \in Nat \ {0} : n <= 1 => n = 1 OBVIOUS
  <2>4. Len(fs) = 1 BY <2>1, <2>2, <2>3
  <2> QED BY <2>1, <2>4
<1>9. f = fs[1] BY <1>4, <1>7
<1>10. f \in Overloads
  <2>1. 1 \in 1..Len(fs) BY <1>8
  <2> QED BY <1>8, <1>9, <2>1, ElementOfSeq
<1> HIDE DEF f
<1>11. fs = <<f>> BY <1>8, <1>9, <1>10
<1>12. f.node \in 1..Len(nodes) BY <1>10 DEF Overloads, Overload
<1>13. r \in Routines
  <2>1. nodes[f.node] \in [ns : Seq(STRING), decl : Nodes]
    BY <1>12, ElementOfSeq DEF ShapeInv, TreeOK
  <2>2. nodes[f.node].decl \in Nodes BY <2>1
  <2> QED BY <2>2, DriverAssumption
<1>14. VarReports(Front(p), r, f.node) \in Seq(UnresolvedReports(f.node))
  BY <1>13, VarReportsLemma
<1>15. /\ Used(Front(p), r, "global") \subseteq DOMAIN globals
       /\ Used(Front(p), r, "group") \subseteq DOMAIN groups
  BY UsedLemma
<1> HIDE DEF r
<1>16. /\ e \in Overloads /\ e.node = f.node /\ e.type = f.type /\ e.analyzed
       /\ e.calls = Used(Front(p), r, "group")
  BY <1>10, <1>15 DEF Overloads, Overload
<1>17. PICK h : h = e OBVIOUS
<1>18. groups' = [groups EXCEPT ![p] = [groups[p] EXCEPT !.functions = <<h>>]]
  <2>1. groups' = [groups EXCEPT ![p] = [groups[p] EXCEPT
                                            !.functions = [fs EXCEPT ![i] = h]]]
    BY <1>2, <1>7, <1>17
  <2>2. [fs EXCEPT ![i] = h] = <<h>>
    <3>1. [<<f>> EXCEPT ![1] = h] = <<h>> OBVIOUS
    <3> QED BY <1>4, <1>11, <3>1
  <2> QED BY <2>1, <2>2
<1> HIDE DEF e
<1>19. AnalysisStep(p, f, h)
  BY <1>1, <1>2, <1>3, <1>4, <1>5, <1>7, <1>10, <1>11, <1>14, <1>16, <1>17, <1>18
  DEF AnalysisStep, r
<1> QED BY <1>19

LEMMA AnalysisShape ==
  ASSUME ShapeInv, NEW p, NEW f, NEW e, AnalysisStep(p, f, e)
  PROVE  ShapeInv' /\ Grows
<1> USE DEF AnalysisStep
<1>1. PICK g : g = [groups[p] EXCEPT !.functions = <<e>>] OBVIOUS
<1>2. g \in Groups /\ g.functions # <<>>
  <2>1. groups[p] \in Groups BY DEF ShapeInv, SymbolsOK
  <2>2. \A S : e \in S => <<e>> \in Seq(S) /\ Len(<<e>>) = 1 /\ <<e>> # <<>> OBVIOUS
  <2>3. PICK fs : fs = <<e>> OBVIOUS
  <2>4. fs \in Seq(Overloads) /\ Len(fs) = 1 /\ fs # <<>> BY <2>2, <2>3
  <2> QED BY <1>1, <2>1, <2>3, <2>4 DEF Groups, GroupInfo
<1>3. /\ UNCHANGED <<nodes, namespaces, classes, globals, globalTypes>>
      /\ p \in DOMAIN groups /\ groups' = [groups EXCEPT ![p] = g]
  BY <1>1
<1>4. SymbolsOK' /\ Grows BY <1>2, <1>3, GroupChanges
<1>5. DOMAIN groups' = DOMAIN groups BY <1>3
<1>6. functionQueue' \in Seq(Slots(Translatable'))
  BY <1>4, QueuesGrow DEF ShapeInv
<1>7. taken' \in Seq(Slots(Translatable'))
  <2>1. \A A, B : A \subseteq B => Slots(A) \subseteq Slots(B) BY DEF Slots
  <2>2. Slots(Translatable) \subseteq Slots(Translatable') BY <1>4, <2>1 DEF Grows
  <2> QED BY <2>2, SeqMonotonic
<1>8. QueuesOK' BY <1>5, <1>6 DEF ShapeInv, QueuesOK
<1>9. TakenOK' BY <1>7 DEF TakenOK
<1>10. ReportsOK'
  <2>1. f.node \in 1..Len(nodes) BY DEF Overloads, Overload
  <2>2. diagnostics' \in Seq(Diagnostic(Len(nodes))) BY <2>1, ReportsShape
  <2> QED BY <2>2 DEF ReportsOK
<1>11. TreeOK' BY DEF ShapeInv, TreeOK
<1>12. ControlOK'
  <2>1. status' \in {"running", "assert", "notImplemented", "undefined"}
    BY DEF Outcome
  <2> QED BY <2>1 DEF ShapeInv, ControlOK
<1> QED BY <1>4, <1>8, <1>9, <1>10, <1>11, <1>12 DEF ShapeInv

LEMMA PendingShape ==
  ASSUME ShapeInv, processPendingDeclarations
  PROVE  ShapeInv' /\ Grows
<1>1. CASE TakeQueue BY <1>1, TakeShape
<1>2. CASE ResolveGlobalVariable BY <1>2, ResolveGlobalShape
<1>3. CASE ResolveOverload BY <1>3, ResolveOverloadStep, OverloadShape
<1>4. CASE FinishGroup
  <2>1. /\ phase = "groups" /\ taken # <<>> /\ taken' = Tail(taken)
        /\ UNCHANGED <<treeVars, namespaces, classes, globals, classQueue,
                       globalVariableQueue, functionGroupQueue, phase, globalTypes,
                       groups, functionQueue, diagnostics, status>>
    BY <1>4 DEF FinishGroup, InPass2
  <2>2. taken' \in Seq(DOMAIN groups) BY <2>1, HeadOfTaken
  <2> QED
    BY <2>1, <2>2, SameShape
    DEF treeVars, symbolVars, ShapeInv, TreeOK, TakenOK, ControlOK
<1>5. CASE AnalyzeFunction BY <1>5, AnalyzeFunctionStep, AnalysisShape
<1>6. CASE FinishPending
  <2>1. /\ UNCHANGED <<treeVars, symbolVars, queueVars, taken, diagnostics, status>>
        /\ taken = <<>> /\ phase' \in {"read", "main"}
    BY <1>6 DEF FinishPending, Drive, AfterPending
  <2> QED
    BY <2>1, SameShape
    DEF treeVars, queueVars, ShapeInv, TreeOK, TakenOK, ControlOK
<1> QED BY <1>1, <1>2, <1>3, <1>4, <1>5, <1>6 DEF processPendingDeclarations

LEMMA ExecuteShape ==
  ASSUME ShapeInv, NEW body, NEW to \in {"read", "end"}, ExecuteCommand(body, to),
         phase \in {"read", "main"}
  PROVE  ShapeInv' /\ Grows
<1>1. /\ UNCHANGED <<treeVars, symbolVars, taken, classQueue, globalVariableQueue,
                     functionGroupQueue, functionQueue, diagnostics>>
      /\ phase' = to
      /\ status' \in {"running", "assert", "notImplemented", "undefined"}
  BY DEF ExecuteCommand, Execute, Outcome
<1>2. taken = <<>> BY DEF ShapeInv, TakenOK
<1> QED
  BY <1>1, <1>2, SameShape
  DEF treeVars, ShapeInv, TreeOK, TakenOK, ControlOK

LEMMA ShapeNext == NamesInv /\ NamesInv' /\ ShapeInv /\ [Next]_vars => ShapeInv' /\ Grows
<1> SUFFICES ASSUME NamesInv, NamesInv', ShapeInv, [Next]_vars PROVE ShapeInv' /\ Grows
  OBVIOUS
<1>1. CASE Declare BY <1>1, DeclareNext
<1>2. CASE processPendingDeclarations BY <1>2, PendingShape
<1>3. CASE ReadDeclaration
  <2>1. /\ UNCHANGED <<nodes, symbolVars, queueVars, taken, diagnostics, status>>
        /\ taken = <<>> /\ phase' = "declare"
        /\ since' = IF Interactive THEN at ELSE since
    BY <1>3 DEF ReadDeclaration, Drive
  <2>2. since' \in 1..(Len(nodes) + 1)
    <3>1. Len(nodes) \in Nat BY LenProperties DEF ShapeInv, TreeOK
    <3> QED BY <2>1, <3>1 DEF at, ShapeInv, TreeOK
  <2> QED BY <2>1, <2>2, SameShape DEF queueVars, ShapeInv, TakenOK, ControlOK
<1>4. CASE EndOfScript \/ EndOfSession
  <2>1. /\ UNCHANGED <<treeVars, symbolVars, queueVars, taken, diagnostics, status>>
        /\ taken = <<>> /\ phase' \in {"pending", "end"}
    BY <1>4 DEF EndOfScript, EndOfSession, Drive
  <2> QED
    BY <2>1, SameShape
    DEF treeVars, queueVars, ShapeInv, TreeOK, TakenOK, ControlOK
<1>5. CASE Command BY <1>5, ExecuteShape DEF Command
<1>6. CASE Qinit BY <1>6, ExecuteShape DEF Qinit
<1>7. CASE UNCHANGED vars
  BY <1>7, SameShape, SameGroups
  DEF vars, treeVars, queueVars, controlVars, symbolVars, ShapeInv, TreeOK, TakenOK,
      ControlOK
<1> QED BY <1>1, <1>2, <1>3, <1>4, <1>5, <1>6, <1>7 DEF Next

(* The infos, the queues and the diagnostics refer to what exists,         *)
(* whatever is declared: a type of a class names a class, an overload      *)
(* reads globals and calls groups that are there, no group gets a second   *)
(* function.                                                               *)
THEOREM TypesAreRight == Spec => []TypeOK
<1>1. Init => NamesInv /\ ShapeInv BY NamesInit, ShapeInit
<1>2. NamesInv /\ ShapeInv /\ [Next]_vars => NamesInv' /\ ShapeInv'
  BY NamesNext, ShapeNext
<1>3. ShapeInv => TypeOK BY ShapeImpliesTypes
<1> QED BY <1>1, <1>2, <1>3, PTL DEF Spec

-----------------------------------------------------------------------------
(* The queues. *)

GlobalsWaiting   == Waiting(globalVariableQueue, "globals")
GroupsWaiting    == Waiting(functionGroupQueue, "groups")
FunctionsWaiting == Waiting(functionQueue, "functions")

Unresolved == DOMAIN globals \ DOMAIN globalTypes
Pending    == {p \in DOMAIN groups : groups[p].queue # <<>>}
Unanalyzed == {p \in Translatable : ~groups[p].functions[1].analyzed}

GlobalsQueued == IsInjective(GlobalsWaiting) /\ ToSet(GlobalsWaiting) = Unresolved
GroupsQueued ==
    /\ IsInjective(GroupsWaiting)
    /\ Pending \subseteq ToSet(GroupsWaiting)
    /\ phase # "groups" => ToSet(GroupsWaiting) = Pending
FunctionsQueued ==
    /\ IsInjective(FunctionsWaiting)
    /\ ToSet(FunctionsWaiting) = Slots(Unanalyzed)

(* All that is declared has been resolved and translated. *)
Done == phase \in {"main", "end"} \/ (Interactive /\ phase = "read")

(* A queue that has been taken stays empty until something is declared. *)
Emptied ==
    /\ Done \/ phase \in {"globals", "groups", "functions"} => globalVariableQueue = <<>>
    /\ Done \/ phase \in {"groups", "functions"} => functionGroupQueue = <<>>
    /\ Done \/ phase = "functions" => functionQueue = <<>>

(* What waits has not been deleted. *)
NothingDeleted ==
    /\ \A p \in Unresolved : globals[p] >= since
    /\ \A p \in DOMAIN groups : \A n \in ToSet(groups[p].queue) : n >= since
    /\ \A p \in Unanalyzed : groups[p].functions[1].node >= since

(* What is called has a function. *)
CallsOK == \A p \in Translatable : groups[p].functions[1].calls \subseteq Translatable

QueueInv ==
    status = "running" => /\ GlobalsQueued /\ GroupsQueued /\ FunctionsQueued
                          /\ Emptied /\ NothingDeleted /\ CallsOK

LEMMA QueuesWaiting == ShapeInv /\ QueueInv => QueuedOnce
<1> SUFFICES ASSUME ShapeInv, QueueInv, status = "running" PROVE QueuedOnce
  BY DEF QueuedOnce
<1> DEFINE g == Waiting(globalVariableQueue, "globals")
           o == Waiting(functionGroupQueue, "groups")
           f == Waiting(functionQueue, "functions")
           open(p) == {<<p, i>> : i \in {j \in 1..Len(groups[p].functions) :
                                            ~groups[p].functions[j].analyzed}}
<1>1. /\ IsInjective(g) /\ ToSet(g) = DOMAIN globals \ DOMAIN globalTypes
  BY DEF QueueInv, GlobalsQueued, GlobalsWaiting, Unresolved
<1>2. /\ IsInjective(o)
      /\ \A p \in DOMAIN groups :
             /\ groups[p].queue # <<>> => p \in ToSet(o)
             /\ p \in ToSet(o) /\ phase # "groups" => groups[p].queue # <<>>
  BY DEF QueueInv, GroupsQueued, GroupsWaiting, Pending
<1>3. IsInjective(f) /\ ToSet(f) = Slots(Unanalyzed)
  BY DEF QueueInv, FunctionsQueued, FunctionsWaiting
<1>4. ASSUME NEW p \in DOMAIN groups
      PROVE  open(p) = {<<p, 1>> : q \in {p} \cap Unanalyzed}
  <2>1. groups[p].functions \in Seq(Overloads) /\ Len(groups[p].functions) <= 1
    BY DEF ShapeInv, SymbolsOK, Groups, GroupInfo
  <2>2. PICK fs : fs = groups[p].functions OBVIOUS
  <2>3. PICK n \in Nat : n = Len(fs) /\ n <= 1 BY <2>1, <2>2, LenProperties
  <2>4. fs = <<>> <=> n = 0 BY <2>1, <2>2, <2>3, EmptySeq
  <2>5. n = 0 \/ n = 1 BY <2>3
  <2>6. CASE n = 0
    <3>1. p \notin Unanalyzed BY <2>2, <2>4, <2>6 DEF Unanalyzed, Translatable
    <3>2. 1..Len(groups[p].functions) = {} BY <2>2, <2>3, <2>6
    <3> QED BY <3>1, <3>2
  <2>7. CASE n = 1
    <3>1. 1..Len(groups[p].functions) = {1} BY <2>2, <2>3, <2>7
    <3>2. p \in Unanalyzed <=> ~groups[p].functions[1].analyzed
      BY <2>2, <2>4, <2>7 DEF Unanalyzed, Translatable
    <3> QED BY <3>1, <3>2
  <2> QED BY <2>5, <2>6, <2>7
<1>5. Slots(Unanalyzed) = UNION {open(p) : p \in DOMAIN groups}
  <2> HIDE DEF open
  <2>1. Unanalyzed \subseteq DOMAIN groups BY DEF Unanalyzed, Translatable
  <2> QED BY <1>4, <2>1 DEF Slots
<1> QED BY <1>1, <1>2, <1>3, <1>5 DEF QueuedOnce

LEMMA QueueInit == Init => QueueInv
<1> SUFFICES ASSUME Init PROVE QueueInv OBVIOUS
<1>1. /\ DOMAIN globals = {} /\ DOMAIN globalTypes = {} /\ DOMAIN groups = {}
      /\ phase = "read" /\ globalVariableQueue = <<>> /\ functionGroupQueue = <<>>
      /\ functionQueue = <<>>
  BY DEF Init
<1>2. Unresolved = {} /\ Pending = {} /\ Translatable = {} /\ Unanalyzed = {}
  BY <1>1 DEF Unresolved, Pending, Translatable, Unanalyzed
<1>3. <<>> \o <<>> = <<>> OBVIOUS
<1>4. GlobalsWaiting = <<>> /\ GroupsWaiting = <<>> /\ FunctionsWaiting = <<>>
  BY <1>1, <1>3 DEF GlobalsWaiting, GroupsWaiting, FunctionsWaiting, Waiting
<1>5. GlobalsQueued /\ GroupsQueued /\ FunctionsQueued
  BY <1>2, <1>4, EmptyLemma DEF GlobalsQueued, GroupsQueued, FunctionsQueued, Slots
<1>6. Emptied BY <1>1 DEF Emptied
<1>7. NothingDeleted /\ CallsOK BY <1>1, <1>2 DEF NothingDeleted, CallsOK
<1> QED BY <1>5, <1>6, <1>7 DEF QueueInv

(* Whatever waits in a queue is waiting in it alone, unless it is worked on. *)
LEMMA Idle ==
  ASSUME ShapeInv
  PROVE  /\ phase # "globals" => GlobalsWaiting = globalVariableQueue
         /\ phase = "globals" /\ globalVariableQueue = <<>> => GlobalsWaiting = taken
         /\ phase # "groups" => GroupsWaiting = functionGroupQueue
         /\ phase = "groups" /\ functionGroupQueue = <<>> => GroupsWaiting = taken
         /\ phase # "functions" => FunctionsWaiting = functionQueue
         /\ phase = "functions" /\ functionQueue = <<>> => FunctionsWaiting = taken
BY ConcatEmptySeq
DEF ShapeInv, QueuesOK, TakenOK, GlobalsWaiting, GroupsWaiting, FunctionsWaiting, Waiting

LEMMA IdleNext ==
  ASSUME ShapeInv'
  PROVE  /\ phase' # "globals" => GlobalsWaiting' = globalVariableQueue'
         /\ phase' = "globals" /\ globalVariableQueue' = <<>> => GlobalsWaiting' = taken'
         /\ phase' # "groups" => GroupsWaiting' = functionGroupQueue'
         /\ phase' = "groups" /\ functionGroupQueue' = <<>> => GroupsWaiting' = taken'
         /\ phase' # "functions" => FunctionsWaiting' = functionQueue'
         /\ phase' = "functions" /\ functionQueue' = <<>> => FunctionsWaiting' = taken'
BY ConcatEmptySeq
DEF ShapeInv, QueuesOK, TakenOK, GlobalsWaiting, GroupsWaiting, FunctionsWaiting, Waiting

(* A step between two queues *)
LEMMA SameQueues ==
  ASSUME ShapeInv, ShapeInv', QueueInv, status = "running",
         UNCHANGED <<globals, globalTypes, groups, since, globalVariableQueue,
                     functionGroupQueue, functionQueue>>,
         taken = <<>>, taken' = <<>>, phase # "groups", phase' # "groups", Emptied'
  PROVE  QueueInv'
<1>1. /\ GlobalsWaiting = globalVariableQueue /\ GroupsWaiting = functionGroupQueue
      /\ FunctionsWaiting = functionQueue
  BY ConcatEmptySeq
  DEF GlobalsWaiting, GroupsWaiting, FunctionsWaiting, Waiting, ShapeInv, QueuesOK
<1>2. /\ GlobalsWaiting' = globalVariableQueue' /\ GroupsWaiting' = functionGroupQueue'
      /\ FunctionsWaiting' = functionQueue'
  BY ConcatEmptySeq
  DEF GlobalsWaiting, GroupsWaiting, FunctionsWaiting, Waiting, ShapeInv, QueuesOK
<1>3. /\ Translatable' = Translatable /\ Unanalyzed' = Unanalyzed
      /\ Unresolved' = Unresolved /\ Pending' = Pending
  BY DEF Translatable, Unanalyzed, Unresolved, Pending
<1>4. GlobalsQueued' BY <1>1, <1>2, <1>3 DEF QueueInv, GlobalsQueued
<1>5. GroupsQueued' BY <1>1, <1>2, <1>3 DEF QueueInv, GroupsQueued
<1>6. FunctionsQueued' BY <1>1, <1>2, <1>3 DEF QueueInv, FunctionsQueued
<1>7. NothingDeleted' /\ CallsOK' BY <1>3 DEF QueueInv, NothingDeleted, CallsOK
<1> QED BY <1>4, <1>5, <1>6, <1>7 DEF QueueInv

(* The driver collects declarations. *)
LEMMA DeclareQueues ==
  ASSUME NamesInv, ShapeInv, ShapeInv', QueueInv, Declare
  PROVE  /\ QueueInv'
         /\ status' \in {"running", "notImplemented"} \/ ClashWithDeletedTree
<1>1. ASSUME NEW kinds, Processing(kinds)
      PROVE  status = "running" /\ todo # <<>> /\ phase = "declare" /\ taken = <<>>
  BY <1>1 DEF Processing, ShapeInv, TakenOK
<1>2. ASSUME NEW members, Advance(members), phase = "declare", status = "running",
             UNCHANGED <<globals, globalTypes, groups, globalVariableQueue,
                         functionGroupQueue>>
      PROVE  QueueInv' /\ status' \in {"running", "notImplemented"}
  <2>1. UNCHANGED <<since, functionQueue, phase, taken, status>> /\ taken = <<>>
    BY <1>2 DEF Advance, controlVars, ShapeInv, TakenOK
  <2>2. Emptied' BY <1>2, <2>1 DEF Emptied, Done
  <2> QED BY <1>2, <2>1, <2>2, SameQueues
<1>3. ASSUME NEW reports, Reject(reports), phase = "declare", status = "running"
      PROVE  QueueInv' /\ status' \in {"running", "notImplemented"}
  BY <1>2, <1>3 DEF Reject, symbolVars
<1>4. CASE RejectName BY <1>1, <1>3, <1>4 DEF RejectName
<1>5. CASE ProcessConstant \/ ClashWithDeletedTree
  BY <1>5 DEF ProcessConstant, ClashWithDeletedTree, End, QueueInv
<1>6. CASE AddNamespace BY <1>1, <1>2, <1>6 DEF AddNamespace
<1>7. CASE ReopenNamespace BY <1>1, <1>2, <1>7 DEF ReopenNamespace, symbolVars
<1>8. CASE RejectNamespace BY <1>1, <1>3, <1>8 DEF RejectNamespace
<1>9. CASE AddClass BY <1>1, <1>2, <1>9 DEF AddClass
<1>10. CASE RejectClass BY <1>1, <1>3, <1>10 DEF RejectClass
<1>11. CASE AddGlobalVariable
  <2>1. /\ status = "running" /\ todo # <<>> /\ phase = "declare" /\ taken = <<>>
        /\ Advance(<<>>)
        /\ path \notin DOMAIN globals /\ globals' = Put(globals, path, at)
        /\ globalVariableQueue' = Append(globalVariableQueue, path)
        /\ UNCHANGED <<globalTypes, groups, functionGroupQueue>>
    BY <1>1, <1>11 DEF AddGlobalVariable, TypesWhenDeclared
  <2>2. UNCHANGED <<since, functionQueue, phase, taken, status>>
    BY <2>1 DEF Advance, controlVars
  <2>3. /\ DOMAIN globals' = DOMAIN globals \cup {path} /\ globals'[path] = at
        /\ \A p \in DOMAIN globals : globals'[p] = globals[p]
    BY <2>1 DEF Put
  <2>4. path \notin DOMAIN globalTypes BY <2>1 DEF ShapeInv, SymbolsOK
  <2>5. Unresolved' = Unresolved \cup {path} BY <2>1, <2>3, <2>4 DEF Unresolved
  <2>6. /\ GlobalsWaiting = globalVariableQueue /\ GlobalsWaiting' = globalVariableQueue'
        /\ GroupsWaiting' = GroupsWaiting /\ FunctionsWaiting' = FunctionsWaiting
    BY <2>1, <2>2, Idle, IdleNext
  <2>7. GlobalsQueued'
    <3>1. /\ IsInjective(globalVariableQueue) /\ ToSet(globalVariableQueue) = Unresolved
          /\ path \notin Unresolved
      BY <2>1, <2>6 DEF QueueInv, GlobalsQueued, Unresolved
    <3>2. globalVariableQueue \in Seq(Seq(STRING)) /\ path \in Seq(STRING)
      <4>1. path \in DOMAIN globals' /\ DOMAIN globals' \subseteq Seq(STRING)
        BY <2>3 DEF ShapeInv, SymbolsOK
      <4>2. DOMAIN globals \subseteq Seq(STRING) BY DEF ShapeInv, SymbolsOK
      <4> QED BY <4>1, <4>2, SeqMonotonic DEF ShapeInv, QueuesOK
    <3>3. /\ ToSet(Append(globalVariableQueue, path)) = Unresolved \cup {path}
          /\ IsInjective(Append(globalVariableQueue, path))
      BY <3>1, <3>2, AppendLemma
    <3> QED BY <2>1, <2>5, <2>6, <3>3 DEF GlobalsQueued
  <2>8. /\ Translatable' = Translatable /\ Unanalyzed' = Unanalyzed /\ Pending' = Pending
    BY <2>1 DEF Translatable, Unanalyzed, Pending
  <2>9. GroupsQueued' /\ FunctionsQueued'
    BY <2>1, <2>2, <2>6, <2>8 DEF QueueInv, GroupsQueued, FunctionsQueued
  <2>10. Emptied' BY <2>1, <2>2 DEF Emptied, Done
  <2>11. at >= since
    <3>1. Len(nodes) \in Nat BY LenProperties DEF ShapeInv, TreeOK
    <3> QED BY <3>1 DEF at, ShapeInv, TreeOK
  <2>12. NothingDeleted'
    <3>1. \A p \in Unresolved' : globals'[p] >= since'
      BY <2>1, <2>2, <2>3, <2>5, <2>11 DEF QueueInv, NothingDeleted, Unresolved
    <3> QED BY <2>1, <2>2, <2>8, <3>1 DEF QueueInv, NothingDeleted
  <2>13. CallsOK' BY <2>1, <2>8 DEF QueueInv, CallsOK
  <2> QED BY <2>1, <2>2, <2>7, <2>9, <2>10, <2>12, <2>13 DEF QueueInv
<1>12. CASE RejectGlobalVariable BY <1>1, <1>3, <1>12 DEF RejectGlobalVariable
<1>13. CASE AddFunction
  <2>1. /\ status = "running" /\ todo # <<>> /\ phase = "declare" /\ taken = <<>>
        /\ Advance(<<>>)
        /\ functionGroupQueue' = functionGroupQueue \o Enqueued(GroupOf(path))
        /\ UNCHANGED <<globals, globalTypes, globalVariableQueue>>
    BY <1>1, <1>13 DEF AddFunction
  <2>2. UNCHANGED <<since, functionQueue, phase, taken, status>>
    BY <2>1 DEF Advance, controlVars
  <2>3. /\ GroupOf(path) \in Groups'
        /\ groups'[path] = [GroupOf(path) EXCEPT !.queue = Append(@, at)]
        /\ \A p \in DOMAIN groups : p # path => groups'[p] = groups[p]
        /\ DOMAIN groups' = DOMAIN groups \cup {path}
    BY <1>13, <2>1, AddFunctionGroup DEF NamesInv
  <2>4. PICK g : g = GroupOf(path) OBVIOUS
  <2>5. /\ g \in Groups' /\ g.queue \in Seq(1..Len(nodes'))
        /\ Len(nodes') = Len(nodes) + 1 /\ Len(nodes) \in Nat
        /\ at \in 1..Len(nodes') /\ at >= since
    <3>1. Len(nodes) \in Nat /\ Len(nodes') = Len(nodes) + 1 /\ at = Len(nodes) + 1
      BY <2>1, AdvanceNodes DEF ShapeInv, NamesInv
    <3>2. g \in Groups' /\ g.queue \in Seq(1..Len(nodes'))
      BY <2>3, <2>4 DEF Groups, GroupInfo
    <3> QED BY <3>1, <3>2 DEF ShapeInv, TreeOK
  <2>6. PICK q : q = Append(g.queue, at) OBVIOUS
  <2>7. /\ groups'[path].queue = q /\ groups'[path].functions = g.functions
        /\ q # <<>> /\ ToSet(q) = ToSet(g.queue) \cup {at}
    <3>1. groups'[path] = [g EXCEPT !.queue = q] BY <2>3, <2>4, <2>6
    <3>2. q # <<>> BY <2>5, <2>6, AppendProperties
    <3>3. ToSet(q) = ToSet(g.queue) \cup {at} BY <2>5, <2>6, AppendLemma
    <3> QED BY <2>5, <3>1, <3>2, <3>3 DEF Groups, GroupInfo
  <2>8. /\ path \in DOMAIN groups => g = groups[path]
        /\ path \notin DOMAIN groups => g.queue = <<>> /\ g.functions = <<>>
    BY <2>4 DEF GroupOf
  <2>9. Translatable' = Translatable /\ Unanalyzed' = Unanalyzed
    <3>1. \A p \in DOMAIN groups : groups'[p].functions = groups[p].functions
      BY <2>3, <2>7, <2>8
    <3>2. Translatable' = Translatable BY <2>3, <2>7, <2>8, <3>1 DEF Translatable
    <3>3. \A p \in Translatable : groups'[p].functions = groups[p].functions
      BY <3>1 DEF Translatable
    <3> QED BY <3>2, <3>3 DEF Unanalyzed
  <2>10. Pending' = Pending \cup {path} BY <2>3, <2>7 DEF Pending
  <2>11. /\ GroupsWaiting = functionGroupQueue /\ GroupsWaiting' = functionGroupQueue'
         /\ GlobalsWaiting' = GlobalsWaiting /\ FunctionsWaiting' = FunctionsWaiting
    BY <2>1, <2>2, Idle, IdleNext
  <2>12. GroupsQueued'
    <3>1. IsInjective(functionGroupQueue) /\ ToSet(functionGroupQueue) = Pending
      BY <2>1, <2>11 DEF QueueInv, GroupsQueued
    <3>2. functionGroupQueue \in Seq(Seq(STRING)) /\ path \in Seq(STRING)
      <4>1. path \in DOMAIN groups' /\ DOMAIN groups' \subseteq Seq(STRING)
        BY <2>3 DEF ShapeInv, SymbolsOK
      <4>2. DOMAIN groups \subseteq Seq(STRING) BY DEF ShapeInv, SymbolsOK
      <4> QED BY <4>1, <4>2, SeqMonotonic DEF ShapeInv, QueuesOK
    <3>3. CASE g.queue = <<>>
      <4>1. path \notin Pending BY <2>8, <3>3 DEF Pending
      <4>2. functionGroupQueue' = functionGroupQueue \o <<path>>
        BY <2>1, <2>4, <3>3 DEF Enqueued
      <4>3. functionGroupQueue' = Append(functionGroupQueue, path)
        BY <3>2, <4>2, AppendIsConcat
      <4>4. /\ ToSet(functionGroupQueue') = Pending \cup {path}
            /\ IsInjective(functionGroupQueue')
        BY <3>1, <3>2, <4>1, <4>3, AppendLemma
      <4> QED BY <2>10, <2>11, <4>4 DEF GroupsQueued
    <3>4. CASE g.queue # <<>>
      <4>1. path \in Pending BY <2>8, <3>4 DEF Pending
      <4>2. functionGroupQueue' = functionGroupQueue \o <<>>
        BY <2>1, <2>4, <3>4 DEF Enqueued
      <4>3. functionGroupQueue' = functionGroupQueue BY <3>2, <4>2, ConcatEmptySeq
      <4> QED BY <2>10, <2>11, <3>1, <4>1, <4>3 DEF GroupsQueued
    <3> QED BY <3>3, <3>4
  <2>13. Unresolved' = Unresolved BY <2>1 DEF Unresolved
  <2>14. GlobalsQueued' /\ FunctionsQueued'
    BY <2>1, <2>9, <2>11, <2>13 DEF QueueInv, GlobalsQueued, FunctionsQueued
  <2>15. Emptied' BY <2>1, <2>2 DEF Emptied, Done
  <2>16. NothingDeleted'
    <3>1. \A p \in Unresolved' : globals'[p] >= since'
      BY <2>1, <2>2, <2>13 DEF QueueInv, NothingDeleted
    <3>2. \A n \in ToSet(g.queue) : n >= since
      <4>1. CASE path \in DOMAIN groups
        BY <2>1, <2>8, <4>1 DEF QueueInv, NothingDeleted
      <4>2. CASE path \notin DOMAIN groups BY <2>8, <4>2, EmptyLemma
      <4> QED BY <4>1, <4>2
    <3>3. \A p \in DOMAIN groups' : \A n \in ToSet(groups'[p].queue) : n >= since'
      <4>1. \A n \in ToSet(groups'[path].queue) : n >= since'
        BY <2>2, <2>5, <2>7, <3>2
      <4> QED BY <2>1, <2>2, <2>3, <4>1 DEF QueueInv, NothingDeleted
    <3>4. \A p \in Unanalyzed' : groups'[p].functions[1].node >= since'
      <4>1. \A p \in Unanalyzed : groups'[p].functions = groups[p].functions
        BY <2>3, <2>7, <2>8 DEF Unanalyzed, Translatable
      <4> QED BY <2>1, <2>2, <2>9, <4>1 DEF QueueInv, NothingDeleted
    <3> QED BY <3>1, <3>3, <3>4 DEF NothingDeleted
  <2>17. CallsOK'
    <3>1. \A p \in Translatable : groups'[p].functions = groups[p].functions
      BY <2>3, <2>7, <2>8 DEF Translatable
    <3> QED BY <2>1, <2>9, <3>1 DEF QueueInv, CallsOK
  <2> QED BY <2>1, <2>2, <2>12, <2>14, <2>15, <2>16, <2>17 DEF QueueInv
<1>14. CASE RejectFunction BY <1>1, <1>3, <1>14 DEF RejectFunction
<1>15. CASE FinishDeclaration
  <2>1. /\ UNCHANGED <<treeVars, symbolVars, queueVars, taken, status>>
        /\ status = "running" /\ phase = "declare" /\ taken = <<>>
        /\ phase' = IF Interactive THEN "pending" ELSE "read"
    BY <1>15 DEF FinishDeclaration, Drive, AfterDeclaration
  <2>2. Emptied' BY <2>1, DriverAssumption DEF Emptied, Done
  <2> QED BY <2>1, <2>2, SameQueues DEF treeVars, symbolVars, queueVars
<1> QED
  BY <1>4, <1>5, <1>6, <1>7, <1>8, <1>9, <1>10, <1>11, <1>12, <1>13, <1>14, <1>15
  DEF Declare

LEMMA TakeQueues ==
  ASSUME ShapeInv, ShapeInv', QueueInv, TakeQueue
  PROVE  QueueInv' /\ status' = "running"
<1>1. /\ status = "running" /\ status' = "running" /\ taken = <<>>
      /\ UNCHANGED <<since, globals, globalTypes, groups>>
      /\ phase \in {"pending", "globals", "groups"}
      /\ phase = "pending" => phase' = "globals"
      /\ phase = "globals" => phase' = "groups"
      /\ phase = "groups" => phase' = "functions"
      /\ taken' = CASE phase' = "globals"   -> globalVariableQueue
                    [] phase' = "groups"    -> functionGroupQueue
                    [] phase' = "functions" -> functionQueue
      /\ globalVariableQueue' = IF phase' = "globals" THEN <<>> ELSE globalVariableQueue
      /\ functionGroupQueue'  = IF phase' = "groups" THEN <<>> ELSE functionGroupQueue
      /\ functionQueue'       = IF phase' = "functions" THEN <<>> ELSE functionQueue
  BY DEF TakeQueue, PhaseAfter, treeVars, symbolVars
<1>2. /\ GlobalsQueued /\ GroupsQueued /\ FunctionsQueued /\ Emptied /\ NothingDeleted
      /\ CallsOK
  BY <1>1 DEF QueueInv
<1>3. /\ phase \in {"globals", "groups"} => globalVariableQueue = <<>>
      /\ phase = "groups" => functionGroupQueue = <<>>
  BY <1>2 DEF Emptied
<1>4. GlobalsWaiting' = GlobalsWaiting BY <1>1, <1>3, Idle, IdleNext
<1>5. GroupsWaiting' = GroupsWaiting BY <1>1, <1>3, Idle, IdleNext
<1>6. FunctionsWaiting' = FunctionsWaiting BY <1>1, Idle, IdleNext
<1>7. /\ Translatable' = Translatable /\ Unanalyzed' = Unanalyzed
      /\ Unresolved' = Unresolved /\ Pending' = Pending
  BY <1>1 DEF Translatable, Unanalyzed, Unresolved, Pending
<1>8. GroupsQueued'
  <2>1. CASE phase # "groups" BY <1>2, <1>5, <1>7, <2>1 DEF GroupsQueued
  <2>2. CASE phase = "groups"
    <3>1. GroupsWaiting = <<>> BY <1>1, <1>3, <2>2, Idle
    <3>2. Pending = {} BY <1>2, <3>1, EmptyLemma DEF GroupsQueued
    <3> QED BY <1>5, <1>7, <3>1, <3>2, EmptyLemma DEF GroupsQueued
  <2> QED BY <2>1, <2>2
<1>9. GlobalsQueued' BY <1>2, <1>4, <1>7 DEF GlobalsQueued
<1>10. FunctionsQueued' BY <1>2, <1>6, <1>7 DEF FunctionsQueued
<1>11. Emptied'
  <2>1. ~Done' BY <1>1 DEF Done
  <2> QED BY <1>1, <1>3, <2>1 DEF Emptied
<1>12. NothingDeleted' /\ CallsOK' BY <1>1, <1>2, <1>7 DEF NothingDeleted, CallsOK
<1> QED BY <1>1, <1>8, <1>9, <1>10, <1>11, <1>12 DEF QueueInv

(* GlobalVariableInfo::pass2() has not been called before for the variable. *)
LEMMA ResolveGlobalQueues ==
  ASSUME ShapeInv, ShapeInv', QueueInv, ResolveGlobalVariable
  PROVE  QueueInv' /\ status' \in {"running", "notImplemented"}
<1>1. /\ status = "running" /\ phase = "globals" /\ taken # <<>> /\ taken' = Tail(taken)
      /\ UNCHANGED <<since, globals, groups, globalVariableQueue, functionGroupQueue,
                     functionQueue, phase>>
  BY DEF ResolveGlobalVariable, InPass2, treeVars
<1>2. /\ GlobalsQueued /\ GroupsQueued /\ FunctionsQueued /\ Emptied /\ NothingDeleted
      /\ CallsOK
  BY <1>1 DEF QueueInv
<1>3. PICK p : p = Head(taken) OBVIOUS
<1>4. globalVariableQueue = <<>> BY <1>1, <1>2 DEF Emptied
<1>5. GlobalsWaiting = taken /\ GlobalsWaiting' = taken'
  BY <1>1, <1>4, Idle, IdleNext
<1>6. /\ ToSet(taken) = Unresolved /\ IsInjective(taken)
      /\ taken \in Seq(DOMAIN globals)
  BY <1>1, <1>2, <1>5 DEF GlobalsQueued, ShapeInv, TakenOK
<1>7. p \in Unresolved /\ IsInjective(taken') /\ ToSet(taken') = Unresolved \ {p}
  BY <1>1, <1>3, <1>6, TailLemma
<1>8. globals[p] >= since BY <1>2, <1>7 DEF NothingDeleted
<1>9. ~(globals[p] < since)
  <2>1. Len(nodes) \in Nat BY LenProperties DEF ShapeInv, TreeOK
  <2>2. globals[p] \in Int /\ since \in Int
    BY <1>7, <2>1 DEF Unresolved, ShapeInv, SymbolsOK, TreeOK
  <2> QED BY <1>8, <2>2
<1>10. p \notin DOMAIN globalTypes BY <1>7 DEF Unresolved
<1>11. PICK type : type = resolveType(Front(p), nodes[globals[p]].decl.type) BY SMTT(30)
<1>12. /\ globalTypes' = Put(globalTypes, p, type)
       /\ \/ status' = "running" /\ HasDefault(type)
          \/ status' = "notImplemented"
  BY <1>1, <1>3, <1>9, <1>10, <1>11 DEF ResolveGlobalVariable
<1>13. Unresolved' = Unresolved \ {p}
  <2>1. DOMAIN globalTypes' = DOMAIN globalTypes \cup {p} BY <1>12, PutDomain
  <2> QED BY <1>1, <2>1 DEF Unresolved
<1>14. GlobalsQueued' BY <1>5, <1>7, <1>13 DEF GlobalsQueued
<1>15. /\ Translatable' = Translatable /\ Unanalyzed' = Unanalyzed /\ Pending' = Pending
  BY <1>1 DEF Translatable, Unanalyzed, Pending
<1>16. GroupsWaiting' = GroupsWaiting /\ FunctionsWaiting' = FunctionsWaiting
  BY <1>1, Idle, IdleNext
<1>17. GroupsQueued' /\ FunctionsQueued'
  BY <1>1, <1>2, <1>15, <1>16 DEF GroupsQueued, FunctionsQueued
<1>18. Emptied' BY <1>1, <1>2 DEF Emptied, Done
<1>19. NothingDeleted' /\ CallsOK'
  BY <1>1, <1>2, <1>13, <1>15 DEF NothingDeleted, CallsOK
<1> QED BY <1>12, <1>14, <1>17, <1>18, <1>19 DEF QueueInv

(* A step that works off the queue of the groups *)
LEMMA OverloadQueues ==
  ASSUME ShapeInv, ShapeInv', QueueInv, NEW p, NEW node, NEW f, OverloadStep(p, node, f)
  PROVE  QueueInv' /\ status' \in {"running", "notImplemented"}
<1>1. /\ p \in DOMAIN groups /\ node \in 1..Len(nodes)
      /\ status = "running" /\ phase = "groups" /\ taken # <<>>
      /\ groups[p].queue # <<>> /\ node = Head(groups[p].queue)
      /\ UNCHANGED <<since, globals, globalTypes, globalVariableQueue,
                     functionGroupQueue, phase, taken>>
  BY DEF OverloadStep
<1>2. /\ GlobalsQueued /\ GroupsQueued /\ FunctionsQueued /\ Emptied /\ NothingDeleted
      /\ CallsOK
  BY <1>1 DEF QueueInv
<1>3. groups[p].queue \in Seq(1..Len(nodes))
  BY <1>1 DEF ShapeInv, SymbolsOK, Groups, GroupInfo
<1>4. /\ node \in ToSet(groups[p].queue)
      /\ ToSet(Tail(groups[p].queue)) \subseteq ToSet(groups[p].queue)
  BY <1>1, <1>3, TailLemma
<1>5. node >= since BY <1>1, <1>2, <1>4 DEF NothingDeleted
<1>6. ~(node < since)
  <2>1. Len(nodes) \in Nat BY LenProperties DEF ShapeInv, TreeOK
  <2>2. node \in Int /\ since \in Int BY <1>1, <2>1 DEF ShapeInv, TreeOK
  <2> QED BY <1>5, <2>2
<1>7. CASE status' # "running"
  <2>1. status' = "notImplemented" BY <1>6, <1>7 DEF OverloadStep
  <2> QED BY <2>1 DEF QueueInv
<1>8. CASE status' = "running"
  <2> DEFINE g == [groups[p] EXCEPT !.queue = Tail(groups[p].queue), !.functions = <<f>>]
  <2>1. /\ groups[p].functions = <<>> /\ groups' = [groups EXCEPT ![p] = g]
        /\ functionQueue' = Append(functionQueue, <<p, 1>>)
        /\ f.node = node /\ ~f.analyzed /\ f.calls = {}
    BY <1>8 DEF OverloadStep
  <2>2. /\ DOMAIN groups' = DOMAIN groups
        /\ groups'[p].queue = Tail(groups[p].queue)
        /\ groups'[p].functions # <<>> /\ groups'[p].functions[1] = f
        /\ \A q \in DOMAIN groups : q # p => groups'[q] = groups[q]
    <3>1. groups'[p] = g BY <1>1, <2>1
    <3>2. g.queue = Tail(groups[p].queue) /\ g.functions = <<f>>
      BY <1>1 DEF ShapeInv, SymbolsOK, Groups, GroupInfo
    <3>3. <<f>> # <<>> /\ <<f>>[1] = f OBVIOUS
    <3> HIDE DEF g
    <3> QED BY <2>1, <3>1, <3>2, <3>3
  <2> HIDE DEF g
  <2>3. p \notin Translatable BY <2>1 DEF Translatable
  <2>4. \A q \in Translatable : q # p /\ groups'[q] = groups[q]
    BY <2>2, <2>3 DEF Translatable
  <2>5. Translatable' = Translatable \cup {p}
    BY <1>1, <2>2 DEF Translatable
  <2>6. Unanalyzed' = Unanalyzed \cup {p}
    BY <2>1, <2>2, <2>4, <2>5 DEF Unanalyzed
  <2>7. GroupsQueued'
    <3>1. GroupsWaiting' = GroupsWaiting BY <1>1 DEF GroupsWaiting, Waiting
    <3>2. Pending' \subseteq Pending BY <1>1, <2>2 DEF Pending
    <3> QED BY <1>1, <1>2, <3>1, <3>2 DEF GroupsQueued
  <2>8. FunctionsQueued'
    <3>1. FunctionsWaiting = functionQueue /\ FunctionsWaiting' = functionQueue'
      BY <1>1, Idle, IdleNext
    <3>2. IsInjective(functionQueue) /\ ToSet(functionQueue) = Slots(Unanalyzed)
      BY <1>2, <3>1 DEF FunctionsQueued
    <3>3. <<p, 1>> \notin Slots(Unanalyzed) BY <2>3 DEF Slots, Unanalyzed
    <3>4. PICK e : e = <<p, 1>> OBVIOUS
    <3>5. e \in Slots(Translatable') BY <2>5, <3>4 DEF Slots
    <3>6. functionQueue \in Seq(Slots(Translatable'))
      <4>1. Slots(Translatable) \subseteq Slots(Translatable') BY <2>5 DEF Slots
      <4> QED BY <4>1, SeqMonotonic DEF ShapeInv, QueuesOK
    <3>7. /\ IsInjective(functionQueue')
          /\ ToSet(functionQueue') = Slots(Unanalyzed) \cup {e}
      BY SMTT(30), <2>1, <3>2, <3>3, <3>4, <3>5, <3>6, AppendLemma
    <3>8. Slots(Unanalyzed') = Slots(Unanalyzed) \cup {e} BY <2>6, <3>4 DEF Slots
    <3> QED BY <3>1, <3>7, <3>8 DEF FunctionsQueued
  <2>9. GlobalsQueued'
    <3>1. GlobalsWaiting' = GlobalsWaiting BY <1>1, Idle, IdleNext
    <3> QED BY <1>1, <1>2, <3>1 DEF GlobalsQueued, Unresolved
  <2>10. Emptied' BY <1>1, <1>2 DEF Emptied, Done
  <2>11. NothingDeleted'
    <3>1. \A q \in DOMAIN groups' : \A n \in ToSet(groups'[q].queue) : n >= since
      BY <1>2, <1>4, <2>2 DEF NothingDeleted
    <3>2. \A q \in Unanalyzed' : groups'[q].functions[1].node >= since
      <4>1. groups'[p].functions[1].node >= since BY <1>5, <2>1, <2>2
      <4>2. \A q \in Unanalyzed : groups'[q] = groups[q] BY <2>4 DEF Unanalyzed
      <4> QED BY <1>2, <2>6, <4>1, <4>2 DEF NothingDeleted
    <3> QED BY <1>1, <1>2, <3>1, <3>2 DEF NothingDeleted, Unresolved
  <2>12. CallsOK'
    <3>1. groups'[p].functions[1].calls = {} BY <2>1, <2>2
    <3> QED BY <1>2, <2>4, <2>5, <3>1 DEF CallsOK
  <2> QED BY <1>8, <2>7, <2>8, <2>9, <2>10, <2>11, <2>12 DEF QueueInv
<1> QED BY <1>7, <1>8

LEMMA FinishGroupQueues ==
  ASSUME ShapeInv, ShapeInv', QueueInv, FinishGroup
  PROVE  QueueInv' /\ status' = "running"
<1>1. /\ status = "running" /\ status' = "running"
      /\ phase = "groups" /\ taken # <<>> /\ taken' = Tail(taken)
      /\ groups[Head(taken)].queue = <<>>
      /\ UNCHANGED <<since, globals, globalTypes, groups, globalVariableQueue,
                     functionGroupQueue, functionQueue, phase>>
  BY DEF FinishGroup, InPass2, treeVars
<1>2. /\ GlobalsQueued /\ GroupsQueued /\ FunctionsQueued /\ Emptied /\ NothingDeleted
      /\ CallsOK
  BY <1>1 DEF QueueInv
<1>3. functionGroupQueue = <<>> BY <1>1, <1>2 DEF Emptied
<1>4. GroupsWaiting = taken /\ GroupsWaiting' = taken' BY <1>1, <1>3, Idle, IdleNext
<1>5. /\ Translatable' = Translatable /\ Unanalyzed' = Unanalyzed
      /\ Unresolved' = Unresolved /\ Pending' = Pending
  BY <1>1 DEF Translatable, Unanalyzed, Unresolved, Pending
<1>6. GroupsQueued'
  <2>1. taken \in Seq(DOMAIN groups) BY <1>1 DEF ShapeInv, TakenOK
  <2>2. IsInjective(taken) /\ Pending \subseteq ToSet(taken)
    BY <1>2, <1>4 DEF GroupsQueued
  <2>3. IsInjective(taken') /\ ToSet(taken') = ToSet(taken) \ {Head(taken)}
    BY <1>1, <2>1, <2>2, TailLemma
  <2>4. Head(taken) \notin Pending BY <1>1 DEF Pending
  <2> QED BY <1>1, <1>4, <1>5, <2>2, <2>3, <2>4 DEF GroupsQueued
<1>7. GlobalsWaiting' = GlobalsWaiting /\ FunctionsWaiting' = FunctionsWaiting
  BY <1>1, Idle, IdleNext
<1>8. GlobalsQueued' /\ FunctionsQueued'
  BY <1>2, <1>5, <1>7 DEF GlobalsQueued, FunctionsQueued
<1>9. Emptied' BY <1>1, <1>2 DEF Emptied, Done
<1>10. NothingDeleted' /\ CallsOK' BY <1>1, <1>2, <1>5 DEF NothingDeleted, CallsOK
<1> QED BY <1>1, <1>6, <1>8, <1>9, <1>10 DEF QueueInv

(* What is called in a body that can be translated has one overload. *)
LEMMA CallsAreTranslatable ==
  ASSUME NEW ns, NEW r, Outcome(ns, r) # "notImplemented"
  PROVE  Used(ns, r, "group") \subseteq Translatable
<1> SUFFICES ASSUME NEW i \in 1..Len(r.body), Uses(ns, r, i, "group")
             PROVE  ns \o r.body[i].name.ids \in Translatable
  BY DEF Used
<1> DEFINE q == ns \o r.body[i].name.ids
<1>1. q \in DOMAIN groups
  <2>1. q \in Used(ns, r, "group") BY DEF Used
  <2> QED BY <2>1, UsedLemma
<1>2. ~Unsupported(ns, r, i) BY DEF Outcome
<1>3. r.body[i].kind = "call" BY DEF Uses
<1>4. Len(groups[q].functions) = 1 BY <1>2, <1>3 DEF Unsupported
<1>5. groups[q].functions # <<>>
  <2> DEFINE fs == groups[q].functions
  <2>1. Len(fs) = 1 BY <1>4
  <2> HIDE DEF fs
  <2>2. fs # <<>> BY ONLY <2>1
  <2> QED BY <2>2 DEF fs
<1> QED BY <1>1, <1>5 DEF Translatable

(* FunctionScope::analyze() has not been called before for the function,   *)
(* and finds the run-time objects of the globals. *)
LEMMA AnalysisQueues ==
  ASSUME ShapeInv, ShapeInv', QueueInv, NEW p, NEW f, NEW e, AnalysisStep(p, f, e)
  PROVE  QueueInv' /\ status' \in {"running", "notImplemented"}
<1> DEFINE r == nodes[f.node].decl.routine
<1>1. /\ p \in DOMAIN groups /\ groups[p].functions = <<f>>
      /\ status = "running" /\ phase = "functions" /\ taken # <<>>
      /\ Head(taken) = <<p, 1>> /\ taken' = Tail(taken)
      /\ UNCHANGED <<since, globals, globalTypes, globalVariableQueue,
                     functionGroupQueue, functionQueue, phase>>
      /\ e.node = f.node /\ e.analyzed /\ e.calls = Used(Front(p), r, "group")
      /\ status' = IF f.node < since THEN "undefined" ELSE Outcome(Front(p), r)
      /\ f.node \in 1..Len(nodes)
  BY DEF AnalysisStep, Overloads, Overload
<1> HIDE DEF r
<1>2. /\ GlobalsQueued /\ GroupsQueued /\ FunctionsQueued /\ Emptied /\ NothingDeleted
      /\ CallsOK
  BY <1>1 DEF QueueInv
<1>3. /\ globalVariableQueue = <<>> /\ functionGroupQueue = <<>> /\ functionQueue = <<>>
  BY <1>1, <1>2 DEF Emptied
<1>4. FunctionsWaiting = taken /\ FunctionsWaiting' = taken'
  BY <1>1, <1>3, Idle, IdleNext
<1>5. /\ ToSet(taken) = Slots(Unanalyzed) /\ IsInjective(taken)
      /\ taken \in Seq(Slots(Translatable))
  BY <1>1, <1>2, <1>4 DEF FunctionsQueued, ShapeInv, TakenOK
<1>6. PICK s : s = <<p, 1>> OBVIOUS
<1>7. /\ s \in Slots(Unanalyzed) /\ IsInjective(taken')
      /\ ToSet(taken') = Slots(Unanalyzed) \ {s}
  <2>1. /\ ToSet(taken) = {Head(taken)} \cup ToSet(Tail(taken))
        /\ IsInjective(Tail(taken)) /\ ToSet(Tail(taken)) = ToSet(taken) \ {Head(taken)}
    BY <1>1, <1>5, TailLemma
  <2>2. Head(taken) = s /\ taken' = Tail(taken) BY <1>1, <1>6
  <2> QED BY <1>5, <2>1, <2>2
<1>8. p \in Unanalyzed /\ f = groups[p].functions[1]
  BY <1>1, <1>6, <1>7 DEF Slots
<1>9. ~(f.node < since)
  <2>1. f.node >= since BY <1>2, <1>8 DEF NothingDeleted
  <2>2. Len(nodes) \in Nat BY LenProperties DEF ShapeInv, TreeOK
  <2>3. f.node \in Int /\ since \in Int BY <1>1, <2>2 DEF ShapeInv, TreeOK
  <2> QED BY <2>1, <2>3
<1>10. Used(Front(p), r, "global") \subseteq DOMAIN globalTypes
  <2>1. GlobalsWaiting = <<>> BY <1>1, <1>3, Idle
  <2>2. Unresolved = {} BY <1>2, <2>1, EmptyLemma DEF GlobalsQueued
  <2> QED BY <2>2, UsedLemma DEF Unresolved
<1>11. status' = Outcome(Front(p), r) /\ status' \in {"running", "notImplemented"}
  BY <1>1, <1>9, <1>10 DEF Outcome
<1>12. CASE status' = "notImplemented" BY <1>12 DEF QueueInv
<1>13. CASE status' = "running"
  <2> DEFINE g == [groups[p] EXCEPT !.functions = <<e>>]
  <2>1. groups' = [groups EXCEPT ![p] = g] BY DEF AnalysisStep
  <2>2. /\ DOMAIN groups' = DOMAIN groups
        /\ groups'[p].queue = groups[p].queue
        /\ groups'[p].functions # <<>> /\ groups'[p].functions[1] = e
        /\ \A q \in DOMAIN groups : q # p => groups'[q] = groups[q]
    <3>1. groups'[p] = g BY <1>1, <2>1
    <3>2. g.queue = groups[p].queue /\ g.functions = <<e>>
      BY <1>1 DEF ShapeInv, SymbolsOK, Groups, GroupInfo
    <3>3. <<e>> # <<>> /\ <<e>>[1] = e OBVIOUS
    <3> HIDE DEF g
    <3> QED BY <2>1, <3>1, <3>2, <3>3
  <2> HIDE DEF g
  <2>3. Translatable' = Translatable
    BY <1>8, <2>2 DEF Translatable, Unanalyzed
  <2>4. Unanalyzed' = Unanalyzed \ {p}
    <3>1. \A q \in Translatable : q # p => groups'[q] = groups[q]
      BY <2>2 DEF Translatable
    <3> QED BY <1>1, <2>2, <2>3, <3>1 DEF Unanalyzed
  <2>5. FunctionsQueued'
    <3>1. Slots(Unanalyzed') = Slots(Unanalyzed) \ {s} BY <1>6, <2>4 DEF Slots
    <3> QED BY <1>4, <1>7, <3>1 DEF FunctionsQueued
  <2>6. Unresolved' = Unresolved /\ Pending' = Pending
    BY <1>1, <2>2 DEF Unresolved, Pending
  <2>7. GlobalsWaiting' = GlobalsWaiting /\ GroupsWaiting' = GroupsWaiting
    BY <1>1, Idle, IdleNext
  <2>8. GlobalsQueued' /\ GroupsQueued'
    BY <1>1, <1>2, <2>6, <2>7 DEF GlobalsQueued, GroupsQueued
  <2>9. Emptied' BY <1>1, <1>2 DEF Emptied, Done
  <2>10. NothingDeleted'
    <3>1. \A q \in DOMAIN groups' : groups'[q].queue = groups[q].queue
      BY <2>2
    <3>2. \A q \in Unanalyzed' : groups'[q] = groups[q] /\ q \in Unanalyzed
      BY <2>2, <2>4 DEF Unanalyzed, Translatable
    <3> QED BY <1>1, <1>2, <2>2, <2>6, <3>1, <3>2 DEF NothingDeleted
  <2>11. CallsOK'
    <3>1. e.calls \subseteq Translatable
      <4>1. Outcome(Front(p), r) # "notImplemented" BY <1>11, <1>13
      <4> QED BY <1>1, <4>1, CallsAreTranslatable
    <3>2. \A q \in Translatable : q # p => groups'[q] = groups[q]
      BY <2>2 DEF Translatable
    <3> QED BY <1>2, <2>2, <2>3, <3>1, <3>2 DEF CallsOK
  <2> QED BY <1>13, <2>5, <2>8, <2>9, <2>10, <2>11 DEF QueueInv
<1> QED BY <1>11, <1>12, <1>13

LEMMA PendingQueues ==
  ASSUME ShapeInv, ShapeInv', QueueInv, processPendingDeclarations
  PROVE  QueueInv' /\ status' \in {"running", "notImplemented"}
<1>1. CASE TakeQueue BY <1>1, TakeQueues
<1>2. CASE ResolveGlobalVariable BY <1>2, ResolveGlobalQueues
<1>3. CASE ResolveOverload BY <1>3, ResolveOverloadStep, OverloadQueues
<1>4. CASE FinishGroup BY <1>4, FinishGroupQueues
<1>5. CASE AnalyzeFunction BY <1>5, AnalyzeFunctionStep, AnalysisQueues
<1>6. CASE FinishPending
  <2>1. /\ UNCHANGED <<treeVars, symbolVars, queueVars, taken, status>>
        /\ status = "running" /\ phase = "functions" /\ taken = <<>>
        /\ phase' \in {"read", "main"}
    BY <1>6 DEF FinishPending, Drive, AfterPending
  <2>2. Emptied' BY <2>1 DEF QueueInv, Emptied, queueVars
  <2> QED BY <2>1, <2>2, SameQueues DEF treeVars, symbolVars, queueVars
<1> QED BY <1>1, <1>2, <1>3, <1>4, <1>5, <1>6 DEF processPendingDeclarations

(* When statements are executed nothing waits. *)
LEMMA NothingWaits ==
  ASSUME ShapeInv, QueueInv, status = "running", Done
  PROVE  /\ DOMAIN globalTypes = DOMAIN globals
         /\ \A p \in DOMAIN groups : groups[p].queue = <<>>
         /\ \A p \in Translatable : groups[p].functions[1].analyzed
<1>1. /\ GlobalsQueued /\ GroupsQueued /\ FunctionsQueued /\ Emptied
  BY DEF QueueInv
<1>2. /\ globalVariableQueue = <<>> /\ functionGroupQueue = <<>> /\ functionQueue = <<>>
      /\ phase \notin {"globals", "groups", "functions"}
  BY <1>1 DEF Emptied, Done
<1>3. GlobalsWaiting = <<>> /\ GroupsWaiting = <<>> /\ FunctionsWaiting = <<>>
  BY <1>2, Idle
<1>4. Unresolved = {} /\ Pending = {} /\ Slots(Unanalyzed) = {}
  BY <1>1, <1>3, EmptyLemma DEF GlobalsQueued, GroupsQueued, FunctionsQueued
<1>5. Unanalyzed = {} BY <1>4 DEF Slots
<1> QED
  BY <1>4, <1>5 DEF Unresolved, Pending, Unanalyzed, ShapeInv, SymbolsOK

(* What is called, directly or not, has a function. *)
LEMMA CalledLemma ==
  ASSUME ShapeInv, CallsOK, NEW calls \in SUBSET Translatable
  PROVE  Called(calls) \subseteq Translatable
<1> DEFINE next(S) == S \cup UNION {groups[p].functions[1].calls : p \in S}
           C == Cardinality(DOMAIN groups)
           Reach(n, f) == f = [m \in 0..n |-> IF m = 0 THEN calls ELSE next(f[m - 1])]
           Missing == {n \in Nat : ~ \E f : Reach(n, f)}
<1>1. C \in Nat BY FS_CardinalityType DEF ShapeInv, SymbolsOK
<1> HIDE DEF C
<1>2. Missing = {}
  <2> SUFFICES ASSUME Missing # {} PROVE FALSE OBVIOUS
  <2>1. Missing \in SUBSET Nat OBVIOUS
  <2> HIDE DEF Reach, next
  <2>2. PICK n \in Missing : \A m \in Missing : n =< m BY <2>1, IndexMinimum
  <2>3. n # 0
    <3>1. Reach(0, [m \in 0..0 |-> calls]) BY DEF Reach
    <3> QED BY <2>2, <3>1
  <2>4. n - 1 \in Nat /\ n \in Nat /\ n - 1 \notin Missing
    <3>1. n \in Nat OBVIOUS
    <3>2. n - 1 \in Nat /\ ~(n <= n - 1) BY <2>3, <3>1
    <3> HIDE DEF Missing
    <3> QED BY <2>2, <3>1, <3>2
  <2>5. PICK f : Reach(n - 1, f) BY <2>4
  <2> DEFINE g == [m \in 0..n |-> IF m = 0 THEN calls ELSE next(f[m - 1])]
  <2>6. \A m \in 0..n - 1 : f[m] = g[m]
    <3>1. 0..n - 1 \subseteq 0..n BY <2>4
    <3>2. \A m \in 0..n - 1 : f[m] = IF m = 0 THEN calls ELSE next(f[m - 1])
      BY <2>5 DEF Reach
    <3> QED BY <3>1, <3>2
  <2>7. \A m \in 0..n : m # 0 => f[m - 1] = g[m - 1]
    <3>1. \A m \in 0..n : m # 0 => m - 1 \in 0..n - 1 BY <2>4
    <3> HIDE DEF g
    <3> QED BY <2>6, <3>1
  <2>8. g = [m \in 0..n |-> IF m = 0 THEN calls ELSE next(g[m - 1])]
    <3> DEFINE h(x) == [m \in 0..n |-> IF m = 0 THEN calls ELSE next(x[m - 1])]
    <3>1. g = h(f) OBVIOUS
    <3> HIDE DEF g
    <3>2. h(f) = h(g) BY <2>7
    <3> QED BY <3>1, <3>2
  <2>9. Reach(n, g) BY <2>8 DEF Reach
  <2> QED BY <2>2, <2>9
<1> DEFINE reach == CHOOSE f : Reach(C, f)
<1>3. Reach(C, reach)
  <2> HIDE DEF Reach
  <2>1. \E f : Reach(C, f) BY <1>1, <1>2
  <2> QED BY <2>1
<1>4. \A m \in 0..C : reach[m] = IF m = 0 THEN calls ELSE next(reach[m - 1])
  <2> HIDE DEF reach, next
  <2> QED BY <1>3
<1>5. ASSUME NEW S \in SUBSET Translatable PROVE next(S) \subseteq Translatable
  BY DEF CallsOK
<1> DEFINE Bad == {m \in 0..C : ~(reach[m] \subseteq Translatable)}
<1>6. Bad = {}
  <2> HIDE DEF reach, next
  <2> SUFFICES ASSUME Bad # {} PROVE FALSE OBVIOUS
  <2>1. Bad \in SUBSET Nat OBVIOUS
  <2>2. PICK m \in Bad : \A k \in Bad : m =< k BY <2>1, IndexMinimum
  <2>3. m # 0 BY <1>1, <1>4, <2>2
  <2>4. m - 1 \in 0..C /\ m - 1 \notin Bad BY <1>1, <2>2, <2>3
  <2>5. reach[m] = next(reach[m - 1]) BY <1>4, <2>2, <2>3
  <2> QED BY <1>5, <2>2, <2>4, <2>5
<1>7. Called(calls) = reach[C] BY DEF Called, C
<1> HIDE DEF reach
<1> QED BY <1>1, <1>6, <1>7

(* What is executed has code and initialized variables, and nothing waits. *)
LEMMA ExecuteQueues ==
  ASSUME ShapeInv, ShapeInv', QueueInv, InitInv, InitInv', status = "running",
         NEW body, NEW to, ExecuteCommand(body, to), Done, Done', taken = <<>>, to # "groups"
  PROVE  QueueInv' /\ status' \in {"running", "notImplemented"}
<1> DEFINE r      == Routine(Implicit, <<>>, body)
           calls  == Used(Root, r, "group")
           called == Called(calls)
           reads  == Used(Root, r, "global")
                     \cup UNION {groups[p].functions[1].reads : p \in called}
<1>1. /\ UNCHANGED <<since, globals, globalTypes, groups, taken, globalVariableQueue,
                     functionGroupQueue, functionQueue>>
      /\ phase' = to
  BY DEF ExecuteCommand, treeVars, symbolVars
<1>2. /\ DOMAIN globalTypes = DOMAIN globals
      /\ \A p \in Translatable : groups[p].functions[1].analyzed
  BY NothingWaits
<1>3. Emptied'
  <2>1. globalVariableQueue = <<>> /\ functionGroupQueue = <<>> /\ functionQueue = <<>>
    BY DEF QueueInv, Emptied
  <2> QED BY <1>1, <2>1 DEF Emptied
<1>4. QueueInv'
  <2>1. phase # "groups" BY DEF Done
  <2> QED BY <1>1, <1>3, <2>1, SameQueues
<1>5. Outcome(Root, r) \in {"running", "notImplemented"}
  BY <1>2, UsedLemma DEF Outcome
<1>6. CASE Outcome(Root, r) # "running"
  <2>1. status' = Outcome(Root, r) BY <1>6 DEF ExecuteCommand, Execute
  <2> QED BY <1>4, <1>5, <2>1
<1>7. CASE Outcome(Root, r) = "running"
  <2>1. /\ initializers' = <<>> /\ initialized' = initialized \o initializers
        /\ status' = CASE \E p \in called : ~groups[p].functions[1].analyzed -> "undefined"
                       [] \/ ~IsInjective(initialized')
                          \/ ~(reads \subseteq ToSet(initialized')) -> "assert"
                       [] OTHER -> "running"
    BY <1>7 DEF ExecuteCommand, Execute, LeftInitializers
  <2>2. called \subseteq Translatable
    <3>1. calls \subseteq Translatable BY <1>7, CallsAreTranslatable
    <3> HIDE DEF calls
    <3> QED BY <3>1, CalledLemma DEF QueueInv
  <2>3. reads \subseteq DOMAIN globals
    <3>1. \A p \in Translatable : groups[p].functions[1].reads \subseteq DOMAIN globals
      <4> SUFFICES ASSUME NEW p \in Translatable
                   PROVE  groups[p].functions[1].reads \subseteq DOMAIN globals
        OBVIOUS
      <4>1. groups[p].functions \in Seq(Overloads) /\ groups[p].functions # <<>>
        BY DEF Translatable, ShapeInv, SymbolsOK, Groups, GroupInfo
      <4>2. groups[p].functions[1] \in Overloads
        <5>1. Head(groups[p].functions) \in Overloads
              /\ Head(groups[p].functions) = groups[p].functions[1]
          BY <4>1, HeadTailProperties
        <5> QED BY <5>1
      <4> QED BY <4>2 DEF Overloads, Overload
    <3>2. Used(Root, r, "global") \subseteq DOMAIN globals BY UsedLemma
    <3> HIDE DEF called
    <3> QED BY <2>2, <3>1, <3>2
  <2> HIDE DEF reads, called
  <2>4. \A p \in called : groups[p].functions[1].analyzed BY <1>2, <2>2
  <2>5. /\ IsInjective(initialized \o initializers)
        /\ ToSet(initialized \o initializers) = DOMAIN globals
    BY <1>2 DEF InitInv, InitializedOnce
  <2>6. status' = "running" BY <2>1, <2>3, <2>4, <2>5
  <2> QED BY <1>4, <2>6
<1> QED BY <1>4, <1>6, <1>7

LEMMA QueueNext ==
  ASSUME NamesInv, NamesInv', ShapeInv, ShapeInv', InitInv, InitInv', QueueInv, [Next]_vars
  PROVE  /\ QueueInv'
         /\ \/ status' \in {"running", "notImplemented"}
            \/ ClashWithDeletedTree
            \/ UNCHANGED vars
<1>1. CASE Declare
  <2>1. status = "running" BY <1>1, DeclareInitializers
  <2> QED BY <1>1, <2>1, DeclareQueues
<1>2. CASE processPendingDeclarations
  <2>1. status = "running"
    BY <1>2 DEF processPendingDeclarations, TakeQueue, ResolveGlobalVariable,
       ResolveOverload, FinishGroup, AnalyzeFunction, FinishPending, InPass2, Drive
  <2> QED BY SMTT(30), <1>2, <2>1, PendingQueues
<1>3. CASE ReadDeclaration
  <2>1. /\ UNCHANGED <<symbolVars, queueVars, taken, status>>
        /\ status = "running" /\ taken = <<>> /\ phase = "read" /\ phase' = "declare"
        /\ since' = IF Interactive THEN at ELSE since
    BY <1>3 DEF ReadDeclaration, Drive
  <2>2. Emptied' BY <2>1 DEF Emptied, Done
  <2>3. CASE ~Interactive
    BY <2>1, <2>2, <2>3, SameQueues DEF symbolVars, queueVars
  <2>4. CASE Interactive
    <3>1. /\ DOMAIN globalTypes = DOMAIN globals
          /\ \A p \in DOMAIN groups : groups[p].queue = <<>>
          /\ \A p \in Translatable : groups[p].functions[1].analyzed
          /\ globalVariableQueue = <<>> /\ functionGroupQueue = <<>>
          /\ functionQueue = <<>>
      BY <2>1, <2>4, NothingWaits DEF Done, QueueInv, Emptied
    <3>2. /\ GlobalsWaiting' = <<>> /\ GroupsWaiting' = <<>> /\ FunctionsWaiting' = <<>>
          /\ GlobalsWaiting = <<>> /\ GroupsWaiting = <<>> /\ FunctionsWaiting = <<>>
      BY <2>1, <3>1, Idle, IdleNext DEF queueVars
    <3>3. UNCHANGED <<globals, globalTypes, groups>> BY <2>1 DEF symbolVars
    <3>4. /\ Translatable' = Translatable /\ Unanalyzed' = {}
          /\ Unresolved' = {} /\ Pending' = {}
      BY <3>1, <3>3 DEF Translatable, Unanalyzed, Unresolved, Pending
    <3>5. GlobalsQueued' /\ GroupsQueued' /\ FunctionsQueued'
      BY <3>2, <3>4, EmptyLemma DEF GlobalsQueued, GroupsQueued, FunctionsQueued, Slots
    <3>6. NothingDeleted'
      <4>1. \A p \in DOMAIN groups' : ToSet(groups'[p].queue) = {}
        BY <3>1, <3>3, EmptyLemma
      <4> QED BY <3>4, <4>1 DEF NothingDeleted
    <3>7. CallsOK' BY <2>1, <3>3, <3>4 DEF QueueInv, CallsOK
    <3> QED BY <2>1, <2>2, <3>5, <3>6, <3>7 DEF QueueInv
  <2> QED BY <2>1, <2>3, <2>4
<1>4. CASE EndOfScript \/ EndOfSession
  <2>1. /\ UNCHANGED <<treeVars, symbolVars, queueVars, taken, status>>
        /\ status = "running" /\ taken = <<>> /\ phase = "read"
        /\ \/ phase' = "pending"
           \/ phase' = "end" /\ Interactive
    BY <1>4 DEF EndOfScript, EndOfSession, Drive
  <2>2. Emptied'
    BY <2>1 DEF QueueInv, Emptied, Done, queueVars
  <2> QED BY <2>1, <2>2, SameQueues DEF treeVars, symbolVars, queueVars
<1>5. CASE Command
  <2>1. /\ Interactive /\ status = "running" /\ phase = "read"
        /\ \E s \in Commands : ExecuteCommand(s, "read")
    BY <1>5 DEF Command
  <2>2. PICK s \in Commands : ExecuteCommand(s, "read") BY <2>1
  <2>3. phase' = "read" BY <2>2 DEF ExecuteCommand
  <2>4. Done /\ Done' /\ taken = <<>>
    BY <2>1, <2>3, DriverAssumption DEF Done, ShapeInv, TakenOK
  <2> QED BY <2>1, <2>2, <2>4, ExecuteQueues
<1>6. CASE Qinit
  <2>1. /\ status = "running" /\ phase = "main"
        /\ \E s \in Commands : ExecuteCommand(s, "end")
    BY <1>6 DEF Qinit
  <2>2. PICK s \in Commands : ExecuteCommand(s, "end") BY <2>1
  <2>3. phase' = "end" BY <2>2 DEF ExecuteCommand
  <2>4. Done /\ Done' /\ taken = <<>>
    BY <2>1, <2>3 DEF Done, ShapeInv, TakenOK
  <2> QED BY <2>1, <2>2, <2>4, ExecuteQueues
<1>7. CASE UNCHANGED vars
  <2>1. UNCHANGED <<globals, globalTypes, groups, since, globalVariableQueue,
                    functionGroupQueue, functionQueue, phase, taken, status>>
    BY <1>7 DEF vars, treeVars, symbolVars, queueVars, controlVars
  <2>2. /\ Translatable' = Translatable /\ Unanalyzed' = Unanalyzed
        /\ Unresolved' = Unresolved /\ Pending' = Pending
    BY <2>1 DEF Translatable, Unanalyzed, Unresolved, Pending
  <2>3. /\ GlobalsWaiting' = GlobalsWaiting /\ GroupsWaiting' = GroupsWaiting
        /\ FunctionsWaiting' = FunctionsWaiting
    BY <2>1 DEF GlobalsWaiting, GroupsWaiting, FunctionsWaiting, Waiting
  <2>4. (GlobalsQueued /\ GroupsQueued /\ FunctionsQueued)
          => (GlobalsQueued' /\ GroupsQueued' /\ FunctionsQueued')
    BY <2>1, <2>2, <2>3 DEF GlobalsQueued, GroupsQueued, FunctionsQueued
  <2>5. Emptied => Emptied' BY <2>1 DEF Emptied, Done
  <2>6. NothingDeleted => NothingDeleted' BY <2>1, <2>2 DEF NothingDeleted
  <2>7. CallsOK => CallsOK' BY <2>1, <2>2 DEF CallsOK
  <2> QED BY <1>7, <2>1, <2>4, <2>5, <2>6, <2>7 DEF QueueInv
<1> QED BY <1>1, <1>2, <1>3, <1>4, <1>5, <1>6, <1>7 DEF Next

(* The queues are in order, or a declaration has clashed. *)
OrderInv == NamesInv /\ ShapeInv /\ InitInv /\ QueueInv /\ OnlyClashesFault

LEMMA ClashFaults ==
  ASSUME ClashWithDeletedTree
  PROVE  OnlyClashesFault'
<1>1. /\ phase = "declare" /\ here.decl.kind \in {"global", "function"}
      /\ path \in DOMAIN globals /\ globals[path] < since
      /\ status' = "undefined" /\ UNCHANGED <<todo, globals, since, phase>>
  BY DEF ClashWithDeletedTree, Processing, here, End, treeVars, symbolVars, controlVars
<1>2. here' = here BY <1>1 DEF here
<1>3. path' = path BY <1>2 DEF path, name
<1> QED BY <1>1, <1>2, <1>3 DEF OnlyClashesFault

LEMMA OrderIsInvariant == Spec => []OrderInv
<1>1. Init => OrderInv
  BY NamesInit, ShapeInit, InitInit, QueueInit
  DEF OrderInv, OnlyClashesFault, NoFault, Init
<1>2. OrderInv /\ [Next]_vars => OrderInv'
  <2> SUFFICES ASSUME OrderInv, [Next]_vars PROVE OrderInv' OBVIOUS
  <2>1. NamesInv' /\ InitInv' BY NamesNext, InitNext DEF OrderInv
  <2>2. ShapeInv' BY <2>1, ShapeNext DEF OrderInv
  <2>3. /\ QueueInv'
        /\ \/ status' \in {"running", "notImplemented"}
           \/ ClashWithDeletedTree
           \/ UNCHANGED vars
    BY <2>1, <2>2, QueueNext DEF OrderInv
  <2>4. status' \in {"running", "notImplemented"} => OnlyClashesFault'
    BY DEF OnlyClashesFault, NoFault
  <2>5. UNCHANGED vars => OnlyClashesFault'
    <3> SUFFICES ASSUME UNCHANGED vars PROVE OnlyClashesFault' OBVIOUS
    <3>1. UNCHANGED <<todo, globals, since, phase, status>>
      BY DEF vars, treeVars, symbolVars, controlVars
    <3>2. here' = here BY <3>1 DEF here
    <3>3. path' = path BY <3>2 DEF path, name
    <3> QED BY <3>1, <3>2, <3>3 DEF OrderInv, OnlyClashesFault, NoFault
  <2>6. OnlyClashesFault' BY <2>3, <2>4, <2>5, ClashFaults
  <2> QED BY <2>1, <2>2, <2>3, <2>6 DEF OrderInv
<1> QED BY <1>1, <1>2, PTL DEF Spec

(* Each global without a run-time object, each group with a pending        *)
(* overload and each function without code waits in its queue, once: no    *)
(* declaration can be left unresolved or be processed a second time.       *)
THEOREM WorkIsQueuedOnce == Spec => []QueuedOnce
<1>1. OrderInv => QueuedOnce BY QueuesWaiting DEF OrderInv
<1> QED BY <1>1, OrderIsInvariant, PTL

(* With either driver, the assertions of GlobalVariableInfo and            *)
(* GlobalVariable hold, every function called has code, and no pass        *)
(* processes a syntax tree that is gone, for globals, then groups, then    *)
(* functions is an order that works for whatever refers to what.  The      *)
(* exception is the one the formula states: where a declaration clashes    *)
(* with a global variable of an earlier turn of the session,               *)
(* GlobalVariableInfo::getLocation() reads a deleted tree. *)
THEOREM OnlyClashesWithDeletedTreesFault == Spec => []OnlyClashesFault
<1>1. OrderInv => OnlyClashesFault BY DEF OrderInv
<1> QED BY <1>1, OrderIsInvariant, PTL

(* A script's syntax tree is not deleted. *)
LEMMA SinceNext ==
  ASSUME ~Interactive, since = 1, [Next]_vars
  PROVE  since' = 1
<1>1. CASE Declare
  BY SMTT(30), <1>1 DEF Declare, RejectName, ProcessConstant, AddNamespace, ReopenNamespace,
     RejectNamespace, AddClass, RejectClass, AddGlobalVariable, RejectGlobalVariable,
     AddFunction, RejectFunction, ClashWithDeletedTree, FinishDeclaration, Reject, Advance,
     End, Drive, treeVars
<1>2. CASE processPendingDeclarations
  BY <1>2 DEF processPendingDeclarations, TakeQueue, ResolveGlobalVariable, ResolveOverload,
     FinishGroup, AnalyzeFunction, FinishPending, InPass2, treeVars
<1>3. CASE ReadDeclaration BY <1>3 DEF ReadDeclaration
<1>4. CASE EndOfScript \/ EndOfSession
  BY <1>4 DEF EndOfScript, EndOfSession, treeVars
<1>5. CASE Command \/ Qinit BY <1>5 DEF Command, Qinit, ExecuteCommand, treeVars
<1>6. CASE UNCHANGED vars BY <1>6 DEF vars, treeVars
<1> QED BY <1>1, <1>2, <1>3, <1>4, <1>5, <1>6 DEF Next

(* In a script, whose trees live as long as the analyzer, the order of the *)
(* queues is right without exception. *)
THEOREM OrderOfQueuesIsRight ==
  ASSUME ~Interactive
  PROVE  Spec => []NoFault
<1>1. Init => since = 1 BY DEF Init
<1>2. since = 1 /\ [Next]_vars => (since = 1)' BY SinceNext
<1>3. OrderInv /\ since = 1 => NoFault
  <2> SUFFICES ASSUME OrderInv, since = 1, ~NoFault PROVE FALSE OBVIOUS
  <2>1. path \in DOMAIN globals /\ globals[path] < 1
    BY DEF OrderInv, OnlyClashesFault
  <2>2. globals[path] \in 1..Len(nodes) /\ Len(nodes) \in Nat
    BY <2>1, LenProperties DEF OrderInv, ShapeInv, TreeOK, SymbolsOK
  <2> QED BY <2>1, <2>2
<1> QED BY <1>1, <1>2, <1>3, OrderIsInvariant, PTL DEF Spec
=============================================================================
