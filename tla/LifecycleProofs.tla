--------------------------- MODULE LifecycleProofs ---------------------------
(***************************************************************************)
(* What becomes of declarations, for whatever is declared: none is lost,   *)
(* types are final, diagnostics point to the first declaration, and the    *)
(* queues implement Lifecycle.                                             *)
(***************************************************************************)
EXTENDS DeclarationProofs

-----------------------------------------------------------------------------
(* A declaration is processed. *)

DeclarationKinds == {"namespace", "class", "global", "function"}
ErrorIds ==
    {"SemaInvalidNamespaceMemberName", "SemaNamespaceNotFound",
     "SemaDuplicateNamespaceName", "SemaDuplicateClassName",
     "SemaDuplicateGlobalVariableName", "SemaDuplicateFunctionName"}

(* The four ways in which it becomes part of a symbol *)
AcceptNamespace ==
    /\ here.decl.kind = "namespace"
    /\ path \notin DOMAIN classes
    /\ \/ path \in DOMAIN namespaces /\ namespaces' = namespaces
       \/ path \notin DOMAIN namespaces /\ namespaces' = Put(namespaces, path, at)
    /\ UNCHANGED <<classes, globals, groups>>

AcceptClass ==
    /\ here.decl.kind = "class"
    /\ path \notin DOMAIN classes \cup DOMAIN namespaces
    /\ classes' = Put(classes, path, at)
    /\ UNCHANGED <<namespaces, globals, groups>>

AcceptGlobal ==
    /\ here.decl.kind = "global"
    /\ path \notin DOMAIN globals \cup DOMAIN groups
    /\ globals' = Put(globals, path, at)
    /\ UNCHANGED <<namespaces, classes, groups>>

AcceptFunction ==
    /\ here.decl.kind = "function"
    /\ path \notin DOMAIN globals
    /\ DOMAIN groups' = DOMAIN groups \cup {path}
    /\ \A p \in DOMAIN groups : p # path => groups'[p] = groups[p]
    /\ \E g \in Groups' :
        /\ path \in DOMAIN groups => g = groups[path]
        /\ path \notin DOMAIN groups =>
             g.location = at /\ g.queue = <<>> /\ g.functions = <<>>
        /\ groups'[path] = [location |-> g.location, queue |-> Append(g.queue, at),
                            functions |-> g.functions]
    /\ UNCHANGED <<namespaces, classes, globals>>

Accept ==
    /\ HasParent /\ UNCHANGED diagnostics
    /\ AcceptNamespace \/ AcceptClass \/ AcceptGlobal \/ AcceptFunction

(* It is rejected for its name, or for what has this name already. *)
Clash(previous) ==
    \/ /\ here.decl.kind = "namespace"
       /\ path \in DOMAIN classes \ DOMAIN namespaces /\ previous = classes[path]
    \/ /\ here.decl.kind = "class" /\ path \in DOMAIN classes
       /\ previous = classes[path]
    \/ /\ here.decl.kind = "class" /\ path \in DOMAIN namespaces \ DOMAIN classes
       /\ previous = namespaces[path]
    \/ /\ here.decl.kind = "global" /\ path \in DOMAIN globals
       /\ previous = globals[path]
    \/ /\ here.decl.kind = "global" /\ path \in DOMAIN groups \ DOMAIN globals
       /\ previous = groups[path].location
    \/ /\ here.decl.kind = "function" /\ path \in DOMAIN globals
       /\ previous = globals[path]

Refuse ==
    /\ UNCHANGED <<namespaces, classes, globals, groups>>
    /\ \/ /\ ~HasParent /\ name.ids = <<>> /\ diagnostics' = diagnostics
       \/ /\ ~HasParent /\ name.ids # <<>>
          /\ \E id \in ErrorIds :
                diagnostics' = Append(diagnostics, Report(id, at, 0))
       \/ /\ HasParent
          /\ \E id \in ErrorIds : \E previous :
                /\ Clash(previous)
                /\ diagnostics' = Append(diagnostics, Report(id, at, previous))

Processed ==
    /\ status = "running" /\ phase = "declare" /\ todo # <<>>
    /\ UNCHANGED <<since, globalTypes, initialized, phase, status>>
    /\ \E members : Advance(members)
    /\ here.decl.kind \in DeclarationKinds
    /\ Accept \/ Refuse

(* A constant ends the process; nothing is left to declare. *)
NotProcessed ==
    /\ status = "running" /\ phase = "declare"
    /\ UNCHANGED <<nodes, since, namespaces, classes, globals, globalTypes, groups,
                   diagnostics, initialized>>
    /\ \/ status' # "running" /\ UNCHANGED phase
       \/ UNCHANGED status /\ phase' = AfterDeclaration

LEMMA ReportsOne ==
  ASSUME ShapeInv, NEW id \in ErrorIds, NEW previous \in Nat
  PROVE  diagnostics \o <<Report(id, at, previous)>>
           = Append(diagnostics, Report(id, at, previous))
<1>1. PICK d : d = Report(id, at, previous) OBVIOUS
<1>2. Len(nodes) \in Nat BY LenProperties DEF ShapeInv, TreeOK
<1>3. d \in Diagnostic(at) /\ Len(nodes) <= at /\ at \in Nat
  BY <1>1, <1>2 DEF Report, Diagnostic, at, DiagnosticIds, ErrorIds
<1>4. diagnostics \in Seq(Diagnostic(at))
  BY <1>2, <1>3, DiagnosticGrows, SeqMonotonic DEF ShapeInv, ReportsOK
<1>5. diagnostics \o <<d>> = Append(diagnostics, d) BY <1>3, <1>4, AppendIsConcat
<1> QED BY <1>1, <1>5

LEMMA ClashIsLocation ==
  ASSUME ShapeInv, NEW previous, Clash(previous)
  PROVE  previous \in Nat
<1>1. Len(nodes) \in Nat BY LenProperties DEF ShapeInv, TreeOK
<1>2. 0..Len(nodes) \subseteq Nat /\ 1..Len(nodes) \subseteq Nat BY <1>1
<1>3. \A p \in DOMAIN groups : groups[p].location \in 1..Len(nodes)
  BY DEF ShapeInv, SymbolsOK, Groups, GroupInfo
<1> QED BY <1>2, <1>3 DEF Clash, ShapeInv, SymbolsOK

LEMMA DeclareOutcome ==
  ASSUME NamesInv, ShapeInv, Declare
  PROVE  Processed \/ NotProcessed
<1>1. Len(nodes) \in Nat BY LenProperties DEF ShapeInv, TreeOK
<1>2. ASSUME NEW kinds \in SUBSET DeclarationKinds, Processing(kinds), NEW members,
             Advance(members), UNCHANGED globalTypes, Accept \/ Refuse
      PROVE  Processed
  BY <1>2 DEF Processing, Processed, Advance, runVars, controlVars, here
<1>3. ASSUME NEW kinds \in SUBSET DeclarationKinds, Processing(kinds), HasParent,
             NEW id \in ErrorIds, NEW previous \in Nat, Clash(previous),
             Reject(<<Report(id, at, previous)>>)
      PROVE  Processed
  <2>1. /\ Advance(<<>>) /\ UNCHANGED <<namespaces, classes, globals, groups, globalTypes>>
        /\ diagnostics' = Append(diagnostics, Report(id, at, previous))
    BY <1>3, ReportsOne DEF Reject, symbolVars
  <2>2. Refuse BY <1>3, <2>1 DEF Refuse
  <2> QED BY <1>2, <1>3, <2>1, <2>2
<1>4. /\ \A p \in DOMAIN classes : classes[p] \in Nat
      /\ \A p \in DOMAIN namespaces : namespaces[p] \in Nat
      /\ \A p \in DOMAIN globals : globals[p] \in Nat
      /\ \A p \in DOMAIN groups : groups[p].location \in Nat
  <2>1. 0..Len(nodes) \subseteq Nat /\ 1..Len(nodes) \subseteq Nat BY <1>1
  <2>2. \A p \in DOMAIN groups : groups[p].location \in 1..Len(nodes)
    BY DEF ShapeInv, SymbolsOK, Groups, GroupInfo
  <2> QED BY <2>1, <2>2 DEF ShapeInv, SymbolsOK
<1>5. CASE RejectName
  <2>1. /\ Processing(DeclarationKinds) /\ ~HasParent /\ Reject(NameReports)
    BY <1>5 DEF RejectName, Processing, DeclarationKinds
  <2>2. /\ Advance(<<>>) /\ UNCHANGED <<namespaces, classes, globals, groups, globalTypes>>
        /\ diagnostics' = diagnostics \o NameReports
    BY <2>1 DEF Reject, symbolVars
  <2>3. Refuse
    <3>1. CASE name.ids = <<>>
      <4>1. NameReports = <<>> BY <3>1 DEF NameReports
      <4> QED BY <2>1, <2>2, <3>1, <4>1, NoReports DEF Refuse
    <3>2. CASE name.ids # <<>>
      <4>1. \E id \in ErrorIds : NameReports = <<Report(id, at, 0)>>
        BY <3>2 DEF NameReports, ErrorIds
      <4>2. 0 \in Nat OBVIOUS
      <4> QED BY <2>1, <2>2, <3>2, <4>1, <4>2, ReportsOne DEF Refuse
    <3> QED BY <3>1, <3>2
  <2> QED BY <1>2, <2>1, <2>2, <2>3
<1>6. CASE ProcessConstant \/ ClashWithDeletedTree
  BY <1>6 DEF ProcessConstant, ClashWithDeletedTree, Processing, End, NotProcessed,
              treeVars, symbolVars, runVars, controlVars
<1>7. CASE AddNamespace
  <2>1. Accept BY <1>7 DEF AddNamespace, Accept, AcceptNamespace, Processing, here
  <2> QED BY <1>2, <1>7, <2>1 DEF AddNamespace, DeclarationKinds
<1>8. CASE ReopenNamespace
  <2>1. path \notin DOMAIN classes
    BY <1>8 DEF ReopenNamespace, NamesInv, NamesAreUnambiguous
  <2>2. Accept
    BY <1>8, <2>1 DEF ReopenNamespace, Accept, AcceptNamespace, Processing, symbolVars, here
  <2> QED BY <1>2, <1>8, <2>2 DEF ReopenNamespace, DeclarationKinds, symbolVars
<1>9. CASE RejectNamespace
  <2>1. Clash(classes[path]) /\ classes[path] \in Nat
    BY <1>4, <1>9 DEF RejectNamespace, Clash, Processing, here
  <2>2. "SemaDuplicateNamespaceName" \in ErrorIds BY DEF ErrorIds
  <2> QED BY <1>3, <1>9, <2>1, <2>2 DEF RejectNamespace, DeclarationKinds
<1>10. CASE AddClass
  <2>1. Accept
    BY <1>10 DEF AddClass, Accept, AcceptClass, Processing, ClassClash, here
  <2> QED BY <1>2, <1>10, <2>1 DEF AddClass, DeclarationKinds
<1>11. CASE RejectClass
  <2> DEFINE previous == IF path \in DOMAIN classes THEN classes[path]
                         ELSE namespaces[path]
  <2>1. Clash(previous) /\ previous \in Nat
    BY <1>4, <1>11 DEF RejectClass, ClassClash, Clash, Processing, here
  <2>2. Reject(<<Report("SemaDuplicateClassName", at, previous)>>)
    BY <1>11 DEF RejectClass
  <2> HIDE DEF previous
  <2>3. "SemaDuplicateClassName" \in ErrorIds BY DEF ErrorIds
  <2> QED BY <1>3, <1>11, <2>1, <2>2, <2>3 DEF RejectClass, DeclarationKinds
<1>12. CASE AddGlobalVariable
  <2>1. Accept
    BY <1>12 DEF AddGlobalVariable, Accept, AcceptGlobal, Processing, here
  <2> QED
    BY <1>2, <1>12, <2>1 DEF AddGlobalVariable, DeclarationKinds, TypesWhenDeclared
<1>13. CASE RejectGlobalVariable
  <2> DEFINE previous == IF path \in DOMAIN globals THEN globals[path]
                         ELSE groups[path].location
  <2>1. Clash(previous) /\ previous \in Nat
    BY <1>4, <1>13 DEF RejectGlobalVariable, Clash, Processing, here
  <2>2. Reject(<<Report("SemaDuplicateGlobalVariableName", at, previous)>>)
    BY <1>13 DEF RejectGlobalVariable
  <2> HIDE DEF previous
  <2>3. "SemaDuplicateGlobalVariableName" \in ErrorIds BY DEF ErrorIds
  <2> QED BY <1>3, <1>13, <2>1, <2>2, <2>3 DEF RejectGlobalVariable, DeclarationKinds
<1>14. CASE AddFunction
  <2>1. /\ Processing({"function"}) /\ HasParent /\ Advance(<<>>)
        /\ path \notin DOMAIN globals
        /\ UNCHANGED <<namespaces, classes, globals, globalTypes, diagnostics>>
    BY <1>14 DEF AddFunction
  <2>2. todo # <<>> /\ here.decl.kind = "function" BY <2>1 DEF Processing, here
  <2>3. /\ GroupOf(path) \in Groups'
        /\ groups'[path] = [GroupOf(path) EXCEPT !.queue = Append(@, at)]
        /\ \A p \in DOMAIN groups : p # path => groups'[p] = groups[p]
        /\ DOMAIN groups' = DOMAIN groups \cup {path}
    BY <1>14, <2>2, AddFunctionGroup DEF NamesInv
  <2>4. PICK g : g = GroupOf(path) OBVIOUS
  <2>5. /\ path \in DOMAIN groups => g = groups[path]
        /\ path \notin DOMAIN groups =>
             g.location = at /\ g.queue = <<>> /\ g.functions = <<>>
    BY <2>4 DEF GroupOf
  <2>6. groups'[path] = [location |-> g.location, queue |-> Append(g.queue, at),
                         functions |-> g.functions]
    BY <2>3, <2>4 DEF Groups, GroupInfo
  <2>7. g \in Groups' BY <2>3, <2>4
  <2>8. AcceptFunction
    BY <2>1, <2>2, <2>3, <2>5, <2>6, <2>7 DEF AcceptFunction
  <2>9. Accept BY <2>1, <2>8 DEF Accept
  <2> QED BY <1>2, <2>1, <2>9 DEF DeclarationKinds
<1>15. CASE RejectFunction
  <2>1. /\ Clash(globals[path])
        /\ globals[path] \in Nat
    BY <1>4, <1>15 DEF RejectFunction, Clash, Processing, here
  <2>2. "SemaDuplicateFunctionName" \in ErrorIds BY DEF ErrorIds
  <2> QED BY <1>3, <1>15, <2>1, <2>2 DEF RejectFunction, DeclarationKinds
<1>16. CASE FinishDeclaration
  BY <1>16 DEF FinishDeclaration, Drive, NotProcessed, treeVars, symbolVars, runVars
<1> QED
  BY <1>5, <1>6, <1>7, <1>8, <1>9, <1>10, <1>11, <1>12, <1>13, <1>14, <1>15, <1>16
  DEF Declare

-----------------------------------------------------------------------------
(* Types. *)

(* While the declarations of a script are read, nothing is resolved. *)
CollectingInv ==
    phase \in {"read", "declare"} =>
        /\ DOMAIN globalTypes = {}
        /\ \A p \in DOMAIN groups : groups[p].functions = <<>>

FinalInv == CollectingInv /\ TypesAreFinal

(* What a type means depends on the classes and namespaces known. *)
LEMMA SameMeaning ==
  ASSUME UNCHANGED <<classes, namespaces>>, NEW ns, NEW t
  PROVE  resolveType(ns, t)' = resolveType(ns, t)
BY DEF resolveType, Candidates

LEMMA NothingResolved ==
  ASSUME DOMAIN globalTypes = {}, \A p \in DOMAIN groups : groups[p].functions = <<>>
  PROVE  FinalInv
BY DEF FinalInv, CollectingInv, TypesAreFinal

LEMMA NothingResolvedNext ==
  ASSUME DOMAIN globalTypes' = {}, \A p \in DOMAIN groups' : groups'[p].functions = <<>>
  PROVE  FinalInv'
BY DEF FinalInv, CollectingInv, TypesAreFinal

LEMMA SameFinal ==
  ASSUME FinalInv, UNCHANGED <<nodes, namespaces, classes, globals, globalTypes, groups>>,
         phase \in {"read", "declare"} \/ phase' \notin {"read", "declare"}
  PROVE  FinalInv'
<1>1. \A ns, t : resolveType(ns, t)' = resolveType(ns, t) BY SameMeaning
<1> QED BY <1>1 DEF FinalInv, CollectingInv, TypesAreFinal

(* The types of a function do not change when it is analyzed. *)
LEMMA GroupFinal ==
  ASSUME FinalInv, phase \notin {"read", "declare"}, UNCHANGED phase, ShapeInv,
         UNCHANGED <<nodes, namespaces, classes, globals, globalTypes>>,
         NEW p \in DOMAIN groups, NEW h, NEW f,
         groups' = [groups EXCEPT ![p] = h], h.functions = <<f>>,
         f.type[1] = resolveType(Front(p), nodes[f.node].decl.routine.type)
  PROVE  FinalInv'
<1>1. \A ns, t : resolveType(ns, t)' = resolveType(ns, t) BY SameMeaning
<1>2. /\ DOMAIN groups' = DOMAIN groups /\ groups'[p] = h
      /\ \A q \in DOMAIN groups : q # p => groups'[q] = groups[q]
  OBVIOUS
<1>3. ASSUME NEW q \in DOMAIN groups', NEW i \in 1..Len(groups'[q].functions)
      PROVE  groups'[q].functions[i].type[1]
               = resolveType(Front(q), nodes[groups'[q].functions[i].node].decl.routine.type)
  <2>1. CASE q = p
    <3>1. groups'[q].functions = <<f>> BY <1>2, <2>1
    <3>2. i = 1
      <4>1. i \in 1..1 BY <1>3, <3>1
      <4> QED BY <4>1
    <3> QED BY <2>1, <3>1, <3>2
  <2>2. CASE q # p BY <1>2, <1>3, <2>2 DEF FinalInv, TypesAreFinal
  <2> QED BY <2>1, <2>2
<1>4. \A q \in DOMAIN globalTypes' :
        globalTypes'[q] = resolveType(Front(q), nodes'[globals'[q]].decl.type)
  BY DEF FinalInv, TypesAreFinal
<1>5. TypesAreFinal' BY <1>1, <1>3, <1>4 DEF TypesAreFinal
<1> QED BY <1>5 DEF FinalInv, CollectingInv

LEMMA FinalNext ==
  ASSUME ~Interactive, NamesInv, ShapeInv, FinalInv, [Next]_vars
  PROVE  FinalInv'
<1>1. CASE Declare
  <2>1. Processed \/ NotProcessed BY <1>1, DeclareOutcome
  <2>2. phase = "declare" /\ UNCHANGED globalTypes
    BY <2>1 DEF Processed, NotProcessed
  <2>3. /\ DOMAIN globalTypes = {}
        /\ \A p \in DOMAIN groups : groups[p].functions = <<>>
    BY <2>2 DEF FinalInv, CollectingInv
  <2>4. \A p \in DOMAIN groups' : groups'[p].functions = <<>>
    <3>1. CASE UNCHANGED groups BY <2>3, <3>1
    <3>2. CASE AcceptFunction
      <4>1. groups'[path].functions = <<>> BY <2>3, <3>2 DEF AcceptFunction
      <4> QED BY <2>3, <3>2, <4>1 DEF AcceptFunction
    <3> QED
      BY <2>1, <3>1, <3>2 DEF Processed, NotProcessed, Accept, AcceptNamespace,
                              AcceptClass, AcceptGlobal, Refuse
  <2> QED BY <2>2, <2>3, <2>4, NothingResolvedNext
<1>2. CASE TakeQueue
  BY <1>2, SameFinal DEF TakeQueue, PhaseAfter, treeVars, symbolVars
<1>3. CASE ResolveGlobalVariable
  <2>1. /\ phase = "globals" /\ taken # <<>>
        /\ UNCHANGED <<nodes, namespaces, classes, globals, groups, phase>>
    BY <1>3 DEF ResolveGlobalVariable, InPass2, treeVars
  <2>2. PICK p : p = Head(taken) OBVIOUS
  <2>3. PICK type : type = resolveType(Front(p), nodes[globals[p]].decl.type) BY SMTT(30)
  <2>4. globalTypes' \in {globalTypes, Put(globalTypes, p, type)}
    BY <1>3, <2>2, <2>3 DEF ResolveGlobalVariable
  <2>5. \A ns, t : resolveType(ns, t)' = resolveType(ns, t) BY <2>1, SameMeaning
  <2>6. \A q \in DOMAIN globalTypes' :
          globalTypes'[q] = resolveType(Front(q), nodes[globals[q]].decl.type)
    BY <2>3, <2>4 DEF Put, FinalInv, TypesAreFinal
  <2> QED BY <2>1, <2>5, <2>6 DEF FinalInv, CollectingInv, TypesAreFinal
<1>4. CASE ResolveOverload
  <2>1. PICK p, node, f : OverloadStep(p, node, f)
    BY <1>4, ResolveOverloadStep
  <2>2. /\ UNCHANGED <<nodes, namespaces, classes, globals, globalTypes, phase>>
        /\ phase = "groups" /\ p \in DOMAIN groups
    BY <2>1 DEF OverloadStep
  <2>3. CASE UNCHANGED groups BY <2>2, <2>3, SameFinal
  <2>4. CASE ~UNCHANGED groups
    <3>1. PICK h : h = [groups[p] EXCEPT !.queue = Tail(groups[p].queue),
                                         !.functions = <<f>>]
      OBVIOUS
    <3>2. groups' = [groups EXCEPT ![p] = h] BY <2>1, <2>4, <3>1 DEF OverloadStep
    <3>3. h.functions = <<f>>
      BY <2>2, <3>1 DEF ShapeInv, SymbolsOK, Groups, GroupInfo
    <3>4. f.type[1] = resolveType(Front(p), nodes[f.node].decl.routine.type)
      BY <2>1, <2>4 DEF OverloadStep
    <3> QED BY <2>2, <3>2, <3>3, <3>4, GroupFinal
  <2> QED BY <2>3, <2>4
<1>5. CASE FinishGroup
  BY <1>5, SameFinal DEF FinishGroup, InPass2, treeVars
<1>6. CASE AnalyzeFunction
  <2>1. PICK p, f, e : AnalysisStep(p, f, e) BY <1>6, AnalyzeFunctionStep
  <2>2. /\ UNCHANGED <<nodes, namespaces, classes, globals, globalTypes, phase>>
        /\ phase = "functions" /\ p \in DOMAIN groups /\ groups[p].functions = <<f>>
        /\ e.node = f.node /\ e.type = f.type
        /\ groups' = [groups EXCEPT ![p] = [groups[p] EXCEPT !.functions = <<e>>]]
    BY <2>1 DEF AnalysisStep
  <2>3. PICK h : h = [groups[p] EXCEPT !.functions = <<e>>] OBVIOUS
  <2>4. h.functions = <<e>>
    BY <2>2, <2>3 DEF ShapeInv, SymbolsOK, Groups, GroupInfo
  <2>5. e.type[1] = resolveType(Front(p), nodes[e.node].decl.routine.type)
    <3>1. <<f>>[1] = f /\ 1 \in 1..Len(<<f>>) OBVIOUS
    <3>2. f.type[1] = resolveType(Front(p), nodes[f.node].decl.routine.type)
      BY <2>2, <3>1 DEF FinalInv, TypesAreFinal
    <3> QED BY <2>2, <3>2
  <2> QED BY <2>2, <2>3, <2>4, <2>5, GroupFinal
<1>7. CASE FinishPending
  BY <1>7, SameFinal DEF FinishPending, Drive, AfterPending, treeVars, symbolVars
<1>8. CASE ReadDeclaration
  BY <1>8, SameFinal DEF ReadDeclaration, Drive, symbolVars
<1>9. CASE EndOfScript \/ EndOfSession
  BY <1>9, SameFinal DEF EndOfScript, EndOfSession, Drive, treeVars, symbolVars
<1>10. CASE Command BY <1>10 DEF Command
<1>11. CASE Qinit
  BY <1>11, SameFinal DEF Qinit, ExecuteCommand, treeVars, symbolVars
<1>12. CASE UNCHANGED vars
  BY <1>12, SameFinal DEF vars, treeVars, symbolVars, controlVars
<1> QED
  BY <1>1, <1>2, <1>3, <1>4, <1>5, <1>6, <1>7, <1>8, <1>9, <1>10, <1>11, <1>12
  DEF Next, processPendingDeclarations

(* In a script, the type of each global variable and the return type of    *)
(* each function are what their names mean when all is declared: no class  *)
(* or namespace that comes later makes a name stand for something else.    *)
THEOREM TypesOfScriptsAreFinal ==
  ASSUME ~Interactive
  PROVE  Spec => []TypesAreFinal
<1>1. Init => NamesInv /\ ShapeInv /\ FinalInv
  <2>1. Init => DOMAIN globalTypes = {} /\ DOMAIN groups = {} BY DEF Init
  <2> QED BY <2>1, NamesInit, ShapeInit, NothingResolved
<1>2. NamesInv /\ ShapeInv /\ FinalInv /\ [Next]_vars
        => NamesInv' /\ ShapeInv' /\ FinalInv'
  BY NamesNext, ShapeNext, FinalNext
<1>3. FinalInv => TypesAreFinal BY DEF FinalInv
<1> QED BY <1>1, <1>2, <1>3, PTL DEF Spec

-----------------------------------------------------------------------------
(* Errors. *)

LEMMA NodesCount ==
  ASSUME ShapeInv
  PROVE  /\ Len(nodes) \in Nat /\ at = Len(nodes) + 1
         /\ at \notin 1..Len(nodes) /\ at \in 1..at
         /\ \A i \in 1..Len(nodes) : i \in Nat /\ i # at /\ i <= at /\ ~(at <= i)
<1>1. Len(nodes) \in Nat BY LenProperties DEF ShapeInv, TreeOK
<1> QED BY <1>1 DEF at

LEMMA ErrorsAreOfNodes ==
  ASSUME ShapeInv
  PROVE  /\ Errors(at) = {}
         /\ \A d \in ToSet(diagnostics) : d \in Diagnostic(Len(nodes))
<1>1. \A d \in ToSet(diagnostics) : d \in Diagnostic(Len(nodes))
  BY ToSetLemma DEF ShapeInv, ReportsOK
<1>2. \A d \in ToSet(diagnostics) : d.at \in 1..Len(nodes)
  BY <1>1 DEF Diagnostic
<1> QED BY <1>1, <1>2, NodesCount DEF Errors

LEMMA ErrorAdded ==
  ASSUME ShapeInv, NEW id \in ErrorIds, NEW previous \in Nat,
         diagnostics' = Append(diagnostics, Report(id, at, previous))
  PROVE  /\ ToSet(diagnostics') = ToSet(diagnostics) \cup {Report(id, at, previous)}
         /\ \A i \in 1..Len(nodes) : Errors(i)' = Errors(i)
         /\ \A n : n = at => Cardinality(Errors(n)') <= 1 /\ Errors(n)' # {}
<1>1. PICK d : d = Report(id, at, previous) OBVIOUS
<1>2. PICK n : n = at OBVIOUS
<1>3. d.id = id /\ d.at = n BY <1>1, <1>2 DEF Report
<1>4. ToSet(diagnostics') = ToSet(diagnostics) \cup {d}
  <2>1. Len(nodes) \in Nat /\ at \in Nat /\ Len(nodes) <= at /\ at \in 1..at
    BY NodesCount
  <2>2. diagnostics \in Seq(Diagnostic(at))
    BY <2>1, DiagnosticGrows, SeqMonotonic DEF ShapeInv, ReportsOK
  <2>3. d \in Diagnostic(at)
    BY <1>1, <2>1 DEF Report, Diagnostic, DiagnosticIds, ErrorIds
  <2> QED BY <1>1, <2>2, <2>3, AppendLemma
<1>5. \A i : Errors(i)' = Errors(i) \cup (IF i = n THEN {d} ELSE {})
  BY <1>3, <1>4 DEF Errors, ErrorIds
<1>6. Errors(n)' = {d} BY <1>2, <1>5, ErrorsAreOfNodes
<1>7. Cardinality({d}) = 1 BY FS_Singleton
<1>8. Cardinality(Errors(n)') <= 1
  <2>1. Cardinality(Errors(n)') = 1 BY <1>6, <1>7
  <2> QED BY ONLY <2>1
<1> QED BY <1>1, <1>2, <1>4, <1>5, <1>6, <1>8, NodesCount

(* An unresolved type is not an error of the declaration itself. *)
LEMMA SameErrors ==
  ASSUME ShapeInv, NEW node \in 1..Len(nodes), NEW reports \in Seq(UnresolvedReports(node)),
         diagnostics' = diagnostics \o reports
  PROVE  \A i : Errors(i)' = Errors(i)
<1>1. UnresolvedReports(node) \subseteq Diagnostic(Len(nodes))
  BY DEF UnresolvedReports, Diagnostic, DiagnosticIds
<1>2. reports \in Seq(Diagnostic(Len(nodes))) BY <1>1, SeqMonotonic
<1>3. ToSet(diagnostics') = ToSet(diagnostics) \cup ToSet(reports)
  BY <1>2, ConcatLemma DEF ShapeInv, ReportsOK
<1>4. ToSet(reports) \subseteq UnresolvedReports(node) BY ToSetLemma
<1>5. \A d \in ToSet(reports) : d.id \notin ErrorIds
  BY <1>4 DEF UnresolvedReports, ErrorIds
<1> QED BY <1>3, <1>5 DEF Errors, ErrorIds

(* A namespace exists only if those around it do. *)
LEMMA PrefixClosed ==
  ASSUME NamesInv, NEW n \in Seq(STRING), NEW ids \in Seq(STRING),
         n \o ids \in DOMAIN namespaces
  PROVE  \A k \in 1..(Len(ids) - 1) : n \o SubSeq(ids, 1, k) \in DOMAIN namespaces
<1> DEFINE Bad == {k \in 1..Len(ids) : n \o SubSeq(ids, 1, k) \notin DOMAIN namespaces}
<1>1. Len(ids) \in Nat /\ \A i \in 1..Len(ids) : ids[i] \in STRING
  BY LenProperties, ElementOfSeq
<1>2. \A k \in 1..Len(ids) : /\ SubSeq(ids, 1, k) \in Seq(STRING)
                             /\ Len(SubSeq(ids, 1, k)) = k
                             /\ \A i \in 1..k : SubSeq(ids, 1, k)[i] = ids[i]
  <2> SUFFICES ASSUME NEW k \in 1..Len(ids)
               PROVE  /\ SubSeq(ids, 1, k) \in Seq(STRING)
                      /\ Len(SubSeq(ids, 1, k)) = k
                      /\ \A i \in 1..k : SubSeq(ids, 1, k)[i] = ids[i]
    OBVIOUS
  <2>1. k \in Nat /\ 1 <= k /\ \A i \in 1..k : ids[i] \in STRING BY <1>1
  <2>2. /\ SubSeq(ids, 1, k) \in Seq(STRING)
        /\ Len(SubSeq(ids, 1, k)) = k - 1 + 1
        /\ \A i \in 1..k - 1 + 1 : SubSeq(ids, 1, k)[i] = ids[1 + i - 1]
    BY <2>1, SubSeqProperties
  <2> QED BY <2>1, <2>2
<1>3. Bad = {}
  <2> SUFFICES ASSUME Bad # {} PROVE FALSE OBVIOUS
  <2>1. Bad \in SUBSET (1..Len(ids)) OBVIOUS
  <2>2. PICK k \in Bad : \A j \in Bad : k >= j BY <1>1, <2>1, IndexMaximum
  <2>3. k \in 1..Len(ids) /\ n \o SubSeq(ids, 1, k) \notin DOMAIN namespaces OBVIOUS
  <2>4. k # Len(ids)
    <3>1. k = Len(ids) => SubSeq(ids, 1, k) = ids BY <1>2, <2>3, SeqEqual
    <3> QED BY <2>3, <3>1
  <2>5. k + 1 \in 1..Len(ids) /\ ~(k >= k + 1) BY <1>1, <2>3, <2>4
  <2>6. PICK m : m = SubSeq(ids, 1, k + 1) OBVIOUS
  <2>7. /\ m \in Seq(STRING) /\ Len(m) = k + 1 /\ Len(m) # 1 /\ m # <<>>
        /\ \A i \in 1..k : m[i] = ids[i]
    BY <1>1, <1>2, <2>3, <2>5, <2>6
  <2>8. n \o m \in DOMAIN namespaces BY <2>2, <2>5, <2>6
  <2>9. n \o m # <<>> /\ Front(n \o m) = n \o SubSeq(m, 1, k)
    <3>1. Len(m) - 1 = k BY <2>3, <2>7
    <3> QED BY <2>7, <3>1, FrontOfPath
  <2>10. SubSeq(m, 1, k) = SubSeq(ids, 1, k)
    <3>1. k \in Nat /\ 1 <= k /\ \A i \in 1..k : m[i] \in STRING
      BY <1>1, <2>3, <2>7
    <3>2. /\ SubSeq(m, 1, k) \in Seq(STRING) /\ Len(SubSeq(m, 1, k)) = k - 1 + 1
          /\ \A i \in 1..k - 1 + 1 : SubSeq(m, 1, k)[i] = m[1 + i - 1]
      BY <2>7, <3>1, SubSeqProperties
    <3>3. /\ Len(SubSeq(m, 1, k)) = k /\ \A i \in 1..k : SubSeq(m, 1, k)[i] = ids[i]
      BY <2>7, <3>1, <3>2
    <3> QED BY <1>2, <2>3, <3>2, <3>3, SeqEqual
  <2>11. Front(n \o m) \in DOMAIN namespaces
    BY <2>8, <2>9 DEF NamesInv, NamesAreUnambiguous, Root
  <2> QED BY <2>3, <2>9, <2>10, <2>11
<1>4. 1..(Len(ids) - 1) \subseteq 1..Len(ids) BY <1>1
<1> QED BY <1>3, <1>4

-----------------------------------------------------------------------------
(* Declarations do not get lost. *)

(* The declaration at hand becomes the last node. *)
LEMMA LastNode ==
  ASSUME NamesInv, ShapeInv, Processed
  PROVE  /\ Len(nodes') = Len(nodes) + 1 /\ nodes'[at] = here
         /\ \A i \in 1..Len(nodes) : nodes'[i] = nodes[i] /\ PathOf(i)' = PathOf(i)
         /\ \A i \in 1..Len(nodes') : i \in 1..Len(nodes) \/ i = at
         /\ \A n : n = at => PathOf(n)' = path
         /\ Len(nodes) \in Nat /\ at \in 1..Len(nodes')
<1>1. /\ Len(nodes') = Len(nodes) + 1 /\ nodes'[at] = here
      /\ \A i \in 1..Len(nodes) : nodes'[i] = nodes[i]
      /\ Len(nodes) \in Nat /\ at = Len(nodes) + 1
  BY AdvanceNodes DEF Processed, ShapeInv, NamesInv
<1>2. \A i \in 1..Len(nodes') : i \in 1..Len(nodes) \/ i = at BY <1>1
<1>3. at \in 1..Len(nodes') BY <1>1
<1>4. PICK n : n = at OBVIOUS
<1>5. \A i : PathOf(i)' = nodes'[i].ns \o nodes'[i].decl.name.ids BY DEF PathOf
<1>6. PathOf(n)' = path
  <2>1. nodes'[n] = here BY <1>1, <1>4
  <2> QED BY <1>5, <2>1 DEF path, name
<1> QED BY <1>1, <1>2, <1>3, <1>4, <1>5, <1>6 DEF PathOf

InGroup(g, i) == \/ i \in ToSet(g.queue)
                 \/ \E k \in 1..Len(g.functions) : g.functions[k].node = i

(* A function that is added is the last overload of its group. *)
LEMMA FunctionAccepted ==
  ASSUME ShapeInv, AcceptFunction
  PROVE  /\ path \in DOMAIN groups'
         /\ ToSet(groups'[path].queue)
              = {at} \cup IF path \in DOMAIN groups THEN ToSet(groups[path].queue) ELSE {}
         /\ groups'[path].functions
              = IF path \in DOMAIN groups THEN groups[path].functions ELSE <<>>
         /\ groups'[path].location
              = IF path \in DOMAIN groups THEN groups[path].location ELSE at
         /\ path \in DOMAIN groups => groups'[path].queue = Append(groups[path].queue, at)
<1>1. PICK g \in Groups' :
        /\ path \in DOMAIN groups => g = groups[path]
        /\ path \notin DOMAIN groups =>
             g.location = at /\ g.queue = <<>> /\ g.functions = <<>>
        /\ groups'[path] = [location |-> g.location, queue |-> Append(g.queue, at),
                            functions |-> g.functions]
  BY DEF AcceptFunction
<1>2. PICK q : q = g.queue OBVIOUS
<1>3. q \in Seq(Nat)
  <2>1. CASE path \in DOMAIN groups
    <3>1. q \in Seq(1..Len(nodes))
      BY <1>1, <1>2, <2>1 DEF ShapeInv, SymbolsOK, Groups, GroupInfo
    <3>2. 1..Len(nodes) \subseteq Nat BY NodesCount
    <3> QED BY <3>1, <3>2, SeqMonotonic
  <2>2. CASE path \notin DOMAIN groups BY <1>1, <1>2, <2>2, EmptySeq
  <2> QED BY <2>1, <2>2
<1>4. at \in Nat BY NodesCount
<1>5. ToSet(Append(q, at)) = ToSet(q) \cup {at} BY <1>3, <1>4, AppendLemma
<1>6. path \notin DOMAIN groups => ToSet(q) = {} BY <1>1, <1>2, EmptyLemma
<1>7. groups'[path].queue = Append(q, at) /\ groups'[path].functions = g.functions
      /\ groups'[path].location = g.location
  BY <1>1, <1>2
<1>8. ToSet(groups'[path].queue)
        = {at} \cup IF path \in DOMAIN groups THEN ToSet(groups[path].queue) ELSE {}
  BY <1>1, <1>2, <1>5, <1>6, <1>7
<1>9. path \in DOMAIN groups => groups'[path].queue = Append(groups[path].queue, at)
  BY <1>1, <1>2, <1>7
<1> QED BY <1>1, <1>7, <1>8, <1>9 DEF AcceptFunction

LEMMA OldDeclared ==
  ASSUME NamesInv, ShapeInv, Processed, NEW i \in 1..Len(nodes),
         nodes[i].decl.kind \in DeclarationKinds
  PROVE  Declared(i)' <=> Declared(i)
<1> DEFINE q == PathOf(i)
<1>1. nodes'[i] = nodes[i] /\ PathOf(i)' = q /\ i # at /\ ~(at <= i)
  BY LastNode, NodesCount
<1>2. \/ UNCHANGED <<namespaces, classes, globals, groups>>
      \/ AcceptNamespace \/ AcceptClass \/ AcceptGlobal \/ AcceptFunction
  BY DEF Processed, Accept, Refuse
<1> HIDE DEF q
<1>3. (q \in DOMAIN namespaces' /\ namespaces'[q] <= i)
        <=> (q \in DOMAIN namespaces /\ namespaces[q] <= i)
  <2>1. \/ namespaces' = namespaces
        \/ path \notin DOMAIN namespaces /\ namespaces' = Put(namespaces, path, at)
    BY <1>2 DEF AcceptNamespace, AcceptClass, AcceptGlobal, AcceptFunction
  <2> QED BY <1>1, <2>1 DEF Put
<1>4. (q \in DOMAIN classes' /\ classes'[q] = i)
        <=> (q \in DOMAIN classes /\ classes[q] = i)
  <2>1. \/ classes' = classes
        \/ path \notin DOMAIN classes /\ classes' = Put(classes, path, at)
    BY <1>2 DEF AcceptNamespace, AcceptClass, AcceptGlobal, AcceptFunction
  <2> QED BY <1>1, <2>1 DEF Put
<1>5. (q \in DOMAIN globals' /\ globals'[q] = i)
        <=> (q \in DOMAIN globals /\ globals[q] = i)
  <2>1. \/ globals' = globals
        \/ path \notin DOMAIN globals /\ globals' = Put(globals, path, at)
    BY <1>2 DEF AcceptNamespace, AcceptClass, AcceptGlobal, AcceptFunction
  <2> QED BY <1>1, <2>1 DEF Put
<1>6. (q \in DOMAIN groups' /\ InGroup(groups'[q], i))
        <=> (q \in DOMAIN groups /\ InGroup(groups[q], i))
  <2>1. CASE groups' = groups BY <2>1
  <2>2. CASE AcceptFunction
    <3>1. CASE q # path BY <2>2, <3>1 DEF AcceptFunction
    <3>2. CASE q = path /\ path \in DOMAIN groups
      BY <1>1, <2>2, <3>2, FunctionAccepted DEF InGroup
    <3>3. CASE q = path /\ path \notin DOMAIN groups
      <4>1. groups'[q].functions = <<>> /\ ToSet(groups'[q].queue) = {at}
        BY <2>2, <3>3, FunctionAccepted
      <4> QED BY <1>1, <3>3, <4>1 DEF InGroup
    <3> QED BY <3>1, <3>2, <3>3
  <2> QED BY <1>2, <2>1, <2>2 DEF AcceptNamespace, AcceptClass, AcceptGlobal
<1>7. Declared(i) <=>
        \/ /\ nodes[i].decl.kind = "namespace" /\ ~nodes[i].decl.name.root
           /\ q \in DOMAIN namespaces /\ namespaces[q] <= i
        \/ nodes[i].decl.kind = "class" /\ q \in DOMAIN classes /\ classes[q] = i
        \/ nodes[i].decl.kind = "global" /\ q \in DOMAIN globals /\ globals[q] = i
        \/ nodes[i].decl.kind = "function" /\ q \in DOMAIN groups /\ InGroup(groups[q], i)
  BY DEF Declared, InGroup, DeclarationKinds, q
<1>8. Declared(i)' <=>
        \/ /\ nodes[i].decl.kind = "namespace" /\ ~nodes[i].decl.name.root
           /\ q \in DOMAIN namespaces' /\ namespaces'[q] <= i
        \/ nodes[i].decl.kind = "class" /\ q \in DOMAIN classes' /\ classes'[q] = i
        \/ nodes[i].decl.kind = "global" /\ q \in DOMAIN globals' /\ globals'[q] = i
        \/ nodes[i].decl.kind = "function" /\ q \in DOMAIN groups' /\ InGroup(groups'[q], i)
  BY <1>1 DEF Declared, InGroup, DeclarationKinds
<1> QED BY <1>3, <1>4, <1>5, <1>6, <1>7, <1>8

(* What is accepted is declared, what is rejected is not. *)
LEMMA NewDeclared ==
  ASSUME NamesInv, ShapeInv, Processed, NEW n, n = at
  PROVE  /\ Accept => Declared(n)'
         /\ Refuse /\ name.ids # <<>> => ~Declared(n)'
<1>1. nodes'[n] = here /\ PathOf(n)' = path BY LastNode
<1>2. /\ \A p \in DOMAIN namespaces : namespaces[p] <= n
      /\ \A p \in DOMAIN classes : classes[p] # n
      /\ \A p \in DOMAIN globals : globals[p] # n
      /\ \A p \in DOMAIN groups : ~InGroup(groups[p], n)
  <2>1. /\ \A p \in DOMAIN namespaces : namespaces[p] <= n
        /\ \A p \in DOMAIN classes : classes[p] # n
        /\ \A p \in DOMAIN globals : globals[p] # n
    BY NodesCount DEF ShapeInv, SymbolsOK
  <2>2. ASSUME NEW p \in DOMAIN groups PROVE ~InGroup(groups[p], n)
    <3>1. groups[p].queue \in Seq(1..Len(nodes)) /\ groups[p].functions \in Seq(Overloads)
      BY DEF ShapeInv, SymbolsOK, Groups, GroupInfo
    <3>2. ToSet(groups[p].queue) \subseteq 1..Len(nodes) BY <3>1, ToSetLemma
    <3>3. \A k \in 1..Len(groups[p].functions) : groups[p].functions[k].node \in 1..Len(nodes)
      <4>1. \A k \in 1..Len(groups[p].functions) : groups[p].functions[k] \in Overloads
        BY <3>1, ElementOfSeq
      <4> QED BY <4>1 DEF Overloads, Overload
    <3> QED BY <3>2, <3>3, NodesCount DEF InGroup
  <2> QED BY <2>1, <2>2
<1>3. here.decl.kind \in DeclarationKinds /\ n <= n
  BY NodesCount DEF Processed
<1>4. Declared(n)' <=>
        \/ /\ here.decl.kind = "namespace" /\ ~here.decl.name.root
           /\ path \in DOMAIN namespaces' /\ namespaces'[path] <= n
        \/ here.decl.kind = "class" /\ path \in DOMAIN classes' /\ classes'[path] = n
        \/ here.decl.kind = "global" /\ path \in DOMAIN globals' /\ globals'[path] = n
        \/ /\ here.decl.kind = "function" /\ path \in DOMAIN groups'
           /\ InGroup(groups'[path], n)
  BY <1>1, <1>3 DEF Declared, InGroup, DeclarationKinds
<1>5. ASSUME Accept PROVE Declared(n)'
  <2>1. CASE AcceptNamespace
    <3>1. ~here.decl.name.root BY <1>5 DEF Accept, HasParent, name
    <3> QED BY <1>2, <1>3, <1>4, <2>1, <3>1 DEF AcceptNamespace, Put
  <2>2. CASE AcceptClass BY <1>4, <2>2 DEF AcceptClass, Put
  <2>3. CASE AcceptGlobal BY <1>4, <2>3 DEF AcceptGlobal, Put
  <2>4. CASE AcceptFunction
    BY <1>4, <2>4, FunctionAccepted DEF AcceptFunction, InGroup
  <2> QED BY <1>5, <2>1, <2>2, <2>3, <2>4 DEF Accept
<1>6. ASSUME Refuse, name.ids # <<>> PROVE ~Declared(n)'
  <2>1. UNCHANGED <<namespaces, classes, globals, groups>> BY <1>6 DEF Refuse
  <2>2. ASSUME here.decl.kind = "namespace", ~here.decl.name.root, path \in DOMAIN namespaces
        PROVE  FALSE
    <3>1. here.ns \in Seq(STRING) /\ name.ids \in Seq(STRING)
      BY HereLemma DEF Processed, NamesInv
    <3>2. HasParent
      BY <1>6, <2>2, <3>1, PrefixClosed DEF HasParent, MissingParents, path, name
    <3> QED BY <1>6, <2>2, <3>2 DEF Refuse, Clash
  <2> QED BY <1>2, <1>4, <2>1, <2>2
<1> QED BY <1>5, <1>6

(* What NothingIsLost says, also of a process that has ended. *)
LostInv ==
    \A i \in 1..Len(nodes) :
        /\ nodes[i].decl.kind \in DeclarationKinds
        /\ Cardinality(Errors(i)) <= 1
        /\ nodes[i].decl.name.ids # <<>> => (Errors(i) = {} <=> Declared(i))

LEMMA LostDeclare ==
  ASSUME NamesInv, ShapeInv, LostInv, Processed
  PROVE  LostInv'
<1>1. ASSUME \A i \in 1..Len(nodes) : Errors(i)' = Errors(i),
             \A n : n = at => /\ Cardinality(Errors(n)') <= 1
                              /\ nodes'[n].decl.name.ids # <<>> =>
                                   (Errors(n)' = {} <=> Declared(n)')
      PROVE  LostInv'
  <2> SUFFICES ASSUME NEW i \in 1..Len(nodes')
               PROVE  /\ nodes'[i].decl.kind \in DeclarationKinds
                      /\ Cardinality(Errors(i)') <= 1
                      /\ nodes'[i].decl.name.ids # <<>> =>
                           (Errors(i)' = {} <=> Declared(i)')
    BY DEF LostInv
  <2>1. CASE i \in 1..Len(nodes)
    BY <1>1, <2>1, LastNode, OldDeclared DEF LostInv
  <2>2. CASE i = at
    BY <1>1, <2>2, LastNode DEF Processed
  <2> QED BY <2>1, <2>2, LastNode
<1>2. ASSUME UNCHANGED diagnostics
      PROVE  \A n : n = at => Errors(n)' = {} /\ Cardinality(Errors(n)') <= 1
  <2>1. \A n : Errors(n)' = Errors(n) BY <1>2 DEF Errors
  <2>2. \A n : n = at => Errors(n)' = {} BY <2>1, ErrorsAreOfNodes
  <2>3. Cardinality({}) <= 1
    <3>1. Cardinality({}) = 0 BY FS_EmptySet
    <3> QED BY ONLY <3>1
  <2> QED BY <2>2, <2>3
<1>3. UNCHANGED diagnostics => \A i : Errors(i)' = Errors(i) BY DEF Errors
<1>4. \A n : n = at => nodes'[n].decl.name.ids = name.ids
  BY LastNode DEF name
<1>5. CASE Accept
  BY <1>1, <1>2, <1>3, <1>5, NewDeclared DEF Accept
<1>6. CASE Refuse
  <2>1. CASE UNCHANGED diagnostics /\ name.ids = <<>>
    BY <1>1, <1>2, <1>3, <1>4, <2>1
  <2>2. CASE name.ids # <<>> /\ \E id \in ErrorIds, previous \in Nat :
                diagnostics' = Append(diagnostics, Report(id, at, previous))
    BY <1>1, <1>6, <2>2, ErrorAdded, NewDeclared
  <2>3. HasParent => name.ids # <<>> BY DEF HasParent
  <2>4. \A previous : Clash(previous) => previous \in Nat BY ClashIsLocation
  <2>5. 0 \in Nat OBVIOUS
  <2> QED BY <1>6, <2>1, <2>2, <2>3, <2>4, <2>5 DEF Refuse
<1> QED BY <1>5, <1>6 DEF Processed

(* What every step does to declarations that have been processed: nothing, *)
(* but for what becomes of overloads and for types reported as unresolved. *)
GroupsKept ==
    /\ DOMAIN groups' = DOMAIN groups
    /\ \A p \in DOMAIN groups :
         /\ groups'[p].location = groups[p].location
         /\ \A i : InGroup(groups'[p], i) <=> InGroup(groups[p], i)

ReportsKept ==
    /\ \A i : Errors(i)' = Errors(i)
    /\ \A d \in ToSet(diagnostics') : d \in ToSet(diagnostics) \/ d.previous = 0

Kept ==
    /\ UNCHANGED <<nodes, namespaces, classes, globals>>
    /\ GroupsKept /\ ReportsKept

LEMMA OverloadsStay ==
  ASSUME ShapeInv, NEW p, NEW node, NEW f, OverloadStep(p, node, f)
  PROVE  GroupsKept
<1>1. CASE UNCHANGED groups BY <1>1 DEF GroupsKept
<1>2. CASE ~UNCHANGED groups
  <2>1. /\ p \in DOMAIN groups /\ groups[p].queue # <<>> /\ node = Head(groups[p].queue)
        /\ groups[p].functions = <<>> /\ f.node = node
        /\ groups' = [groups EXCEPT ![p] = [groups[p] EXCEPT
                         !.queue = Tail(groups[p].queue), !.functions = <<f>>]]
    BY <1>2 DEF OverloadStep
  <2>2. PICK q, fs, h : /\ q = groups[p].queue /\ fs = <<f>>
                        /\ h = [groups[p] EXCEPT !.queue = Tail(q), !.functions = fs]
    OBVIOUS
  <2>3. /\ q \in Seq(1..Len(nodes)) /\ h.queue = Tail(q) /\ h.functions = fs
        /\ h.location = groups[p].location
    BY <2>1, <2>2 DEF ShapeInv, SymbolsOK, Groups, GroupInfo
  <2>4. ToSet(q) = {node} \cup ToSet(Tail(q)) BY <2>1, <2>2, <2>3, TailLemma
  <2>5. Len(fs) = 1 /\ fs[1] = f BY <2>2
  <2>6. \A i : (\E k \in 1..Len(fs) : fs[k].node = i) <=> i = node
    <3>1. 1..Len(fs) = {1} BY <2>5
    <3> QED BY <2>1, <2>5, <3>1
  <2>7. \A i : InGroup(h, i) <=> i \in ToSet(q)
    BY <2>3, <2>4, <2>6 DEF InGroup
  <2>8. \A i : InGroup(groups[p], i) <=> i \in ToSet(q)
    <3>1. Len(groups[p].functions) = 0 BY <2>1
    <3>2. 1..Len(groups[p].functions) = {} BY <3>1
    <3> QED BY <2>2, <3>2 DEF InGroup
  <2>9. groups' = [groups EXCEPT ![p] = h] BY <2>1, <2>2
  <2> QED BY <2>1, <2>3, <2>7, <2>8, <2>9 DEF GroupsKept
<1> QED BY <1>1, <1>2

LEMMA AnalyzedOverloadsStay ==
  ASSUME ShapeInv, NEW p, NEW f, NEW e, AnalysisStep(p, f, e)
  PROVE  GroupsKept
<1>1. /\ p \in DOMAIN groups /\ groups[p].functions = <<f>> /\ e.node = f.node
      /\ groups' = [groups EXCEPT ![p] = [groups[p] EXCEPT !.functions = <<e>>]]
  BY DEF AnalysisStep
<1>2. PICK es, fs, h : /\ es = <<e>> /\ fs = <<f>>
                       /\ h = [groups[p] EXCEPT !.functions = es]
  OBVIOUS
<1>3. /\ h.queue = groups[p].queue /\ h.functions = es
      /\ h.location = groups[p].location
  BY <1>1, <1>2 DEF ShapeInv, SymbolsOK, Groups, GroupInfo
<1>4. Len(es) = 1 /\ es[1] = e /\ Len(fs) = 1 /\ fs[1] = f BY <1>2
<1>5. \A i : InGroup(h, i) <=> InGroup(groups[p], i)
  <2>1. 1..Len(fs) = {1} /\ 1..Len(es) = {1} BY <1>4
  <2>2. groups[p].functions = fs BY <1>1, <1>2
  <2> QED BY <1>1, <1>3, <1>4, <2>1, <2>2 DEF InGroup
<1>6. groups' = [groups EXCEPT ![p] = h] BY <1>1, <1>2
<1> QED BY <1>1, <1>3, <1>5, <1>6 DEF GroupsKept

LEMMA UnresolvedKept ==
  ASSUME ShapeInv, NEW node \in 1..Len(nodes), NEW reports \in Seq(UnresolvedReports(node)),
         diagnostics' = diagnostics \o reports
  PROVE  ReportsKept
<1>1. UnresolvedReports(node) \subseteq Diagnostic(Len(nodes))
  BY DEF UnresolvedReports, Diagnostic, DiagnosticIds
<1>2. reports \in Seq(Diagnostic(Len(nodes))) BY <1>1, SeqMonotonic
<1>3. ToSet(diagnostics') = ToSet(diagnostics) \cup ToSet(reports)
  BY <1>2, ConcatLemma DEF ShapeInv, ReportsOK
<1>4. ToSet(reports) \subseteq UnresolvedReports(node) BY ToSetLemma
<1>5. \A d \in ToSet(reports) : d.previous = 0 BY <1>4 DEF UnresolvedReports
<1> QED BY <1>3, <1>5, SameErrors DEF ReportsKept

LEMMA StepKeeps ==
  ASSUME NamesInv, ShapeInv, [Next]_vars
  PROVE  Processed \/ Kept
<1>1. ASSUME UNCHANGED <<nodes, namespaces, classes, globals, groups, diagnostics>>
      PROVE  Kept
  BY <1>1 DEF Kept, GroupsKept, ReportsKept, Errors
<1>2. CASE Declare
  <2>1. NotProcessed => Kept BY <1>1 DEF NotProcessed
  <2> QED BY <1>2, <2>1, DeclareOutcome
<1>3. CASE TakeQueue BY <1>1, <1>3 DEF TakeQueue, treeVars, symbolVars
<1>4. CASE ResolveGlobalVariable
  <2>1. /\ phase = "globals" /\ taken # <<>>
        /\ UNCHANGED <<nodes, namespaces, classes, globals, groups>>
    BY <1>4 DEF ResolveGlobalVariable, InPass2, treeVars
  <2>2. PICK p : p = Head(taken) OBVIOUS
  <2>3. PICK node : node = globals[p] OBVIOUS
  <2>4. node \in 1..Len(nodes)
    BY SMTT(30), <2>1, <2>2, <2>3, HeadOfTaken DEF ShapeInv, SymbolsOK
  <2>5. PICK reports :
          /\ reports = TypeReports(Front(p), nodes[node].decl.type, node)
          /\ diagnostics' = diagnostics \o reports
    BY <1>4, <2>2, <2>3 DEF ResolveGlobalVariable
  <2>6. ReportsKept BY <2>4, <2>5, TypeReportsLemma, UnresolvedKept
  <2> QED BY <2>1, <2>6 DEF Kept, GroupsKept
<1>5. CASE ResolveOverload
  <2>1. PICK p, node, f : OverloadStep(p, node, f) BY <1>5, ResolveOverloadStep
  <2>2. ReportsKept BY <2>1, UnresolvedKept DEF OverloadStep
  <2>3. UNCHANGED <<nodes, namespaces, classes, globals>> BY <2>1 DEF OverloadStep
  <2> QED BY <2>1, <2>2, <2>3, OverloadsStay DEF Kept
<1>6. CASE FinishGroup BY <1>1, <1>6 DEF FinishGroup, InPass2, treeVars
<1>7. CASE AnalyzeFunction
  <2>1. PICK p, f, e : AnalysisStep(p, f, e) BY <1>7, AnalyzeFunctionStep
  <2>2. f.node \in 1..Len(nodes) BY <2>1 DEF AnalysisStep, Overloads, Overload
  <2>3. ReportsKept BY <2>1, <2>2, UnresolvedKept DEF AnalysisStep
  <2>4. UNCHANGED <<nodes, namespaces, classes, globals>> BY <2>1 DEF AnalysisStep
  <2> QED BY <2>1, <2>3, <2>4, AnalyzedOverloadsStay DEF Kept
<1>8. CASE FinishPending BY <1>1, <1>8 DEF FinishPending, Drive, treeVars, symbolVars
<1>9. CASE ReadDeclaration BY <1>1, <1>9 DEF ReadDeclaration, Drive, symbolVars
<1>10. CASE EndOfScript \/ EndOfSession
  BY <1>1, <1>10 DEF EndOfScript, EndOfSession, Drive, treeVars, symbolVars
<1>11. CASE Command \/ Qinit
  BY <1>1, <1>11 DEF Command, Qinit, ExecuteCommand, treeVars, symbolVars
<1>12. CASE UNCHANGED vars BY <1>1, <1>12 DEF vars, treeVars, symbolVars
<1> QED
  BY <1>2, <1>3, <1>4, <1>5, <1>6, <1>7, <1>8, <1>9, <1>10, <1>11, <1>12
  DEF Next, processPendingDeclarations

LEMMA LostKept ==
  ASSUME LostInv, Kept
  PROVE  LostInv'
<1> USE DEF Kept, GroupsKept, ReportsKept
<1>1. \A i : PathOf(i)' = PathOf(i) BY DEF PathOf
<1>2. ASSUME NEW i \in 1..Len(nodes) PROVE Declared(i)' <=> Declared(i)
  <2>1. nodes[i].decl.kind \in DeclarationKinds BY DEF LostInv
  <2>2. CASE nodes[i].decl.kind # "function"
    BY <1>1, <2>1, <2>2 DEF Declared, DeclarationKinds
  <2>3. CASE nodes[i].decl.kind = "function"
    <3>1. Declared(i) <=> PathOf(i) \in DOMAIN groups /\ InGroup(groups[PathOf(i)], i)
      BY <2>3 DEF Declared, InGroup
    <3>2. Declared(i)' <=> PathOf(i) \in DOMAIN groups' /\ InGroup(groups'[PathOf(i)], i)
      BY <1>1, <2>3 DEF Declared, InGroup
    <3> QED BY <3>1, <3>2
  <2> QED BY <2>2, <2>3
<1> QED BY <1>2 DEF LostInv

LEMMA LostNext == NamesInv /\ ShapeInv /\ LostInv /\ [Next]_vars => LostInv'
BY StepKeeps, LostDeclare, LostKept

LEMMA LostInit == Init => LostInv
BY DEF Init, LostInv

(* A declaration whose parent is found and that clashes with nothing is    *)
(* part of its symbol from then on, through all the queues; one that is    *)
(* not has been reported, once; and what is reported is no symbol: neither *)
(* checks nor queues lose a declaration.                                   *)
THEOREM NoDeclarationIsLost == Spec => []NothingIsLost
<1>1. Init => NamesInv /\ ShapeInv /\ LostInv BY NamesInit, ShapeInit, LostInit
<1>2. NamesInv /\ ShapeInv /\ LostInv /\ [Next]_vars
        => NamesInv' /\ ShapeInv' /\ LostInv'
  BY NamesNext, ShapeNext, LostNext
<1>3. LostInv => NothingIsLost BY DEF LostInv, NothingIsLost
<1> QED BY <1>1, <1>2, <1>3, PTL DEF Spec

-----------------------------------------------------------------------------
(* The previous declarations of a name. *)

TypeKinds  == {"namespace", "class"}
ValueKinds == {"global", "function"}

Same(p, kinds) ==
    {i \in 1..Len(nodes) : PathOf(i) = p /\ Accepted(i) /\ nodes[i].decl.kind \in kinds}
IsFirst(l, nodesOfName) ==
    l \in nodesOfName /\ \A i \in nodesOfName : l <= i

(* What a symbol knows as its location is the first accepted declaration   *)
(* of its name. *)
FirstInv ==
    /\ \A p \in DOMAIN namespaces \ {Root} : IsFirst(namespaces[p], Same(p, TypeKinds))
    /\ \A p \in DOMAIN classes : IsFirst(classes[p], Same(p, TypeKinds))
    /\ \A p \in DOMAIN globals : IsFirst(globals[p], Same(p, ValueKinds))
    /\ \A p \in DOMAIN groups : IsFirst(groups[p].location, Same(p, ValueKinds))

LEMMA FirstKept ==
  ASSUME FirstInv, Kept
  PROVE  FirstInv'
<1> USE DEF Kept, GroupsKept, ReportsKept
<1>1. \A i : PathOf(i)' = PathOf(i) /\ Accepted(i)' = Accepted(i)
  BY DEF PathOf, Accepted
<1>2. \A p, kinds : Same(p, kinds)' = Same(p, kinds) BY <1>1 DEF Same
<1>4. \A p \in DOMAIN groups' : groups'[p].location = groups[p].location OBVIOUS
<1> QED BY <1>2, <1>4 DEF FirstInv, IsFirst

(* A name that stands for nothing has not been accepted before. *)
LEMMA NothingBefore ==
  ASSUME LostInv, NEW p
  PROVE  /\ p \notin DOMAIN namespaces \cup DOMAIN classes => Same(p, TypeKinds) = {}
         /\ p \notin DOMAIN globals \cup DOMAIN groups => Same(p, ValueKinds) = {}
<1>1. ASSUME NEW kinds, NEW i \in Same(p, kinds)
      PROVE  Declared(i) /\ PathOf(i) = p /\ nodes[i].decl.kind \in kinds
  BY <1>1 DEF Same, Accepted, LostInv
<1>2. \A i : Declared(i) /\ nodes[i].decl.kind \in TypeKinds
               => PathOf(i) \in DOMAIN namespaces \cup DOMAIN classes
  <2> SUFFICES ASSUME NEW i, Declared(i), nodes[i].decl.kind \in TypeKinds
               PROVE  PathOf(i) \in DOMAIN namespaces \cup DOMAIN classes
    OBVIOUS
  <2>1. nodes[i].decl.kind = "namespace" \/ nodes[i].decl.kind = "class" BY DEF TypeKinds
  <2> QED BY <2>1 DEF Declared
<1>3. \A i : Declared(i) /\ nodes[i].decl.kind \in ValueKinds
               => PathOf(i) \in DOMAIN globals \cup DOMAIN groups
  <2> SUFFICES ASSUME NEW i, Declared(i), nodes[i].decl.kind \in ValueKinds
               PROVE  PathOf(i) \in DOMAIN globals \cup DOMAIN groups
    OBVIOUS
  <2>1. nodes[i].decl.kind = "global" \/ nodes[i].decl.kind = "function" BY DEF ValueKinds
  <2> QED BY <2>1 DEF Declared
<1> QED BY <1>1, <1>2, <1>3

(* A node counts from now on if it has been accepted. *)
LEMMA NewSame ==
  ASSUME NamesInv, ShapeInv, Processed, NEW n, n = at
  PROVE  /\ \A i \in 1..Len(nodes) :
              /\ PathOf(i)' = PathOf(i) /\ Accepted(i)' = Accepted(i)
              /\ nodes'[i] = nodes[i]
         /\ \A p, kinds : /\ Refuse => Same(p, kinds)' = Same(p, kinds)
                          /\ Accept => Same(p, kinds)' = Same(p, kinds) \cup
                               IF p = path /\ here.decl.kind \in kinds THEN {n} ELSE {}
<1>1. /\ \A i \in 1..Len(nodes) : nodes'[i] = nodes[i] /\ PathOf(i)' = PathOf(i)
      /\ nodes'[n] = here /\ PathOf(n)' = path
      /\ \A i : i \in 1..Len(nodes') <=> i \in 1..Len(nodes) \/ i = n
  <2>1. n \in 1..Len(nodes') /\ 1..Len(nodes) \subseteq 1..Len(nodes')
    BY LastNode, NodesCount
  <2> QED BY <2>1, LastNode
<1>2. /\ \A i \in 1..Len(nodes) : Errors(i)' = Errors(i)
      /\ Accept => Errors(n)' = {} /\ here.decl.name.ids # <<>>
      /\ Refuse => Errors(n)' # {} \/ here.decl.name.ids = <<>>
  <2>1. ASSUME UNCHANGED diagnostics
        PROVE  \A i \in 1..Len(nodes) : Errors(i)' = Errors(i)
    BY <2>1 DEF Errors
  <2>2. UNCHANGED diagnostics => Errors(n)' = {}
    <3>1. UNCHANGED diagnostics => Errors(n)' = Errors(n) BY DEF Errors
    <3> QED BY <3>1, ErrorsAreOfNodes
  <2>3. ASSUME NEW id \in ErrorIds, NEW previous \in Nat,
               diagnostics' = Append(diagnostics, Report(id, at, previous))
        PROVE  /\ \A i \in 1..Len(nodes) : Errors(i)' = Errors(i)
               /\ Errors(n)' # {}
    BY <2>3, ErrorAdded
  <2>4. \A previous : Clash(previous) => previous \in Nat BY ClashIsLocation
  <2>5. 0 \in Nat OBVIOUS
  <2>6. Accept => UNCHANGED diagnostics /\ here.decl.name.ids # <<>>
    BY DEF Accept, HasParent, name
  <2>7. Refuse => \/ UNCHANGED diagnostics /\ here.decl.name.ids = <<>>
                  \/ \E id \in ErrorIds, previous \in Nat :
                        diagnostics' = Append(diagnostics, Report(id, at, previous))
    BY <2>4, <2>5 DEF Refuse, name
  <2>8. Refuse => Errors(n)' # {} \/ here.decl.name.ids = <<>>
    BY <2>3, <2>7
  <2>9. \A i \in 1..Len(nodes) : Errors(i)' = Errors(i)
    BY <2>1, <2>3, <2>6, <2>7 DEF Processed
  <2> QED BY <2>2, <2>6, <2>8, <2>9
<1>3. /\ \A i \in 1..Len(nodes) : Accepted(i)' = Accepted(i)
      /\ Accept => Accepted(n)'
      /\ Refuse => ~Accepted(n)'
  BY <1>1, <1>2 DEF Accepted
<1>4. n \notin 1..Len(nodes) BY NodesCount
<1> QED BY <1>1, <1>3, <1>4 DEF Same

LEMMA FirstDeclare ==
  ASSUME NamesInv, ShapeInv, LostInv, FirstInv, Processed
  PROVE  FirstInv'
<1>1. PICK n : n = at OBVIOUS
<1>2. Len(nodes) \in Nat /\ n = Len(nodes) + 1 BY <1>1, NodesCount
<1>3. /\ \A p, kinds : Refuse => Same(p, kinds)' = Same(p, kinds)
      /\ \A p, kinds : Accept => Same(p, kinds)' = Same(p, kinds) \cup
                          IF p = path /\ here.decl.kind \in kinds THEN {n} ELSE {}
  BY <1>1, NewSame
<1>4. \A p, kinds : Same(p, kinds) \subseteq 1..Len(nodes) BY DEF Same
<1>5. \A l, p, kinds : IsFirst(l, Same(p, kinds)) => IsFirst(l, Same(p, kinds)')
  <2> SUFFICES ASSUME NEW l, NEW p, NEW kinds, IsFirst(l, Same(p, kinds))
               PROVE  IsFirst(l, Same(p, kinds)')
    OBVIOUS
  <2>1. l \in 1..Len(nodes) /\ l <= n /\ l \in Same(p, kinds)
        /\ \A i \in Same(p, kinds) : l <= i
    BY <1>2, <1>4 DEF IsFirst
  <2>2. Same(p, kinds) \subseteq Same(p, kinds)'
        /\ Same(p, kinds)' \subseteq Same(p, kinds) \cup {n}
    BY <1>3 DEF Processed
  <2> QED BY <2>1, <2>2 DEF IsFirst
<1>6. \A kinds : Accept /\ here.decl.kind \in kinds /\ Same(path, kinds) = {}
                   => \A p : p = path => IsFirst(n, Same(p, kinds)')
  <2> SUFFICES ASSUME NEW kinds, Accept, here.decl.kind \in kinds, Same(path, kinds) = {},
                      NEW p, p = path
               PROVE  IsFirst(n, Same(p, kinds)')
    OBVIOUS
  <2>1. Same(p, kinds)' = {n} BY <1>3
  <2> QED BY <1>2, <2>1 DEF IsFirst
<1>7. CASE Refuse
  <2>1. UNCHANGED <<namespaces, classes, globals, groups>> BY <1>7 DEF Refuse
  <2> QED BY <1>5, <2>1 DEF FirstInv, IsFirst
<1>8. ASSUME Accept, AcceptNamespace PROVE FirstInv'
  <2>1. path \notin DOMAIN namespaces => Same(path, TypeKinds) = {}
    BY <1>8, NothingBefore DEF AcceptNamespace
  <2>2. here.decl.kind \in TypeKinds BY <1>8 DEF AcceptNamespace, TypeKinds
  <2>3. \A p \in DOMAIN namespaces' \ {Root} : IsFirst(namespaces'[p], Same(p, TypeKinds)')
    BY <1>1, <1>5, <1>6, <1>8, <2>1, <2>2 DEF AcceptNamespace, Put, FirstInv
  <2> QED BY <1>5, <1>8, <2>3 DEF AcceptNamespace, FirstInv, IsFirst
<1>9. ASSUME Accept, AcceptClass PROVE FirstInv'
  <2>1. Same(path, TypeKinds) = {} BY <1>9, NothingBefore DEF AcceptClass
  <2>2. here.decl.kind \in TypeKinds BY <1>9 DEF AcceptClass, TypeKinds
  <2>3. \A p \in DOMAIN classes' : IsFirst(classes'[p], Same(p, TypeKinds)')
    BY <1>1, <1>5, <1>6, <1>9, <2>1, <2>2 DEF AcceptClass, Put, FirstInv
  <2> QED BY <1>5, <1>9, <2>3 DEF AcceptClass, FirstInv, IsFirst
<1>10. ASSUME Accept, AcceptGlobal PROVE FirstInv'
  <2>1. Same(path, ValueKinds) = {} BY <1>10, NothingBefore DEF AcceptGlobal
  <2>2. here.decl.kind \in ValueKinds BY <1>10 DEF AcceptGlobal, ValueKinds
  <2>3. \A p \in DOMAIN globals' : IsFirst(globals'[p], Same(p, ValueKinds)')
    BY <1>1, <1>5, <1>6, <1>10, <2>1, <2>2 DEF AcceptGlobal, Put, FirstInv
  <2> QED BY <1>5, <1>10, <2>3 DEF AcceptGlobal, FirstInv, IsFirst
<1>11. ASSUME Accept, AcceptFunction PROVE FirstInv'
  <2>1. path \notin DOMAIN groups => Same(path, ValueKinds) = {}
    BY <1>11, NothingBefore DEF AcceptFunction
  <2>2. here.decl.kind \in ValueKinds BY <1>11 DEF AcceptFunction, ValueKinds
  <2>3. groups'[path].location
          = IF path \in DOMAIN groups THEN groups[path].location ELSE n
    BY <1>1, <1>11, FunctionAccepted
  <2>4. \A p : p = path => IsFirst(groups'[p].location, Same(p, ValueKinds)')
    <3>1. CASE path \in DOMAIN groups BY <1>5, <2>3, <3>1 DEF FirstInv
    <3>2. CASE path \notin DOMAIN groups BY <1>6, <1>11, <2>1, <2>2, <2>3, <3>2
    <3> QED BY <3>1, <3>2
  <2>5. /\ DOMAIN groups' = DOMAIN groups \cup {path}
        /\ \A p \in DOMAIN groups : p # path => groups'[p] = groups[p]
        /\ UNCHANGED <<namespaces, classes, globals>>
    BY <1>11 DEF AcceptFunction
  <2>6. \A p \in DOMAIN groups' : IsFirst(groups'[p].location, Same(p, ValueKinds)')
    BY <1>5, <2>4, <2>5 DEF FirstInv
  <2> QED BY <1>5, <2>5, <2>6 DEF FirstInv, IsFirst
<1> QED BY <1>7, <1>8, <1>9, <1>10, <1>11 DEF Processed, Accept

(* What a declaration clashes with is the first of its name. *)
LEMMA ClashIsFirst ==
  ASSUME NamesInv, ShapeInv, FirstInv, Processed, HasParent,
         NEW previous, Clash(previous)
  PROVE  IsFirst(previous, Same(path, Space(here.decl.kind)))
<1>1. path # Root BY ParentExists DEF Processed, NamesInv
<1>2. /\ Space("namespace") = TypeKinds /\ Space("class") = TypeKinds
      /\ Space("global") = ValueKinds /\ Space("function") = ValueKinds
  BY DEF Space, TypeKinds, ValueKinds
<1>3. CASE here.decl.kind \in TypeKinds
  BY <1>1, <1>2, <1>3 DEF Clash, FirstInv, TypeKinds
<1>4. CASE here.decl.kind \in ValueKinds
  BY <1>2, <1>4 DEF Clash, FirstInv, ValueKinds
<1> QED BY <1>3, <1>4 DEF Processed, DeclarationKinds, TypeKinds, ValueKinds

(* The declarations a diagnostic is compared with *)
Earlier(i) == {j \in 1..(i - 1) : /\ PathOf(j) = PathOf(i) /\ Accepted(j)
                                  /\ nodes[j].decl.kind \in Space(nodes[i].decl.kind)}

LEMMA EarlierIsEnough ==
  PreviousIsFirst <=>
    \A d \in ToSet(diagnostics) : d.previous # 0 => IsFirst(d.previous, Earlier(d.at))
BY DEF PreviousIsFirst, Earlier, IsFirst

LEMMA EarlierIsEnoughNext ==
  PreviousIsFirst' <=>
    \A d \in ToSet(diagnostics') : d.previous # 0 => IsFirst(d.previous, Earlier(d.at)')
BY DEF PreviousIsFirst, Earlier, IsFirst

LEMMA PreviousKept ==
  ASSUME PreviousIsFirst, Kept
  PROVE  PreviousIsFirst'
<1> USE DEF Kept, ReportsKept
<1>1. \A i : PathOf(i)' = PathOf(i) /\ Accepted(i)' = Accepted(i)
  BY DEF PathOf, Accepted
<1>2. \A i : Earlier(i)' = Earlier(i) BY <1>1 DEF Earlier
<1> QED BY <1>2, EarlierIsEnough, EarlierIsEnoughNext

LEMMA PreviousDeclare ==
  ASSUME NamesInv, ShapeInv, FirstInv, PreviousIsFirst, Processed
  PROVE  PreviousIsFirst'
<1>1. PICK n : n = at OBVIOUS
<1>2. Len(nodes) \in Nat /\ n = Len(nodes) + 1 BY <1>1, NodesCount
<1>3. \A i \in 1..Len(nodes) : /\ PathOf(i)' = PathOf(i) /\ Accepted(i)' = Accepted(i)
                               /\ nodes'[i] = nodes[i]
  BY <1>1, NewSame
<1>4. \A i \in 1..Len(nodes) : Earlier(i)' = Earlier(i)
  <2> SUFFICES ASSUME NEW i \in 1..Len(nodes) PROVE Earlier(i)' = Earlier(i) OBVIOUS
  <2>1. 1..(i - 1) \subseteq 1..Len(nodes) BY <1>2
  <2> QED BY <1>3, <2>1 DEF Earlier
<1>5. Earlier(n)' = Same(path, Space(here.decl.kind))
  <2>1. nodes'[n] = here /\ PathOf(n)' = path BY <1>1, LastNode
  <2>2. 1..(n - 1) = 1..Len(nodes) BY <1>2
  <2>3. Earlier(n)' = {j \in 1..Len(nodes) :
                          /\ PathOf(j)' = path /\ Accepted(j)'
                          /\ nodes'[j].decl.kind \in Space(here.decl.kind)}
    BY <2>1, <2>2 DEF Earlier, Space
  <2> QED BY <1>3, <2>3 DEF Same
<1>6. \A d \in ToSet(diagnostics) :
        d.at \in 1..Len(nodes) /\ (d.previous # 0 => IsFirst(d.previous, Earlier(d.at)))
  BY ErrorsAreOfNodes, EarlierIsEnough DEF Diagnostic
<1>7. \A d \in ToSet(diagnostics') :
        \/ d \in ToSet(diagnostics)
        \/ d.previous = 0
        \/ d.at = n /\ HasParent /\ Clash(d.previous)
  <2>1. CASE UNCHANGED diagnostics BY <2>1
  <2>2. CASE Refuse /\ ~UNCHANGED diagnostics
    <3>1. PICK id \in ErrorIds, previous \in Nat :
            /\ previous = 0 \/ (HasParent /\ Clash(previous))
            /\ diagnostics' = Append(diagnostics, Report(id, at, previous))
      BY <2>2, ClashIsLocation DEF Refuse
    <3>2. ToSet(diagnostics') = ToSet(diagnostics) \cup {Report(id, at, previous)}
      BY <3>1, ErrorAdded
    <3>3. Report(id, at, previous).at = n /\ Report(id, at, previous).previous = previous
      BY <1>1 DEF Report
    <3> QED BY <3>1, <3>2, <3>3
  <2> QED BY <2>1, <2>2 DEF Processed, Accept
<1>8. \A d \in ToSet(diagnostics') : d.previous # 0 => IsFirst(d.previous, Earlier(d.at)')
  BY <1>4, <1>5, <1>6, <1>7, ClashIsFirst
<1> QED BY <1>8, EarlierIsEnoughNext

(* Wherever a "previous declaration" is reported, it is where the name was *)
(* declared first by a declaration that was accepted, as getLocation()     *)
(* promises: not by one that was itself rejected, nor by a later overload  *)
(* or a reopened namespace.  (Where a session reads the location of a      *)
(* deleted tree, nothing that is reported is sure; the model ends there:   *)
(* OnlyClashesWithDeletedTreesFault.) *)
THEOREM PreviousDeclarationsAreFirst == Spec => []PreviousIsFirst
<1> DEFINE Inv == NamesInv /\ ShapeInv /\ LostInv /\ FirstInv /\ PreviousIsFirst
<1>1. Init => Inv
  <2> SUFFICES ASSUME Init PROVE Inv OBVIOUS
  <2>1. /\ DOMAIN namespaces = {Root} /\ DOMAIN classes = {}
        /\ DOMAIN globals = {} /\ DOMAIN groups = {}
    BY DEF Init
  <2>2. FirstInv BY <2>1 DEF FirstInv
  <2>3. ToSet(diagnostics) = {} BY EmptyLemma DEF Init
  <2>4. PreviousIsFirst BY <2>3 DEF PreviousIsFirst
  <2> QED BY <2>2, <2>4, NamesInit, ShapeInit, LostInit
<1>2. Inv /\ [Next]_vars => Inv'
  <2> SUFFICES ASSUME Inv, [Next]_vars PROVE Inv' OBVIOUS
  <2>1. NamesInv' /\ ShapeInv' /\ LostInv' BY NamesNext, ShapeNext, LostNext
  <2>2. FirstInv' BY StepKeeps, FirstDeclare, FirstKept
  <2>3. PreviousIsFirst' BY StepKeeps, PreviousDeclare, PreviousKept
  <2> QED BY <2>1, <2>2, <2>3
<1>3. Inv => PreviousIsFirst OBVIOUS
<1> QED BY <1>1, <1>2, <1>3, PTL DEF Spec

-----------------------------------------------------------------------------
(* The life of a declaration. *)

(* A node belongs to one symbol, that of its path, and is queued once. *)
StageInv ==
    /\ \A p \in DOMAIN globals :
         nodes[globals[p]].decl.kind = "global" /\ PathOf(globals[p]) = p
    /\ \A p \in DOMAIN groups :
         /\ IsInjective(groups[p].queue)
         /\ \A i : InGroup(groups[p], i)
                     => nodes[i].decl.kind = "function" /\ PathOf(i) = p

LEMMA OverloadsAreInGroup ==
  ASSUME ShapeInv, NEW p \in DOMAIN groups
  PROVE  \A i : /\ i \in OverloadsOf(groups[p]) <=> InGroup(groups[p], i)
                /\ InGroup(groups[p], i) => i \in 1..Len(nodes)
<1>1. PICK q, fs : q = groups[p].queue /\ fs = groups[p].functions OBVIOUS
<1>2. q \in Seq(1..Len(nodes)) /\ fs \in Seq(Overloads)
  BY <1>1 DEF ShapeInv, SymbolsOK, Groups, GroupInfo
<1>3. ToSet(fs) = {fs[k] : k \in 1..Len(fs)} BY <1>2, ToSetLemma
<1>4. ToSet(q) \subseteq 1..Len(nodes) BY <1>2, ToSetLemma
<1>5. \A k \in 1..Len(fs) : fs[k].node \in 1..Len(nodes)
  <2>1. \A k \in 1..Len(fs) : fs[k] \in Overloads BY <1>2, ElementOfSeq
  <2> QED BY <2>1 DEF Overloads, Overload
<1> QED BY <1>1, <1>3, <1>4, <1>5 DEF OverloadsOf, InGroup

StageFacts ==
    /\ \A i : i \in DOMAIN Stage <=> \/ \E p \in DOMAIN globals : globals[p] = i
                                     \/ \E p \in DOMAIN groups : InGroup(groups[p], i)
    /\ Stage = [i \in DOMAIN Stage |-> Stage[i]]
    /\ \A p \in DOMAIN globals :
         Stage[globals[p]] = [kind |-> "global", at |-> GlobalAt(p)]
    /\ \A p \in DOMAIN groups : \A i : InGroup(groups[p], i) =>
         Stage[i] = [kind |-> "function", at |-> FunctionAt(groups[p], i)]

LEMMA StageLemma == ShapeInv /\ StageInv => StageFacts
<1> SUFFICES ASSUME ShapeInv, StageInv PROVE StageFacts OBVIOUS
<1> DEFINE global(i)   == {p \in DOMAIN globals : globals[p] = i}
           function(i) == {p \in DOMAIN groups : i \in OverloadsOf(groups[p])}
           D == {globals[p] : p \in DOMAIN globals}
                \cup UNION {OverloadsOf(groups[p]) : p \in DOMAIN groups}
           value(i) == IF global(i) # {}
                       THEN [kind |-> "global", at |-> GlobalAt(CHOOSE p \in global(i) : TRUE)]
                       ELSE [kind |-> "function",
                             at |-> FunctionAt(groups[CHOOSE p \in function(i) : TRUE], i)]
<1>1. Stage = [i \in D |-> value(i)] BY DEF Stage
<1>2. \A i : i \in D <=> \/ \E p \in DOMAIN globals : globals[p] = i
                         \/ \E p \in DOMAIN groups : InGroup(groups[p], i)
  BY OverloadsAreInGroup
<1>3. ASSUME NEW p \in DOMAIN globals
      PROVE  value(globals[p]) = [kind |-> "global", at |-> GlobalAt(p)]
  <2>1. \A q \in DOMAIN globals : globals[q] = globals[p] => q = p BY DEF StageInv
  <2>2. global(globals[p]) = {p} BY <2>1
  <2>3. (CHOOSE q \in {p} : TRUE) = p OBVIOUS
  <2> HIDE DEF global, function
  <2> QED BY <2>2, <2>3
<1>4. ASSUME NEW p \in DOMAIN groups, NEW i, InGroup(groups[p], i)
      PROVE  value(i) = [kind |-> "function", at |-> FunctionAt(groups[p], i)]
  <2>1. global(i) = {} BY <1>4 DEF StageInv
  <2>2. function(i) = {p}
    <3>1. \A q \in DOMAIN groups : InGroup(groups[q], i) => q = p BY <1>4 DEF StageInv
    <3> QED BY <1>4, <3>1, OverloadsAreInGroup
  <2>3. (CHOOSE q \in {p} : TRUE) = p OBVIOUS
  <2> HIDE DEF global, function
  <2> QED BY <2>1, <2>2, <2>3
<1> HIDE DEF D, value
<1>5. DOMAIN Stage = D /\ \A i \in D : Stage[i] = value(i) BY <1>1
<1>6. Stage = [i \in DOMAIN Stage |-> Stage[i]] BY <1>1
<1>7. \A p \in DOMAIN globals : globals[p] \in D BY <1>2
<1>8. \A p \in DOMAIN groups : \A i : InGroup(groups[p], i) => i \in D BY <1>2
<1> QED BY <1>2, <1>3, <1>4, <1>5, <1>6, <1>7, <1>8 DEF StageFacts

LEMMA StageLemmaNext == ShapeInv' /\ StageInv' => StageFacts'
BY StageLemma, PTL

LEMMA StageDeclare ==
  ASSUME NamesInv, ShapeInv, StageInv, Processed
  PROVE  StageInv'
<1> DEFINE P(i) == nodes'[i].ns \o nodes'[i].decl.name.ids
<1>1. PICK n : n = at OBVIOUS
<1>2. \A i : PathOf(i)' = P(i) BY DEF PathOf
<1>3. /\ \A i \in 1..Len(nodes) : nodes'[i] = nodes[i] /\ P(i) = PathOf(i)
      /\ nodes'[n] = here /\ P(n) = path
  BY <1>1, <1>2, LastNode
<1> HIDE DEF P
<1>4. StageInv' <=>
        /\ \A p \in DOMAIN globals' :
             nodes'[globals'[p]].decl.kind = "global" /\ P(globals'[p]) = p
        /\ \A p \in DOMAIN groups' :
             /\ IsInjective(groups'[p].queue)
             /\ \A i : InGroup(groups'[p], i)
                         => nodes'[i].decl.kind = "function" /\ P(i) = p
  BY DEF StageInv, P, PathOf, InGroup
<1>5. \A p \in DOMAIN globals :
        nodes'[globals[p]].decl.kind = "global" /\ P(globals[p]) = p
  BY <1>3 DEF StageInv, ShapeInv, SymbolsOK
<1>6. \A p \in DOMAIN groups :
        /\ IsInjective(groups[p].queue)
        /\ \A i : InGroup(groups[p], i)
                    => nodes'[i].decl.kind = "function" /\ P(i) = p
  BY <1>3, OverloadsAreInGroup DEF StageInv
<1>7. CASE UNCHANGED <<globals, groups>> BY <1>4, <1>5, <1>6, <1>7
<1>8. CASE AcceptGlobal
  BY <1>1, <1>3, <1>4, <1>5, <1>6, <1>8 DEF AcceptGlobal, Put
<1>9. CASE AcceptFunction
  <2>1. \A i : InGroup(groups'[path], i) =>
                  i = n \/ (path \in DOMAIN groups /\ InGroup(groups[path], i))
    BY <1>1, <1>9, FunctionAccepted, EmptyLemma DEF InGroup
  <2>2. here.decl.kind = "function" BY <1>9 DEF AcceptFunction
  <2>3. IsInjective(groups'[path].queue)
    <3>1. CASE path \in DOMAIN groups
      <4>1. PICK q : q = groups[path].queue OBVIOUS
      <4>2. q \in Seq(1..Len(nodes))
        BY <3>1, <4>1 DEF ShapeInv, SymbolsOK, Groups, GroupInfo
      <4>3. 1..Len(nodes) \subseteq Nat /\ n \in Nat /\ n \notin 1..Len(nodes)
        BY <1>1, NodesCount
      <4>4. q \in Seq(Nat) /\ n \notin ToSet(q)
        BY <4>2, <4>3, SeqMonotonic, ToSetLemma
      <4>5. IsInjective(q) BY <1>6, <3>1, <4>1
      <4>6. IsInjective(Append(q, n)) BY <4>3, <4>4, <4>5, AppendLemma
      <4>7. groups'[path].queue = Append(q, n)
        BY <1>1, <1>9, <3>1, <4>1, FunctionAccepted
      <4> QED BY <4>6, <4>7
    <3>2. CASE path \notin DOMAIN groups
      <4>1. PICK g : /\ g.queue = <<>>
                     /\ groups'[path] = [location |-> g.location,
                                         queue |-> Append(g.queue, at),
                                         functions |-> g.functions]
        BY <1>9, <3>2 DEF AcceptFunction
      <4>2. Append(<<>>, n) = <<n>> OBVIOUS
      <4>3. groups'[path].queue = <<n>> BY <1>1, <4>1, <4>2
      <4> QED BY <4>3, SingletonLemma
    <3> QED BY <3>1, <3>2
  <2>4. /\ DOMAIN groups' = DOMAIN groups \cup {path} /\ UNCHANGED globals
        /\ \A p \in DOMAIN groups : p # path => groups'[p] = groups[p]
    BY <1>9 DEF AcceptFunction
  <2> QED BY <1>3, <1>4, <1>5, <1>6, <2>1, <2>2, <2>3, <2>4
<1> QED BY <1>7, <1>8, <1>9 DEF Processed, Accept, Refuse, AcceptNamespace, AcceptClass

LEMMA StageKept ==
  ASSUME StageInv, Kept, \A p \in DOMAIN groups : IsInjective(groups'[p].queue)
  PROVE  StageInv'
<1>1. \A i : PathOf(i)' = PathOf(i) BY DEF PathOf, Kept
<1>2. /\ UNCHANGED <<nodes, globals>> /\ DOMAIN groups' = DOMAIN groups
      /\ \A p \in DOMAIN groups : \A i : InGroup(groups'[p], i) => InGroup(groups[p], i)
  BY DEF Kept, GroupsKept
<1> QED BY <1>1, <1>2 DEF StageInv, PathOf

-----------------------------------------------------------------------------
(* Steps of the lifecycle *)

LEMMA Idles ==
  ASSUME status = "running", Stage' = Stage,
         (phase \in {"read", "declare"})' = (phase \in {"read", "declare"})
  PROVE  L!Next
<1>1. ~(status # "running") /\ (status # "running")' \in BOOLEAN OBVIOUS
<1> QED BY <1>1 DEF L!Next

(* Stage', when it is known value by value *)
LEMMA SameFunction ==
  ASSUME NEW f, NEW g, f = [i \in DOMAIN f |-> f[i]], g = [i \in DOMAIN g |-> g[i]],
         DOMAIN f = DOMAIN g, \A i \in DOMAIN f : f[i] = g[i]
  PROVE  f = g
<1>1. [i \in DOMAIN f |-> f[i]] = [i \in DOMAIN f |-> g[i]] OBVIOUS
<1>2. [i \in DOMAIN g |-> g[i]] = [i \in DOMAIN f |-> g[i]] OBVIOUS
<1> QED BY <1>1, <1>2

LEMMA Declares ==
  ASSUME status = "running", phase = "declare", UNCHANGED phase,
         NEW n, n \notin DOMAIN Stage, NEW kind \in {"global", "function"},
         DOMAIN Stage' = DOMAIN Stage \cup {n}, Stage' = [i \in DOMAIN Stage' |-> Stage'[i]],
         \A i \in DOMAIN Stage : Stage'[i] = Stage[i],
         Stage'[n] = [kind |-> kind, at |-> "declared"]
  PROVE  L!Next
<1> DEFINE g == [i \in DOMAIN Stage \cup {n} |->
                    IF i = n THEN [kind |-> kind, at |-> "declared"] ELSE Stage[i]]
<1>1. Stage' = g
  <2>1. DOMAIN Stage' = DOMAIN g /\ \A i \in DOMAIN g : Stage'[i] = g[i] OBVIOUS
  <2>2. g = [i \in DOMAIN g |-> g[i]] OBVIOUS
  <2> HIDE DEF g
  <2> QED BY <2>1, <2>2, SameFunction
<1>2. L!Declare(n, kind) BY <1>1 DEF L!Declare
<1>3. kind \in L!Kinds BY DEF L!Kinds
<1>4. ~(status # "running") /\ (status # "running")' \in BOOLEAN OBVIOUS
<1>5. n \in DOMAIN Stage' OBVIOUS
<1> QED BY <1>2, <1>3, <1>4, <1>5 DEF L!Next

Moves(n, kind, from, to) ==
    /\ n \in DOMAIN Stage /\ Stage[n] = [kind |-> kind, at |-> from]
    /\ DOMAIN Stage' = DOMAIN Stage /\ Stage' = [i \in DOMAIN Stage' |-> Stage'[i]]
    /\ \A i \in DOMAIN Stage : i # n => Stage'[i] = Stage[i]
    /\ Stage'[n] = [kind |-> kind, at |-> to]

LEMMA MovesStage ==
  ASSUME NEW n, NEW kind, NEW from, NEW to, Moves(n, kind, from, to),
         Stage = [i \in DOMAIN Stage |-> Stage[i]]
  PROVE  Stage' = [Stage EXCEPT ![n].at = to]
<1> USE DEF Moves
<1> DEFINE g == [Stage EXCEPT ![n].at = to]
<1>1. DOMAIN Stage' = DOMAIN g /\ \A i \in DOMAIN g : i # n => Stage'[i] = g[i] OBVIOUS
<1>2. g[n] = [kind |-> kind, at |-> to] OBVIOUS
<1>3. g = [i \in DOMAIN g |-> g[i]] OBVIOUS
<1> HIDE DEF g
<1> QED BY <1>1, <1>2, <1>3, SameFunction DEF g

LEMMA Resolves ==
  ASSUME status = "running", phase \notin {"read", "declare"}, UNCHANGED phase,
         NEW n, NEW kind, Moves(n, kind, "declared", "resolved"),
         Stage = [i \in DOMAIN Stage |-> Stage[i]]
  PROVE  L!Next
<1>1. Stage' = [Stage EXCEPT ![n].at = "resolved"] BY MovesStage
<1>2. n \in DOMAIN Stage /\ Stage[n].at = "declared" BY DEF Moves
<1>3. L!Resolve(n) BY <1>1, <1>2 DEF L!Resolve
<1>4. ~(status # "running") /\ (status # "running")' \in BOOLEAN OBVIOUS
<1> QED BY <1>2, <1>3, <1>4 DEF L!Next

NothingDeclared == \A i \in DOMAIN Stage : Stage[i].at # "declared"
NothingToDo ==
    NothingDeclared /\ \A i \in DOMAIN Stage :
                          Stage[i].kind = "function" => Stage[i].at # "resolved"

LEMMA Translates ==
  ASSUME status = "running", phase \notin {"read", "declare"}, UNCHANGED phase,
         NothingDeclared, NEW n, Moves(n, "function", "resolved", "ready"),
         Stage = [i \in DOMAIN Stage |-> Stage[i]]
  PROVE  L!Next
<1>1. Stage' = [Stage EXCEPT ![n].at = "ready"] BY MovesStage
<1>2. n \in DOMAIN Stage /\ Stage[n].kind = "function" /\ Stage[n].at = "resolved"
  BY DEF Moves
<1>3. L!Translate(n) BY <1>1, <1>2 DEF L!Translate, L!At, NothingDeclared
<1>4. ~(status # "running") /\ (status # "running")' \in BOOLEAN OBVIOUS
<1> QED BY <1>2, <1>3, <1>4 DEF L!Next

LEMMA Turns ==
  ASSUME status = "running", Stage' = Stage,
         (phase \in {"read", "declare"})' = (phase \notin {"read", "declare"}),
         phase \notin {"read", "declare"} => NothingToDo
  PROVE  L!Next
<1>1. L!Turn BY DEF L!Turn, L!At, NothingToDo, NothingDeclared
<1>2. ~(status # "running") /\ (status # "running")' \in BOOLEAN OBVIOUS
<1> QED BY <1>1, <1>2 DEF L!Next

LEMMA Executes ==
  ASSUME status = "running", NothingToDo,
         (phase \in {"read", "declare"})' = (phase \in {"read", "declare"}),
         DOMAIN Stage' = DOMAIN Stage, Stage' = [i \in DOMAIN Stage' |-> Stage'[i]],
         \A i \in DOMAIN Stage : Stage'[i] = [Stage[i] EXCEPT !.at = "ready"]
  PROVE  L!Next
<1>1. Stage' = [i \in DOMAIN Stage |-> [Stage[i] EXCEPT !.at = "ready"]]
  <2> DEFINE g == [i \in DOMAIN Stage |-> [Stage[i] EXCEPT !.at = "ready"]]
  <2>1. DOMAIN Stage' = DOMAIN g /\ \A i \in DOMAIN g : Stage'[i] = g[i] OBVIOUS
  <2>2. g = [i \in DOMAIN g |-> g[i]] OBVIOUS
  <2>3. Stage' = g
    <3> HIDE DEF g
    <3> QED BY <2>1, <2>2, SameFunction
  <2> QED BY <2>3
<1>2. L!Execute BY <1>1 DEF L!Execute, L!At, NothingToDo, NothingDeclared
<1>3. ~(status # "running") /\ (status # "running")' \in BOOLEAN OBVIOUS
<1> QED BY <1>2, <1>3 DEF L!Next

LEMMA FactsNext ==
  ASSUME StageFacts'
  PROVE  /\ \A i : i \in DOMAIN Stage' <=> \/ \E p \in DOMAIN globals' : globals'[p] = i
                                           \/ \E p \in DOMAIN groups' : InGroup(groups'[p], i)
         /\ Stage' = [i \in DOMAIN Stage' |-> Stage'[i]]
         /\ \A p \in DOMAIN globals' :
              Stage'[globals'[p]] = [kind |-> "global", at |-> GlobalAt(p)']
         /\ \A p \in DOMAIN groups' : \A i : InGroup(groups'[p], i) =>
              Stage'[i] = [kind |-> "function", at |-> FunctionAt(groups'[p], i)]
BY DEF StageFacts, InGroup, FunctionAt

LEMMA SameStage ==
  ASSUME UNCHANGED <<globals, globalTypes, initialized, groups>>
  PROVE  Stage' = Stage
BY DEF Stage, GlobalAt, FunctionAt, OverloadsOf

LEMMA SameGlobals ==
  ASSUME StageFacts', UNCHANGED <<globalTypes, initialized>>
  PROVE  \A p \in DOMAIN globals' :
           Stage'[globals'[p]] = [kind |-> "global", at |-> GlobalAt(p)]
<1>1. \A p : GlobalAt(p)' = GlobalAt(p) BY DEF GlobalAt
<1>2. \A p \in DOMAIN globals' :
        Stage'[globals'[p]] = [kind |-> "global", at |-> GlobalAt(p)']
  BY FactsNext
<1> QED BY ONLY <1>1, <1>2

LEMMA DeclareMaps ==
  ASSUME NamesInv, ShapeInv, StageFacts, StageFacts', Processed
  PROVE  L!Next
<1>1. PICK n : n = at OBVIOUS
<1>2. /\ status = "running" /\ phase = "declare"
      /\ UNCHANGED <<phase, globalTypes, initialized>>
  BY DEF Processed
<1>3. \A p \in DOMAIN globals' :
        Stage'[globals'[p]] = [kind |-> "global", at |-> GlobalAt(p)]
  BY <1>2, SameGlobals
<1> DEFINE old == /\ \A i : i \in DOMAIN Stage <=>
                             \/ \E p \in DOMAIN globals : globals[p] = i
                             \/ \E p \in DOMAIN groups : InGroup(groups[p], i)
                  /\ \A p \in DOMAIN globals :
                       Stage[globals[p]] = [kind |-> "global", at |-> GlobalAt(p)]
                  /\ \A p \in DOMAIN groups : \A i : InGroup(groups[p], i) =>
                       Stage[i] = [kind |-> "function", at |-> FunctionAt(groups[p], i)]
<1>0. old BY DEF StageFacts
<1>4. n \notin DOMAIN Stage
  BY <1>1, NodesCount, OverloadsAreInGroup DEF StageFacts, ShapeInv, SymbolsOK
<1>5. CASE UNCHANGED <<globals, groups>> BY <1>2, <1>5, SameStage, Idles
<1>6. CASE AcceptGlobal
  <2>1. /\ path \notin DOMAIN globals /\ UNCHANGED groups
        /\ globals' = Put(globals, path, n)
    BY <1>1, <1>6 DEF AcceptGlobal
  <2>2. DOMAIN Stage' = DOMAIN Stage \cup {n}
    BY <2>1, FactsNext DEF StageFacts, Put
  <2>3. \A i \in DOMAIN Stage : Stage'[i] = Stage[i]
    <3>1. \A p \in DOMAIN globals : p \in DOMAIN globals' /\ globals'[p] = globals[p]
      BY <2>1 DEF Put
    <3>2. ASSUME NEW p \in DOMAIN globals PROVE Stage'[globals[p]] = Stage[globals[p]]
      <4>1. Stage'[globals'[p]] = [kind |-> "global", at |-> GlobalAt(p)]
        BY <1>3, <3>1
      <4>2. Stage[globals[p]] = [kind |-> "global", at |-> GlobalAt(p)] BY <1>0
      <4> QED BY <3>1, <4>1, <4>2
    <3>3. ASSUME NEW p \in DOMAIN groups, NEW i, InGroup(groups[p], i)
          PROVE  Stage'[i] = Stage[i]
      <4>1. Stage'[i] = [kind |-> "function", at |-> FunctionAt(groups[p], i)]
        <5>1. p \in DOMAIN groups' /\ InGroup(groups'[p], i) /\ groups'[p] = groups[p]
          BY <2>1, <3>3
        <5> QED BY <5>1, FactsNext
      <4>2. Stage[i] = [kind |-> "function", at |-> FunctionAt(groups[p], i)]
        BY <1>0, <3>3
      <4> QED BY <4>1, <4>2
    <3> QED BY <1>0, <3>2, <3>3
  <2>4. Stage'[n] = [kind |-> "global", at |-> "declared"]
    <3>1. PICK p : p = path OBVIOUS
    <3>2. p \in DOMAIN globals' /\ globals'[p] = n BY <2>1, <3>1 DEF Put
    <3>3. GlobalAt(p) = "declared"
      <4>1. p \notin DOMAIN globalTypes BY <2>1, <3>1 DEF ShapeInv, SymbolsOK
      <4> QED BY <4>1 DEF GlobalAt
    <3> QED BY <1>3, <3>2, <3>3
  <2> QED BY <1>2, <1>4, <2>2, <2>3, <2>4, FactsNext, Declares
<1>7. CASE AcceptFunction
  <2>1. /\ DOMAIN groups' = DOMAIN groups \cup {path} /\ UNCHANGED globals
        /\ \A p \in DOMAIN groups : p # path => groups'[p] = groups[p]
    BY <1>7 DEF AcceptFunction
  <2>2. /\ path \in DOMAIN groups =>
             /\ ToSet(groups'[path].queue) = {n} \cup ToSet(groups[path].queue)
             /\ groups'[path].functions = groups[path].functions
        /\ path \notin DOMAIN groups =>
             /\ ToSet(groups'[path].queue) = {n}
             /\ groups'[path].functions = <<>>
        /\ n \in ToSet(groups'[path].queue)
    BY <1>1, <1>7, FunctionAccepted
  <2>3. \A i : InGroup(groups'[path], i)
                 <=> i = n \/ (path \in DOMAIN groups /\ InGroup(groups[path], i))
    <3>1. 1..Len(<<>>) = {}
      <4>1. Len(<<>>) = 0 OBVIOUS
      <4> QED BY ONLY <4>1
    <3> QED BY <2>2, <3>1 DEF InGroup
  <2>4. \A i : i # n /\ path \in DOMAIN groups
                 => FunctionAt(groups'[path], i) = FunctionAt(groups[path], i)
    BY <2>2 DEF FunctionAt
  <2>5. DOMAIN Stage' = DOMAIN Stage \cup {n}
    BY <2>1, <2>3, FactsNext DEF StageFacts
  <2>6. \A i \in DOMAIN Stage : Stage'[i] = Stage[i]
    <3>1. ASSUME NEW p \in DOMAIN globals PROVE Stage'[globals[p]] = Stage[globals[p]]
      <4>1. p \in DOMAIN globals' /\ globals'[p] = globals[p] BY <2>1
      <4>2. Stage'[globals'[p]] = [kind |-> "global", at |-> GlobalAt(p)] BY <1>3, <4>1
      <4>3. Stage[globals[p]] = [kind |-> "global", at |-> GlobalAt(p)] BY <1>0, <4>1
      <4> QED BY <4>1, <4>2, <4>3
    <3>2. ASSUME NEW p \in DOMAIN groups, NEW i, InGroup(groups[p], i)
          PROVE  Stage'[i] = Stage[i]
      <4>1. i # n /\ Stage[i] = [kind |-> "function", at |-> FunctionAt(groups[p], i)]
        BY <1>4, <3>2 DEF StageFacts
      <4>2. p \in DOMAIN groups' /\ InGroup(groups'[p], i)
        BY <2>1, <2>3, <3>2
      <4>3. FunctionAt(groups'[p], i) = FunctionAt(groups[p], i)
        BY <2>1, <2>4, <4>1
      <4> QED BY <4>1, <4>2, <4>3, FactsNext
    <3> QED BY <3>1, <3>2 DEF StageFacts
  <2>7. Stage'[n] = [kind |-> "function", at |-> "declared"]
    <3>1. FunctionAt(groups'[path], n) = "declared" BY <2>2 DEF FunctionAt
    <3> QED BY <2>1, <2>3, <3>1, FactsNext
  <2> QED BY <1>2, <1>4, <2>5, <2>6, <2>7, FactsNext, Declares
<1> QED BY <1>5, <1>6, <1>7 DEF Processed, Accept, Refuse, AcceptNamespace, AcceptClass

LEMMA SameGlobalStage ==
  ASSUME StageFacts, StageFacts', NEW p \in DOMAIN globals, p \in DOMAIN globals',
         globals'[p] = globals[p], GlobalAt(p)' = GlobalAt(p)
  PROVE  Stage'[globals[p]] = Stage[globals[p]]
<1>1. Stage'[globals'[p]] = [kind |-> "global", at |-> GlobalAt(p)'] BY FactsNext
<1>2. Stage[globals[p]] = [kind |-> "global", at |-> GlobalAt(p)] BY DEF StageFacts
<1> QED BY ONLY <1>1, <1>2, globals'[p] = globals[p], GlobalAt(p)' = GlobalAt(p)

LEMMA SameFunctionStage ==
  ASSUME StageFacts, StageFacts', NEW p \in DOMAIN groups, p \in DOMAIN groups', NEW i,
         InGroup(groups[p], i), InGroup(groups'[p], i),
         FunctionAt(groups'[p], i) = FunctionAt(groups[p], i)
  PROVE  Stage'[i] = Stage[i]
<1>1. Stage'[i] = [kind |-> "function", at |-> FunctionAt(groups'[p], i)] BY FactsNext
<1>2. Stage[i] = [kind |-> "function", at |-> FunctionAt(groups[p], i)] BY DEF StageFacts
<1> QED BY ONLY <1>1, <1>2, FunctionAt(groups'[p], i) = FunctionAt(groups[p], i)

(* The nodes of the symbols stay, and so do the stages but for that of n. *)
LEMMA StageBut ==
  ASSUME StageFacts, StageFacts', UNCHANGED globals, DOMAIN groups' = DOMAIN groups, NEW n,
         \A p \in DOMAIN groups : \A i : InGroup(groups'[p], i) <=> InGroup(groups[p], i),
         \A p \in DOMAIN globals : globals[p] # n => GlobalAt(p)' = GlobalAt(p),
         \A p \in DOMAIN groups : \A i : InGroup(groups[p], i) /\ i # n
             => FunctionAt(groups'[p], i) = FunctionAt(groups[p], i)
  PROVE  /\ DOMAIN Stage' = DOMAIN Stage /\ Stage' = [i \in DOMAIN Stage' |-> Stage'[i]]
         /\ \A i \in DOMAIN Stage : i # n => Stage'[i] = Stage[i]
<1>1. DOMAIN Stage' = DOMAIN Stage /\ Stage' = [i \in DOMAIN Stage' |-> Stage'[i]]
  BY FactsNext DEF StageFacts
<1>2. ASSUME NEW p \in DOMAIN globals, globals[p] # n
      PROVE  Stage'[globals[p]] = Stage[globals[p]]
  BY <1>2, SameGlobalStage
<1>3. ASSUME NEW p \in DOMAIN groups, NEW i, InGroup(groups[p], i), i # n
      PROVE  Stage'[i] = Stage[i]
  BY <1>3, SameFunctionStage
<1> QED BY <1>1, <1>2, <1>3 DEF StageFacts

LEMMA GlobalMaps ==
  ASSUME ShapeInv, InitInv, StageInv, StageFacts, StageFacts', ResolveGlobalVariable
  PROVE  L!Next
<1>1. /\ status = "running" /\ phase = "globals" /\ taken # <<>>
      /\ UNCHANGED <<globals, groups, initialized, phase>>
  BY DEF ResolveGlobalVariable, InPass2, treeVars, runVars
<1>2. PICK p : p = Head(taken) OBVIOUS
<1>3. p \in DOMAIN globals BY <1>1, <1>2, HeadOfTaken
<1>4. PICK type : type = resolveType(Front(p), nodes[globals[p]].decl.type) BY SMTT(30)
<1>5. \/ UNCHANGED globalTypes
      \/ p \notin DOMAIN globalTypes /\ globalTypes' = Put(globalTypes, p, type)
  BY <1>2, <1>4 DEF ResolveGlobalVariable
<1>6. CASE UNCHANGED globalTypes BY <1>1, <1>6, SameStage, Idles
<1>7. CASE p \notin DOMAIN globalTypes /\ globalTypes' = Put(globalTypes, p, type)
  <2>1. PICK n : n = globals[p] OBVIOUS
  <2>2. DOMAIN globalTypes' = DOMAIN globalTypes \cup {p} BY <1>7 DEF Put
  <2>3. p \notin ToSet(initialized) BY <1>7, ToSetLemma DEF InitInv
  <2>4. GlobalAt(p) = "declared" BY <1>7 DEF GlobalAt
  <2>5. GlobalAt(p)' = "resolved" BY <1>1, <2>2, <2>3 DEF GlobalAt
  <2>6. \A q : q # p => GlobalAt(q)' = GlobalAt(q) BY <1>1, <2>2 DEF GlobalAt
  <2>7. \A q \in DOMAIN globals : globals[q] # n => GlobalAt(q)' = GlobalAt(q)
    BY <2>1, <2>6
  <2>8. \A q \in DOMAIN groups : \A i : InGroup(groups'[q], i) <=> InGroup(groups[q], i)
    BY <1>1
  <2>9. \A q \in DOMAIN groups : \A i : FunctionAt(groups'[q], i) = FunctionAt(groups[q], i)
    BY <1>1
  <2>10. /\ DOMAIN Stage' = DOMAIN Stage /\ Stage' = [i \in DOMAIN Stage' |-> Stage'[i]]
         /\ \A i \in DOMAIN Stage : i # n => Stage'[i] = Stage[i]
    BY <1>1, <2>7, <2>8, <2>9, StageBut
  <2>11. n \in DOMAIN Stage /\ Stage[n] = [kind |-> "global", at |-> "declared"]
    BY <1>3, <2>1, <2>4 DEF StageFacts
  <2>12. Stage'[n] = [kind |-> "global", at |-> "resolved"]
    <3>1. p \in DOMAIN globals' /\ globals'[p] = n BY <1>1, <1>3, <2>1
    <3>2. Stage'[globals'[p]] = [kind |-> "global", at |-> GlobalAt(p)'] BY <3>1, FactsNext
    <3> QED BY <2>5, <3>1, <3>2
  <2>13. Moves(n, "global", "declared", "resolved") BY <2>10, <2>11, <2>12 DEF Moves
  <2>14. Stage = [i \in DOMAIN Stage |-> Stage[i]] BY DEF StageFacts
  <2>15. phase \notin {"read", "declare"} BY <1>1
  <2> QED BY <1>1, <2>13, <2>14, <2>15, Resolves
<1> QED BY <1>5, <1>6, <1>7

LEMMA OverloadMaps ==
  ASSUME ShapeInv, StageInv, StageFacts, StageFacts',
         NEW p, NEW node, NEW f, OverloadStep(p, node, f)
  PROVE  L!Next
<1>1. /\ status = "running" /\ phase = "groups"
      /\ UNCHANGED <<globals, globalTypes, initialized, phase>>
  BY DEF OverloadStep
<1>2. CASE UNCHANGED groups BY <1>1, <1>2, SameStage, Idles
<1>3. CASE ~UNCHANGED groups
  <2>1. /\ p \in DOMAIN groups /\ groups[p].queue # <<>> /\ node = Head(groups[p].queue)
        /\ groups[p].functions = <<>> /\ f.node = node /\ ~f.analyzed
        /\ groups' = [groups EXCEPT ![p] = [groups[p] EXCEPT
                         !.queue = Tail(groups[p].queue), !.functions = <<f>>]]
    BY <1>3 DEF OverloadStep
  <2>2. PICK q, fs, h : /\ q = groups[p].queue /\ fs = <<f>>
                        /\ h = [groups[p] EXCEPT !.queue = Tail(q), !.functions = fs]
    OBVIOUS
  <2>3. /\ q \in Seq(1..Len(nodes)) /\ h.queue = Tail(q) /\ h.functions = fs
    BY <2>1, <2>2 DEF ShapeInv, SymbolsOK, Groups, GroupInfo
  <2>4. /\ DOMAIN groups' = DOMAIN groups /\ groups'[p] = h
        /\ \A r \in DOMAIN groups : r # p => groups'[r] = groups[r]
    BY <2>1, <2>2
  <2>5. node \in ToSet(q) /\ ToSet(Tail(q)) = ToSet(q) \ {node}
    BY <2>1, <2>2, <2>3, TailLemma DEF StageInv
  <2>6. ToSet(fs) = {f} BY <2>2, SingletonLemma
  <2>7. FunctionAt(groups[p], node) = "declared" BY <2>2, <2>5 DEF FunctionAt
  <2>8. FunctionAt(h, node) = "resolved"
    BY <2>1, <2>3, <2>5, <2>6 DEF FunctionAt
  <2>9. \A r \in DOMAIN groups : \A i : InGroup(groups'[r], i) <=> InGroup(groups[r], i)
    BY OverloadsStay DEF GroupsKept
  <2>10. \A i : InGroup(groups[p], i) /\ i # node => FunctionAt(h, i) = FunctionAt(groups[p], i)
    <3>1. 1..Len(groups[p].functions) = {}
      <4>1. Len(groups[p].functions) = 0 BY <2>1
      <4> QED BY <4>1
    <3> QED BY <2>2, <2>3, <2>5, <3>1 DEF InGroup, FunctionAt
  <2>11. ASSUME NEW r \in DOMAIN groups, NEW i, InGroup(groups[r], i) /\ i # node
         PROVE  FunctionAt(groups'[r], i) = FunctionAt(groups[r], i)
    BY <2>4, <2>10, <2>11
  <2>12. /\ DOMAIN Stage' = DOMAIN Stage /\ Stage' = [i \in DOMAIN Stage' |-> Stage'[i]]
         /\ \A i \in DOMAIN Stage : i # node => Stage'[i] = Stage[i]
    <3>1. \A r \in DOMAIN globals : GlobalAt(r)' = GlobalAt(r) BY <1>1 DEF GlobalAt
    <3> QED BY <1>1, <2>4, <2>9, <2>11, <3>1, StageBut
  <2>13. InGroup(groups[p], node) /\ InGroup(groups'[p], node)
    BY <2>1, <2>2, <2>5, <2>9 DEF InGroup
  <2>14. node \in DOMAIN Stage /\ Stage[node] = [kind |-> "function", at |-> "declared"]
    BY <2>1, <2>7, <2>13 DEF StageFacts
  <2>15. Stage'[node] = [kind |-> "function", at |-> "resolved"]
    <3>1. Stage'[node] = [kind |-> "function", at |-> FunctionAt(groups'[p], node)]
      BY <2>1, <2>4, <2>13, FactsNext
    <3> QED BY <2>4, <2>8, <3>1
  <2>16. Moves(node, "function", "declared", "resolved")
    BY <2>12, <2>14, <2>15 DEF Moves
  <2>17. Stage = [i \in DOMAIN Stage |-> Stage[i]] BY DEF StageFacts
  <2>18. phase \notin {"read", "declare"} BY <1>1
  <2> QED BY <1>1, <2>16, <2>17, <2>18, Resolves
<1> QED BY <1>2, <1>3

(* Before functions are analyzed, globals and groups have been resolved. *)
LEMMA FunctionsAreLast ==
  ASSUME ShapeInv, QueueInv, status = "running", phase = "functions"
  PROVE  /\ DOMAIN globalTypes = DOMAIN globals
         /\ \A p \in DOMAIN groups : groups[p].queue = <<>>
         /\ \A p \in DOMAIN groups : Head(taken) = <<p, 1>> /\ taken # <<>>
                                       => ~groups[p].functions[1].analyzed
         /\ taken = <<>> => \A p \in Translatable : groups[p].functions[1].analyzed
<1>1. GlobalsQueued /\ GroupsQueued /\ FunctionsQueued /\ Emptied BY DEF QueueInv
<1>2. /\ globalVariableQueue = <<>> /\ functionGroupQueue = <<>> /\ functionQueue = <<>>
  BY <1>1 DEF Emptied
<1>3. GlobalsWaiting = <<>> /\ GroupsWaiting = <<>> /\ FunctionsWaiting = taken
  BY <1>2, Idle
<1>4. Unresolved = {} /\ Pending = {} /\ ToSet(taken) = Slots(Unanalyzed)
  BY <1>1, <1>3, EmptyLemma DEF GlobalsQueued, GroupsQueued, FunctionsQueued
<1>5. ASSUME NEW p \in DOMAIN groups, Head(taken) = <<p, 1>>, taken # <<>>
      PROVE  ~groups[p].functions[1].analyzed
  <2>1. taken \in Seq(Slots(Translatable)) BY DEF ShapeInv, TakenOK
  <2>2. Head(taken) \in Slots(Unanalyzed) BY <1>4, <1>5, <2>1, TailLemma
  <2>3. PICK s : s = <<p, 1>> OBVIOUS
  <2>4. s \in Slots(Unanalyzed) BY <1>5, <2>2, <2>3
  <2> QED BY <2>3, <2>4 DEF Slots, Unanalyzed
<1>6. taken = <<>> => Unanalyzed = {} BY <1>4, EmptyLemma DEF Slots
<1> QED BY <1>4, <1>5, <1>6 DEF Unresolved, Pending, Unanalyzed, ShapeInv, SymbolsOK

LEMMA StageOf ==
  ASSUME StageFacts, NEW i \in DOMAIN Stage
  PROVE  \/ \E p \in DOMAIN globals :
              globals[p] = i /\ Stage[i] = [kind |-> "global", at |-> GlobalAt(p)]
         \/ \E p \in DOMAIN groups :
              /\ InGroup(groups[p], i)
              /\ Stage[i] = [kind |-> "function", at |-> FunctionAt(groups[p], i)]
<1>1. CASE \E p \in DOMAIN globals : globals[p] = i
  <2>1. PICK p \in DOMAIN globals : globals[p] = i BY <1>1
  <2>2. Stage[globals[p]] = [kind |-> "global", at |-> GlobalAt(p)] BY DEF StageFacts
  <2> QED BY <2>1, <2>2
<1>2. CASE \E p \in DOMAIN groups : InGroup(groups[p], i)
  <2>1. PICK p \in DOMAIN groups : InGroup(groups[p], i) BY <1>2
  <2>2. Stage[i] = [kind |-> "function", at |-> FunctionAt(groups[p], i)]
    BY <2>1 DEF StageFacts
  <2> QED BY <2>1, <2>2
<1> QED BY <1>1, <1>2 DEF StageFacts

LEMMA NothingIsDeclared ==
  ASSUME StageFacts, DOMAIN globalTypes = DOMAIN globals,
         \A p \in DOMAIN groups : groups[p].queue = <<>>
  PROVE  NothingDeclared
<1>1. \A p \in DOMAIN globals : GlobalAt(p) # "declared" BY DEF GlobalAt
<1>2. \A p \in DOMAIN groups : \A i : FunctionAt(groups[p], i) # "declared"
  BY EmptyLemma DEF FunctionAt
<1>3. ASSUME NEW i \in DOMAIN Stage PROVE Stage[i].at # "declared"
  <2>1. CASE \E p \in DOMAIN globals :
               globals[p] = i /\ Stage[i] = [kind |-> "global", at |-> GlobalAt(p)]
    BY <1>1, <2>1
  <2>2. CASE \E p \in DOMAIN groups :
               /\ InGroup(groups[p], i)
               /\ Stage[i] = [kind |-> "function", at |-> FunctionAt(groups[p], i)]
    BY <1>2, <2>2
  <2> QED BY <2>1, <2>2, StageOf
<1> QED BY <1>3 DEF NothingDeclared

LEMMA NothingIsToDo ==
  ASSUME ShapeInv, StageFacts, DOMAIN globalTypes = DOMAIN globals,
         \A p \in DOMAIN groups : groups[p].queue = <<>>,
         \A p \in Translatable : groups[p].functions[1].analyzed
  PROVE  /\ NothingToDo
         /\ \A p \in DOMAIN groups : \A i : InGroup(groups[p], i)
                                          => FunctionAt(groups[p], i) = "ready"
<1>1. NothingDeclared BY NothingIsDeclared
<1>2. ASSUME NEW p \in DOMAIN groups, NEW i, InGroup(groups[p], i)
      PROVE  FunctionAt(groups[p], i) = "ready"
  <2>1. ToSet(groups[p].queue) = {} BY EmptyLemma
  <2>2. PICK fs : fs = groups[p].functions OBVIOUS
  <2>3. fs \in Seq(Overloads) /\ Len(fs) <= 1
    BY <2>2 DEF ShapeInv, SymbolsOK, Groups, GroupInfo
  <2>4. PICK k \in 1..Len(fs) : fs[k].node = i BY <1>2, <2>1, <2>2 DEF InGroup
  <2>5. k = 1 /\ Len(fs) # 0
    <3>1. Len(fs) \in Nat BY <2>3, LenProperties
    <3> QED BY <2>3, <2>4, <3>1
  <2>6. fs # <<>>
    <3>1. Len(<<>>) = 0 OBVIOUS
    <3> QED BY <2>5, <3>1
  <2>7. fs[1].analyzed /\ fs[1].node = i BY <2>2, <2>4, <2>5, <2>6 DEF Translatable
  <2>8. fs[1] \in ToSet(fs)
    <3>1. ToSet(fs) = {fs[j] : j \in 1..Len(fs)} BY <2>3, ToSetLemma
    <3> QED BY <2>4, <2>5, <3>1
  <2> QED BY <2>1, <2>2, <2>7, <2>8 DEF FunctionAt
<1>3. ASSUME NEW i \in DOMAIN Stage
      PROVE  Stage[i].kind = "function" => Stage[i].at # "resolved"
  <2>1. CASE \E p \in DOMAIN globals :
               globals[p] = i /\ Stage[i] = [kind |-> "global", at |-> GlobalAt(p)]
    BY <2>1
  <2>2. CASE \E p \in DOMAIN groups :
               /\ InGroup(groups[p], i)
               /\ Stage[i] = [kind |-> "function", at |-> FunctionAt(groups[p], i)]
    BY <1>2, <2>2
  <2> QED BY <2>1, <2>2, StageOf
<1> QED BY <1>1, <1>2, <1>3 DEF NothingToDo

LEMMA AnalysisMaps ==
  ASSUME ShapeInv, QueueInv, StageInv, StageFacts, StageFacts',
         NEW p, NEW f, NEW e, AnalysisStep(p, f, e)
  PROVE  L!Next
<1>1. /\ status = "running" /\ phase = "functions" /\ taken # <<>> /\ Head(taken) = <<p, 1>>
      /\ UNCHANGED <<globals, globalTypes, initialized, phase>>
      /\ p \in DOMAIN groups /\ groups[p].functions = <<f>>
      /\ groups' = [groups EXCEPT ![p] = [groups[p] EXCEPT !.functions = <<e>>]]
      /\ e.node = f.node /\ e.analyzed
  BY DEF AnalysisStep
<1>2. /\ DOMAIN globalTypes = DOMAIN globals
      /\ \A q \in DOMAIN groups : groups[q].queue = <<>>
      /\ ~groups[p].functions[1].analyzed
  BY <1>1, FunctionsAreLast
<1>3. NothingDeclared BY <1>2, NothingIsDeclared
<1>4. PICK fs, es, h, n : /\ fs = <<f>> /\ es = <<e>> /\ n = f.node
                          /\ h = [groups[p] EXCEPT !.functions = es]
  OBVIOUS
<1>5. h.queue = <<>> /\ h.functions = es
  BY <1>1, <1>2, <1>4 DEF ShapeInv, SymbolsOK, Groups, GroupInfo
<1>6. /\ DOMAIN groups' = DOMAIN groups /\ groups'[p] = h
      /\ \A q \in DOMAIN groups : q # p => groups'[q] = groups[q]
  BY <1>1, <1>4
<1>7. fs[1] = f /\ Len(fs) = 1 /\ groups[p].functions = fs BY <1>1, <1>4
<1>8. ToSet(fs) = {f} /\ ToSet(es) = {e} BY <1>4, SingletonLemma
<1>9. ~f.analyzed BY <1>2, <1>7
<1>10. FunctionAt(groups[p], n) = "resolved"
  <2>1. n \notin ToSet(groups[p].queue) BY <1>1, <1>2, EmptyLemma
  <2>2. ~(\E x \in ToSet(fs) : x.node = n /\ x.analyzed) BY <1>8, <1>9
  <2>3. PICK g : g = groups[p] OBVIOUS
  <2>4. n \notin ToSet(g.queue) /\ g.functions = fs BY <1>7, <2>1, <2>3
  <2> QED BY ONLY <2>2, <2>3, <2>4 DEF FunctionAt
<1>11. FunctionAt(h, n) = "ready"
  BY <1>1, <1>4, <1>5, <1>8, EmptyLemma DEF FunctionAt
<1>12. \A i : InGroup(groups[p], i) <=> i = n
  <2>1. 1..Len(fs) = {1} BY <1>7
  <2>2. fs[1].node = n BY <1>4, <1>7
  <2>3. ToSet(groups[p].queue) = {} BY <1>1, <1>2, EmptyLemma
  <2>4. PICK g : g = groups[p] OBVIOUS
  <2>5. ToSet(g.queue) = {} /\ g.functions = fs BY <1>7, <2>3, <2>4
  <2> QED BY ONLY <2>1, <2>2, <2>4, <2>5 DEF InGroup
<1>13. \A q \in DOMAIN groups : \A i : InGroup(groups'[q], i) <=> InGroup(groups[q], i)
  BY AnalyzedOverloadsStay DEF GroupsKept
<1>14. ASSUME NEW q \in DOMAIN groups, NEW i, InGroup(groups[q], i) /\ i # n
       PROVE  FunctionAt(groups'[q], i) = FunctionAt(groups[q], i)
  BY <1>6, <1>12, <1>14
<1>15. /\ DOMAIN Stage' = DOMAIN Stage /\ Stage' = [i \in DOMAIN Stage' |-> Stage'[i]]
       /\ \A i \in DOMAIN Stage : i # n => Stage'[i] = Stage[i]
  <2>1. \A q \in DOMAIN globals : GlobalAt(q)' = GlobalAt(q) BY <1>1 DEF GlobalAt
  <2> QED BY SMTT(30), <1>1, <1>6, <1>13, <1>14, <2>1, StageBut
<1>16. InGroup(groups[p], n) /\ InGroup(groups'[p], n) BY <1>1, <1>12, <1>13
<1>17. n \in DOMAIN Stage /\ Stage[n] = [kind |-> "function", at |-> "resolved"]
  BY <1>1, <1>10, <1>16 DEF StageFacts
<1>18. Stage'[n] = [kind |-> "function", at |-> "ready"]
  <2>1. Stage'[n] = [kind |-> "function", at |-> FunctionAt(groups'[p], n)]
    BY <1>1, <1>6, <1>16, FactsNext
  <2> QED BY <1>6, <1>11, <2>1
<1>19. Moves(n, "function", "resolved", "ready") BY <1>15, <1>17, <1>18 DEF Moves
<1>20. Stage = [i \in DOMAIN Stage |-> Stage[i]] BY DEF StageFacts
<1>21. phase \notin {"read", "declare"} BY <1>1
<1> QED BY <1>1, <1>3, <1>19, <1>20, <1>21, Translates

(* Executed code initializes what has been resolved. *)
LEMMA ExecuteMaps ==
  ASSUME ShapeInv, QueueInv, InitInv, StageFacts, StageFacts', status = "running", Done,
         NEW body, NEW to, ExecuteCommand(body, to),
         (phase \in {"read", "declare"})' = (phase \in {"read", "declare"})
  PROVE  L!Next
<1>1. UNCHANGED <<globals, globalTypes, groups>> BY DEF ExecuteCommand, symbolVars
<1>2. UNCHANGED initialized \/ initialized' = initialized \o initializers
  BY DEF ExecuteCommand, Execute
<1>3. CASE UNCHANGED initialized BY <1>1, <1>3, SameStage, Idles
<1>4. CASE initialized' = initialized \o initializers
  <2>1. ToSet(initialized') = DOMAIN globalTypes BY <1>4 DEF InitInv, InitializedOnce
  <2>2. /\ DOMAIN globalTypes = DOMAIN globals
        /\ \A p \in DOMAIN groups : groups[p].queue = <<>>
        /\ \A p \in Translatable : groups[p].functions[1].analyzed
    BY NothingWaits
  <2>3. /\ NothingToDo
        /\ \A p \in DOMAIN groups : \A i : InGroup(groups[p], i)
                                         => FunctionAt(groups[p], i) = "ready"
    BY <2>2, NothingIsToDo
  <2>4. \A p \in DOMAIN globals : GlobalAt(p)' = "ready"
    BY <1>1, <2>1, <2>2 DEF GlobalAt
  <2>5. DOMAIN Stage' = DOMAIN Stage /\ Stage' = [i \in DOMAIN Stage' |-> Stage'[i]]
    BY <1>1, FactsNext DEF StageFacts
  <2>6. ASSUME NEW i \in DOMAIN Stage
        PROVE  Stage'[i] = [Stage[i] EXCEPT !.at = "ready"]
    <3>1. CASE \E p \in DOMAIN globals :
                 globals[p] = i /\ Stage[i] = [kind |-> "global", at |-> GlobalAt(p)]
      <4>1. PICK p \in DOMAIN globals :
              globals[p] = i /\ Stage[i] = [kind |-> "global", at |-> GlobalAt(p)]
        BY <3>1
      <4>2. p \in DOMAIN globals' /\ globals'[p] = i BY <1>1, <4>1
      <4>3. Stage'[globals'[p]] = [kind |-> "global", at |-> GlobalAt(p)']
        BY <4>2, FactsNext
      <4>4. Stage'[i] = [kind |-> "global", at |-> "ready"] BY <2>4, <4>2, <4>3
      <4> QED BY <4>1, <4>4
    <3>2. CASE \E p \in DOMAIN groups :
                 /\ InGroup(groups[p], i)
                 /\ Stage[i] = [kind |-> "function", at |-> FunctionAt(groups[p], i)]
      <4>1. PICK p \in DOMAIN groups :
              /\ InGroup(groups[p], i)
              /\ Stage[i] = [kind |-> "function", at |-> FunctionAt(groups[p], i)]
        BY <3>2
      <4>2. FunctionAt(groups'[p], i) = FunctionAt(groups[p], i) /\ p \in DOMAIN groups'
            /\ InGroup(groups'[p], i)
        BY <1>1, <4>1
      <4>3. Stage'[i] = Stage[i] BY <4>1, <4>2, SameFunctionStage
      <4> QED BY <2>3, <4>1, <4>3
    <3> QED BY <3>1, <3>2, StageOf
  <2> QED BY <2>3, <2>5, <2>6, Executes
<1> QED BY <1>2, <1>3, <1>4

LEMMA StageNext ==
  ASSUME NamesInv, ShapeInv, StageInv, [Next]_vars
  PROVE  StageInv'
<1>1. CASE Processed BY <1>1, StageDeclare
<1>2. ASSUME Kept, \A p \in DOMAIN groups : IsInjective(groups'[p].queue)
      PROVE  StageInv'
  BY <1>2, StageKept
<1>3. \A p \in DOMAIN groups : IsInjective(groups[p].queue) BY DEF StageInv
<1>4. CASE ~Processed
  <2>1. Kept BY <1>4, StepKeeps
  <2>2. CASE UNCHANGED groups BY <1>2, <1>3, <2>1, <2>2
  <2>3. CASE ResolveOverload
    <3>1. PICK p, node, f : OverloadStep(p, node, f) BY <2>3, ResolveOverloadStep
    <3>2. CASE ~UNCHANGED groups
      <4>1. /\ p \in DOMAIN groups /\ groups[p].queue # <<>>
            /\ groups' = [groups EXCEPT ![p] = [groups[p] EXCEPT
                             !.queue = Tail(groups[p].queue), !.functions = <<f>>]]
        BY <3>1, <3>2 DEF OverloadStep
      <4>2. PICK q, h : /\ q = groups[p].queue
                        /\ h = [groups[p] EXCEPT !.queue = Tail(q), !.functions = <<f>>]
        OBVIOUS
      <4>3. q \in Seq(1..Len(nodes)) /\ h.queue = Tail(q)
        BY <4>1, <4>2 DEF ShapeInv, SymbolsOK, Groups, GroupInfo
      <4>4. IsInjective(Tail(q)) BY <1>3, <4>1, <4>2, <4>3, TailLemma
      <4>5. groups' = [groups EXCEPT ![p] = h] BY <4>1, <4>2
      <4>6. \A r \in DOMAIN groups : IsInjective(groups'[r].queue)
        BY <1>3, <4>3, <4>4, <4>5
      <4> QED BY <1>2, <2>1, <4>6
    <3> QED BY <2>2, <3>2
  <2>4. CASE AnalyzeFunction
    <3>1. PICK p, f, e : AnalysisStep(p, f, e) BY <2>4, AnalyzeFunctionStep
    <3>2. /\ p \in DOMAIN groups
          /\ groups' = [groups EXCEPT ![p] = [groups[p] EXCEPT !.functions = <<e>>]]
      BY <3>1 DEF AnalysisStep
    <3>3. PICK h : h = [groups[p] EXCEPT !.functions = <<e>>] OBVIOUS
    <3>4. h.queue = groups[p].queue
      BY <3>2, <3>3 DEF ShapeInv, SymbolsOK, Groups, GroupInfo
    <3>5. groups' = [groups EXCEPT ![p] = h] BY <3>2, <3>3
    <3>6. \A r \in DOMAIN groups : IsInjective(groups'[r].queue)
      BY <1>3, <3>4, <3>5
    <3> QED BY <1>2, <2>1, <3>6
  <2>5. UNCHANGED groups \/ ResolveOverload \/ AnalyzeFunction
    <3>1. CASE Declare
      <4>1. NotProcessed BY <1>4, <3>1, DeclareOutcome
      <4> QED BY <4>1 DEF NotProcessed
    <3>2. CASE TakeQueue BY <3>2 DEF TakeQueue, symbolVars
    <3>3. CASE ResolveGlobalVariable BY <3>3 DEF ResolveGlobalVariable
    <3>4. CASE FinishGroup BY <3>4 DEF FinishGroup
    <3>5. CASE FinishPending \/ ReadDeclaration \/ EndOfScript \/ EndOfSession
      BY <3>5 DEF FinishPending, ReadDeclaration, EndOfScript, EndOfSession, symbolVars
    <3>6. CASE Command \/ Qinit BY <3>6 DEF Command, Qinit, ExecuteCommand, symbolVars
    <3>7. CASE UNCHANGED vars BY <3>7 DEF vars, symbolVars
    <3> QED BY <3>1, <3>2, <3>3, <3>4, <3>5, <3>6, <3>7
            DEF Next, processPendingDeclarations
  <2> QED BY <2>2, <2>3, <2>4, <2>5
<1> QED BY <1>1, <1>4

LEMMA StageInit == Init => StageInv
BY DEF Init, StageInv

(* What the drivers' steps look like to a declaration *)
LEMMA DriverMaps ==
  ASSUME OrderInv, StageFacts,
         \/ TakeQueue \/ FinishGroup \/ FinishPending
         \/ ReadDeclaration \/ EndOfScript \/ EndOfSession
  PROVE  L!Next
<1>1. /\ status = "running" /\ Stage' = Stage
  <2>1. /\ status = "running" /\ UNCHANGED <<globals, globalTypes, initialized, groups>>
    BY DEF TakeQueue, FinishGroup, FinishPending, ReadDeclaration, EndOfScript,
           EndOfSession, Drive, InPass2, treeVars, symbolVars, runVars
  <2> QED BY <2>1, SameStage
<1>2. CASE TakeQueue
  BY <1>1, <1>2, Idles DEF TakeQueue, PhaseAfter
<1>3. CASE FinishGroup BY <1>1, <1>3, Idles DEF FinishGroup, InPass2
<1>4. CASE ReadDeclaration BY <1>1, <1>4, Idles DEF ReadDeclaration, Drive
<1>5. CASE EndOfScript \/ EndOfSession
  BY <1>1, <1>5, Turns DEF EndOfScript, EndOfSession, Drive
<1>6. CASE FinishPending
  <2>1. phase = "functions" /\ taken = <<>> /\ phase' = AfterPending
    BY <1>6 DEF FinishPending, Drive
  <2>2. CASE ~Interactive BY <1>1, <2>1, <2>2, Idles DEF AfterPending
  <2>3. CASE Interactive
    <3>1. NothingToDo
      <4>1. ShapeInv /\ QueueInv BY DEF OrderInv
      <4>2. /\ DOMAIN globalTypes = DOMAIN globals
            /\ \A p \in DOMAIN groups : groups[p].queue = <<>>
            /\ \A p \in Translatable : groups[p].functions[1].analyzed
        BY <1>1, <2>1, <4>1, FunctionsAreLast
      <4> QED BY <4>1, <4>2, NothingIsToDo
    <3> QED BY <1>1, <2>1, <2>3, <3>1, Turns DEF AfterPending
  <2> QED BY <2>2, <2>3
<1> QED BY <1>2, <1>3, <1>4, <1>5, <1>6

LEMMA NextMaps ==
  ASSUME OrderInv, OrderInv', StageInv, StageInv', [Next]_vars
  PROVE  [L!Next]_(L!vars)
<1>1. ShapeInv /\ NamesInv /\ InitInv /\ QueueInv /\ ShapeInv' BY DEF OrderInv
<1>2. StageFacts /\ StageFacts' BY <1>1, StageLemma, StageLemmaNext
<1>3. CASE Declare
  <2>1. CASE Processed BY <1>1, <1>2, <2>1, DeclareMaps
  <2>2. CASE NotProcessed
    <3>1. /\ status = "running" /\ phase = "declare" /\ Stage' = Stage
      BY <2>2, SameStage DEF NotProcessed
    <3>2. UNCHANGED phase \/ phase' = AfterDeclaration BY <2>2 DEF NotProcessed
    <3>3. CASE phase' \in {"read", "declare"} BY <3>1, <3>3, Idles
    <3>4. CASE phase' = "pending" BY <3>1, <3>4, Turns
    <3> QED BY <3>1, <3>2, <3>3, <3>4 DEF AfterDeclaration
  <2> QED BY <1>1, <1>3, <2>1, <2>2, DeclareOutcome
<1>4. CASE \/ TakeQueue \/ FinishGroup \/ FinishPending
           \/ ReadDeclaration \/ EndOfScript \/ EndOfSession
  BY <1>2, <1>4, DriverMaps
<1>5. CASE ResolveGlobalVariable BY <1>1, <1>2, <1>5, GlobalMaps
<1>6. CASE ResolveOverload BY <1>1, <1>2, <1>6, ResolveOverloadStep, OverloadMaps
<1>7. CASE AnalyzeFunction BY <1>1, <1>2, <1>7, AnalyzeFunctionStep, AnalysisMaps
<1>8. CASE Command
  <2>1. /\ status = "running" /\ Done /\ phase = "read"
        /\ \E s \in Commands : ExecuteCommand(s, "read")
    BY <1>8 DEF Command, Done
  <2>2. phase' = "read" BY <2>1 DEF ExecuteCommand
  <2>3. (phase \in {"read", "declare"})' = (phase \in {"read", "declare"})
    BY <2>1, <2>2
  <2> QED BY <1>1, <1>2, <2>1, <2>3, ExecuteMaps
<1>9. CASE Qinit
  <2>1. /\ status = "running" /\ Done /\ phase = "main"
        /\ \E s \in Commands : ExecuteCommand(s, "end")
    BY <1>9 DEF Qinit, Done
  <2>2. phase' = "end" BY <2>1 DEF ExecuteCommand
  <2>3. (phase \in {"read", "declare"})' = (phase \in {"read", "declare"})
    BY <2>1, <2>2
  <2> QED BY <1>1, <1>2, <2>1, <2>3, ExecuteMaps
<1>10. CASE UNCHANGED vars
  <2>1. UNCHANGED <<globals, globalTypes, initialized, groups, phase, status>>
    BY <1>10 DEF vars, symbolVars, runVars, controlVars
  <2>2. Stage' = Stage BY <2>1, SameStage
  <2> QED BY <2>1, <2>2 DEF L!vars
<1> QED BY <1>3, <1>4, <1>5, <1>6, <1>7, <1>8, <1>9, <1>10
        DEF Next, processPendingDeclarations

LEMMA InitMaps == Init => L!Init
<1> SUFFICES ASSUME Init PROVE L!Init OBVIOUS
<1>1. globals = <<>> /\ groups = <<>> /\ phase = "read" /\ status = "running"
  BY DEF Init
<1>2. DOMAIN globals = {} /\ DOMAIN groups = {} BY <1>1
<1>3. StageFacts BY StageInit, ShapeInit, StageLemma
<1>4. DOMAIN Stage = {} BY <1>2, <1>3 DEF StageFacts
<1>5. Stage = [i \in DOMAIN Stage |-> Stage[i]] BY <1>3 DEF StageFacts
<1>6. Stage = [i \in {} |-> 0]
  <2> DEFINE none == [i \in {} |-> 0]
  <2>1. DOMAIN Stage = DOMAIN none /\ \A i \in DOMAIN Stage : Stage[i] = none[i] BY <1>4
  <2>2. none = [i \in DOMAIN none |-> none[i]] OBVIOUS
  <2>3. Stage = none
    <3> HIDE DEF none
    <3> QED BY <1>5, <2>1, <2>2, SameFunction
  <2> QED BY <2>3
<1> QED BY <1>1, <1>6 DEF L!Init

(* Through the five queues, two passes and two drivers, a declaration is   *)
(* declared, resolved and ready in this order and only then: no global is  *)
(* resolved while declarations may come, no function translated while      *)
(* anything is unresolved, no code executed while a function has none, and *)
(* all the globals are initialized at once by the first code that is       *)
(* executed after them. *)
THEOREM QueuesImplementLifecycle == Spec => KeepsOrder
<1>1. Init => L!Init BY InitMaps
<1>2. Init => StageInv BY StageInit
<1>3. OrderInv /\ StageInv /\ [Next]_vars => StageInv' BY StageNext DEF OrderInv
<1>4. OrderInv /\ OrderInv' /\ StageInv /\ StageInv' /\ [Next]_vars => [L!Next]_(L!vars)
  BY NextMaps
<1> QED BY <1>1, <1>2, <1>3, <1>4, OrderIsInvariant, PTL DEF Spec, KeepsOrder, L!Safety
=============================================================================
