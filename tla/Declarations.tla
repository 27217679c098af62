---------------------------- MODULE Declarations ----------------------------
(***************************************************************************)
(* How the analyzer gets to know names: NamespaceScope, the infos of       *)
(* global variables and function groups, the queues of Core, and the two   *)
(* drivers, Analyzer::analyze() of a whole script and the loop of qorec's  *)
(* interactive mode.                                                       *)
(*                                                                         *)
(* An entity is identified by its path, the sequence of identifiers from   *)
(* the root namespace, and a node of the syntax tree by its position in    *)
(* "nodes", which is also its location.  Bodies are what matters here of   *)
(* them: the variables they declare, the symbols they use.  They are well  *)
(* typed, return where they have to, and call without arguments.           *)
(* As in Builder, some definitions have a slip above them, which the model *)
(* does not use.                                                           *)
(***************************************************************************)
EXTENDS Integers, Sequences, FiniteSets, SequencesExt

(* ast::Name: ids = <<>> is Name::invalid(). *)
Name(root, ids) == [root |-> root, ids |-> ids]
isSimple(name)  == ~name.root /\ Len(name.ids) = 1

(* ast::Type: kind is "basic", "asterisk", "implicit" or "invalid". *)
TypeNode(kind, name) == [kind |-> kind, name |-> name]
Implicit  == TypeNode("implicit", Name(FALSE, <<>>))
Names     == [root : BOOLEAN, ids : Seq(STRING)]
TypeNodes == [kind : {"basic", "asterisk", "implicit", "invalid"}, name : Names]

(* ast::Routine and the parts of its body: variables declared without an   *)
(* initializer, symbols referred to, functions called. *)
Routine(type, params, body) == [type |-> type, params |-> params, body |-> body]
Var(id, type) == [kind |-> "var", name |-> Name(FALSE, <<id>>), type |-> type]
Ref(name)     == [kind |-> "ref", name |-> name, type |-> Implicit]
CallOf(name)  == [kind |-> "call", name |-> name, type |-> Implicit]
Bodies   == Seq([kind : {"var", "ref", "call"}, name : Names, type : TypeNodes])
Routines == [type : TypeNodes, params : Seq([type : TypeNodes, id : STRING]),
             body : Bodies]

CONSTANTS Interactive,   \* the driver: the loop of qorec, or Analyzer::analyze()
          Nodes,         \* declarations, with all their members
          Input,         \* those of them that may be read
          Commands,      \* the statements that may be read, as bodies
          MaxNodes,      \* no declaration is read after so many nodes
          MaxStatements  \* nor a statement after so many statements

ASSUME DriverAssumption ==
    /\ Interactive \in BOOLEAN
    /\ Input \subseteq Nodes
    /\ \A d \in Nodes : /\ d.members \in Seq(Nodes)
                        /\ d.name.ids \in Seq(STRING)
                        /\ d.routine \in Routines
    /\ Commands \subseteq Bodies
    /\ \A s \in Commands : \A i \in 1..Len(s) : s[i].kind # "var"

(* ast::Declaration *)
Declaration(kind, name, type, routine, members) ==
    [kind |-> kind, name |-> name, type |-> type, routine |-> routine,
     members |-> members]

NoRoutine == Routine(Implicit, <<>>, <<>>)
NamespaceDecl(name, members) ==
    Declaration("namespace", name, Implicit, NoRoutine, members)
ClassDecl(name)        == Declaration("class", name, Implicit, NoRoutine, <<>>)
ConstantDecl(name)     == Declaration("constant", name, Implicit, NoRoutine, <<>>)
GlobalDecl(type, name) == Declaration("global", name, type, NoRoutine, <<>>)
FunctionDecl(name, routine) ==
    Declaration("function", name, Implicit, routine, <<>>)

(* qore::Type: the types of a class have its path. *)
TypeOf(kind)         == [kind |-> kind, class |-> <<>>]
ClassType(kind, class) == [kind |-> kind, class |-> class]

VARIABLES
  nodes,       \* the declarations processed so far: [ns, decl]
  since,       \* the nodes from here on exist, those before have been deleted
  todo,        \* declarations to process, each in its lexical namespace
  namespaces,  \* path -> location
  classes,     \* path -> location
  globals,     \* path -> its node
  globalTypes, \* path -> type, of the globals with a run-time object
  groups,      \* path -> [location, queue (nodes), functions]
  classQueue, globalVariableQueue, functionGroupQueue, functionQueue,
  initializers,
  phase,       \* what the driver does
  taken,       \* the queue it has taken, from the element it works on
  initialized, \* the globals initialized by executed code, in this order
  statements,  \* how many statements have been executed
  diagnostics, \* [id, at, previous (0: there is none)]
  status       \* "running", or how the process ended

treeVars    == <<nodes, since, todo>>
symbolVars  == <<namespaces, classes, globals, globalTypes, groups>>
queueVars   == <<classQueue, globalVariableQueue, functionGroupQueue,
                 functionQueue, initializers>>
runVars     == <<initialized, statements>>
controlVars == <<phase, taken>>
vars == <<treeVars, symbolVars, queueVars, runVars, controlVars,
          diagnostics, status>>

Root == <<>>

(* An entry of a std::map is added or replaced. *)
Put(f, key, value) ==
    [k \in DOMAIN f \cup {key} |-> IF k = key THEN value ELSE f[k]]

Report(id, at, previous) == [id |-> id, at |-> at, previous |-> previous]

(* The process ends (an assertion, QORE_NOT_IMPLEMENTED). *)
End(how) ==
    /\ status' = how
    /\ UNCHANGED <<treeVars, symbolVars, queueVars, runVars, controlVars,
                   diagnostics>>

-----------------------------------------------------------------------------
(* Resolution.                                                             *)

(* NamespaceScope::resolveClass(): the classes a name may stand for in a   *)
(* namespace.  The innermost enclosing namespace counts that has it below  *)
(* itself; when only the root is left, every namespace does. *)
Candidates(ns, name) ==
    LET depths == {k \in 1..Len(ns) : SubSeq(ns, 1, k) \o name.ids \in DOMAIN classes}
        inner  == CHOOSE k \in depths : \A j \in depths : j <= k
    IN  CASE name.root -> {name.ids} \cap DOMAIN classes
          [] ~name.root /\ depths # {} -> {SubSeq(ns, 1, inner) \o name.ids}
          [] OTHER -> {n \o name.ids : n \in DOMAIN namespaces} \cap DOMAIN classes

(* Core::getBuiltinType() *)
BuiltinNames == {<<"int">>, <<"string">>, <<"any">>}
getBuiltinType(ids, asterisk) ==
    CASE ids = <<"any">>    -> IF asterisk THEN TypeOf("<error>") ELSE TypeOf("any")
      [] ids = <<"int">>    -> TypeOf(IF asterisk THEN "*int" ELSE "int")
      [] ids = <<"string">> -> TypeOf(IF asterisk THEN "*string" ELSE "string")

(* NamespaceScope::resolveType() *)
resolveType(ns, t) ==
    LET found    == Candidates(ns, t.name)
        asterisk == t.kind = "asterisk"
    IN  CASE t.kind = "implicit" -> TypeOf("nothing")
          [] t.kind # "implicit" /\ (t.kind = "invalid" \/ t.name.ids = <<>>) ->
                TypeOf("<error>")
          [] t.kind \in {"basic", "asterisk"} /\ isSimple(t.name)
                /\ t.name.ids \in BuiltinNames ->
                getBuiltinType(t.name.ids, asterisk)
          [] OTHER ->
                IF Cardinality(found) = 1
                THEN ClassType(IF asterisk THEN "*object" ELSE "object",
                               CHOOSE c \in found : TRUE)
                ELSE TypeOf("<error>")

(* ... and what it reports.  The types <error> of other origin have been   *)
(* reported by the parser, or are not (an any with an asterisk, says a FIXME). *)
TypeReports(ns, t, at) ==
    LET found == Candidates(ns, t.name)
    IN  IF \/ t.kind \in {"implicit", "invalid"}
           \/ t.name.ids = <<>>
           \/ isSimple(t.name) /\ t.name.ids \in BuiltinNames
           \/ Cardinality(found) = 1
        THEN <<>>
        ELSE <<Report(IF found = {} THEN "SemaUnresolvedClass"
                      ELSE "SemaAmbiguousClass", at, 0)>>

AllReports(ns, types, at) ==
    FlattenSeq([i \in 1..Len(types) |-> TypeReports(ns, types[i], at)])

(* Core::defaultFor() knows a value for each of these types but one. *)
HasDefault(type) == type.kind # "object"

-----------------------------------------------------------------------------
(* Declarations.                                                           *)

Processing(kinds) ==
    /\ status = "running" /\ phase = "declare" /\ todo # <<>>
    /\ Head(todo).decl.kind \in kinds

here == Head(todo)
name == here.decl.name
at   == Len(nodes) + 1

(* NamespaceScope::findParentFor(): the first namespaces of the name must  *)
(* exist; the search starts in the lexical namespace and stays there. *)
MissingParents ==
    {k \in 1..(Len(name.ids) - 1) :
        here.ns \o SubSeq(name.ids, 1, k) \notin DOMAIN namespaces}
HasParent == name.ids # <<>> /\ ~name.root /\ MissingParents = {}

path == here.ns \o name.ids

(* The declaration is done with and its members, if any, come next. *)
Advance(members) ==
    /\ nodes' = Append(nodes, here)
    /\ todo' = [i \in 1..Len(members) |-> [ns |-> path, decl |-> members[i]]]
               \o Tail(todo)
    /\ UNCHANGED <<since, initializers, runVars, controlVars, functionQueue,
                   status>>

(* throw ReportedError: the declaration and its members are dropped. *)
Reject(reports) ==
    /\ Advance(<<>>)
    /\ diagnostics' = diagnostics \o reports
    /\ UNCHANGED <<symbolVars, classQueue, globalVariableQueue,
                   functionGroupQueue>>

(* An invalid name has been reported by the parser. *)
NameReportsForgotten == <<>>
NameReports ==
    CASE name.ids = <<>> -> <<>>
      [] name.ids # <<>> /\ name.root ->
            <<Report("SemaInvalidNamespaceMemberName", at, 0)>>
      [] OTHER -> <<Report("SemaNamespaceNotFound", at, 0)>>

RejectName ==
    /\ Processing({"namespace", "class", "function", "global"})
    /\ ~HasParent
    /\ Reject(NameReports)

ProcessConstant == Processing({"constant"}) /\ End("notImplemented")

(* processNamespaceDeclaration() *)
AddNamespace ==
    /\ Processing({"namespace"}) /\ HasParent
    /\ path \notin DOMAIN namespaces \cup DOMAIN classes
    /\ namespaces' = Put(namespaces, path, at)
    /\ Advance(here.decl.members)
    /\ UNCHANGED <<classes, globals, globalTypes, groups, classQueue,
                   globalVariableQueue, functionGroupQueue, diagnostics>>

ReopenNamespace ==
    /\ Processing({"namespace"}) /\ HasParent
    /\ path \in DOMAIN namespaces
    /\ Advance(here.decl.members)
    /\ UNCHANGED <<symbolVars, classQueue, globalVariableQueue,
                   functionGroupQueue, diagnostics>>

RejectNamespace ==
    /\ Processing({"namespace"}) /\ HasParent
    /\ path \notin DOMAIN namespaces /\ path \in DOMAIN classes
    /\ Reject(<<Report("SemaDuplicateNamespaceName", at, classes[path])>>)

(* processClassDeclaration() *)
ClassClashClass(p) == p \in DOMAIN classes
ClassClash(p)      == p \in DOMAIN classes \cup DOMAIN namespaces

AddClass ==
    /\ Processing({"class"}) /\ HasParent /\ ~ClassClash(path)
    /\ classes' = Put(classes, path, at)
    /\ classQueue' = Append(classQueue, path)
    /\ Advance(<<>>)
    /\ UNCHANGED <<namespaces, globals, globalTypes, groups,
                   globalVariableQueue, functionGroupQueue, diagnostics>>

RejectClass ==
    /\ Processing({"class"}) /\ HasParent /\ ClassClash(path)
    /\ Reject(<<Report("SemaDuplicateClassName", at,
                       IF path \in DOMAIN classes THEN classes[path]
                       ELSE namespaces[path])>>)

(* GlobalVariableInfo::getLocation() reads the syntax tree of the global,   *)
(* which a session has deleted when another declaration clashes with it:   *)
(* the outcome is undefined, here the end of the process. *)
ClashWithDeletedTree ==
    /\ Processing({"global", "function"}) /\ HasParent
    /\ path \in DOMAIN globals /\ globals[path] < since
    /\ End("undefined")

(* processGlobalVariableDeclaration(): the new info has no run-time object *)
(* yet. *)
TypesWhenDeclaredAtOnce ==
    Put(globalTypes, path, resolveType(Front(path), here.decl.type))
TypesWhenDeclared       == globalTypes

AddGlobalVariable ==
    /\ Processing({"global"}) /\ HasParent
    /\ path \notin DOMAIN globals \cup DOMAIN groups
    /\ globals' = Put(globals, path, at)
    /\ globalVariableQueue' = Append(globalVariableQueue, path)
    /\ globalTypes' = TypesWhenDeclared
    /\ Advance(<<>>)
    /\ UNCHANGED <<namespaces, classes, groups, classQueue, functionGroupQueue,
                   diagnostics>>

RejectGlobalVariable ==
    /\ Processing({"global"}) /\ HasParent
    /\ path \in DOMAIN globals \cup DOMAIN groups
    /\ path \in DOMAIN globals => globals[path] >= since
    /\ Reject(<<Report("SemaDuplicateGlobalVariableName", at,
                       IF path \in DOMAIN globals THEN globals[path]
                       ELSE groups[path].location)>>)

(* processFunctionDeclaration() and FunctionGroupInfo::addOverload(): the  *)
(* group is enqueued with its first pending overload. *)
GroupOfLast(p) == IF p \in DOMAIN groups
                  THEN [groups[p] EXCEPT !.location = at]
                  ELSE [location |-> at, queue |-> <<>>, functions |-> <<>>]
GroupOf(p) == IF p \in DOMAIN groups THEN groups[p]
              ELSE [location |-> at, queue |-> <<>>, functions |-> <<>>]

EnqueuedTwice(g)  == <<path>>
EnqueuedLater(g)  == IF g.queue = <<>> THEN <<>> ELSE <<path>>
Enqueued(g)       == IF g.queue = <<>> THEN <<path>> ELSE <<>>

AddFunction ==
    /\ Processing({"function"}) /\ HasParent
    /\ path \notin DOMAIN globals
    /\ functionGroupQueue' = functionGroupQueue \o Enqueued(GroupOf(path))
    /\ groups' = Put(groups, path,
                     [GroupOf(path) EXCEPT !.queue = Append(@, at)])
    /\ Advance(<<>>)
    /\ UNCHANGED <<namespaces, classes, globals, globalTypes, classQueue,
                   globalVariableQueue, diagnostics>>

RejectFunction ==
    /\ Processing({"function"}) /\ HasParent
    /\ path \in DOMAIN globals /\ globals[path] >= since
    /\ Reject(<<Report("SemaDuplicateFunctionName", at, globals[path])>>)

-----------------------------------------------------------------------------
(* Pending declarations: Analyzer::processPendingDeclarations().           *)

PhaseAfterFunctionsFirst ==
    [pending |-> "groups", groups |-> "functions", functions |-> "globals"]
PhaseAfter == [pending |-> "globals", globals |-> "groups", groups |-> "functions"]

(* takeGlobalVariableQueue() and so on.  The classes are dropped. *)
TakeQueue ==
    /\ status = "running" /\ phase \in DOMAIN PhaseAfter /\ taken = <<>>
    /\ phase' = PhaseAfter[phase]
    /\ taken' = CASE phase' = "globals"   -> globalVariableQueue
                  [] phase' = "groups"    -> functionGroupQueue
                  [] phase' = "functions" -> functionQueue
    /\ classQueue' = <<>>
    /\ globalVariableQueue' = IF phase' = "globals" THEN <<>> ELSE globalVariableQueue
    /\ functionGroupQueue'  = IF phase' = "groups" THEN <<>> ELSE functionGroupQueue
    /\ functionQueue'       = IF phase' = "functions" THEN <<>> ELSE functionQueue
    /\ UNCHANGED <<treeVars, symbolVars, runVars, initializers, diagnostics, status>>

InPass2(p) ==
    /\ status = "running" /\ phase = p /\ taken # <<>>
    /\ UNCHANGED <<treeVars, namespaces, classes, globals, classQueue,
                   globalVariableQueue, functionGroupQueue, runVars, phase>>

(* GlobalVariableInfo::pass2() *)
ResolveGlobalVariable ==
    LET p    == Head(taken)
        node == globals[p]
        t    == nodes[node].decl.type
        type == resolveType(Front(p), t)
    IN  /\ InPass2("globals")
        /\ taken' = Tail(taken)
        /\ diagnostics' = diagnostics \o TypeReports(Front(p), t, node)
        /\ UNCHANGED <<groups, functionQueue>>
        /\ \/ /\ node < since
              /\ status' = "undefined"
              /\ UNCHANGED <<globalTypes, initializers>>
           \/ /\ node >= since /\ p \in DOMAIN globalTypes
              /\ status' = "assert"   \* assert(rt == nullptr)
              /\ UNCHANGED <<globalTypes, initializers>>
           \/ /\ node >= since /\ p \notin DOMAIN globalTypes
              /\ globalTypes' = Put(globalTypes, p, type)
              /\ IF HasDefault(type)
                 THEN /\ initializers' = Append(initializers, p)
                      /\ status' = status
                 ELSE /\ status' = "notImplemented"
                      /\ UNCHANGED initializers

checkOverloadAny(g) == TRUE
checkOverload(g)    == g.functions = <<>>   \* a second one is not supported

(* FunctionGroupInfo::pass2(), one overload *)
ResolveOverload ==
    LET p == Head(taken)
        g == groups[p]
        node  == Head(g.queue)
        r     == nodes[node].decl.routine
        types == <<r.type>> \o [i \in 1..Len(r.params) |-> r.params[i].type]
        f     == [node   |-> node,
                  type   |-> [i \in 1..Len(types) |->
                                resolveType(Front(p), types[i])],
                  reads  |-> {}, calls |-> {}, analyzed |-> FALSE]
    IN  /\ InPass2("groups") /\ g.queue # <<>>
        /\ diagnostics' = diagnostics \o AllReports(Front(p), types, node)
        /\ UNCHANGED <<globalTypes, initializers>>
        /\ IF node < since \/ ~checkOverload(g)
           THEN /\ status' = IF node < since THEN "undefined" ELSE "notImplemented"
                /\ UNCHANGED <<groups, functionQueue, taken>>
           ELSE /\ groups' = [groups EXCEPT ![p].queue = Tail(@),
                                            ![p].functions = Append(@, f)]
                /\ functionQueue' = Append(functionQueue, <<p, Len(g.functions) + 1>>)
                /\ UNCHANGED <<status, taken>>

FinishGroup ==
    /\ InPass2("groups") /\ groups[Head(taken)].queue = <<>>
    /\ taken' = Tail(taken)
    /\ UNCHANGED <<globalTypes, initializers, groups, functionQueue,
                   diagnostics, status>>

(* NamespaceScope::resolveSymbol(): a namespace knows its own members. *)
resolveSymbol(ns, n) ==
    LET p == ns \o n.ids
    IN  CASE isSimple(n) /\ p \in DOMAIN globals -> "global"
          [] isSimple(n) /\ p \notin DOMAIN globals /\ p \in DOMAIN groups -> "group"
          [] OTHER -> "none"

(* FunctionScope::resolveSymbol(), BlockScope::resolveSymbol(): at this    *)
(* point of the body the name is that of a parameter or a variable. *)
IsLocal(r, i) ==
    /\ isSimple(r.body[i].name)
    /\ \/ \E j \in 1..(i - 1) :
            r.body[j].kind = "var" /\ r.body[j].name = r.body[i].name
       \/ \E j \in 1..Len(r.params) : <<r.params[j].id>> = r.body[i].name.ids

Uses(ns, r, i, kind) ==
    /\ r.body[i].kind = (IF kind = "global" THEN "ref" ELSE "call")
    /\ ~IsLocal(r, i)
    /\ resolveSymbol(ns, r.body[i].name) = kind

(* The parts of a body for which pass 1 has no implementation. *)
Unsupported(ns, r, i) ==
    LET part == r.body[i]
        g    == groups[ns \o part.name.ids]
    IN  CASE part.kind = "var" ->
                \/ \E j \in 1..(i - 1) :
                     r.body[j].kind = "var" /\ r.body[j].name = part.name
                \/ ~HasDefault(resolveType(ns, part.type))
          [] part.kind = "ref" -> ~IsLocal(r, i) /\ ~Uses(ns, r, i, "global")
          [] part.kind = "call" ->
                \/ ~Uses(ns, r, i, "group")
                \/ Len(g.functions) # 1   \* resolveOverload()
                \/ Len(g.functions[1].type) # 1

Used(ns, r, kind) ==
    {ns \o r.body[i].name.ids : i \in {j \in 1..Len(r.body) : Uses(ns, r, j, kind)}}

(* How an analysis ends: getRt() asserts that the global has been resolved. *)
Outcome(ns, r) ==
    CASE \E i \in 1..Len(r.body) : Unsupported(ns, r, i) -> "notImplemented"
      [] ~(\E i \in 1..Len(r.body) : Unsupported(ns, r, i))
            /\ ~(Used(ns, r, "global") \subseteq DOMAIN globalTypes) -> "assert"
      [] OTHER -> "running"

(* The types of the variables a body declares are resolved. *)
VarReports(ns, r, where) ==
    FlattenSeq([i \in 1..Len(r.body) |->
        IF r.body[i].kind = "var" THEN TypeReports(ns, r.body[i].type, where) ELSE <<>>])

(* FunctionScope::analyze() *)
AnalyzeFunction ==
    LET p == Head(taken)[1]
        i == Head(taken)[2]
        f == groups[p].functions[i]
        r == nodes[f.node].decl.routine
    IN  /\ InPass2("functions")
        /\ taken' = Tail(taken)
        /\ status' = IF f.node < since THEN "undefined" ELSE Outcome(Front(p), r)
        /\ groups' = [groups EXCEPT ![p].functions[i] =
                        [f EXCEPT !.reads = Used(Front(p), r, "global"),
                                  !.calls = Used(Front(p), r, "group"),
                                  !.analyzed = TRUE]]
        /\ diagnostics' = diagnostics \o VarReports(Front(p), r, f.node)
        /\ UNCHANGED <<globalTypes, initializers, functionQueue>>

-----------------------------------------------------------------------------
(* The drivers.                                                            *)

Drive(from, to) ==
    /\ status = "running" /\ phase = from /\ taken = <<>>
    /\ phase' = to
    /\ UNCHANGED taken

(* The next declaration.  The loop has deleted the one before. *)
ReadDeclaration ==
    /\ Drive("read", "declare")
    /\ Len(nodes) < MaxNodes
    /\ \E d \in Input : todo' = <<[ns |-> Root, decl |-> d]>>
    /\ since' = IF Interactive THEN at ELSE since
    /\ UNCHANGED <<nodes, symbolVars, queueVars, runVars, diagnostics, status>>

(* A script's declarations are all known before the first is resolved. *)
AfterDeclarationLater == "read"
AfterDeclaration      == IF Interactive THEN "pending" ELSE "read"

FinishDeclaration ==
    /\ todo = <<>>
    /\ Drive("declare", AfterDeclaration)
    /\ UNCHANGED <<treeVars, symbolVars, queueVars, runVars, diagnostics, status>>

EndOfScript ==
    /\ ~Interactive
    /\ Drive("read", "pending")
    /\ UNCHANGED <<treeVars, symbolVars, queueVars, runVars, diagnostics, status>>

AfterPending == IF Interactive THEN "read" ELSE "main"

FinishPending ==
    /\ Drive("functions", AfterPending)
    /\ UNCHANGED <<treeVars, symbolVars, queueVars, runVars, diagnostics, status>>

(* The groups a call of these can lead to *)
Called(calls) ==
    LET next(S) == S \cup UNION {groups[p].functions[1].calls : p \in S}
        reach[n \in 0..Cardinality(DOMAIN groups)] ==
            IF n = 0 THEN calls ELSE next(reach[n - 1])
    IN  reach[Cardinality(DOMAIN groups)]

(* The initializers and the body are translated and executed: initValue(), *)
(* getValue() and setValue() assert whether the global has a value; a      *)
(* function that has not been analyzed has no code. *)
LeftInitializersKept == initializers
LeftInitializers     == <<>>

Execute(body) ==
    LET r      == Routine(Implicit, <<>>, body)
        called == Called(Used(Root, r, "group"))
        reads  == Used(Root, r, "global")
                  \cup UNION {groups[p].functions[1].reads : p \in called}
    IN  IF Outcome(Root, r) # "running"
        THEN /\ status' = Outcome(Root, r)
             /\ UNCHANGED <<initializers, initialized>>
        ELSE /\ initializers' = LeftInitializers
             /\ initialized' = initialized \o initializers
             /\ status' =
                  CASE \E p \in called : ~groups[p].functions[1].analyzed -> "undefined"
                    [] \/ ~IsInjective(initialized')
                       \/ ~(reads \subseteq ToSet(initialized')) -> "assert"
                    [] OTHER -> "running"

ExecuteCommand(body, to) ==
    /\ phase' = to
    /\ statements' = statements + 1
    /\ Execute(body)
    /\ UNCHANGED <<treeVars, symbolVars, taken, classQueue, globalVariableQueue,
                   functionGroupQueue, functionQueue, diagnostics>>

(* A statement of an interactive session *)
Command ==
    /\ Interactive /\ status = "running" /\ phase = "read"
    /\ statements < MaxStatements
    /\ \E s \in Commands : ExecuteCommand(s, "read")

(* <qinit>: the initializers, then the statements of the script *)
Qinit ==
    /\ status = "running" /\ phase = "main"
    /\ \E s \in Commands : ExecuteCommand(s, "end")

EndOfSession ==
    /\ Interactive
    /\ Drive("read", "end")
    /\ UNCHANGED <<treeVars, symbolVars, queueVars, runVars, diagnostics, status>>

-----------------------------------------------------------------------------
Init ==
    /\ nodes = <<>> /\ since = 1 /\ todo = <<>>
    /\ namespaces = [p \in {Root} |-> 0]
    /\ classes = <<>> /\ globals = <<>> /\ globalTypes = <<>> /\ groups = <<>>
    /\ classQueue = <<>> /\ globalVariableQueue = <<>>
    /\ functionGroupQueue = <<>> /\ functionQueue = <<>> /\ initializers = <<>>
    /\ initialized = <<>> /\ statements = 0
    /\ phase = "read" /\ taken = <<>>
    /\ diagnostics = <<>> /\ status = "running"

Declare ==
    \/ RejectName \/ ProcessConstant
    \/ AddNamespace \/ ReopenNamespace \/ RejectNamespace
    \/ AddClass \/ RejectClass
    \/ AddGlobalVariable \/ RejectGlobalVariable
    \/ AddFunction \/ RejectFunction
    \/ ClashWithDeletedTree
    \/ FinishDeclaration

processPendingDeclarations ==
    \/ TakeQueue \/ ResolveGlobalVariable \/ ResolveOverload \/ FinishGroup
    \/ AnalyzeFunction \/ FinishPending

Next ==
    \/ ReadDeclaration \/ EndOfScript \/ Command \/ Qinit \/ EndOfSession
    \/ Declare \/ processPendingDeclarations

Spec == Init /\ [][Next]_vars

(* The analyzer runs, and a script is a file that ends. *)
FairSpec ==
    /\ Spec
    /\ WF_vars(Declare \/ processPendingDeclarations \/ Qinit)
    /\ WF_vars(EndOfScript)

-----------------------------------------------------------------------------
(* Properties.                                                             *)

QType == {TypeOf(k) : k \in {"nothing", "<error>", "int", "*int", "string",
                             "*string", "any"}}
         \cup {ClassType(k, c) : k \in {"object", "*object"}, c \in DOMAIN classes}

(* The variables have the types of the fields they model, and paths and    *)
(* nodes they refer to exist. *)
TypeOK ==
    /\ since \in 1..(Len(nodes) + 1)
    /\ \A p \in DOMAIN globals : globals[p] \in 1..Len(nodes)
    /\ DOMAIN globalTypes \subseteq DOMAIN globals
    /\ \A p \in DOMAIN globalTypes : globalTypes[p] \in QType
    /\ \A p \in DOMAIN groups :
        /\ groups[p].location \in 1..Len(nodes)
        /\ ToSet(groups[p].queue) \subseteq 1..Len(nodes)
        /\ Len(groups[p].functions) <= 1
        /\ \A i \in 1..Len(groups[p].functions) :
            LET f == groups[p].functions[i]
            IN  /\ f.node \in 1..Len(nodes)
                /\ ToSet(f.type) \subseteq QType
                /\ f.reads \subseteq DOMAIN globals
                /\ f.calls \subseteq DOMAIN groups
    /\ ToSet(classQueue) \subseteq DOMAIN classes
    /\ phase \in {"read", "declare", "pending", "globals", "groups",
                  "functions", "main", "end"}
    /\ \A i \in 1..Len(diagnostics) : diagnostics[i].previous \in Nat
    /\ status \in {"running", "assert", "notImplemented", "undefined"}

(* Within a namespace a name is that of a namespace or of a class, and     *)
(* that of a global variable or of functions, never both, and everything   *)
(* is in a namespace that exists: what the checks of the four process...   *)
(* Declaration() methods are for, whichever declaration comes first and    *)
(* from wherever it names its parent. *)
NamesAreUnambiguous ==
    /\ DOMAIN namespaces \cap DOMAIN classes = {}
    /\ DOMAIN globals \cap DOMAIN groups = {}
    /\ \A p \in (DOMAIN namespaces \cup DOMAIN classes \cup DOMAIN globals
                  \cup DOMAIN groups) \ {Root} :
            Front(p) \in DOMAIN namespaces

(* The queue with the elements that are being processed *)
Waiting(queue, p) == queue \o (IF phase = p THEN taken ELSE <<>>)

(* Work is enqueued exactly once: the globals without a run-time object,   *)
(* the groups with pending overloads and the functions without code are    *)
(* those in the queue of their kind.  A lost entry would be left           *)
(* unresolved for ever, a second one be processed twice. *)
QueuedOnce ==
    status = "running" =>
    LET g == Waiting(globalVariableQueue, "globals")
        o == Waiting(functionGroupQueue, "groups")
        f == Waiting(functionQueue, "functions")
    IN  /\ IsInjective(g) /\ ToSet(g) = DOMAIN globals \ DOMAIN globalTypes
        /\ IsInjective(o)
        /\ \A p \in DOMAIN groups :
             /\ groups[p].queue # <<>> => p \in ToSet(o)
             /\ p \in ToSet(o) /\ phase # "groups" => groups[p].queue # <<>>
        /\ IsInjective(f)
        /\ ToSet(f) = UNION {{<<p, i>> : i \in {j \in 1..Len(groups[p].functions) :
                                    ~groups[p].functions[j].analyzed}} :
                             p \in DOMAIN groups}

(* In a script, no assertion of GlobalVariableInfo and GlobalVariable      *)
(* fails, nothing is read of a syntax tree that has been deleted, and no   *)
(* function is called that has no code: the order of the queues is right   *)
(* for whatever refers to what. *)
NoFault == status \notin {"assert", "undefined"}

(* In an interactive session the same holds, although trees are deleted    *)
(* and statements run while declarations are still to come, but for one    *)
(* case: a declaration that has the name of an earlier global variable,    *)
(* whose location is read of its deleted tree (getLocation() of            *)
(* GlobalVariableInfo, called by the two process...Declaration() methods). *)
OnlyClashesFault ==
    ~NoFault =>
        /\ status = "undefined" /\ phase = "declare"
        /\ here.decl.kind \in {"global", "function"}
        /\ path \in DOMAIN globals /\ globals[path] < since

(* Every global with a run-time object is going to be initialized or has   *)
(* been, once. *)
InitializedOnce ==
    status = "running" =>
        /\ IsInjective(initialized \o initializers)
        /\ ToSet(initialized \o initializers) = DOMAIN globalTypes

(* In a script, a type is what its name means when all declarations are    *)
(* known, in whatever order they come. *)
TypesAreFinal ==
    /\ \A p \in DOMAIN globalTypes :
        globalTypes[p] = resolveType(Front(p), nodes[globals[p]].decl.type)
    /\ \A p \in DOMAIN groups : \A i \in 1..Len(groups[p].functions) :
        LET f == groups[p].functions[i]
        IN  f.type[1] = resolveType(Front(p), nodes[f.node].decl.routine.type)

Errors(i) == {d \in ToSet(diagnostics) : d.at = i /\ d.id \in
    {"SemaInvalidNamespaceMemberName", "SemaNamespaceNotFound",
     "SemaDuplicateNamespaceName", "SemaDuplicateClassName",
     "SemaDuplicateGlobalVariableName", "SemaDuplicateFunctionName"}}

PathOf(i) == nodes[i].ns \o nodes[i].decl.name.ids

Space(kind) == IF kind \in {"namespace", "class"} THEN {"namespace", "class"}
               ELSE {"global", "function"}

Accepted(i) == Errors(i) = {} /\ nodes[i].decl.name.ids # <<>>

(* The symbol a declaration is part of when it is accepted *)
Declared(i) ==
    LET p == PathOf(i)
    IN  CASE nodes[i].decl.kind = "namespace" ->
                /\ ~nodes[i].decl.name.root
                /\ p \in DOMAIN namespaces /\ namespaces[p] <= i
          [] nodes[i].decl.kind = "class" -> p \in DOMAIN classes /\ classes[p] = i
          [] nodes[i].decl.kind = "global" -> p \in DOMAIN globals /\ globals[p] = i
          [] nodes[i].decl.kind = "function" ->
                /\ p \in DOMAIN groups
                /\ \/ i \in ToSet(groups[p].queue)
                   \/ \E k \in 1..Len(groups[p].functions) :
                        groups[p].functions[k].node = i

(* No declaration gets lost: each one that the parser has not complained   *)
(* about is part of a symbol, or has been rejected with one error, and not *)
(* both.  Members of what is rejected are not looked at, by design. *)
NothingIsLost ==
    status = "running" =>
    \A i \in 1..Len(nodes) :
        /\ Cardinality(Errors(i)) <= 1
        /\ nodes[i].decl.name.ids # <<>> => (Errors(i) = {} <=> Declared(i))

(* SemaPreviousDeclaration points to the first accepted declaration of the *)
(* name, as the comment of GlobalVariableInfo::getLocation() and of        *)
(* FunctionGroupInfo::getLocation() say. *)
PreviousIsFirst ==
    \A d \in ToSet(diagnostics) : d.previous # 0 =>
        LET same == {i \in 1..(d.at - 1) :
                        /\ PathOf(i) = PathOf(d.at) /\ Accepted(i)
                        /\ nodes[i].decl.kind \in Space(nodes[d.at].decl.kind)}
        IN  d.previous \in same /\ \A i \in same : d.previous <= i

(* What has become of the declarations that were accepted *)
FunctionAt(g, i) ==
    IF i \in ToSet(g.queue) THEN "declared"
    ELSE IF \E f \in ToSet(g.functions) : f.node = i /\ f.analyzed THEN "ready"
    ELSE "resolved"
GlobalAt(p) == CASE p \notin DOMAIN globalTypes -> "declared"
                 [] p \in DOMAIN globalTypes /\ p \in ToSet(initialized) -> "ready"
                 [] OTHER -> "resolved"

OverloadsOf(g) == ToSet(g.queue) \cup {f.node : f \in ToSet(g.functions)}

Stage ==
    LET global(i)   == {p \in DOMAIN globals : globals[p] = i}
        function(i) == {p \in DOMAIN groups : i \in OverloadsOf(groups[p])}
    IN  [i \in {globals[p] : p \in DOMAIN globals} \cup UNION {OverloadsOf(groups[p]) : p \in DOMAIN groups} |->
            IF global(i) # {}
            THEN [kind |-> "global", at |-> GlobalAt(CHOOSE p \in global(i) : TRUE)]
            ELSE [kind |-> "function",
                  at |-> FunctionAt(groups[CHOOSE p \in function(i) : TRUE], i)]]

L == INSTANCE Lifecycle WITH
    stage <- Stage,
    collecting <- phase \in {"read", "declare"},
    ended <- status # "running"

(* The queues implement the life of a declaration: nothing is resolved     *)
(* early, twice or in the wrong order, whatever refers to what ...         *)
KeepsOrder == L!Safety

(* ... and whatever is declared is resolved, translated and initialized in *)
(* the end, unless the process ends. *)
IsLifecycle == L!Spec
=============================================================================
