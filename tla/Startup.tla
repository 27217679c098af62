------------------------------- MODULE Startup -------------------------------
(***************************************************************************)
(* The function "qstart" that CodeGen makes for an environment             *)
(* (lib/cg/CodeGen.cpp): a sequence of calls of the native run-time        *)
(* (lib/nrt/nrt.cpp) that is to build the same environment again, in the   *)
(* process that executes the native code.                                  *)
(*                                                                         *)
(* The environment that is compiled is the one Declarations has built.  An *)
(* LLVM value is named after the entity whose call computes it; the root   *)
(* namespace's is Root.  Sources, string literals and <qinit>, which is a  *)
(* function group like any other, are left out.                            *)
(***************************************************************************)
EXTENDS Declarations

(* The vectors of Namespace: their elements in the order of creation. *)
Members(S, ns) == {p \in S \ {Root} : Front(p) = ns}
getNamespaces(ns) ==
    SetToSortSeq(Members(DOMAIN namespaces, ns),
                 LAMBDA p, q : namespaces[p] < namespaces[q])
getGlobalVariables(ns) ==
    SetToSortSeq(Members(DOMAIN globalTypes, ns), LAMBDA p, q : globals[p] < globals[q])
getFunctionGroups(ns) ==
    SetToSortSeq(Members(DOMAIN groups, ns),
                 LAMBDA p, q : groups[p].location < groups[q].location)

(* name(): what follows the last colon of the full name *)
simpleName(p) == <<Last(p)>>

(* A call of namespace_add...() and what becomes of its result: that of a  *)
(* global variable is stored in its slot. *)
RuntimeCall(op, rtNs, p, type, location) ==
    [op |-> op, rtNs |-> rtNs, result |-> p, name |-> simpleName(p), type |-> type,
     location |-> location]
addNamespaceCall(rtNs, p) ==
    RuntimeCall("addNamespace", rtNs, p, "none", namespaces[p])
addGlobalVariableCall(rtNs, p) ==
    RuntimeCall("addGlobalVariable", rtNs, p, globalTypes[p].kind, globals[p])
addFunctionGroupCall(rtNs, p) == RuntimeCall("addFunctionGroup", rtNs, p, "none", 0)

(* compile(rtNs, ns): the members of a namespace are added to the value    *)
(* that its own call returns (and not to the one it has been added to). *)
OuterValue(rtNs, n) == rtNs
MemberValue(rtNs, n) == n
Qstart ==
    LET compile[rtNs \in DOMAIN namespaces, ns \in DOMAIN namespaces] ==
            LET spaces  == getNamespaces(ns)
                globs   == getGlobalVariables(ns)
                grps    == getFunctionGroups(ns)
            IN  FlattenSeq([i \in DOMAIN spaces |->
                    <<addNamespaceCall(rtNs, spaces[i])>>
                       \o compile[MemberValue(rtNs, spaces[i]), spaces[i]]])
                \o [i \in DOMAIN globs |-> addGlobalVariableCall(rtNs, globs[i])]
                \o [i \in DOMAIN grps |-> addFunctionGroupCall(rtNs, grps[i])]
    IN  compile[Root, Root]

-----------------------------------------------------------------------------
(* The execution of qstart with a new Env: "values" are the objects that   *)
(* the calls have returned, "slots" the variables of the module; the other *)
(* fields are the vectors of all namespaces together. *)
NewEnv == [values |-> [v \in {Root} |-> Root], slots |-> <<>>, status |-> "running",
           namespaces |-> <<>>, globals |-> <<>>, groups |-> <<>>]

Ended(env, how) == [env EXCEPT !.status = how]

(* Namespace::addNamespace() and the others: the full name is made of that *)
(* of the namespace, which must have been made before, and of a name       *)
(* without colons. *)
Run(env, call) ==
    LET fullName == env.values[call.rtNs] \o call.name
        added    == [name |-> fullName, type |-> call.type, location |-> call.location]
        new      == [env EXCEPT !.values = Put(@, call.result, fullName)]
    IN  CASE env.status # "running" -> env
          [] env.status = "running" /\ call.rtNs \notin DOMAIN env.values ->
                Ended(env, "undefined")
          [] env.status = "running" /\ call.rtNs \in DOMAIN env.values
                /\ Len(call.name) # 1 -> Ended(env, "assert")
          [] OTHER ->
                CASE call.op = "addNamespace" ->
                        [new EXCEPT !.namespaces = Append(@, added)]
                  [] call.op = "addGlobalVariable" ->
                        [new EXCEPT !.globals = Append(@, added),
                                    !.slots   = Put(@, call.result, fullName)]
                  [] call.op = "addFunctionGroup" ->
                        [new EXCEPT !.groups = Append(@, added)]

StartedEnv == FoldLeft(Run, NewEnv, Qstart)

(* type(): string is the only type it has, so far. *)
IsCompiled == \A p \in DOMAIN globalTypes : globalTypes[p].kind = "string"

-----------------------------------------------------------------------------
(* What is in a vector, once each *)
Holds(vector, S) == Len(vector) = Cardinality(S) /\ ToSet(vector) = S

(* The environment that native code starts with is the one the analyzer    *)
(* has left: the same namespaces, global variables and function groups     *)
(* with the same full names, types and locations, none twice, although     *)
(* namespaces have been declared in several parts; and each global         *)
(* variable that a function reads has a slot, in which is that variable.   *)
StartsAsAnalyzed ==
    phase = "end" /\ status = "running" /\ IsCompiled =>
    LET env == StartedEnv
    IN  /\ env.status = "running"
        /\ Holds(env.namespaces,
                 {[name |-> p, type |-> "none", location |-> namespaces[p]] :
                     p \in DOMAIN namespaces \ {Root}})
        /\ Holds(env.globals,
                 {[name |-> p, type |-> "string", location |-> globals[p]] :
                     p \in DOMAIN globals})
        /\ Holds(env.groups, {[name |-> p, type |-> "none", location |-> 0] :
                     p \in DOMAIN groups})
        /\ \A p \in DOMAIN groups : \A i \in DOMAIN groups[p].functions :
              \A g \in groups[p].functions[i].reads :
                  g \in DOMAIN env.slots /\ env.slots[g] = g
=============================================================================
