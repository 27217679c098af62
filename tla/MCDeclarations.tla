--------------------------- MODULE MCDeclarations ---------------------------
(* Declarations of every kind, in two namespaces with the same simple      *)
(* names, that refer to each other and get in each other's way. *)
EXTENDS Startup

N(ids)     == Name(FALSE, ids)
Basic(ids) == TypeNode("basic", N(ids))
Opt(ids)   == TypeNode("asterisk", N(ids))
Invalid    == Name(FALSE, <<>>)

SubF(body) == Routine(Implicit, <<>>, body)
InN(decl)  == NamespaceDecl(N(<<"N">>), <<decl>>)

(* Names: classes, namespaces and types *)
MCNames == {
    NamespaceDecl(N(<<"N">>), <<ClassDecl(N(<<"C">>)), GlobalDecl(Opt(<<"C">>), N(<<"g">>))>>),
    NamespaceDecl(N(<<"N">>), <<NamespaceDecl(N(<<"N">>), <<ClassDecl(N(<<"C">>))>>)>>),
    NamespaceDecl(N(<<"N", "N">>), <<>>),
    NamespaceDecl(Name(TRUE, <<"N">>), <<>>),
    ClassDecl(N(<<"N">>)),
    ClassDecl(N(<<"C">>)),
    ClassDecl(N(<<"N", "C">>)),
    ClassDecl(Name(TRUE, <<"C">>)),
    ClassDecl(Invalid),
    GlobalDecl(Opt(<<"C">>), N(<<"N", "g">>)),
    GlobalDecl(Opt(<<"N", "C">>), N(<<"g">>)),
    GlobalDecl(TypeNode("asterisk", Name(TRUE, <<"C">>)), N(<<"N", "g">>))}

(* Symbols: global variables and functions *)
MCSymbols == {
    NamespaceDecl(N(<<"N">>), <<GlobalDecl(Basic(<<"string">>), N(<<"g">>)),
                                FunctionDecl(N(<<"f">>), SubF(<<Ref(N(<<"g">>))>>))>>),
    GlobalDecl(Basic(<<"int">>), N(<<"g">>)),
    GlobalDecl(Basic(<<"string">>), N(<<"f">>)),
    GlobalDecl(Basic(<<"C">>), N(<<"h">>)),
    ClassDecl(N(<<"C">>)),
    ConstantDecl(N(<<"c">>)),
    FunctionDecl(N(<<"f">>), SubF(<<Ref(N(<<"g">>)), CallOf(N(<<"k">>))>>)),
    FunctionDecl(N(<<"k">>), SubF(<<Var("x", Opt(<<"C">>)), Ref(N(<<"x">>)),
                                    CallOf(N(<<"f">>))>>)),
    FunctionDecl(N(<<"g">>), Routine(Opt(<<"C">>), <<>>, <<CallOf(N(<<"g">>))>>)),
    FunctionDecl(N(<<"k">>),
        Routine(Basic(<<"int">>), <<[type |-> Opt(<<"any">>), id |-> "g"]>>,
                <<Ref(N(<<"g">>))>>)),
    FunctionDecl(N(<<"N", "f">>), SubF(<<Ref(N(<<"f">>))>>))}

MCCommands == {<<>>, <<Ref(N(<<"g">>))>>, <<CallOf(N(<<"f">>))>>,
               <<CallOf(N(<<"k">>)), Ref(N(<<"f">>))>>}
(* The namespaces above are nested twice at most. *)
WithMembers(S) ==
    LET members(D) == D \cup UNION {ToSet(d.members) : d \in D}
    IN  members(members(S))

MCInput == MCNames \cup MCSymbols
MCNodes == WithMembers(MCInput)
=============================================================================
