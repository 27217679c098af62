---------------------------- MODULE MCRaiiClient ----------------------------
(* Two small instances of RaiiClient for TLC, with one global variable and *)
(* one local: one in which three objects nest within one block, and one in *)
(* which scopes and blocks nest around one object.                         *)
EXTENDS RaiiClient

VARIABLE instance

MCGlobals    == {"g"}
MCLocals     == {"s"}
MCRefCounted == {"s"}
MCSimpleCode == {RefInc(1)}
MCInvokeCode == {InvokeConversion(1, "AnyToString", 1)}

BeginsWithin(maxBlocks, maxCode, maxScopes) ==
    loop.kind = "none" => /\ Len(blocks) <= maxBlocks
                          /\ Len(blocks[currentBlock]) <= maxCode
                          /\ Len(localsStack) <= maxScopes

ClientCode == {"RefInc", "InvokeConversion"}

InExpressions == BeginsWithin(1, 2, 1)
InStatements  ==
    /\ BeginsWithin(3, 1, 2)
    /\ DOMAIN helpers' \subseteq {1}
    /\ \A ins \in ToSet(blocks'[currentBlock]) : ins.op \notin ClientCode

MCInit == Init /\ instance \in {"expressions", "statements"}

MCNext ==
    /\ Next /\ UNCHANGED instance
    /\ IF instance = "expressions" THEN InExpressions ELSE InStatements

MCSpec == MCInit /\ [][MCNext]_<<vars, instance>>
=============================================================================
