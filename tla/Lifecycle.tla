------------------------------ MODULE Lifecycle ------------------------------
(***************************************************************************)
(* What the analyzer promises of global variables and functions, whatever  *)
(* queues it uses: each declaration that is accepted is declared, then     *)
(* resolved (its types are known and it has a run-time object), then ready *)
(* (a variable has been initialized, a function has code).  Nothing goes   *)
(* back, nothing is resolved while declarations are collected, no function *)
(* is translated while anything is unresolved, and no code is executed     *)
(* while a function has none: the variables are initialized all at once,   *)
(* by the first code that is executed after they have been resolved.       *)
(***************************************************************************)
EXTENDS Naturals

VARIABLES
  stage,      \* declaration -> [kind, at], at is "declared", "resolved", "ready"
  collecting, \* declarations may come
  ended       \* the process has ended, the analyzer meets what it cannot do

vars == <<stage, collecting, ended>>

At(kinds, where) == {i \in DOMAIN stage : stage[i].kind \in kinds /\ stage[i].at = where}
Kinds == {"global", "function"}

Init == stage = [i \in {} |-> 0] /\ collecting = TRUE /\ ended = FALSE

Declare(i, kind) ==
    /\ collecting /\ i \notin DOMAIN stage
    /\ stage' = [j \in DOMAIN stage \cup {i} |->
                    IF j = i THEN [kind |-> kind, at |-> "declared"] ELSE stage[j]]
    /\ UNCHANGED collecting

Resolve(i) ==
    /\ ~collecting /\ stage[i].at = "declared"
    /\ stage' = [stage EXCEPT ![i].at = "resolved"]
    /\ UNCHANGED collecting

Translate(i) ==
    /\ ~collecting /\ i \in At({"function"}, "resolved")
    /\ At(Kinds, "declared") = {}
    /\ stage' = [stage EXCEPT ![i].at = "ready"]
    /\ UNCHANGED collecting

(* The driver turns from declarations to what is pending, and back. *)
Turn ==
    /\ ~collecting => At(Kinds, "declared") \cup At({"function"}, "resolved") = {}
    /\ collecting' = ~collecting
    /\ UNCHANGED stage

Execute ==
    /\ At(Kinds, "declared") \cup At({"function"}, "resolved") = {}
    /\ stage' = [i \in DOMAIN stage |-> [stage[i] EXCEPT !.at = "ready"]]
    /\ UNCHANGED collecting

(* The process may end in any step. *)
Next ==
    /\ ~ended /\ ended' \in BOOLEAN
    /\ \/ \E i \in DOMAIN stage' : \E kind \in Kinds : Declare(i, kind)
       \/ \E i \in DOMAIN stage : Resolve(i) \/ Translate(i)
       \/ Turn \/ Execute
       \/ UNCHANGED <<stage, collecting>>

Safety == Init /\ [][Next]_vars

(* ... and in the end everything is ready. *)
Liveness == []<>(ended \/ \A i \in DOMAIN stage : stage[i].at = "ready")

Spec == Safety /\ Liveness
=============================================================================
