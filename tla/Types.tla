-------------------------------- MODULE Types --------------------------------
(***************************************************************************)
(* The types of Qore values and the tables of built-in conversions and     *)
(* binary operators (include/qore/core/Type.h, lib/core/Data.cpp), with    *)
(* the two functions that choose from them.  A type is its name.           *)
(***************************************************************************)
EXTENDS Code

Type == {"<error>", "<function group>", "any", "nothing", "bool", "softbool",
         "int", "*int", "softint", "string", "*string", "softstring", "object",
         "*object"}

(* Type::isRefCounted(), Type::acceptsNothing() *)
isRefCounted(t) == t \notin {"nothing", "bool", "softbool", "int", "softint"}

acceptsNothing(t) ==
    t \in {"<error>", "any", "nothing", "*int", "*string", "*object"}

Conversion == [
    AnyToString |-> [from |-> "any",    to |-> "string", canThrow |-> TRUE],
    IntToAny    |-> [from |-> "int",    to |-> "any",    canThrow |-> TRUE],
    IntToBool   |-> [from |-> "int",    to |-> "bool",   canThrow |-> FALSE],
    IntToString |-> [from |-> "int",    to |-> "string", canThrow |-> TRUE],
    StringToInt |-> [from |-> "string", to |-> "int",    canThrow |-> TRUE]]

BinaryOperator == [
    AnyPlusAny |->
        [left |-> "any", right |-> "any", result |-> "any", canThrow |-> TRUE],
    AnyPlusEqualsAny |->
        [left |-> "any", right |-> "any", result |-> "any", canThrow |-> TRUE],
    SoftStringPlusSoftString |->
        [left |-> "softstring", right |-> "softstring", result |-> "string",
         canThrow |-> TRUE],
    SoftIntPlusSoftInt |->
        [left |-> "softint", right |-> "softint", result |-> "int",
         canThrow |-> FALSE]]

(* What QORE_NOT_IMPLEMENTED makes of a search. *)
Unsupported == "unsupported"

(* Conversion::find(): NoName is nullptr, no conversion is needed. *)
FindConversion(src, dest) ==
    CASE src = dest -> NoName
      [] dest = "string" /\ src = "any" -> "AnyToString"
      [] dest \in {"softstring", "any"} /\ src = "string" -> NoName
      [] dest = "softstring" /\ src = "int" -> "IntToString"
      [] dest = "softstring" /\ src = "any" -> "AnyToString"
      [] dest = "softbool" /\ src = "int" -> "IntToBool"
      [] dest = "softint" /\ src = "int" -> NoName
      [] dest = "softint" /\ src = "string" -> "StringToInt"
      [] dest = "any" /\ src = "int" -> "IntToAny"
      [] OTHER -> Unsupported

(* BinaryOperator::find() for Kind::Plus and Kind::PlusEquals *)
FindPlus(left, right) ==
    CASE "any" \in {left, right} -> "AnyPlusAny"
      [] "any" \notin {left, right} /\ "string" \in {left, right} ->
            "SoftStringPlusSoftString"
      [] {"any", "string"} \cap {left, right} = {} /\ "int" \in {left, right} ->
            "SoftIntPlusSoftInt"
      [] OTHER -> Unsupported

FindPlusEquals(left) ==
    CASE left = "any"    -> "AnyPlusEqualsAny"
      [] left = "string" -> "SoftStringPlusSoftString"
      [] left = "int"    -> "SoftIntPlusSoftInt"
      [] OTHER           -> Unsupported
=============================================================================
