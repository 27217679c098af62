------------------------------- MODULE MCNative -------------------------------
(* The functions of Programs, translated, compiled and executed. *)
EXTENDS Native, Programs
=============================================================================
