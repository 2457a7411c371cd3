------------------------------- MODULE MCAny -------------------------------
(* Constants for model-checking Any. *)
EXTENDS Any, TLC

CONSTANTS i1, i2, s1, int, string

\* Two small values of one type and one that needs an allocation.
TwoTypes == (i1 :> int) @@ (i2 :> int) @@ (s1 :> string)
=============================================================================
