------------------------- MODULE MCThreadSafeQueue -------------------------
(* Constants for model-checking ThreadSafeQueue. *)
EXTENDS ThreadSafeQueue

\* Three elements, the second and the third equally urgent.
ThreePriorities == <<1, 2, 2>>
=============================================================================
