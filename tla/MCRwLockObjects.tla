-------------------------- MODULE MCRwLockObjects --------------------------
(* Constants for model-checking RwLockObjects. *)
EXTENDS RwLockObjects, TLC

CONSTANTS t1, t2, o1, o2, o3

\* The first thread has two objects, so that it can move one to the other.
TwoThreads == (o1 :> t1) @@ (o2 :> t1) @@ (o3 :> t2)
=============================================================================
