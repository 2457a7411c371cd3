------------------------------- MODULE MCDemo -------------------------------
(* Constants for model-checking Demo. *)
EXTENDS Demo

CONSTANTS u, v, w, slash, n, p

\* Two URLs with the same last segment, one that ends in a slash, and one without a slash.
Names == [x \in Url |-> IF x = w THEN NoName ELSE IF x = slash THEN Itself ELSE n]

(* The first process finds nothing of that name, the model, other bytes or *)
(* a directory; main runs alone, or two processes that only download share *)
(* the directory.                                                          *)
MCInit ==
  /\ DemoInit
  /\ file[n] \in {NoFile, Model(u), Model(Page), Directory}
  /\ pc[p] = "absent" \/ \A x \in Process \ {p} : pc[x] = "absent"

MCSpec == MCInit /\ [][DemoNext]_demoVars /\ Fairness
=============================================================================
