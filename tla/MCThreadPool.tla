---------------------------- MODULE MCThreadPool ----------------------------
(* Constants for model-checking ThreadPool. *)
EXTENDS ThreadPool

\* An EqualityThreadPool does not compare its tasks.
NoPriorities == [x \in Task |-> 0]

\* For a PriorityThreadPool: the first task is less urgent than the others.
UrgentTail == [x \in Task |-> IF x = 1 THEN 0 ELSE 1]

\* The clients run the same code; tasks nobody compares are interchangeable.
FifoSymmetry == Permutations(Client) \cup Permutations(Task)
=============================================================================
