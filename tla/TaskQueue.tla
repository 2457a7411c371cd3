----------------------------- MODULE TaskQueue -----------------------------
(***************************************************************************)
(* The two containers ThreadSafeQueue is instantiated with, as sequences   *)
(* in insertion order.  std::queue (TSQueue) hands out the oldest element, *)
(* std::priority_queue (TSPriorityQueue) any element no other one exceeds: *)
(* a heap does not order elements that compare equal.                      *)
(***************************************************************************)
EXTENDS Integers, SequencesExt

CONSTANTS
  Task,       \* the elements
  priority    \* the priority of each element: what operator< compares

ASSUME PriorityType == priority \in [Task -> Int]

\* Task::operator<
Less(x, y) == priority[x] < priority[y]

\* Mutant: operator< turned around, the heap hands out the least urgent task.
MutantFronts(q, fifo) ==
  IF fifo THEN {i \in DOMAIN q : i = 1}
  ELSE {i \in DOMAIN q : \A j \in DOMAIN q : ~Less(q[j], q[i])}

(* The positions GetFrontAndPop may take from, in a TSQueue (fifo) or a    *)
(* TSPriorityQueue: none when the queue is empty.                          *)
Fronts(q, fifo) ==
  IF fifo THEN {i \in DOMAIN q : i = 1}
  ELSE {i \in DOMAIN q : \A j \in DOMAIN q : ~Less(q[i], q[j])}
=============================================================================
