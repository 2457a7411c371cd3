-------------------------- MODULE AbstractExecutor --------------------------
(***************************************************************************)
(* What a thread pool promises about every task, whatever its queue,       *)
(* threads and wakeups look like: a task is submitted once, and then       *)
(* either started once and finished, or discarded without being started.   *)
(***************************************************************************)
CONSTANT Task

VARIABLES
  pending,    \* submitted, not started
  running,    \* started, not finished
  finished,   \* run to the end
  discarded   \* removed without having been started

absVars == <<pending, running, finished, discarded>>

Known == pending \cup running \cup finished \cup discarded

Init == pending = {} /\ running = {} /\ finished = {} /\ discarded = {}

Submit(x) ==
  /\ x \notin Known
  /\ pending' = pending \cup {x}
  /\ UNCHANGED <<running, finished, discarded>>

Start(x) ==
  /\ x \in pending
  /\ pending' = pending \ {x} /\ running' = running \cup {x}
  /\ UNCHANGED <<finished, discarded>>

Finish(x) ==
  /\ x \in running
  /\ running' = running \ {x} /\ finished' = finished \cup {x}
  /\ UNCHANGED <<pending, discarded>>

Discard(x) ==
  /\ x \in pending
  /\ pending' = pending \ {x} /\ discarded' = discarded \cup {x}
  /\ UNCHANGED <<running, finished>>

Next == \E x \in Task : Submit(x) \/ Start(x) \/ Finish(x) \/ Discard(x)

Spec == Init /\ [][Next]_absVars
=============================================================================
