--------------------------- MODULE AbstractRwLock ---------------------------
(***************************************************************************)
(* What a reader/writer lock promises, whatever its queues, counters and   *)
(* wakeups look like: any number of readers share it, a writer has it      *)
(* alone.  RwMutex is shown to implement this specification.               *)
(***************************************************************************)
CONSTANT Thread

VARIABLES
  readers,    \* the threads that hold the lock to read
  writers     \* the threads that hold the lock to write

absVars == <<readers, writers>>

Init == readers = {} /\ writers = {}

StartRead(t) ==
  /\ t \notin readers /\ writers = {}
  /\ readers' = readers \cup {t}
  /\ UNCHANGED writers

EndRead(t) ==
  /\ t \in readers
  /\ readers' = readers \ {t}
  /\ UNCHANGED writers

StartWrite(t) ==
  /\ readers = {} /\ writers = {}
  /\ writers' = {t}
  /\ UNCHANGED readers

EndWrite(t) ==
  /\ t \in writers
  /\ writers' = writers \ {t}
  /\ UNCHANGED readers

Next == \E t \in Thread : StartRead(t) \/ EndRead(t) \/ StartWrite(t) \/ EndWrite(t)

Spec == Init /\ [][Next]_absVars
=============================================================================
