------------------------------ MODULE SpinLock ------------------------------
(***************************************************************************)
(* spinlock.h: SpinLock, an atomic flag, and SpinLockGuard.  Each access   *)
(* to an atomic is a step; the orderings given to the accesses make the    *)
(* two flags behave as if the steps were interleaved.                      *)
(***************************************************************************)
EXTENDS Naturals

CONSTANTS
  Thread,
  Guard,
  maker,   \* the thread that constructs and destroys each guard
  users    \* the threads that call its Lock and Unlock

VARIABLES
  lock_,       \* SpinLock::lock_
  is_locked,   \* SpinLockGuard::is_locked
  alive,       \* the guards that have been constructed
  pc,
  using,       \* the guard a thread has called, {} or a singleton
  lockedBy     \* history: the guard that took the lock last, {} or a singleton

spinVars == <<lock_, is_locked, alive, using, lockedBy>>
vars == <<spinVars, pc>>

Init ==
  /\ lock_ = FALSE
  /\ is_locked = [g \in Guard |-> FALSE]
  /\ alive = {} /\ lockedBy = {}
  /\ using = [t \in Thread |-> {}]
  /\ pc = [t \in Thread |-> "idle"]

Call(t, g, l) ==
  /\ pc[t] = "idle"
  /\ pc' = [pc EXCEPT ![t] = l] /\ using' = [using EXCEPT ![t] = {g}]

Goto(t, l) == pc' = [pc EXCEPT ![t] = l]
Return(t) == Goto(t, "idle") /\ using' = [using EXCEPT ![t] = {}]

\* Nobody else is inside a call of a guard that is being constructed or destroyed.
Unused(g) == g \notin UNION {using[t] : t \in Thread}

-----------------------------------------------------------------------------
Construct(t, g) ==
  /\ maker[g] = t /\ g \notin alive /\ Unused(g)
  /\ Call(t, g, "exchange")
  /\ is_locked' = [is_locked EXCEPT ![g] = FALSE]
  /\ UNCHANGED <<lock_, alive, lockedBy>>

\* Lock and Unlock look at is_locked first; a call that finds nothing to do is no step.
Lock(t, g) ==
  /\ t \in users[g] /\ g \in alive /\ ~is_locked[g]
  /\ Call(t, g, "exchange")
  /\ UNCHANGED <<lock_, is_locked, alive, lockedBy>>

Unlock(t, g) ==
  /\ t \in users[g] /\ g \in alive /\ is_locked[g]
  /\ Call(t, g, "store")
  /\ UNCHANGED <<lock_, is_locked, alive, lockedBy>>

\* The destructor looks at is_locked too.
DestroyLocked(t, g) ==
  /\ maker[g] = t /\ g \in alive /\ Unused(g) /\ is_locked[g]
  /\ alive' = alive \ {g}
  /\ Call(t, g, "lastStore")
  /\ UNCHANGED <<lock_, is_locked, lockedBy>>

DestroyUnlocked(t, g) ==
  /\ maker[g] = t /\ g \in alive /\ Unused(g) /\ ~is_locked[g] /\ pc[t] = "idle"
  /\ alive' = alive \ {g}
  /\ UNCHANGED <<lock_, is_locked, pc, using, lockedBy>>

\* Mutant: the flag is read and set in two steps, so whoever comes through takes the lock.
MutantExchange(t) ==
  /\ pc[t] = "exchange"
  /\ lock_' = TRUE /\ lockedBy' = using[t] /\ Goto(t, "mark")
  /\ UNCHANGED <<is_locked, alive, using>>

Exchange(t) ==
  /\ pc[t] = "exchange"
  /\ \/ ~lock_ /\ lock_' = TRUE /\ lockedBy' = using[t] /\ Goto(t, "mark")
     \/ lock_ /\ Goto(t, "spin") /\ UNCHANGED <<lock_, lockedBy>>
  /\ UNCHANGED <<is_locked, alive, using>>

\* The loop that reads lock_ until it is free.
Spin(t) ==
  /\ pc[t] = "spin" /\ ~lock_
  /\ Goto(t, "exchange")
  /\ UNCHANGED spinVars

Mark(t) ==
  /\ pc[t] = "mark"
  /\ is_locked' = [g \in Guard |-> is_locked[g] \/ g \in using[t]]
  /\ alive' = alive \cup using[t]
  /\ Return(t)
  /\ UNCHANGED <<lock_, lockedBy>>

Store(t) ==
  /\ pc[t] = "store"
  /\ lock_' = FALSE
  /\ Goto(t, "unmark")
  /\ UNCHANGED <<is_locked, alive, using, lockedBy>>

Unmark(t) ==
  /\ pc[t] = "unmark"
  /\ is_locked' = [g \in Guard |-> is_locked[g] /\ g \notin using[t]]
  /\ Return(t)
  /\ UNCHANGED <<lock_, alive, lockedBy>>

LastStore(t) ==
  /\ pc[t] = "lastStore"
  /\ lock_' = FALSE
  /\ Return(t)
  /\ UNCHANGED <<is_locked, alive, lockedBy>>

Next ==
  \E t \in Thread :
    \/ Exchange(t) \/ Spin(t) \/ Mark(t) \/ Store(t) \/ Unmark(t) \/ LastStore(t)
    \/ \E g \in Guard : \/ Construct(t, g) \/ Lock(t, g) \/ Unlock(t, g)
                        \/ DestroyLocked(t, g) \/ DestroyUnlocked(t, g)

Spec == Init /\ [][Next]_vars

-----------------------------------------------------------------------------
\* Every guard belongs to one thread, as a guard in automatic storage does.
OneUser == maker \in [Guard -> Thread] /\ users = [g \in Guard |-> {maker[g]}]

(* A guard unlocks the spinlock only if it was this guard that locked it.  *)
(* is_locked is tested in one step and the lock released in another, so    *)
(* this needs OneUser: two threads that share a guard could both pass the  *)
(* test, and the second would release a lock taken by another guard.       *)
UnlocksOnlyItsOwn ==
  [][\A t \in Thread :
       pc[t] \in {"store", "lastStore"} /\ pc'[t] # pc[t] => lock_ /\ lockedBy = using[t]]_vars

\* The guards that have the lock: from the exchange to the store that gives it back.
Holding(g) ==
  IF using[maker[g]] = {g} THEN pc[maker[g]] \in {"mark", "store", "lastStore"}
                           ELSE g \in alive /\ is_locked[g]

(* One guard at most has the lock, through every Lock, Unlock and          *)
(* destructor, and while one has it the lock is not free.                  *)
GuardsExclude ==
  /\ \A g, h \in Guard : Holding(g) /\ Holding(h) => g = h
  /\ \A g \in Guard : Holding(g) => lock_
=============================================================================
