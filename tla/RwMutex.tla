------------------------------ MODULE RwMutex ------------------------------
(***************************************************************************)
(* class RwMutex (rw_mutex.h) with the lock calls that pass no counters:   *)
(* ReadLock(), ReadUnlock(), WriteLock(), WriteUnlock() and the two guards *)
(* built on them.  Everything a call does while it holds mutex_ is one     *)
(* step; a condition-variable wait splits a lock call in two, and a notify *)
(* comes after the mutex is released, so it is a step of its own.          *)
(***************************************************************************)
EXTENDS Naturals, FiniteSets

CONSTANT Thread     \* the threads that use the mutex

ASSUME ThreadFinite == IsFiniteSet(Thread)

VARIABLES
  reader_,          \* the constructor's argument: TRUE prefers readers
  read_count_,      \* readers reading or waiting to
  write_count_,     \* writers writing or waiting to
  reading_count_,   \* readers reading
  writing_,         \* a writer is writing
  pc                \* where each thread is: in or out of a lock call, holding, or about to notify

vars == <<reader_, read_count_, write_count_, reading_count_, writing_, pc>>

PC == {"idle", "readWait", "readWoken", "reading", "notifyReaders",
       "writeWait", "writeWoken", "writing", "notifyWriter"}

ReadSide == {"readWait", "readWoken", "reading"}      \* between ++read_count_ and --read_count_
WriteSide == {"writeWait", "writeWoken", "writing"}   \* between ++write_count_ and --write_count_

At(P) == {t \in Thread : pc[t] \in P}

Goto(t, l) == pc' = [pc EXCEPT ![t] = l]

Init ==
  /\ reader_ \in BOOLEAN
  /\ read_count_ = 0 /\ write_count_ = 0 /\ reading_count_ = 0
  /\ writing_ = FALSE
  /\ pc = [t \in Thread |-> "idle"]

-----------------------------------------------------------------------------
(* The predicates of the two waits and the conditions of the notifies.     *)

\* Mutant: under writer preference only a writer inside blocks a reader.
MutantCanRead == ~writing_
\* Mutant: the writer's predicate forgets the writer already inside.
MutantCanWrite == (reader_ /\ read_count_ = 0) \/ (~reader_ /\ reading_count_ = 0)
\* Mutant: the last reader wakes a writer only when two of them wait.
MutantReadUnlockWakes(reads, reading, writes) ==
  /\ (reader_ /\ reads = 0) \/ (~reader_ /\ reading = 0)
  /\ writes > 1
\* Mutant: a writer that leaves wakes readers only when no writer is left.
MutantWriteUnlockWakes(reads, writes) ==
  IF writes = 0 THEN "notifyReaders" ELSE "notifyWriter"

CanRead == (reader_ /\ ~writing_) \/ (~reader_ /\ write_count_ = 0)

CanWrite ==
  /\ (reader_ /\ read_count_ = 0) \/ (~reader_ /\ reading_count_ = 0)
  /\ ~writing_

ReadUnlockWakes(reads, reading, writes) ==
  /\ (reader_ /\ reads = 0) \/ (~reader_ /\ reading = 0)
  /\ writes > 0

WriteUnlockWakes(reads, writes) ==
  IF (reader_ /\ reads > 0) \/ (~reader_ /\ writes = 0) THEN "notifyReaders"
  ELSE IF writes > 0 THEN "notifyWriter" ELSE "idle"

-----------------------------------------------------------------------------
(* Reading *)

\* Mutant: a woken reader goes on without evaluating the predicate again.
MutantReadWake(t) ==
  /\ pc[t] = "readWoken"
  /\ reading_count_' = reading_count_ + 1 /\ Goto(t, "reading")
  /\ UNCHANGED <<reader_, read_count_, write_count_, writing_>>
\* Mutant: the readers are woken with notify_one.
MutantNotifyReaders(t) ==
  /\ pc[t] = "notifyReaders"
  /\ \/ At({"readWait"}) = {} /\ Goto(t, "idle")
     \/ \E r \in At({"readWait"}) : pc' = [pc EXCEPT ![t] = "idle", ![r] = "readWoken"]
  /\ UNCHANGED <<reader_, read_count_, write_count_, reading_count_, writing_>>
\* Mutant: ReadUnlock leaves reading_count_ as it is.
MutantReadUnlock(t) ==
  /\ pc[t] = "reading"
  /\ read_count_' = read_count_ - 1
  /\ Goto(t, IF ReadUnlockWakes(read_count_', reading_count_, write_count_)
             THEN "notifyWriter" ELSE "idle")
  /\ UNCHANGED <<reader_, reading_count_, write_count_, writing_>>

ReadLock(t) ==
  /\ pc[t] = "idle"
  /\ read_count_' = read_count_ + 1
  /\ IF CanRead
     THEN reading_count_' = reading_count_ + 1 /\ Goto(t, "reading")
     ELSE UNCHANGED reading_count_ /\ Goto(t, "readWait")
  /\ UNCHANGED <<reader_, write_count_, writing_>>

ReadWake(t) ==
  /\ pc[t] = "readWoken"
  /\ IF CanRead
     THEN reading_count_' = reading_count_ + 1 /\ Goto(t, "reading")
     ELSE UNCHANGED reading_count_ /\ Goto(t, "readWait")
  /\ UNCHANGED <<reader_, read_count_, write_count_, writing_>>

ReadUnlock(t) ==
  /\ pc[t] = "reading"
  /\ IF read_count_ = 0
     THEN UNCHANGED <<read_count_, reading_count_>> /\ Goto(t, "idle")
     ELSE /\ read_count_' = read_count_ - 1
          /\ reading_count_' = IF reading_count_ > 0 THEN reading_count_ - 1 ELSE 0
          /\ Goto(t, IF ReadUnlockWakes(read_count_', reading_count_', write_count_)
                     THEN "notifyWriter" ELSE "idle")
  /\ UNCHANGED <<reader_, write_count_, writing_>>

\* write_cv_.notify_one(), after lock.unlock()
NotifyWriter(t) ==
  /\ pc[t] = "notifyWriter"
  /\ \/ At({"writeWait"}) = {} /\ Goto(t, "idle")
     \/ \E w \in At({"writeWait"}) : pc' = [pc EXCEPT ![t] = "idle", ![w] = "writeWoken"]
  /\ UNCHANGED <<reader_, read_count_, write_count_, reading_count_, writing_>>

(* Writing *)

\* Mutant: WriteUnlock takes the counter down once more than WriteLock took it up.
MutantWriteUnlock(t) ==
  /\ pc[t] = "writing"
  /\ writing_' = FALSE
  /\ write_count_' = write_count_ - 2
  /\ Goto(t, WriteUnlockWakes(read_count_, write_count_'))
  /\ UNCHANGED <<reader_, read_count_, reading_count_>>

WriteLock(t) ==
  /\ pc[t] = "idle"
  /\ write_count_' = write_count_ + 1
  /\ IF CanWrite
     THEN writing_' = TRUE /\ Goto(t, "writing")
     ELSE UNCHANGED writing_ /\ Goto(t, "writeWait")
  /\ UNCHANGED <<reader_, read_count_, reading_count_>>

WriteWake(t) ==
  /\ pc[t] = "writeWoken"
  /\ IF CanWrite
     THEN writing_' = TRUE /\ Goto(t, "writing")
     ELSE UNCHANGED writing_ /\ Goto(t, "writeWait")
  /\ UNCHANGED <<reader_, read_count_, write_count_, reading_count_>>

WriteUnlock(t) ==
  /\ pc[t] = "writing"
  /\ writing_' = FALSE
  /\ write_count_' = write_count_ - 1
  /\ Goto(t, WriteUnlockWakes(read_count_, write_count_'))
  /\ UNCHANGED <<reader_, read_count_, reading_count_>>

\* read_cv_.notify_all(), after lock.unlock()
NotifyReaders(t) ==
  /\ pc[t] = "notifyReaders"
  /\ pc' = [u \in Thread |-> IF u = t THEN "idle"
                             ELSE IF pc[u] = "readWait" THEN "readWoken" ELSE pc[u]]
  /\ UNCHANGED <<reader_, read_count_, write_count_, reading_count_, writing_>>

(* A wait may also return without a notify; the loop around the predicate  *)
(* of wait(lock, pred) is there for that.                                  *)
SpuriousWakeup(t) ==
  /\ \/ pc[t] = "readWait" /\ Goto(t, "readWoken")
     \/ pc[t] = "writeWait" /\ Goto(t, "writeWoken")
  /\ UNCHANGED <<reader_, read_count_, write_count_, reading_count_, writing_>>

-----------------------------------------------------------------------------
\* What a thread does once a lock or unlock call has begun, or once it holds the lock.
Progress(t) ==
  \/ ReadWake(t) \/ ReadUnlock(t) \/ NotifyWriter(t)
  \/ WriteWake(t) \/ WriteUnlock(t) \/ NotifyReaders(t)

Next == \E t \in Thread : ReadLock(t) \/ WriteLock(t) \/ Progress(t) \/ SpuriousWakeup(t)

Spec == Init /\ [][Next]_vars

(* Threads that hold the lock release it, and a woken or notifying thread  *)
(* is scheduled; nobody is obliged to ask for the lock.                    *)
FairSpec == Spec /\ \A t \in Thread : WF_vars(Progress(t))

-----------------------------------------------------------------------------
TypeOK ==
  /\ reader_ \in BOOLEAN
  /\ read_count_ \in Nat /\ write_count_ \in Nat /\ reading_count_ \in Nat
  /\ writing_ \in BOOLEAN
  /\ pc \in [Thread -> PC]

(* The four fields of the mutex say exactly what the threads are doing, so *)
(* neither the early return of ReadUnlock nor an unsigned underflow of     *)
(* --read_count_ or --write_count_ is ever reached by a thread that holds  *)
(* the lock it releases.                                                   *)
CountsExact ==
  /\ read_count_ = Cardinality(At(ReadSide))
  /\ reading_count_ = Cardinality(At({"reading"}))
  /\ write_count_ = Cardinality(At(WriteSide))
  /\ writing_ <=> At({"writing"}) # {}

(* A thread that writes is alone: no other thread reads or writes.         *)
MutualExclusion ==
  \A t, u \in Thread : pc[t] = "writing" /\ u # t => pc[u] \notin {"reading", "writing"}

(* A reader asleep on read_cv_ is still kept out by a writer, or a thread  *)
(* is on its way to notify the readers: no wakeup is lost between          *)
(* lock.unlock() and notify_all() in WriteUnlock.                          *)
NoLostReaderWakeup ==
  At({"readWait"}) # {} =>
    \/ reader_ /\ writing_
    \/ ~reader_ /\ write_count_ > 0
    \/ At({"notifyReaders"}) # {}

(* A writer asleep on write_cv_ is still kept out, or another writer has   *)
(* been woken and will evaluate the predicate, or a thread is on its way   *)
(* to notify one: the single notify_one of the two unlock calls is enough. *)
NoLostWriterWakeup ==
  At({"writeWait"}) # {} =>
    \/ writing_
    \/ reader_ /\ read_count_ > 0
    \/ ~reader_ /\ reading_count_ > 0
    \/ At({"notifyWriter", "writeWoken"}) # {}

-----------------------------------------------------------------------------
(* The mutex implements the abstract reader/writer lock: the threads that  *)
(* are between a lock and its unlock are its readers and writers.          *)
Abs == INSTANCE AbstractRwLock WITH readers <- At({"reading"}), writers <- At({"writing"})

ImplementsRwLock == Abs!Spec

(* With reader_ = TRUE a reader that waits is let in, however often other  *)
(* threads keep locking: only the current writer can hold it up.           *)
ReadersNotStarved ==
  \A t \in Thread : (reader_ /\ pc[t] = "readWait") ~> pc[t] = "reading"

(* With reader_ = FALSE readers cannot keep the writers out: while a       *)
(* writer waits some writer gets in.                                       *)
WritersNotStarved == (~reader_ /\ At({"writeWait"}) # {}) ~> At({"writing"}) # {}
=============================================================================
