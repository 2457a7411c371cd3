--------------------------- MODULE LockBenchmark ---------------------------
(***************************************************************************)
(* TestRwlock of lock_benchmark.h: five locks in turn.  The main thread    *)
(* locks and unlocks each one alone, then races two std::async tasks for   *)
(* it and joins them through their futures.  RwMutex and SpinLock are the  *)
(* modules of those names; the pthread read/write lock, the std::mutex and *)
(* the pthread spinlock are external and only keep their holders apart.    *)
(* The mutex is locked by UniqueReadLock and UniqueWriteLock, which pass   *)
(* their counters.  Each object locks once and is destroyed: its count is  *)
(* one, so every branch on it does what the calls without counters do, and *)
(* those are the calls taken here.  RwLockObjects has all the others.      *)
(***************************************************************************)
EXTENDS Naturals, Sequences, FiniteSets

CONSTANTS
  Main,        \* the thread that calls TestRwlock
  Reader,      \* the threads of the two std::async tasks
  test_time    \* bound: how often each loop locks

ASSUME MainIsNoReader == Main \notin Reader
ASSUME ReadersFinite == IsFiniteSet(Reader)
ASSUME TimesPositive == test_time \in Nat \ {0}

Thread == Reader \cup {Main}

VARIABLES
  section,     \* the lock that is being measured
  phase,       \* "read" and "write": alone; "mixed": with the tasks; "over"
  left,        \* t of each thread's loop
  reader_, read_count_, write_count_, reading_count_, writing_,   \* RwMutex
  lock_, is_locked, alive, using, lockedBy,                       \* SpinLock and its guards
  holds,       \* what each thread holds of an external lock: "none", "read" or "write"
  pc

rwVars == <<reader_, read_count_, write_count_, reading_count_, writing_>>
spinVars == <<lock_, is_locked, alive, using, lockedBy>>
vars == <<section, phase, left, rwVars, spinVars, holds, pc>>

Mutex == INSTANCE RwMutex

\* Every loop iteration constructs a guard of its own.
Spin == INSTANCE SpinLock WITH Guard <- Thread, maker <- [t \in Thread |-> t],
                               users <- [t \in Thread |-> {t}]

Sections == <<"RwLock", "RwMutex", "std::mutex", "SpinLock", "pthread_spinlock">>
Shares == {"RwLock", "RwMutex"}      \* the locks that tell readers from writers

Now == Sections[section]

Init ==
  /\ section = 1 /\ phase = "read"
  /\ left = [t \in Thread |-> IF t = Main THEN test_time ELSE 0]
  /\ reader_ = FALSE /\ read_count_ = 0 /\ write_count_ = 0
  /\ reading_count_ = 0 /\ writing_ = FALSE
  /\ lock_ = FALSE /\ is_locked = [t \in Thread |-> FALSE] /\ alive = {}
  /\ using = [t \in Thread |-> {}] /\ lockedBy = {}
  /\ holds = [t \in Thread |-> "none"]
  /\ pc = [t \in Thread |-> "idle"]

-----------------------------------------------------------------------------
(* One iteration of a loop: while (t--) { Guard lk(lock); }                *)

\* Between two iterations.
Between(t) == pc[t] = "idle" /\ holds[t] = "none" /\ t \notin alive

Mode(t) == IF Now \in Shares /\ (t # Main \/ phase = "read") THEN "read" ELSE "write"

\* External: what a lock that tells readers from writers, or one that does not, lets in.
MayHold(t) ==
  \A u \in Thread \ {t} : holds[u] = "none" \/ (Mode(t) = "read" /\ holds[u] = "read")

ExternalLock(t) ==
  /\ Now \notin {"RwMutex", "SpinLock"} /\ MayHold(t)
  /\ holds' = [holds EXCEPT ![t] = Mode(t)]
  /\ UNCHANGED <<rwVars, spinVars, pc>>

ExternalUnlock(t) ==
  /\ holds[t] # "none" /\ pc[t] = "idle"
  /\ holds' = [holds EXCEPT ![t] = "none"]
  /\ UNCHANGED <<section, phase, left, rwVars, spinVars, pc>>

MoreRounds(t) == left[t] > 0

\* The constructor of the iteration's guard, or its beginning.
Begin(t) ==
  /\ Between(t) /\ MoreRounds(t)
  /\ left' = [left EXCEPT ![t] = @ - 1]
  /\ \/ ExternalLock(t)
     \/ /\ Now = "RwMutex"
        /\ IF Mode(t) = "read" THEN Mutex!ReadLock(t) ELSE Mutex!WriteLock(t)
        /\ UNCHANGED <<spinVars, holds>>
     \/ Now = "SpinLock" /\ Spin!Construct(t, t) /\ UNCHANGED <<rwVars, holds>>
  /\ UNCHANGED <<section, phase>>

\* What follows in the lock calls, and the guard's destructor.
GoOn(t) ==
  /\ \/ Mutex!Progress(t) /\ UNCHANGED <<spinVars, holds>>
     \/ /\ Spin!Exchange(t) \/ Spin!Spin(t) \/ Spin!Mark(t) \/ Spin!DestroyLocked(t, t) \/ Spin!LastStore(t)
        /\ UNCHANGED <<rwVars, holds>>
  /\ UNCHANGED <<section, phase, left>>

SpuriousWakeup(t) ==
  /\ Mutex!SpuriousWakeup(t)
  /\ UNCHANGED <<section, phase, left, spinVars, holds>>

-----------------------------------------------------------------------------
(* The main thread between its loops.                                      *)

LoopOver == left[Main] = 0 /\ Between(Main)

Write ==
  /\ phase = "read" /\ Now \in Shares /\ LoopOver
  /\ phase' = "write" /\ left' = [left EXCEPT ![Main] = test_time]
  /\ UNCHANGED <<section, rwVars, spinVars, holds, pc>>

\* Two std::async and the loop that competes with them.
Launch ==
  /\ phase = (IF Now \in Shares THEN "write" ELSE "read") /\ LoopOver
  /\ phase' = "mixed" /\ left' = [t \in Thread |-> test_time]
  /\ UNCHANGED <<section, rwVars, spinVars, holds, pc>>

\* Mutant: the future of the second task is not waited for.
MutantJoined == \E t \in Reader : left[t] = 0 /\ Between(t)

Joined == \A t \in Reader : left[t] = 0 /\ Between(t)

\* ret.get() and ret2.get() have returned; on to the next lock.
Join ==
  /\ phase = "mixed" /\ LoopOver /\ Joined
  /\ IF section < Len(Sections)
     THEN /\ section' = section + 1 /\ phase' = "read"
          /\ left' = [left EXCEPT ![Main] = test_time]
     ELSE phase' = "over" /\ UNCHANGED <<section, left>>
  /\ UNCHANGED <<rwVars, spinVars, holds, pc>>

Run(t) == Begin(t) \/ ExternalUnlock(t) \/ GoOn(t)
Steer == Write \/ Launch \/ Join

\* TestRwlock has returned.
Returned == phase = "over" /\ UNCHANGED vars

Next == Steer \/ Returned \/ \E t \in Thread : Run(t) \/ SpuriousWakeup(t)

Spec == Init /\ [][Next]_vars

\* Every thread is scheduled again and again.
FairSpec == Spec /\ WF_vars(Steer) /\ \A t \in Thread : WF_vars(Run(t))

-----------------------------------------------------------------------------
\* A part of LocksLeftFree.
TypeOK ==
  /\ section \in 1..Len(Sections) /\ phase \in {"read", "write", "mixed", "over"}
  /\ left \in [Thread -> 0..test_time]
  /\ holds \in [Thread -> {"none", "read", "write"}]
  /\ {pc[t] : t \in Thread} \subseteq
       Mutex!PC \cup {"exchange", "spin", "mark", "store", "unmark", "lastStore"}

\* The threads that have the lock of this section, and those that have it for themselves.
Owners ==
  {t \in Thread : \/ holds[t] # "none"
                  \/ pc[t] \in {"reading", "writing", "mark", "lastStore"}
                  \/ t \in alive}
Exclusive(t) == t \in Owners /\ holds[t] # "read" /\ pc[t] # "reading"

(* Whatever the lock, an owner that wants to be alone is alone: also in    *)
(* the spinlock between the exchange and the store to is_locked, and       *)
(* between the destructor's test and its store.                            *)
OwnersExclude == \A t \in Thread : Exclusive(t) => Owners = {t}

(* A guard of SpinLock releases no lock but its own, although its thread   *)
(* looks at is_locked only: each iteration constructs its guard where the  *)
(* last one was destroyed, while others take the lock.                     *)
UnlocksOnlyItsOwn == Spin!UnlocksOnlyItsOwn

(* A section leaves nothing behind: once the benchmark is at another lock, *)
(* the mutex counts nobody, the spinlock is free with all its guards gone, *)
(* and no thread is still in an earlier lock's calls.                      *)
LocksLeftFree ==
  /\ TypeOK
  /\ Now # "RwMutex" => /\ read_count_ = 0 /\ write_count_ = 0 /\ reading_count_ = 0 /\ ~writing_
                        /\ \A t \in Thread : pc[t] \notin Mutex!PC \ {"idle"}
  /\ Now # "SpinLock" => /\ ~lock_ /\ alive = {}
                         /\ \A t \in Thread : pc[t] \in Mutex!PC
  /\ phase # "mixed" => \A t \in Reader : Between(t)

(* TestRwlock returns: every loop ends and both futures become ready,      *)
(* although two readers and a writer compete for locks that promise no     *)
(* order, and the notifies come when the mutex is already released.        *)
BenchmarkReturns == <>(phase = "over")
=============================================================================
