--------------------------- MODULE RwLockObjects ---------------------------
(***************************************************************************)
(* The lock objects of rw_mutex.h: UniqueReadLock, UniqueWriteLock and     *)
(* UniqueRwLock.  They can be built without locking, locked more than      *)
(* once, unlocked, moved and destroyed in any state, so each one counts    *)
(* what it holds, and the calls of the mutex take these counters along.    *)
(* The mutex itself (fields, predicates, notifies) is RwMutex.             *)
(***************************************************************************)
EXTENDS Naturals, FiniteSets

CONSTANTS
  Thread,
  Object,     \* the places where a lock object can live
  owner,      \* the thread each place belongs to
  MaxNested   \* bound: how often one object is locked without being unlocked

ASSUME ThreadsFinite == IsFiniteSet(Thread) /\ Thread # {}
ASSUME ObjectsFinite == IsFiniteSet(Object)
ASSUME OwnerType == owner \in [Object -> Thread]
ASSUME NestedBound == MaxNested \in Nat

VARIABLES
  reader_, read_count_, write_count_, reading_count_, writing_, pc,   \* as in RwMutex
  lock,     \* the lock objects
  using,    \* the object a thread waits with, {} or a singleton
  todo,     \* the UniqueRwLock whose destructor or assignment has still to call WriteUnlock, and the
            \* source of the assignment, {} or a singleton
  stray     \* history: writing_ was cleared under a writer by an object that was not writing

mutexVars == <<reader_, read_count_, write_count_, reading_count_, writing_>>
vars == <<mutexVars, pc, lock, using, todo, stray>>

Mutex == INSTANCE RwMutex

(* An object: its class (UniqueReadLock "read", UniqueWriteLock "write",   *)
(* UniqueRwLock "both"), whether mutex_ is set, and its counters.          *)
New(k) == [kind |-> k, mutex |-> TRUE, count |-> 0, reading |-> 0, writes |-> 0]
MovedFrom(l) == [New(l.kind) EXCEPT !.mutex = FALSE]
NoObject == [New("none") EXCEPT !.mutex = FALSE]

Monus(a, b) == IF a >= b THEN a - b ELSE 0

Idle(t) == pc[t] = "idle" /\ todo[t] = {}
Usable(t, o) == Idle(t) /\ owner[o] = t /\ lock[o].mutex

Goto(t, l) == pc' = [pc EXCEPT ![t] = l]
Become(o, l) == lock' = [lock EXCEPT ![o] = l]

Init ==
  /\ reader_ \in BOOLEAN /\ writing_ = FALSE
  /\ read_count_ = 0 /\ write_count_ = 0 /\ reading_count_ = 0
  /\ pc = [t \in Thread |-> "idle"]
  /\ lock = [o \in Object |-> NoObject]
  /\ using = [t \in Thread |-> {}] /\ todo = [t \in Thread |-> {}]
  /\ stray = FALSE

-----------------------------------------------------------------------------
(* The calls of the mutex that take the counters of an object l.           *)

\* Mutant: one lock is taken down from write_count_, however many are released.
MutantWrites(l, release) == IF l.writes > 0 THEN 1 ELSE 0
\* Mutant: whom to notify is decided before write_count_ goes down.
MutantWriteNext(l, n) ==
  IF l.writes = 0 THEN "idle" ELSE Mutex!WriteUnlockWakes(read_count_, write_count_)

\* ReadUnlock returns early: nothing to unlock.
KeepsRead(l) == read_count_ = 0 \/ l.count = 0 \/ l.reading > l.count

\* By how much write_count_ and the object's counter go down.
Writes(l, release) == IF release \/ l.writes = 0 THEN l.writes ELSE 1

\* The object after ReadUnlock.
ReadReleased(l, release) ==
  IF KeepsRead(l) THEN l
  ELSE IF release THEN [l EXCEPT !.count = 0, !.reading = 0]
  ELSE [l EXCEPT !.count = @ - 1, !.reading = Monus(@, 1)]

ReadUnlock(t, l, release) ==
  /\ IF KeepsRead(l)
     THEN UNCHANGED <<read_count_, reading_count_>> /\ Goto(t, "idle")
     ELSE /\ read_count_' = Monus(read_count_, IF release THEN l.count ELSE 1)
          /\ reading_count_' = Monus(reading_count_, IF release THEN l.reading ELSE 1)
          /\ Goto(t, IF Mutex!ReadUnlockWakes(read_count_', reading_count_', write_count_)
                     THEN "notifyWriter" ELSE "idle")
  /\ UNCHANGED <<reader_, write_count_, writing_, stray>>

WriteNext(l, n) ==
  IF l.writes = 0 THEN "idle" ELSE Mutex!WriteUnlockWakes(read_count_, Monus(write_count_, n))

\* writing_ is cleared first, whatever the object's counter says.
WriteUnlock(t, l, release) ==
  /\ writing_' = FALSE
  /\ stray' = (stray \/ (writing_ /\ l.writes = 0))
  /\ write_count_' = Monus(write_count_, Writes(l, release))
  /\ Goto(t, WriteNext(l, Writes(l, release)))
  /\ UNCHANGED <<reader_, read_count_, reading_count_>>

-----------------------------------------------------------------------------
(* The life of a lock object.                                              *)

\* A constructor with defer_lock; without it the first lock call follows.
Construct(t, o, k) ==
  /\ Idle(t) /\ owner[o] = t /\ lock[o].kind = "none"
  /\ Become(o, New(k))
  /\ UNCHANGED <<mutexVars, pc, using, todo, stray>>

ReadLock(t, o) ==
  /\ Usable(t, o) /\ lock[o].kind \in {"read", "both"} /\ lock[o].count < MaxNested
  /\ read_count_' = read_count_ + 1
  /\ IF Mutex!CanRead
     THEN /\ reading_count_' = reading_count_ + 1
          /\ Become(o, [lock[o] EXCEPT !.count = @ + 1, !.reading = @ + 1])
          /\ UNCHANGED <<pc, using>>
     ELSE /\ Become(o, [lock[o] EXCEPT !.count = @ + 1])
          /\ Goto(t, "readWait") /\ using' = [using EXCEPT ![t] = {o}]
          /\ UNCHANGED reading_count_
  /\ UNCHANGED <<reader_, write_count_, writing_, todo, stray>>

\* Mutant: a woken reader does not evaluate the predicate again.
MutantReadWake(t) ==
  /\ pc[t] = "readWoken"
  /\ reading_count_' = reading_count_ + 1
  /\ \E o \in using[t] : Become(o, [lock[o] EXCEPT !.reading = @ + 1])
  /\ Goto(t, "idle") /\ using' = [using EXCEPT ![t] = {}]
  /\ UNCHANGED <<reader_, read_count_, write_count_, writing_, todo, stray>>

ReadWake(t) ==
  /\ pc[t] = "readWoken"
  /\ \/ /\ Mutex!CanRead
        /\ reading_count_' = reading_count_ + 1
        /\ \E o \in using[t] : Become(o, [lock[o] EXCEPT !.reading = @ + 1])
        /\ Goto(t, "idle") /\ using' = [using EXCEPT ![t] = {}]
     \/ ~Mutex!CanRead /\ Goto(t, "readWait") /\ UNCHANGED <<reading_count_, lock, using>>
  /\ UNCHANGED <<reader_, read_count_, write_count_, writing_, todo, stray>>

WriteLock(t, o) ==
  /\ Usable(t, o) /\ lock[o].kind \in {"write", "both"} /\ lock[o].writes < MaxNested
  /\ write_count_' = write_count_ + 1
  /\ Become(o, [lock[o] EXCEPT !.writes = @ + 1])
  /\ IF Mutex!CanWrite
     THEN writing_' = TRUE /\ UNCHANGED <<pc, using>>
     ELSE Goto(t, "writeWait") /\ using' = [using EXCEPT ![t] = {o}] /\ UNCHANGED writing_
  /\ UNCHANGED <<reader_, read_count_, reading_count_, todo, stray>>

WriteWake(t) ==
  /\ pc[t] = "writeWoken"
  /\ \/ Mutex!CanWrite /\ writing_' = TRUE /\ Goto(t, "idle") /\ using' = [using EXCEPT ![t] = {}]
     \/ ~Mutex!CanWrite /\ Goto(t, "writeWait") /\ UNCHANGED <<writing_, using>>
  /\ UNCHANGED <<reader_, read_count_, write_count_, reading_count_, lock, todo, stray>>

\* Unlock, ReadUnlock and WriteUnlock of an object, held or not.
UnlockRead(t, o) ==
  /\ Usable(t, o) /\ lock[o].kind \in {"read", "both"}
  /\ ReadUnlock(t, lock[o], FALSE) /\ Become(o, ReadReleased(lock[o], FALSE))
  /\ UNCHANGED <<using, todo>>

UnlockWrite(t, o) ==
  /\ Usable(t, o) /\ lock[o].kind \in {"write", "both"}
  /\ WriteUnlock(t, lock[o], FALSE)
  /\ Become(o, [lock[o] EXCEPT !.writes = Monus(@, 1)])
  /\ UNCHANGED <<using, todo>>

(* The destructors of the three classes release all that is held; the last *)
(* one goes on with WriteUnlock once ReadUnlock has notified.              *)
DestroyRead(t, o) ==
  /\ Usable(t, o) /\ lock[o].kind = "read"
  /\ ReadUnlock(t, lock[o], TRUE) /\ Become(o, NoObject)
  /\ UNCHANGED <<using, todo>>

DestroyWrite(t, o) ==
  /\ Usable(t, o) /\ lock[o].kind = "write"
  /\ WriteUnlock(t, lock[o], TRUE) /\ Become(o, NoObject)
  /\ UNCHANGED <<using, todo>>

DestroyBoth(t, o) ==
  /\ Usable(t, o) /\ lock[o].kind = "both"
  /\ ReadUnlock(t, lock[o], TRUE) /\ Become(o, ReadReleased(lock[o], TRUE))
  /\ todo' = [todo EXCEPT ![t] = {[object |-> o, source |-> {}]}]
  /\ UNCHANGED using

\* The move constructor: the counters go with the mutex, the source is left without one.
MoveConstruct(t, o, p) ==
  /\ Idle(t) /\ owner[o] = t /\ owner[p] = t /\ lock[o].kind = "none" /\ lock[p].kind # "none"
  /\ lock' = [lock EXCEPT ![o] = lock[p], ![p] = MovedFrom(lock[p])]
  /\ UNCHANGED <<mutexVars, pc, using, todo, stray>>

(* Move assignment releases what the target holds, then takes the source   *)
(* over and leaves it without a mutex, also if it is the target itself.    *)
TakenOver(o, p) ==
  [lock EXCEPT ![o] = IF o = p THEN MovedFrom(lock[o]) ELSE lock[p], ![p] = MovedFrom(lock[p])]

MayAssign(t, o, p) ==
  Idle(t) /\ owner[o] = t /\ owner[p] = t /\ lock[o].kind = lock[p].kind

AssignRead(t, o, p) ==
  /\ MayAssign(t, o, p) /\ lock[o].kind = "read"
  /\ \/ lock[o].count > 0 /\ ReadUnlock(t, lock[o], TRUE)
     \/ lock[o].count = 0 /\ UNCHANGED <<mutexVars, pc, stray>>
  /\ lock' = TakenOver(o, p)
  /\ UNCHANGED <<using, todo>>

AssignWrite(t, o, p) ==
  /\ MayAssign(t, o, p) /\ lock[o].kind = "write"
  /\ \/ lock[o].writes > 0 /\ WriteUnlock(t, lock[o], TRUE)
     \/ lock[o].writes = 0 /\ UNCHANGED <<mutexVars, pc, stray>>
  /\ lock' = TakenOver(o, p)
  /\ UNCHANGED <<using, todo>>

\* A UniqueRwLock that reads and writes lets go of the first before it lets go of the second.
AssignBoth(t, o, p) ==
  /\ MayAssign(t, o, p) /\ lock[o].kind = "both"
  /\ \/ /\ lock[o].count > 0 /\ lock[o].writes > 0
        /\ ReadUnlock(t, lock[o], TRUE) /\ Become(o, ReadReleased(lock[o], TRUE))
        /\ todo' = [todo EXCEPT ![t] = {[object |-> o, source |-> {p}]}]
     \/ /\ lock[o].count > 0 /\ lock[o].writes = 0 /\ ReadUnlock(t, lock[o], TRUE)
        /\ lock' = TakenOver(o, p) /\ UNCHANGED todo
     \/ /\ lock[o].count = 0 /\ lock[o].writes > 0 /\ WriteUnlock(t, lock[o], TRUE)
        /\ lock' = TakenOver(o, p) /\ UNCHANGED todo
     \/ /\ lock[o].count = 0 /\ lock[o].writes = 0 /\ UNCHANGED <<mutexVars, pc, stray>>
        /\ lock' = TakenOver(o, p) /\ UNCHANGED todo
  /\ UNCHANGED using

\* The WriteUnlock that a destructor or an assignment has still to call, and what follows it.
WriteRest(t) ==
  /\ pc[t] = "idle"
  /\ \E d \in todo[t] :
       /\ WriteUnlock(t, lock[d.object], TRUE)
       /\ IF d.source = {} THEN Become(d.object, NoObject)
          ELSE \E p \in d.source : lock' = TakenOver(d.object, p)
  /\ todo' = [todo EXCEPT ![t] = {}]
  /\ UNCHANGED using

\* Any other use of an object that was moved from, its destructor included, dereferences a null mutex_:
\* undefined, and the model leaves the thread there.
UseMovedFrom(t, o) ==
  /\ Idle(t) /\ owner[o] = t /\ lock[o].kind # "none" /\ ~lock[o].mutex
  /\ Goto(t, "undefined")
  /\ UNCHANGED <<mutexVars, lock, using, todo, stray>>

\* A notify after the mutex was released, or a wait that ends on its own.
NotifyOrSpurious(t) ==
  /\ Mutex!NotifyWriter(t) \/ Mutex!NotifyReaders(t) \/ Mutex!SpuriousWakeup(t)
  /\ UNCHANGED <<lock, using, todo, stray>>

Next ==
  \E t \in Thread :
    \/ ReadWake(t) \/ WriteWake(t) \/ WriteRest(t) \/ NotifyOrSpurious(t)
    \/ \E o \in Object :
         \/ \E k \in {"read", "write", "both"} : Construct(t, o, k)
         \/ ReadLock(t, o) \/ WriteLock(t, o) \/ UnlockRead(t, o) \/ UnlockWrite(t, o)
         \/ DestroyRead(t, o) \/ DestroyWrite(t, o) \/ DestroyBoth(t, o) \/ UseMovedFrom(t, o)
         \/ \E p \in Object : \/ MoveConstruct(t, o, p)
                            \/ AssignRead(t, o, p) \/ AssignWrite(t, o, p) \/ AssignBoth(t, o, p)

Spec == Init /\ [][Next]_vars

-----------------------------------------------------------------------------
\* A part of CountersAddUp.
TypeOK ==
  /\ reader_ \in BOOLEAN /\ writing_ \in BOOLEAN /\ stray \in BOOLEAN
  /\ read_count_ \in Nat /\ write_count_ \in Nat /\ reading_count_ \in Nat
  /\ pc \in [Thread -> (Mutex!PC \ {"reading", "writing"}) \cup {"undefined"}]
  /\ lock \in [Object -> [kind : {"none", "read", "write", "both"}, mutex : BOOLEAN,
                          count : 0..MaxNested, reading : 0..MaxNested, writes : 0..MaxNested]]
  /\ using \in [Thread -> SUBSET Object] /\ todo \in [Thread -> SUBSET [object : Object, source : SUBSET Object]]

\* The sum of the numbers f[o], counted one by one.
Total(f) == Cardinality({u \in Object \X (1..MaxNested) : u[2] <= f[u[1]]})

(* However the objects are locked, unlocked, moved and destroyed, held or  *)
(* not, the mutex's counters are the sums of theirs: the early returns,    *)
(* the release of several locks at once and the moves lose none and count  *)
(* none twice.                                                             *)
CountersAddUp ==
  /\ TypeOK
  /\ read_count_ = Total([o \in Object |-> lock[o].count])
  /\ reading_count_ = Total([o \in Object |-> lock[o].reading])
  /\ write_count_ = Total([o \in Object |-> lock[o].writes])

WaitsToWrite(t) == pc[t] \in {"writeWait", "writeWoken"}
Pending(o) == Cardinality({t \in Thread : WaitsToWrite(t) /\ o \in using[t]})
Writing(o) == lock[o].writes > Pending(o)

(* A writer is alone, until WriteUnlock runs for an object that does not   *)
(* write while another one does: the destructor of a deferred              *)
(* UniqueWriteLock or of a UniqueRwLock that was reading is enough.        *)
ExclusionUntilStray ==
  ~stray => \A o, p \in Object : Writing(o) => lock[p].reading = 0 /\ (p # o => ~Writing(p))

(* Until then no wakeup is lost either, although WriteUnlock may return    *)
(* without a notify.                                                       *)
WakeupsKeptUntilStray == ~stray => Mutex!NoLostReaderWakeup /\ Mutex!NoLostWriterWakeup

Holds(t) == \E o \in Object : owner[o] = t /\ (lock[o].reading > 0 \/ Writing(o))

(* All threads wait for the mutex at once only if one of them holds it     *)
(* itself, as a thread that reads and locks for reading again while a      *)
(* preferred writer waits: nothing but a nested lock makes a deadlock,     *)
(* until a stray unlock.                                                   *)
DeadlockNeedsNesting ==
  ~stray /\ (\A t \in Thread : pc[t] \in {"readWait", "writeWait"}) => \E t \in Thread : Holds(t)
=============================================================================
