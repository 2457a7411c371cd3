-------------------------- MODULE BenchmarkProofs --------------------------
(***************************************************************************)
(* Proofs about the spinlock and about the benchmark that uses it.  First  *)
(* SpinLock by itself, for any guards, each used by one thread: the        *)
(* invariant says what a guard that has the lock means for lock_ and       *)
(* lockedBy, and where a thread in a call is.  Then TestRwlock: what the   *)
(* lock of the current section says about its threads, that the other      *)
(* locks are as an unused lock is, and that only the main thread is there  *)
(* when the tasks are not.                                                 *)
(***************************************************************************)
EXTENDS LockBenchmark, FiniteSetTheorems, TLAPS

CONSTANTS Guard, maker, users    \* any guards on the spinlock, as in SpinLock
Guards == INSTANCE SpinLock

GuardLabels == {"idle", "exchange", "spin", "mark", "store", "unmark", "lastStore"}

GuardTyped ==
  /\ lock_ \in BOOLEAN
  /\ is_locked \in [Guard -> BOOLEAN]
  /\ alive \subseteq Guard
  /\ pc \in [Thread -> GuardLabels]
  /\ using \in [Thread -> SUBSET Guard]

\* A thread in a call is in a call of one of its own guards.
CallsOwnGuard ==
  \A t \in Thread :
    IF pc[t] = "idle" THEN using[t] = {} ELSE \E g \in Guard : using[t] = {g} /\ maker[g] = t

\* A guard that is being destroyed is no longer alive.
Dying == \A t \in Thread : pc[t] = "lastStore" => using[t] \cap alive = {}

HolderLocked == \A g \in Guard : Guards!Holding(g) => lock_ = TRUE /\ lockedBy = {g}

GuardInv == GuardTyped /\ CallsOwnGuard /\ Dying /\ HolderLocked

\* Init establishes the invariant.
LEMMA GuardInit == ASSUME Guards!OneUser, Guards!Init PROVE GuardInv
BY DEF Guards!OneUser, Guards!Init, GuardInv, GuardTyped, GuardLabels, CallsOwnGuard, Dying, HolderLocked, Guards!Holding

\* Constructors, and Lock and Unlock up to what they find in is_locked.
LEMMA CallHolds ==
  ASSUME Guards!OneUser, GuardInv, NEW t \in Thread, NEW g \in Guard,
         Guards!Construct(t, g) \/ Guards!Lock(t, g) \/ Guards!Unlock(t, g)
  PROVE  GuardInv'
<1> USE DEF Guards!OneUser, GuardInv, GuardTyped, GuardLabels, Guards!Call
<1>1. maker[g] = t /\ using[t] = {} /\ pc[t] = "idle"
  BY DEF Guards!Construct, Guards!Lock, Guards!Unlock, CallsOwnGuard
<1>2. GuardTyped'
  <2>1. is_locked' \in [Guard -> BOOLEAN] /\ lock_' \in BOOLEAN /\ alive' \subseteq Guard
    BY DEF Guards!Construct, Guards!Lock, Guards!Unlock
  <2>2. pc' \in [Thread -> GuardLabels] /\ using' \in [Thread -> SUBSET Guard]
    BY DEF Guards!Construct, Guards!Lock, Guards!Unlock
  <2> QED BY <2>1, <2>2
<1>3. CallsOwnGuard'
  BY <1>1, <1>2 DEF Guards!Construct, Guards!Lock, Guards!Unlock, CallsOwnGuard
<1>4. Dying'
  BY <1>1, <1>2 DEF Guards!Construct, Guards!Lock, Guards!Unlock, Dying
<1>5. ASSUME NEW h \in Guard, Guards!Holding(h)' PROVE Guards!Holding(h)
  <2>1. CASE h = g
    BY <1>1, <1>5, <2>1 DEF Guards!Construct, Guards!Lock, Guards!Unlock, Guards!Holding
  <2>2. CASE h # g /\ maker[h] = t
    BY <1>1, <1>5, <2>2 DEF Guards!Construct, Guards!Lock, Guards!Unlock, Guards!Holding
  <2>3. CASE maker[h] # t
    BY <1>1, <1>5, <2>3 DEF Guards!Construct, Guards!Lock, Guards!Unlock, Guards!Holding
  <2> QED BY <2>1, <2>2, <2>3, <1>1
<1>6. HolderLocked'
  BY <1>5 DEF Guards!Construct, Guards!Lock, Guards!Unlock, HolderLocked
<1> QED BY <1>2, <1>3, <1>4, <1>6

\* The destructor's test.
LEMMA DestroyHolds ==
  ASSUME Guards!OneUser, GuardInv, NEW t \in Thread, NEW g \in Guard,
         Guards!DestroyLocked(t, g) \/ Guards!DestroyUnlocked(t, g)
  PROVE  GuardInv'
<1> USE DEF Guards!OneUser, GuardInv, GuardTyped, GuardLabels, Guards!Call
<1>1. maker[g] = t /\ using[t] = {} /\ pc[t] = "idle"
  BY DEF Guards!DestroyLocked, Guards!DestroyUnlocked, CallsOwnGuard
<1>2. GuardTyped'
  BY DEF Guards!DestroyLocked, Guards!DestroyUnlocked
<1>3. CallsOwnGuard'
  BY <1>1, <1>2 DEF Guards!DestroyLocked, Guards!DestroyUnlocked, CallsOwnGuard
<1>4. Dying'
  BY <1>1, <1>2 DEF Guards!DestroyLocked, Guards!DestroyUnlocked, Dying
<1>5. ASSUME NEW h \in Guard, Guards!Holding(h)' PROVE Guards!Holding(h)
  <2>1. CASE h = g
    BY <1>1, <1>5, <2>1 DEF Guards!DestroyLocked, Guards!DestroyUnlocked, Guards!Holding
  <2>2. CASE h # g
    BY <1>1, <1>5, <2>2 DEF Guards!DestroyLocked, Guards!DestroyUnlocked, Guards!Holding
  <2> QED BY <2>1, <2>2
<1>6. HolderLocked'
  BY <1>5 DEF Guards!DestroyLocked, Guards!DestroyUnlocked, HolderLocked
<1> QED BY <1>2, <1>3, <1>4, <1>6

\* The exchange that takes the lock finds it free, so no guard has it.
LEMMA ExchangeHolds ==
  ASSUME Guards!OneUser, GuardInv, NEW t \in Thread, Guards!Exchange(t) PROVE GuardInv'
<1> USE DEF Guards!OneUser, GuardInv, GuardTyped, GuardLabels, Guards!Goto, Guards!Exchange
<1>1. PICK g \in Guard : using[t] = {g} /\ maker[g] = t
  BY DEF CallsOwnGuard
<1>2. GuardTyped' /\ CallsOwnGuard' /\ Dying'
  BY DEF CallsOwnGuard, Dying
<1>3. CASE lock_
  <2>1. ASSUME NEW h \in Guard, Guards!Holding(h)' PROVE Guards!Holding(h)
    BY <1>1, <1>3, <2>1 DEF Guards!Holding
  <2> QED BY <1>2, <1>3, <2>1 DEF HolderLocked
<1>4. CASE ~lock_
  <2>1. ASSUME NEW h \in Guard, Guards!Holding(h)' PROVE h = g
    BY <1>1, <1>4, <2>1 DEF Guards!Holding, HolderLocked
  <2> QED BY <1>1, <1>2, <1>4, <2>1 DEF HolderLocked
<1> QED BY <1>3, <1>4

\* What follows the exchange changes no holder.
LEMMA AfterExchangeHolds ==
  ASSUME Guards!OneUser, GuardInv, NEW t \in Thread, Guards!Spin(t) \/ Guards!Mark(t) PROVE GuardInv'
<1> USE DEF Guards!OneUser, GuardInv, GuardTyped, GuardLabels, Guards!Goto, Guards!Return
<1>1. PICK g \in Guard : using[t] = {g} /\ maker[g] = t
  BY DEF Guards!Spin, Guards!Mark, CallsOwnGuard
<1>2. GuardTyped'
  <2>1. is_locked' \in [Guard -> BOOLEAN]
    BY Zenon DEF Guards!Spin, Guards!Mark, Guards!spinVars
  <2>2. lock_' \in BOOLEAN /\ alive' \subseteq Guard
    BY <1>1 DEF Guards!Spin, Guards!Mark, Guards!spinVars
  <2>3. pc' \in [Thread -> GuardLabels] /\ using' \in [Thread -> SUBSET Guard]
    BY <1>1 DEF Guards!Spin, Guards!Mark, Guards!spinVars
  <2> QED BY <2>1, <2>2, <2>3
<1>3. CallsOwnGuard'
  BY DEF Guards!Spin, Guards!Mark, Guards!spinVars, CallsOwnGuard
<1>4. Dying'
  <2>1. ASSUME NEW u \in Thread, pc'[u] = "lastStore" PROVE using'[u] \cap alive' = {}
    <3>1. u # t /\ pc[u] = "lastStore" /\ using'[u] = using[u] /\ using[u] \cap alive = {}
      BY <2>1 DEF Guards!Spin, Guards!Mark, Guards!spinVars, Dying
    <3>2. PICK h \in Guard : using[u] = {h} /\ maker[h] = u
      BY <3>1 DEF CallsOwnGuard
    <3> QED BY <1>1, <3>1, <3>2 DEF Guards!Spin, Guards!Mark, Guards!spinVars
  <2> QED BY <2>1 DEF Dying
<1>5. ASSUME NEW h \in Guard, Guards!Holding(h)' PROVE Guards!Holding(h)
  <2>1. CASE h = g
    BY <1>1, <1>5, <2>1 DEF Guards!Spin, Guards!Mark, Guards!spinVars, Guards!Holding
  <2>2. CASE h # g
    BY <1>1, <1>5, <2>2 DEF Guards!Spin, Guards!Mark, Guards!spinVars, Guards!Holding
  <2> QED BY <2>1, <2>2
<1> QED BY <1>2, <1>3, <1>4, <1>5 DEF Guards!Spin, Guards!Mark, Guards!spinVars, HolderLocked

\* The stores release the lock of the guard that has it; then nobody has it.
LEMMA ReleaseHolds ==
  ASSUME Guards!OneUser, GuardInv, NEW t \in Thread, Guards!Store(t) \/ Guards!Unmark(t) \/ Guards!LastStore(t) PROVE GuardInv'
<1> USE DEF Guards!OneUser, GuardInv, GuardTyped, GuardLabels, Guards!Goto, Guards!Return
<1>1. PICK g \in Guard : using[t] = {g} /\ maker[g] = t
  BY DEF Guards!Store, Guards!Unmark, Guards!LastStore, CallsOwnGuard
<1>2. GuardTyped'
  <2>1. is_locked' \in [Guard -> BOOLEAN]
    BY Zenon DEF Guards!Store, Guards!Unmark, Guards!LastStore
  <2>2. lock_' \in BOOLEAN /\ alive' \subseteq Guard
    BY DEF Guards!Store, Guards!Unmark, Guards!LastStore
  <2>3. pc' \in [Thread -> GuardLabels] /\ using' \in [Thread -> SUBSET Guard]
    BY DEF Guards!Store, Guards!Unmark, Guards!LastStore
  <2> QED BY <2>1, <2>2, <2>3
<1>3. CallsOwnGuard' /\ Dying'
  BY DEF Guards!Store, Guards!Unmark, Guards!LastStore, CallsOwnGuard, Dying
<1>4. ASSUME NEW h \in Guard, Guards!Holding(h)' PROVE Guards!Holding(h) /\ h # g
  <2>1. h # g
    BY <1>1, <1>4 DEF Guards!Store, Guards!Unmark, Guards!LastStore, Dying, Guards!Holding
  <2>2. Guards!Holding(h)
    BY <1>1, <1>4, <2>1 DEF Guards!Store, Guards!Unmark, Guards!LastStore, Guards!Holding
  <2> QED BY <2>1, <2>2
<1>5. CASE Guards!Unmark(t)
  BY <1>2, <1>3, <1>4, <1>5 DEF Guards!Unmark, HolderLocked
<1>6. CASE Guards!Store(t) \/ Guards!LastStore(t)
  <2>1. Guards!Holding(g)
    BY <1>1, <1>6 DEF Guards!Store, Guards!LastStore, Guards!Holding
  <2>2. \A h \in Guard : ~Guards!Holding(h)'
    BY <2>1, <1>4 DEF HolderLocked
  <2> QED BY <1>2, <1>3, <2>2 DEF HolderLocked
<1> QED BY <1>5, <1>6

\* Every step preserves the invariant.
LEMMA GuardNext == ASSUME Guards!OneUser, GuardInv, [Guards!Next]_(Guards!vars) PROVE GuardInv'
<1>1. CASE UNCHANGED Guards!vars
  BY <1>1 DEF Guards!vars, Guards!spinVars, GuardInv, GuardTyped, CallsOwnGuard, Dying, HolderLocked, Guards!Holding
<1>2. CASE Guards!Next
  BY <1>2, CallHolds, DestroyHolds, ExchangeHolds, AfterExchangeHolds, ReleaseHolds DEF Guards!Next
<1> QED BY <1>1, <1>2

\* The invariant holds in every behaviour.
LEMMA GuardInvariance == ASSUME Guards!OneUser PROVE Guards!Spec => []GuardInv
<1>1. Guards!Init => GuardInv
  BY GuardInit
<1>2. GuardInv /\ [Guards!Next]_(Guards!vars) => GuardInv'
  BY GuardNext
<1> QED BY <1>1, <1>2, PTL DEF Guards!Spec

-----------------------------------------------------------------------------
(* Of all the guards on a SpinLock at most one has it, however many there  *)
(* are and in whatever order they lock, unlock and die.                    *)
THEOREM Exclusion == ASSUME Guards!OneUser PROVE Guards!Spec => []Guards!GuardsExclude
<1>1. GuardInv => Guards!GuardsExclude
  BY DEF GuardInv, HolderLocked, Guards!GuardsExclude
<1> QED BY <1>1, GuardInvariance, PTL

(* Unlock and the destructor release the lock only when their own guard    *)
(* has it, although they look at is_locked and not at lock_.               *)
THEOREM OwnUnlocks == ASSUME Guards!OneUser PROVE Guards!Spec => Guards!UnlocksOnlyItsOwn
<1>1. GuardInv /\ [Guards!Next]_(Guards!vars) =>
        [\A t \in Thread :
           pc[t] \in {"store", "lastStore"} /\ pc'[t] # pc[t] => lock_ /\ lockedBy = using[t]]_(Guards!vars)
  <2> SUFFICES ASSUME GuardInv, NEW t \in Thread, pc[t] \in {"store", "lastStore"}
               PROVE  lock_ /\ lockedBy = using[t]
    OBVIOUS
  <2>1. PICK g \in Guard : using[t] = {g} /\ maker[g] = t
    BY DEF GuardInv, CallsOwnGuard
  <2> QED BY <2>1 DEF GuardInv, HolderLocked, Guards!Holding
<1> QED BY <1>1, GuardInvariance, PTL DEF Guards!Spec, Guards!UnlocksOnlyItsOwn

-----------------------------------------------------------------------------
(* The benchmark.                                                          *)

SpinLabels == {"exchange", "spin", "mark", "lastStore"}

Typed ==
  /\ section \in 1..5 /\ phase \in {"read", "write", "mixed", "over"}
  /\ left \in [Thread -> 0..test_time]
  /\ holds \in [Thread -> {"none", "read", "write"}]
  /\ pc \in [Thread -> Mutex!PC \cup SpinLabels]
  /\ reader_ = FALSE /\ writing_ \in BOOLEAN
  /\ read_count_ \in Nat /\ write_count_ \in Nat /\ reading_count_ \in Nat
  /\ lock_ \in BOOLEAN /\ alive \subseteq Thread /\ using \in [Thread -> SUBSET Thread]

Count(P) == Cardinality({t \in Thread : pc[t] \in P})

\* RwMutex in its section: the main thread is the only one that writes.
MutexUsed ==
  /\ \A t \in Thread : pc[t] \in Mutex!PC
  /\ \A t \in Reader : pc[t] \notin Mutex!WriteSide
  /\ read_count_ = Count(Mutex!ReadSide) /\ reading_count_ = Count({"reading"})
  /\ write_count_ = IF pc[Main] \in Mutex!WriteSide THEN 1 ELSE 0
  /\ writing_ = (pc[Main] = "writing")
  /\ writing_ = TRUE => \A t \in Thread : pc[t] # "reading"

MutexOk ==
  /\ reader_ = FALSE /\ writing_ \in BOOLEAN /\ pc \in [Thread -> Mutex!PC]
  /\ read_count_ \in Nat /\ write_count_ \in Nat /\ reading_count_ \in Nat
  /\ MutexUsed

\* In the other sections nobody is in it.
MutexFree ==
  /\ \A t \in Thread : pc[t] \in SpinLabels \cup {"idle"}
  /\ read_count_ = 0 /\ reading_count_ = 0 /\ write_count_ = 0 /\ writing_ = FALSE

\* A thread whose guard has the spinlock.
Has(t) == t \in alive \/ pc[t] \in {"mark", "lastStore"}

SpinUsed ==
  /\ \A t \in Thread : pc[t] \in SpinLabels \cup {"idle"}
  /\ \A t \in Thread : using[t] = IF pc[t] = "idle" THEN {} ELSE {t}
  /\ \A t \in alive : pc[t] = "idle"
  /\ \A t \in Thread : Has(t) => lock_ = TRUE /\ lockedBy = {t}
  /\ lock_ = TRUE => \E t \in Thread : Has(t)

SpinOk ==
  /\ lock_ \in BOOLEAN /\ alive \subseteq Thread /\ using \in [Thread -> SUBSET Thread]
  /\ pc \in [Thread -> SpinLabels \cup {"idle"}]
  /\ SpinUsed

SpinFree ==
  /\ \A t \in Thread : pc[t] \in Mutex!PC /\ using[t] = {}
  /\ lock_ = FALSE /\ alive = {}

\* The external locks keep their holders apart.
Held ==
  IF Now \in {"RwMutex", "SpinLock"} THEN \A t \in Thread : holds[t] = "none"
  ELSE \A t, u \in Thread : t # u /\ holds[t] = "write" => holds[u] = "none"

\* The tasks are there in the mixed phase only.
Alone == phase # "mixed" => \A t \in Reader : left[t] = 0 /\ Between(t)

IInv ==
  /\ Typed /\ Held /\ Alone
  /\ IF Now = "RwMutex" THEN MutexUsed ELSE MutexFree
  /\ IF Now = "SpinLock" THEN SpinUsed ELSE SpinFree

-----------------------------------------------------------------------------
(* The mutex.                                                              *)

LEMMA ThreadsFinite == IsFiniteSet(Thread) /\ Main \in Thread /\ \A t \in Thread : t \in Reader \/ t = Main
BY ReadersFinite, FS_AddElement DEF Thread

\* How a count changes when one thread moves.
LEMMA CountMoves ==
  ASSUME NEW S, pc \in [Thread -> S], NEW t \in Thread, NEW l, pc' = [pc EXCEPT ![t] = l], NEW P
  PROVE  Count(P)' = Count(P) + (IF l \in P THEN 1 ELSE 0) - (IF pc[t] \in P THEN 1 ELSE 0)
<1> DEFINE F == {u \in Thread : pc[u] \in P}
           G == {u \in Thread : pc'[u] \in P}
<1>1. IsFiniteSet(F) /\ Cardinality(F) \in Nat
  BY ThreadsFinite, FS_Subset, FS_CardinalityType
<1>2. G = IF l \in P THEN F \cup {t} ELSE F \ {t}
  OBVIOUS
<1>3. t \in F <=> pc[t] \in P
  OBVIOUS
<1>4. Count(P)' = Cardinality(G) /\ Count(P) = Cardinality(F)
  BY DEF Count
<1> HIDE DEF F, G
<1>5. Cardinality(F \cup {t}) = IF t \in F THEN Cardinality(F) ELSE Cardinality(F) + 1
  BY <1>1, FS_AddElement
<1>6. Cardinality(F \ {t}) = IF t \in F THEN Cardinality(F) - 1 ELSE Cardinality(F)
  BY <1>1, FS_RemoveElement
<1> QED BY <1>1, <1>2, <1>3, <1>4, <1>5, <1>6

LEMMA CountKept ==
  ASSUME NEW P, \A t \in Thread : pc'[t] \in P <=> pc[t] \in P
  PROVE  Count(P)' = Count(P)
BY DEF Count

LEMMA CountIs ==
  ASSUME NEW P
  PROVE  Count(P) \in Nat /\ (Count(P) = 0 <=> \A t \in Thread : pc[t] \notin P)
<1> DEFINE F == {u \in Thread : pc[u] \in P}
<1>1. IsFiniteSet(F) /\ Cardinality(F) \in Nat
  BY ThreadsFinite, FS_Subset, FS_CardinalityType
<1>2. Cardinality(F) = 0 <=> F = {}
  BY <1>1, FS_EmptySet
<1> QED BY <1>1, <1>2 DEF Count

LEMMA MutexReadLock ==
  ASSUME MutexOk, NEW t \in Thread, Mutex!ReadLock(t) \/ Mutex!ReadWake(t)
  PROVE  MutexOk'
<1> USE DEF MutexOk, MutexUsed
<1>1. PICK l \in {"reading", "readWait"} : pc' = [pc EXCEPT ![t] = l] /\ (l = "reading" <=> Mutex!CanRead')
  BY DEF Mutex!ReadLock, Mutex!ReadWake, Mutex!Goto, Mutex!CanRead
<1>2. pc[t] \in {"idle", "readWoken"} /\ UNCHANGED <<reader_, write_count_, writing_>>
  BY DEF Mutex!ReadLock, Mutex!ReadWake
<1>3. reading_count_' = IF l = "reading" THEN reading_count_ + 1 ELSE reading_count_
  BY <1>1 DEF Mutex!ReadLock, Mutex!ReadWake, Mutex!Goto, Mutex!CanRead
<1>4. read_count_' = IF pc[t] = "idle" THEN read_count_ + 1 ELSE read_count_
  BY DEF Mutex!ReadLock, Mutex!ReadWake
<1>5. pc' \in [Thread -> Mutex!PC]
  BY <1>1 DEF Mutex!PC
<1>6. read_count_' = Count(Mutex!ReadSide)'
  <2>1. Count(Mutex!ReadSide)' = Count(Mutex!ReadSide) + (IF l \in Mutex!ReadSide THEN 1 ELSE 0) - (IF pc[t] \in Mutex!ReadSide THEN 1 ELSE 0)
    BY <1>1, CountMoves
  <2>2. l \in Mutex!ReadSide /\ (pc[t] \in Mutex!ReadSide <=> pc[t] # "idle")
    BY <1>1, <1>2 DEF Mutex!ReadSide
  <2> QED BY <1>4, <2>1, <2>2
<1>7. reading_count_' = Count({"reading"})'
  <2>1. Count({"reading"})' = Count({"reading"}) + (IF l \in {"reading"} THEN 1 ELSE 0) - (IF pc[t] \in {"reading"} THEN 1 ELSE 0)
    BY <1>1, CountMoves
  <2> QED BY <1>1, <1>2, <1>3, <2>1
<1>8. /\ \A u \in Reader : pc'[u] \notin Mutex!WriteSide
      /\ pc'[Main] \in Mutex!WriteSide <=> pc[Main] \in Mutex!WriteSide
      /\ pc'[Main] = "writing" <=> pc[Main] = "writing"
  BY <1>1, <1>2, ThreadsFinite DEF Mutex!WriteSide
<1>9. writing_' = TRUE => \A u \in Thread : pc'[u] # "reading"
  <2>1. writing_ = TRUE => write_count_ = 1
    BY DEF Mutex!WriteSide
  <2>2. l = "reading" => write_count_ = 0
    BY <1>1, <1>2 DEF Mutex!CanRead
  <2> QED BY <1>1, <1>2, <2>1, <2>2
<1>10. read_count_' \in Nat /\ reading_count_' \in Nat
  BY <1>3, <1>4
<1>11. writing_' = (pc'[Main] = "writing") /\ write_count_' = IF pc'[Main] \in Mutex!WriteSide THEN 1 ELSE 0
  BY <1>2, <1>8
<1> QED BY <1>2, <1>5, <1>6, <1>7, <1>8, <1>9, <1>10, <1>11

LEMMA MutexReadUnlock ==
  ASSUME MutexOk, NEW t \in Thread, Mutex!ReadUnlock(t)
  PROVE  MutexOk'
<1> USE DEF MutexOk, MutexUsed
<1>1. pc[t] = "reading" /\ UNCHANGED <<reader_, write_count_, writing_>>
  BY DEF Mutex!ReadUnlock
<1>2. read_count_ > 0 /\ reading_count_ > 0
  <2>1. Count(Mutex!ReadSide) # 0 /\ Count({"reading"}) # 0
    BY <1>1, CountIs DEF Mutex!ReadSide
  <2> QED BY <2>1
<1>3. PICK l \in {"idle", "notifyWriter"} : pc' = [pc EXCEPT ![t] = l]
  BY <1>2 DEF Mutex!ReadUnlock, Mutex!Goto
<1>4. read_count_' = read_count_ - 1 /\ reading_count_' = reading_count_ - 1
  BY <1>2 DEF Mutex!ReadUnlock
<1>5. pc' \in [Thread -> Mutex!PC]
  BY <1>3 DEF Mutex!PC
<1>6. read_count_' = Count(Mutex!ReadSide)'
  <2>1. Count(Mutex!ReadSide)' = Count(Mutex!ReadSide) + (IF l \in Mutex!ReadSide THEN 1 ELSE 0) - (IF pc[t] \in Mutex!ReadSide THEN 1 ELSE 0)
    BY <1>3, CountMoves
  <2>2. l \notin Mutex!ReadSide /\ pc[t] \in Mutex!ReadSide
    BY <1>1, <1>3 DEF Mutex!ReadSide
  <2> QED BY <1>4, <2>1, <2>2
<1>7. reading_count_' = Count({"reading"})'
  <2>1. Count({"reading"})' = Count({"reading"}) + (IF l \in {"reading"} THEN 1 ELSE 0) - (IF pc[t] \in {"reading"} THEN 1 ELSE 0)
    BY <1>3, CountMoves
  <2> QED BY <1>1, <1>3, <1>4, <2>1
<1>8. /\ \A u \in Reader : pc'[u] \notin Mutex!WriteSide
      /\ pc'[Main] \in Mutex!WriteSide <=> pc[Main] \in Mutex!WriteSide
      /\ pc'[Main] = "writing" <=> pc[Main] = "writing"
  BY <1>1, <1>3, ThreadsFinite DEF Mutex!WriteSide
<1>9. writing_' = TRUE => \A u \in Thread : pc'[u] # "reading"
  BY <1>1, <1>3
<1>10. read_count_' \in Nat /\ reading_count_' \in Nat
  BY <1>2, <1>4
<1>11. writing_' = (pc'[Main] = "writing") /\ write_count_' = IF pc'[Main] \in Mutex!WriteSide THEN 1 ELSE 0
  BY <1>1, <1>8
<1> QED BY <1>1, <1>5, <1>6, <1>7, <1>8, <1>9, <1>10, <1>11

\* The main thread alone writes.
LEMMA MutexWriteLock ==
  ASSUME MutexOk, NEW t \in Thread, (Mutex!WriteLock(t) /\ t = Main) \/ Mutex!WriteWake(t)
  PROVE  MutexOk'
<1> USE DEF MutexOk, MutexUsed
<1>1. PICK l \in {"writing", "writeWait"} : pc' = [pc EXCEPT ![t] = l] /\ (l = "writing" <=> Mutex!CanWrite)
  BY DEF Mutex!WriteLock, Mutex!WriteWake, Mutex!Goto, Mutex!CanWrite
<1>2. pc[t] \in {"idle", "writeWoken"} /\ UNCHANGED <<reader_, read_count_, reading_count_>>
  BY DEF Mutex!WriteLock, Mutex!WriteWake
<1>3. t = Main
  BY ThreadsFinite DEF Mutex!WriteWake, Mutex!WriteSide
<1>4. writing_' = (l = "writing")
  <2>1. writing_ = FALSE
    BY <1>2, <1>3
  <2> QED BY <1>1, <2>1 DEF Mutex!WriteLock, Mutex!WriteWake
<1>5. write_count_' = 1
  BY <1>2, <1>3 DEF Mutex!WriteLock, Mutex!WriteWake, Mutex!WriteSide
<1>6. pc' \in [Thread -> Mutex!PC] /\ pc'[Main] = l /\ \A u \in Reader : pc'[u] = pc[u]
  BY <1>1, <1>3, ThreadsFinite, MainIsNoReader DEF Mutex!PC, Thread
<1>7. Count(Mutex!ReadSide)' = Count(Mutex!ReadSide)
  <2>1. \A u \in Thread : pc'[u] \in Mutex!ReadSide <=> pc[u] \in Mutex!ReadSide
    BY <1>1, <1>2 DEF Mutex!ReadSide
  <2> QED BY <2>1, CountKept
<1>8. Count({"reading"})' = Count({"reading"})
  <2>1. \A u \in Thread : pc'[u] \in {"reading"} <=> pc[u] \in {"reading"}
    BY <1>1, <1>2
  <2> QED BY <2>1, CountKept
<1>9. writing_' = TRUE => \A u \in Thread : pc'[u] # "reading"
  <2>1. l = "writing" => Count({"reading"}) = 0
    BY <1>1 DEF Mutex!CanWrite
  <2>2. l = "writing" => \A u \in Thread : pc[u] # "reading"
    BY <2>1, CountIs
  <2> QED BY <1>1, <1>4, <2>2
<1>10. write_count_' \in Nat /\ writing_' \in BOOLEAN
  BY <1>4, <1>5
<1>11. \A u \in Thread : pc'[u] \in Mutex!PC
  BY <1>6
<1>12. pc'[Main] \in Mutex!WriteSide /\ \A u \in Reader : pc'[u] \notin Mutex!WriteSide
  BY <1>6 DEF Mutex!WriteSide
<1>13. writing_' = (pc'[Main] = "writing") /\ write_count_' = IF pc'[Main] \in Mutex!WriteSide THEN 1 ELSE 0
  BY <1>4, <1>5, <1>6, <1>12
<1> QED BY <1>2, <1>6, <1>7, <1>8, <1>9, <1>10, <1>11, <1>12, <1>13

LEMMA MutexWriteUnlock ==
  ASSUME MutexOk, NEW t \in Thread, Mutex!WriteUnlock(t)
  PROVE  MutexOk'
<1> USE DEF MutexOk, MutexUsed
<1>1. pc[t] = "writing" /\ writing_' = FALSE /\ UNCHANGED <<reader_, read_count_, reading_count_>>
  BY DEF Mutex!WriteUnlock
<1>2. PICK l \in {"idle", "notifyReaders", "notifyWriter"} : pc' = [pc EXCEPT ![t] = l]
  BY DEF Mutex!WriteUnlock, Mutex!Goto, Mutex!WriteUnlockWakes
<1>3. t = Main
  BY <1>1, ThreadsFinite DEF Mutex!WriteSide
<1>4. write_count_' = 0
  BY <1>1, <1>3 DEF Mutex!WriteUnlock, Mutex!WriteSide
<1>6. pc' \in [Thread -> Mutex!PC] /\ pc'[Main] = l /\ \A u \in Reader : pc'[u] = pc[u]
  BY <1>2, <1>3, ThreadsFinite, MainIsNoReader DEF Mutex!PC, Thread
<1>7. Count(Mutex!ReadSide)' = Count(Mutex!ReadSide)
  <2>1. \A u \in Thread : pc'[u] \in Mutex!ReadSide <=> pc[u] \in Mutex!ReadSide
    BY <1>1, <1>2 DEF Mutex!ReadSide
  <2> QED BY <2>1, CountKept
<1>8. Count({"reading"})' = Count({"reading"})
  <2>1. \A u \in Thread : pc'[u] \in {"reading"} <=> pc[u] \in {"reading"}
    BY <1>1, <1>2
  <2> QED BY <2>1, CountKept
<1>12. pc'[Main] \notin Mutex!WriteSide /\ \A u \in Reader : pc'[u] \notin Mutex!WriteSide
  BY <1>6 DEF Mutex!WriteSide
<1>13. writing_' = (pc'[Main] = "writing") /\ write_count_' = IF pc'[Main] \in Mutex!WriteSide THEN 1 ELSE 0
  BY <1>1, <1>4, <1>6, <1>12
<1> QED BY <1>1, <1>4, <1>6, <1>7, <1>8, <1>12, <1>13

\* A notify, or a wait that returns without one, moves nobody in or out.
LEMMA MutexNotify ==
  ASSUME MutexOk, NEW t \in Thread,
         Mutex!NotifyWriter(t) \/ Mutex!NotifyReaders(t) \/ Mutex!SpuriousWakeup(t)
  PROVE  MutexOk'
<1> USE DEF MutexOk, MutexUsed
<1>1. UNCHANGED <<reader_, read_count_, write_count_, reading_count_, writing_>>
  BY DEF Mutex!NotifyWriter, Mutex!NotifyReaders, Mutex!SpuriousWakeup
<1>2. /\ pc' \in [Thread -> Mutex!PC]
      /\ \A u \in Thread : \/ pc'[u] = pc[u]
                           \/ pc[u] \in {"notifyWriter", "notifyReaders"} /\ pc'[u] = "idle"
                           \/ pc[u] = "writeWait" /\ pc'[u] = "writeWoken"
                           \/ pc[u] = "readWait" /\ pc'[u] = "readWoken"
  <2>1. CASE Mutex!NotifyWriter(t)
    BY <2>1 DEF Mutex!NotifyWriter, Mutex!At, Mutex!Goto, Mutex!PC
  <2>2. CASE Mutex!NotifyReaders(t)
    BY <2>2 DEF Mutex!NotifyReaders, Mutex!PC
  <2>3. CASE Mutex!SpuriousWakeup(t)
    BY <2>3 DEF Mutex!SpuriousWakeup, Mutex!Goto, Mutex!PC
  <2> QED BY <2>1, <2>2, <2>3
<1>3. \A u \in Thread : /\ pc'[u] \in Mutex!ReadSide <=> pc[u] \in Mutex!ReadSide
                        /\ pc'[u] \in Mutex!WriteSide <=> pc[u] \in Mutex!WriteSide
                        /\ pc'[u] \in {"reading"} <=> pc[u] \in {"reading"}
                        /\ pc'[u] = "writing" <=> pc[u] = "writing"
  BY <1>2 DEF Mutex!ReadSide, Mutex!WriteSide
<1>4. Count(Mutex!ReadSide)' = Count(Mutex!ReadSide) /\ Count({"reading"})' = Count({"reading"})
  BY <1>3, CountKept
<1>5. \A u \in Reader : pc'[u] \notin Mutex!WriteSide
  BY <1>3 DEF Thread
<1>6. writing_' = (pc'[Main] = "writing") /\ write_count_' = IF pc'[Main] \in Mutex!WriteSide THEN 1 ELSE 0
  BY <1>1, <1>3, ThreadsFinite
<1>7. writing_' = TRUE => \A u \in Thread : pc'[u] # "reading"
  BY <1>1, <1>3
<1> QED BY <1>1, <1>2, <1>4, <1>5, <1>6, <1>7

MutexStep(t) ==
  \/ Mutex!ReadLock(t) \/ (Mutex!WriteLock(t) /\ t = Main)
  \/ Mutex!Progress(t) \/ Mutex!SpuriousWakeup(t)

LEMMA MutexKeeps ==
  ASSUME MutexOk, NEW t \in Thread, MutexStep(t)
  PROVE  MutexOk' /\ \A u \in Thread \ {t} : pc[u] = "idle" => pc'[u] = "idle"
<1>1. MutexOk'
  BY MutexReadLock, MutexReadUnlock, MutexWriteLock, MutexWriteUnlock, MutexNotify DEF MutexStep, Mutex!Progress
<1>2. pc \in [Thread -> Mutex!PC]
  BY DEF MutexOk
<1>3. ASSUME NEW u \in Thread \ {t}, pc[u] = "idle" PROVE pc'[u] = "idle"
  <2>1. CASE Mutex!ReadLock(t) \/ Mutex!ReadWake(t) \/ Mutex!ReadUnlock(t)
    BY <1>2, <1>3, <2>1 DEF Mutex!ReadLock, Mutex!ReadWake, Mutex!ReadUnlock, Mutex!Goto
  <2>2. CASE Mutex!WriteLock(t) \/ Mutex!WriteWake(t) \/ Mutex!WriteUnlock(t)
    BY <1>2, <1>3, <2>2 DEF Mutex!WriteLock, Mutex!WriteWake, Mutex!WriteUnlock, Mutex!Goto
  <2>3. CASE Mutex!NotifyWriter(t) \/ Mutex!NotifyReaders(t) \/ Mutex!SpuriousWakeup(t)
    BY <1>2, <1>3, <2>3 DEF Mutex!NotifyWriter, Mutex!NotifyReaders, Mutex!SpuriousWakeup, Mutex!At, Mutex!Goto
  <2> QED BY <2>1, <2>2, <2>3 DEF MutexStep, Mutex!Progress
<1> QED BY <1>1, <1>3

-----------------------------------------------------------------------------
(* The spinlock, with one guard for each thread.                           *)

SpinStep(t) ==
  \/ Spin!Construct(t, t) /\ t \notin alive
  \/ Spin!Exchange(t) \/ Spin!Spin(t) \/ Spin!Mark(t) \/ Spin!DestroyLocked(t, t) \/ Spin!LastStore(t)

LEMMA SpinKeeps ==
  ASSUME SpinOk, NEW t \in Thread, SpinStep(t)
  PROVE  /\ SpinOk' /\ \A u \in Thread \ {t} : pc'[u] = pc[u] /\ (u \in alive' <=> u \in alive)
         /\ pc[t] # "idle" \/ t \in alive \/ Spin!Construct(t, t)
<1> USE DEF SpinOk, SpinUsed, SpinLabels, Has
<1>1. CASE Spin!Construct(t, t) /\ t \notin alive
  BY <1>1 DEF Spin!Construct, Spin!Call
<1>2. CASE Spin!Exchange(t)
  BY <1>2 DEF Spin!Exchange, Spin!Goto
<1>3. CASE Spin!Spin(t)
  BY <1>3 DEF Spin!Spin, Spin!Goto, Spin!spinVars
<1>4. CASE Spin!Mark(t)
  <2>1. pc[t] = "mark" /\ using[t] = {t} /\ lock_ = TRUE /\ lockedBy = {t}
    BY <1>4 DEF Spin!Mark
  <2>2. alive' = alive \cup {t} /\ lock_' = lock_ /\ lockedBy' = lockedBy
    BY <1>4, <2>1 DEF Spin!Mark
  <2>3. pc' = [pc EXCEPT ![t] = "idle"] /\ using' = [using EXCEPT ![t] = {}]
    BY <1>4 DEF Spin!Mark, Spin!Goto, Spin!Return
  <2>4. \A u \in Thread : Has(u)' <=> Has(u)
    BY <2>1, <2>2, <2>3
  <2>5. SpinOk'
    <3>1. alive' \subseteq Thread /\ lock_' \in BOOLEAN
      BY <2>2
    <3>2. pc' \in [Thread -> SpinLabels \cup {"idle"}] /\ using' \in [Thread -> SUBSET Thread]
      BY <2>3
    <3>3. \A u \in Thread : using'[u] = IF pc'[u] = "idle" THEN {} ELSE {u}
      BY <2>3
    <3>4. \A u \in alive' : pc'[u] = "idle"
      BY <2>2, <2>3
    <3>5. /\ \A u \in Thread : Has(u)' => lock_' = TRUE /\ lockedBy' = {u}
          /\ lock_' = TRUE => \E u \in Thread : Has(u)'
      <4> HIDE DEF Has
      <4> QED BY <2>2, <2>4
    <3> QED BY <3>1, <3>2, <3>3, <3>4, <3>5
  <2> QED BY <2>1, <2>2, <2>3, <2>5
<1>5. CASE Spin!DestroyLocked(t, t)
  BY <1>5 DEF Spin!DestroyLocked, Spin!Call
<1>6. CASE Spin!LastStore(t)
  BY <1>6 DEF Spin!LastStore, Spin!Goto, Spin!Return
<1> QED BY <1>1, <1>2, <1>3, <1>4, <1>5, <1>6 DEF SpinStep

-----------------------------------------------------------------------------
(* One iteration of a loop.                                                *)

LEMMA Labels ==
  /\ "idle" \in Mutex!PC /\ SpinLabels \cap Mutex!PC = {}
  /\ Mutex!PC \ {"idle"} = Mutex!ReadSide \cup Mutex!WriteSide \cup {"notifyReaders", "notifyWriter"}
  /\ "idle" \notin SpinLabels \cup Mutex!ReadSide \cup Mutex!WriteSide
BY DEF SpinLabels, Mutex!PC, Mutex!ReadSide, Mutex!WriteSide

LEMMA Names ==
  /\ Len(Sections) = 5
  /\ section \in 1..5 => (Now = "RwMutex" <=> section = 2) /\ (Now = "SpinLock" <=> section = 4)
  /\ "RwMutex" \in Shares
BY DEF Sections, Now, Shares

\* Only what a thread does itself changes what its loop has left or where it is.
OthersStay(t) ==
  \A u \in Thread \ {t} : /\ left'[u] = left[u] /\ holds'[u] = holds[u]
                          /\ (u \in alive' <=> u \in alive)
                          /\ pc[u] = "idle" => pc'[u] = "idle"

LEMMA AloneKept ==
  ASSUME Alone, phase' = phase, NEW t \in Thread, phase # "mixed" => t = Main, OthersStay(t)
  PROVE  Alone'
<1>1. \A u \in Reader : u \in Thread /\ u # Main
  BY MainIsNoReader DEF Thread
<1> QED BY <1>1 DEF Alone, Between, OthersStay

\* Outside the mixed phase a task has nothing to do.
LEMMA OnlyMain ==
  ASSUME Alone, NEW t \in Thread, left[t] > 0 \/ ~Between(t)
  PROVE  phase # "mixed" => t = Main
BY ThreadsFinite DEF Alone

LEMMA MutexSection ==
  ASSUME IInv, Now = "RwMutex", NEW t \in Thread, MutexStep(t), phase # "mixed" => t = Main,
         UNCHANGED <<section, phase, spinVars, holds>>,
         left' \in [Thread -> 0..test_time], \A u \in Thread \ {t} : left'[u] = left[u]
  PROVE  IInv'
<1>1. MutexOk /\ SpinFree /\ Typed /\ Held /\ Alone /\ Now' = Now
  BY DEF IInv, MutexOk, MutexUsed, Typed, Now
<1>2. MutexOk' /\ \A u \in Thread \ {t} : pc[u] = "idle" => pc'[u] = "idle"
  BY <1>1, MutexKeeps
<1>3. Typed'
  BY <1>1, <1>2 DEF Typed, MutexOk, spinVars
<1>4. Held'
  BY <1>1 DEF Held
<1>5. Alone'
  <2>1. OthersStay(t) /\ phase' = phase /\ t \in Thread
    BY <1>2 DEF spinVars, OthersStay
  <2> QED BY ONLY <1>1, <2>1, phase # "mixed" => t = Main, AloneKept
<1>6. SpinFree'
  BY <1>1, <1>2 DEF SpinFree, MutexOk, MutexUsed, spinVars
<1>7. MutexUsed'
  BY <1>2 DEF MutexOk
<1> QED BY <1>1, <1>3, <1>4, <1>5, <1>6, <1>7 DEF IInv

LEMMA SpinSection ==
  ASSUME IInv, Now = "SpinLock", NEW t \in Thread, SpinStep(t), phase # "mixed" => t = Main,
         UNCHANGED <<section, phase, rwVars, holds>>,
         left' \in [Thread -> 0..test_time], \A u \in Thread \ {t} : left'[u] = left[u]
  PROVE  IInv'
<1>1. SpinOk /\ MutexFree /\ Typed /\ Held /\ Alone /\ Now' = Now
  BY DEF IInv, SpinOk, SpinUsed, Typed, Now
<1>2. SpinOk' /\ \A u \in Thread \ {t} : pc'[u] = pc[u] /\ (u \in alive' <=> u \in alive)
  BY <1>1, SpinKeeps
<1>3. Typed'
  BY <1>1, <1>2, Labels DEF Typed, SpinOk, rwVars
<1>4. Held'
  BY <1>1 DEF Held
<1>5. Alone'
  <2>1. OthersStay(t) /\ phase' = phase /\ t \in Thread
    BY <1>2 DEF OthersStay
  <2> QED BY ONLY <1>1, <2>1, phase # "mixed" => t = Main, AloneKept
<1>6. MutexFree'
  BY <1>1, <1>2 DEF MutexFree, SpinOk, SpinUsed, rwVars
<1>7. SpinUsed'
  BY <1>2 DEF SpinOk
<1> QED BY <1>1, <1>3, <1>4, <1>5, <1>6, <1>7 DEF IInv

\* Outside these two sections only holds and the loops change.
LEMMA ExternalSection ==
  ASSUME IInv, Now \notin {"RwMutex", "SpinLock"}, NEW t \in Thread, phase # "mixed" => t = Main,
         NEW m \in {"none", "read", "write"}, holds' = [holds EXCEPT ![t] = m],
         m = "none" \/ \A u \in Thread \ {t} : holds[u] = "none" \/ (m = "read" /\ holds[u] = "read"),
         UNCHANGED <<section, phase, rwVars, spinVars, pc>>,
         left' \in [Thread -> 0..test_time], \A u \in Thread \ {t} : left'[u] = left[u]
  PROVE  IInv'
<1>1. MutexFree /\ SpinFree /\ Typed /\ Held /\ Alone /\ Now' = Now
  BY DEF IInv, Now
<1>2. Typed' /\ holds \in [Thread -> {"none", "read", "write"}]
  BY <1>1 DEF Typed, spinVars, rwVars
<1>3. Held'
  BY <1>1, <1>2 DEF Held
<1>4. Alone'
  <2>1. OthersStay(t) /\ phase' = phase /\ t \in Thread
    BY <1>2 DEF spinVars, OthersStay
  <2> QED BY ONLY <1>1, <2>1, phase # "mixed" => t = Main, AloneKept
<1>5. MutexFree' /\ SpinFree'
  BY <1>1 DEF MutexFree, SpinFree, spinVars, rwVars
<1> QED BY <1>1, <1>2, <1>3, <1>4, <1>5 DEF IInv

LEMMA BeginKeeps == ASSUME IInv, NEW t \in Thread, Begin(t) PROVE IInv'
<1>1. Between(t) /\ left[t] > 0 /\ UNCHANGED <<section, phase>> /\ left' = [left EXCEPT ![t] = @ - 1]
  BY DEF Begin, MoreRounds
<1>2. left \in [Thread -> 0..test_time]
  BY DEF IInv, Typed
<1>3. left' \in [Thread -> 0..test_time] /\ \A u \in Thread \ {t} : left'[u] = left[u]
  BY <1>1, <1>2, TimesPositive
<1>4. phase # "mixed" => t = Main
  BY <1>1, OnlyMain DEF IInv
<1>5. CASE ExternalLock(t)
  BY <1>1, <1>3, <1>4, <1>5, ExternalSection DEF ExternalLock, MayHold, Mode
<1>6. CASE /\ Now = "RwMutex"
           /\ IF Mode(t) = "read" THEN Mutex!ReadLock(t) ELSE Mutex!WriteLock(t)
           /\ UNCHANGED <<spinVars, holds>>
  <2>1. MutexStep(t)
    BY <1>6, Names DEF MutexStep, Mode
  <2> QED BY <1>1, <1>3, <1>4, <1>6, <2>1, MutexSection
<1>7. CASE Now = "SpinLock" /\ Spin!Construct(t, t) /\ UNCHANGED <<rwVars, holds>>
  <2>1. SpinStep(t)
    BY <1>1, <1>7 DEF SpinStep, Between
  <2> QED BY <1>1, <1>3, <1>4, <1>7, <2>1, SpinSection
<1> QED BY <1>5, <1>6, <1>7 DEF Begin

LEMMA UnlockKeeps == ASSUME IInv, NEW t \in Thread, ExternalUnlock(t) PROVE IInv'
<1>1. holds[t] # "none" /\ ~Between(t)
  BY DEF ExternalUnlock, Between
<1>2. Now \notin {"RwMutex", "SpinLock"}
  BY <1>1 DEF IInv, Held
<1>3. phase # "mixed" => t = Main
  BY <1>1, OnlyMain DEF IInv
<1>4. left' = left /\ left \in [Thread -> 0..test_time]
  BY DEF IInv, Typed, ExternalUnlock
<1> QED BY <1>2, <1>3, <1>4, ExternalSection DEF ExternalUnlock

LEMMA GoOnKeeps == ASSUME IInv, NEW t \in Thread, GoOn(t) \/ SpuriousWakeup(t) PROVE IInv'
<1>1. left' = left /\ left \in [Thread -> 0..test_time] /\ UNCHANGED <<section, phase>>
  BY DEF IInv, Typed, GoOn, SpuriousWakeup
<1>2. CASE (Mutex!Progress(t) \/ Mutex!SpuriousWakeup(t)) /\ UNCHANGED <<spinVars, holds>>
  <2>1. pc[t] \in Mutex!PC \ {"idle"}
    BY <1>2 DEF Mutex!Progress, Mutex!ReadWake, Mutex!ReadUnlock, Mutex!NotifyWriter, Mutex!WriteWake,
                Mutex!WriteUnlock, Mutex!NotifyReaders, Mutex!SpuriousWakeup, Mutex!PC
  <2>2. Now = "RwMutex"
    BY <2>1, Labels DEF IInv, MutexFree
  <2>3. phase # "mixed" => t = Main
    BY <2>1, OnlyMain DEF IInv, Between
  <2>4. MutexStep(t)
    BY <1>2 DEF MutexStep
  <2> QED BY <1>1, <1>2, <2>2, <2>3, <2>4, MutexSection
<1>3. CASE /\ \/ Spin!Exchange(t) \/ Spin!Spin(t) \/ Spin!Mark(t)
              \/ Spin!DestroyLocked(t, t) \/ Spin!LastStore(t)
           /\ UNCHANGED <<rwVars, holds>>
  <2>1. pc[t] \in SpinLabels \/ t \in alive
    BY <1>3 DEF Spin!Exchange, Spin!Spin, Spin!Mark, Spin!DestroyLocked, Spin!LastStore, SpinLabels
  <2>2. Now = "SpinLock"
    BY <2>1, Labels DEF IInv, SpinFree
  <2>3. phase # "mixed" => t = Main
    BY <2>1, OnlyMain, Labels DEF IInv, Between
  <2>4. SpinStep(t)
    BY <1>3 DEF SpinStep
  <2> QED BY <1>1, <1>3, <2>2, <2>3, <2>4, SpinSection
<1> QED BY <1>2, <1>3 DEF GoOn, SpuriousWakeup

-----------------------------------------------------------------------------
(* The main thread between its loops.                                      *)

\* Where no thread is in a lock, every lock is as its section finds it and leaves it.
Quiet ==
  /\ \A t \in Thread : Between(t) /\ using[t] = {}
  /\ read_count_ = 0 /\ reading_count_ = 0 /\ write_count_ = 0 /\ writing_ = FALSE
  /\ lock_ = FALSE /\ alive = {}

LEMMA QuietSuits == Quiet => MutexUsed /\ MutexFree /\ SpinUsed /\ SpinFree /\ Held
<1> SUFFICES ASSUME Quiet PROVE MutexUsed /\ MutexFree /\ SpinUsed /\ SpinFree /\ Held
  OBVIOUS
<1>1. \A t \in Thread : pc[t] = "idle" /\ holds[t] = "none" /\ t \notin alive
  BY DEF Quiet, Between
<1>2. Count(Mutex!ReadSide) = 0 /\ Count({"reading"}) = 0
  BY <1>1, CountIs, Labels
<1>3. MutexUsed
  BY <1>1, <1>2, ThreadsFinite, Labels DEF MutexUsed, Quiet, Thread
<1>4. MutexFree
  BY <1>1 DEF MutexFree, Quiet
<1>5. SpinUsed
  BY <1>1, Labels DEF SpinUsed, Has, Quiet
<1>6. SpinFree
  BY <1>1, Labels DEF SpinFree, Quiet
<1>7. Held
  BY <1>1 DEF Held
<1> QED BY <1>3, <1>4, <1>5, <1>6, <1>7

LEMMA JoinedQuiet == ASSUME IInv, \A t \in Thread : Between(t) PROVE Quiet
<1>1. \A t \in Thread : pc[t] = "idle" /\ t \notin alive
  BY DEF Between
<1>2. MutexFree
  <2>1. Count(Mutex!ReadSide) = 0 /\ Count({"reading"}) = 0
    BY <1>1, CountIs, Labels
  <2>2. pc[Main] = "idle" /\ "idle" \notin Mutex!WriteSide
    BY <1>1, ThreadsFinite, Labels
  <2>3. CASE MutexUsed
    BY <1>1, <2>1, <2>2, <2>3 DEF MutexUsed, MutexFree
  <2> QED BY <2>3 DEF IInv
<1>3. SpinFree
  <2>1. alive = {}
    BY <1>1 DEF IInv, Typed
  <2>2. CASE SpinUsed
    <3>1. lock_ = FALSE
      BY <1>1, <2>2 DEF SpinUsed, Has, IInv, Typed
    <3> QED BY <1>1, <2>1, <2>2, <3>1, Labels DEF SpinUsed, SpinFree
  <2> QED BY <2>2 DEF IInv
<1> QED BY <1>2, <1>3 DEF Quiet, MutexFree, SpinFree

LEMMA InitHolds == Init => IInv
<1> SUFFICES ASSUME Init PROVE IInv
  OBVIOUS
<1>1. Quiet
  BY DEF Init, Quiet, Between
<1>2. Typed
  <2>1. section \in 1..5 /\ phase = "read" /\ left \in [Thread -> 0..test_time]
    BY TimesPositive DEF Init
  <2>2. holds \in [Thread -> {"none", "read", "write"}] /\ pc \in [Thread -> Mutex!PC \cup SpinLabels]
    BY Labels DEF Init
  <2>3. using \in [Thread -> SUBSET Thread]
    BY DEF Init
  <2> QED BY <2>1, <2>2, <2>3 DEF Init, Typed
<1>3. Alone
  BY MainIsNoReader DEF Init, Alone, Between, Thread
<1> QED BY <1>1, <1>2, <1>3, QuietSuits DEF IInv

LEMMA SteerKeeps == ASSUME IInv, Steer PROVE IInv'
<1>1. UNCHANGED <<rwVars, spinVars, holds, pc>> /\ Typed /\ Held /\ Alone
  BY DEF IInv, Steer, Write, Launch, Join
<1>2. CASE Write \/ Launch
  <2>1. section' = section /\ Now' = Now
    BY <1>2 DEF Write, Launch, Now
  <2>2. Typed'
    BY <1>1, <1>2, <2>1, TimesPositive DEF Typed, Write, Launch, rwVars, spinVars
  <2>3. Alone'
    <3>1. CASE Write
      BY <1>1, <3>1, MainIsNoReader DEF Alone, Between, Write, Typed, Thread, spinVars
    <3>2. CASE Launch
      BY <3>2 DEF Alone, Launch
    <3> QED BY <1>2, <3>1, <3>2
  <2>4. Held'
    BY <1>1, <2>1 DEF Held
  <2>5. MutexUsed' = MutexUsed /\ MutexFree' = MutexFree
    BY <1>1 DEF MutexUsed, MutexFree, Count, rwVars
  <2>6. SpinUsed' = SpinUsed /\ SpinFree' = SpinFree
    BY <1>1 DEF SpinUsed, SpinFree, Has, spinVars
  <2> QED BY <2>1, <2>2, <2>3, <2>4, <2>5, <2>6 DEF IInv
<1>3. CASE Join
  <2>1. \A t \in Thread : Between(t)
    BY <1>3 DEF Join, LoopOver, Joined, Thread
  <2>2. Quiet'
    <3>1. Quiet
      BY <2>1, JoinedQuiet
    <3> QED BY <1>1, <3>1 DEF Quiet, Between, rwVars, spinVars
  <2>3. MutexUsed' /\ MutexFree' /\ SpinUsed' /\ SpinFree' /\ Held'
    BY <2>2, QuietSuits, PTL
  <2>4. Typed'
    BY <1>1, <1>3, TimesPositive, Names DEF Typed, Join, rwVars, spinVars
  <2>5. Alone'
    <3>1. \A t \in Reader : left'[t] = 0
      BY <1>1, <1>3, MainIsNoReader DEF Join, Joined, Typed, Thread
    <3>2. \A t \in Thread : Between(t)'
      BY <2>2 DEF Quiet
    <3> QED BY <3>1, <3>2 DEF Alone, Thread
  <2> QED BY <2>3, <2>4, <2>5 DEF IInv
<1> QED BY <1>2, <1>3 DEF Steer

LEMMA NextHolds == IInv /\ [Next]_vars => IInv'
<1> SUFFICES ASSUME IInv, [Next]_vars PROVE IInv'
  OBVIOUS
<1>1. CASE UNCHANGED vars
  BY <1>1 DEF vars, rwVars, spinVars, IInv, Typed, Held, Alone, Between, MutexUsed, MutexFree,
              SpinUsed, SpinFree, Has, Count, Now
<1>2. CASE Steer
  BY <1>2, SteerKeeps
<1>3. ASSUME NEW t \in Thread, Run(t) \/ SpuriousWakeup(t) PROVE IInv'
  BY <1>3, BeginKeeps, UnlockKeeps, GoOnKeeps DEF Run
<1> QED BY <1>1, <1>2, <1>3 DEF Next, Returned

LEMMA Invariance == Spec => []IInv
BY InitHolds, NextHolds, PTL DEF Spec

-----------------------------------------------------------------------------
(* In all five sections, with any number of tasks and iterations, a thread *)
(* that has the lock for itself is the only one that has it.               *)
THEOREM OwnersApart == Spec => []OwnersExclude
<1>1. IInv => OwnersExclude
  <2> SUFFICES ASSUME IInv, NEW t \in Thread, Exclusive(t) PROVE Owners = {t}
    BY DEF OwnersExclude
  <2> SUFFICES ASSUME NEW u \in Owners, u # t PROVE FALSE
    BY DEF Exclusive, Owners
  <2>1. /\ u \in Thread /\ holds[t] # "read" /\ pc[t] # "reading"
        /\ holds[t] # "none" \/ pc[t] \in {"writing", "mark", "lastStore"} \/ t \in alive
        /\ holds[u] # "none" \/ pc[u] \in {"reading", "writing", "mark", "lastStore"} \/ u \in alive
    BY DEF Exclusive, Owners
  <2>2. {"mark", "lastStore"} \cap Mutex!PC = {} /\ {"reading", "writing"} \cap (SpinLabels \cup {"idle"}) = {}
    BY DEF Mutex!PC, SpinLabels
  <2>3. CASE Now = "RwMutex"
    <3>1. /\ \A v \in Thread : holds[v] = "none" /\ pc[v] \in Mutex!PC /\ v \notin alive
          /\ \A v \in Thread : pc[v] = "writing" => v = Main
          /\ pc[Main] = "writing" => \A v \in Thread : pc[v] # "reading"
      BY <2>3, ThreadsFinite DEF IInv, Held, MutexUsed, SpinFree, Mutex!WriteSide
    <3> QED BY <2>1, <2>2, <3>1
  <2>4. CASE Now = "SpinLock"
    <3>1. \A v \in Thread : holds[v] = "none" /\ pc[v] \in {"idle", "exchange", "spin", "mark", "lastStore"}
      BY <2>4, Names DEF IInv, Held, MutexFree, SpinLabels
    <3>2. Has(t) /\ Has(u)
      BY <2>1, <3>1 DEF Has
    <3> QED BY <2>1, <2>4, <3>2 DEF IInv, SpinUsed
  <2>5. CASE Now \notin {"RwMutex", "SpinLock"}
    <3>1. \A v \in Thread : pc[v] = "idle" /\ v \notin alive
      BY <2>5, Labels DEF IInv, MutexFree, SpinFree
    <3>2. holds[t] \in {"none", "read", "write"}
      BY DEF IInv, Typed
    <3>3. holds[t] = "write" /\ holds[u] # "none"
      BY <2>1, <3>1, <3>2
    <3> QED BY <2>1, <2>5, <3>3 DEF IInv, Held
  <2> QED BY <2>3, <2>4, <2>5
<1> QED BY <1>1, Invariance, PTL

(* No section leaves anything behind in the locks for the next ones, and   *)
(* the tasks exist only between their launch and the return of their get.  *)
THEOREM NothingLeftBehind == Spec => []LocksLeftFree
<1>1. IInv => LocksLeftFree
  <2> SUFFICES ASSUME IInv PROVE LocksLeftFree
    OBVIOUS
  <2>1. TypeOK
    BY Names DEF IInv, Typed, TypeOK, SpinLabels
  <2>2. CASE Now # "RwMutex"
    BY <2>1, <2>2, Labels DEF LocksLeftFree, IInv, Alone, MutexFree, SpinUsed, SpinFree
  <2>3. CASE Now = "RwMutex"
    BY <2>1, <2>3 DEF LocksLeftFree, IInv, Alone, SpinFree
  <2> QED BY <2>2, <2>3
<1> QED BY <1>1, Invariance, PTL

(* The destructor at the end of an iteration releases the spinlock that    *)
(* the guard of this very iteration has locked.                            *)
THEOREM IterationsUnlockTheirOwn == Spec => UnlocksOnlyItsOwn
<1>1. IInv /\ [Next]_vars =>
        [\A t \in Thread :
           pc[t] \in {"store", "lastStore"} /\ pc'[t] # pc[t] => lock_ /\ lockedBy = using[t]]_(Spin!vars)
  <2> SUFFICES ASSUME IInv, NEW t \in Thread, pc[t] \in {"store", "lastStore"}
               PROVE  lock_ /\ lockedBy = using[t]
    OBVIOUS
  <2>1. pc[t] = "lastStore" /\ Now = "SpinLock"
    BY DEF IInv, Typed, SpinFree, SpinLabels, Mutex!PC
  <2> QED BY <2>1 DEF IInv, SpinUsed, Has
<1> QED BY <1>1, Invariance, PTL DEF Spec, UnlocksOnlyItsOwn, Spin!UnlocksOnlyItsOwn
=============================================================================
