--------------------------- MODULE RwMutexProofs ---------------------------
(***************************************************************************)
(* Proofs about RwMutex for any finite set of threads and either           *)
(* preference.  The predicates of the waits read the counters, so the      *)
(* inductive invariant joins TypeOK and CountsExact to MutualExclusion;    *)
(* the two NoLost...Wakeup invariants are inductive relative to it.        *)
(***************************************************************************)
EXTENDS RwMutex, FiniteSetTheorems, TLAPS

(* How the number of threads at the labels P changes when one thread u     *)
(* moves to label l.                                                       *)
LEMMA OneThreadMoves ==
  ASSUME TypeOK, NEW u \in Thread, NEW l \in PC, pc' = [pc EXCEPT ![u] = l], NEW P
  PROVE  Cardinality(At(P)') = Cardinality(At(P))
           + (IF l \in P THEN 1 ELSE 0) - (IF pc[u] \in P THEN 1 ELSE 0)
<1> DEFINE F == At(P)
           G == At(P)'
<1>1. IsFiniteSet(F) /\ Cardinality(F) \in Nat
  BY ThreadFinite, FS_Subset, FS_CardinalityType DEF At
<1>2. G = IF l \in P THEN F \cup {u} ELSE F \ {u}
  BY DEF At, TypeOK
<1>3. (u \in F) <=> (pc[u] \in P)
  BY DEF At
<1> HIDE DEF F, G
<1>4. Cardinality(F \cup {u}) = IF u \in F THEN Cardinality(F) ELSE Cardinality(F) + 1
  BY <1>1, FS_AddElement
<1>5. Cardinality(F \ {u}) = IF u \in F THEN Cardinality(F) - 1 ELSE Cardinality(F)
  BY <1>1, FS_RemoveElement
<1>6. Cardinality(G) = Cardinality(F) + (IF l \in P THEN 1 ELSE 0) - (IF pc[u] \in P THEN 1 ELSE 0)
  BY <1>1, <1>2, <1>3, <1>4, <1>5
<1> QED
  BY <1>6 DEF F, G

(* A count of threads is a natural number, and is zero exactly when no     *)
(* thread is there.                                                        *)
LEMMA CountZero ==
  ASSUME NEW P
  PROVE  /\ Cardinality(At(P)) \in Nat
         /\ Cardinality(At(P)) = 0 <=> \A t \in Thread : pc[t] \notin P
<1>1. IsFiniteSet(At(P))
  BY ThreadFinite, FS_Subset DEF At
<1>2. Cardinality(At(P)) \in Nat /\ (Cardinality(At(P)) = 0 <=> At(P) = {})
  BY <1>1, FS_CardinalityType, FS_EmptySet
<1> QED
  BY <1>2 DEF At

(* The preference is the constructor's: no call changes it.                *)
LEMMA PreferenceFixed == [Next]_vars => reader_' = reader_
BY DEF Next, Progress, vars, ReadLock, ReadWake, ReadUnlock, NotifyWriter,
       WriteLock, WriteWake, WriteUnlock, NotifyReaders, SpuriousWakeup

-----------------------------------------------------------------------------
(* CountsExact alone does not exclude two writers, and MutualExclusion is  *)
(* preserved only because the counters are exact: neither is inductive     *)
(* without the other.                                                      *)
IndInv == TypeOK /\ CountsExact /\ MutualExclusion

(* The mutex is constructed with no thread in it.                          *)
LEMMA InitIndInv == Init => IndInv
<1> SUFFICES ASSUME Init PROVE IndInv
  OBVIOUS
<1>1. TypeOK
  BY DEF Init, TypeOK, PC
<1>2. /\ At(ReadSide) = {} /\ At({"reading"}) = {}
      /\ At(WriteSide) = {} /\ At({"writing"}) = {}
  BY DEF Init, At, ReadSide, WriteSide
<1>3. CountsExact
  BY <1>2, FS_EmptySet DEF Init, CountsExact
<1>4. MutualExclusion
  BY DEF Init, MutualExclusion
<1> QED
  BY <1>1, <1>3, <1>4 DEF IndInv

(* What the counters say about the threads, in the form the steps use.     *)
LEMMA CountersRead ==
  ASSUME IndInv
  PROVE  /\ \A t \in Thread : pc[t] \in ReadSide => read_count_ > 0
         /\ \A t \in Thread : pc[t] = "reading" => reading_count_ > 0
         /\ \A t \in Thread : pc[t] \in WriteSide => write_count_ > 0
         /\ writing_ <=> \E t \in Thread : pc[t] = "writing"
<1>1. TypeOK /\ CountsExact
  BY DEF IndInv
<1>2. \A t \in Thread : pc[t] \in ReadSide => read_count_ > 0
  BY <1>1, CountZero DEF CountsExact, TypeOK
<1>3. \A t \in Thread : pc[t] = "reading" => reading_count_ > 0
  BY <1>1, CountZero DEF CountsExact, TypeOK
<1>4. \A t \in Thread : pc[t] \in WriteSide => write_count_ > 0
  BY <1>1, CountZero DEF CountsExact, TypeOK
<1>5. writing_ <=> \E t \in Thread : pc[t] = "writing"
  BY <1>1 DEF CountsExact, At
<1> QED
  BY <1>2, <1>3, <1>4, <1>5

(* One thread moves and the three counters move with it: the counters stay *)
(* exact.                                                                  *)
LEMMA CountersFollow ==
  ASSUME IndInv, NEW u \in Thread, NEW l \in PC, pc' = [pc EXCEPT ![u] = l],
         read_count_' = read_count_
           + (IF l \in ReadSide THEN 1 ELSE 0) - (IF pc[u] \in ReadSide THEN 1 ELSE 0),
         reading_count_' = reading_count_
           + (IF l \in {"reading"} THEN 1 ELSE 0) - (IF pc[u] \in {"reading"} THEN 1 ELSE 0),
         write_count_' = write_count_
           + (IF l \in WriteSide THEN 1 ELSE 0) - (IF pc[u] \in WriteSide THEN 1 ELSE 0),
         writing_' = \E t \in Thread : pc'[t] = "writing", reader_' = reader_
  PROVE  CountsExact' /\ TypeOK'
<1>0. TypeOK /\ CountsExact
  BY DEF IndInv
<1>1. read_count_' = Cardinality(At(ReadSide)')
  <2>1. Cardinality(At(ReadSide)') = Cardinality(At(ReadSide))
           + (IF l \in ReadSide THEN 1 ELSE 0) - (IF pc[u] \in ReadSide THEN 1 ELSE 0)
    BY <1>0, OneThreadMoves
  <2> QED
    BY <1>0, <2>1 DEF CountsExact
<1>2. reading_count_' = Cardinality(At({"reading"})')
  <2>1. Cardinality(At({"reading"})') = Cardinality(At({"reading"}))
           + (IF l \in {"reading"} THEN 1 ELSE 0) - (IF pc[u] \in {"reading"} THEN 1 ELSE 0)
    BY <1>0, OneThreadMoves
  <2> QED
    BY <1>0, <2>1 DEF CountsExact
<1>3. write_count_' = Cardinality(At(WriteSide)')
  <2>1. Cardinality(At(WriteSide)') = Cardinality(At(WriteSide))
           + (IF l \in WriteSide THEN 1 ELSE 0) - (IF pc[u] \in WriteSide THEN 1 ELSE 0)
    BY <1>0, OneThreadMoves
  <2> QED
    BY <1>0, <2>1 DEF CountsExact
<1>4. writing_' <=> At({"writing"})' # {}
  BY DEF At
<1>5. CountsExact'
  BY <1>1, <1>2, <1>3, <1>4 DEF CountsExact
<1>6. /\ Cardinality(At(ReadSide)) \in Nat /\ Cardinality(At({"reading"})) \in Nat
      /\ Cardinality(At(WriteSide)) \in Nat
  BY CountZero
<1>7. /\ pc[u] \in ReadSide => read_count_ > 0
      /\ pc[u] \in {"reading"} => reading_count_ > 0
      /\ pc[u] \in WriteSide => write_count_ > 0
  BY CountersRead
<1>8. TypeOK'
  BY <1>0, <1>6, <1>7 DEF TypeOK
<1> QED
  BY <1>5, <1>8

(* Threads move, none of them across a boundary a counter or a holder set  *)
(* depends on: a notify, a wakeup, or a stutter.                           *)
LEMMA SameSides ==
  ASSUME IndInv, pc' \in [Thread -> PC],
         UNCHANGED <<reader_, read_count_, write_count_, reading_count_, writing_>>,
         \A u \in Thread : /\ pc'[u] \in ReadSide <=> pc[u] \in ReadSide
                           /\ pc'[u] \in WriteSide <=> pc[u] \in WriteSide
                           /\ pc'[u] = "reading" <=> pc[u] = "reading"
                           /\ pc'[u] = "writing" <=> pc[u] = "writing"
  PROVE  IndInv'
<1>0. TypeOK /\ CountsExact /\ MutualExclusion
  BY DEF IndInv
<1>1. /\ At(ReadSide)' = At(ReadSide) /\ At({"reading"})' = At({"reading"})
      /\ At(WriteSide)' = At(WriteSide) /\ At({"writing"})' = At({"writing"})
  BY DEF At
<1>2. CountsExact'
  BY <1>0, <1>1 DEF CountsExact
<1>3. TypeOK'
  BY <1>0 DEF TypeOK
<1>4. MutualExclusion'
  BY <1>0 DEF MutualExclusion
<1> QED
  BY <1>2, <1>3, <1>4 DEF IndInv

(* The predicates of the waits do keep the incompatible threads out.       *)
LEMMA CanReadExcludes ==
  ASSUME IndInv, CanRead
  PROVE  ~writing_ /\ \A u \in Thread : pc[u] # "writing"
<1>1. \A u \in Thread : pc[u] # "writing"
  BY CountersRead DEF CanRead, WriteSide, IndInv, TypeOK
<1> QED
  BY <1>1, CountersRead

(* Nobody is inside when a waiting or arriving writer may go in.           *)
LEMMA CanWriteExcludes ==
  ASSUME IndInv, CanWrite
  PROVE  \A u \in Thread : pc[u] # "writing" /\ pc[u] # "reading"
BY CountersRead DEF CanWrite, ReadSide, IndInv, TypeOK

(* Every step keeps the counters exact and a writer alone.                 *)
LEMMA NextIndInv == IndInv /\ [Next]_vars => IndInv'
<1> SUFFICES ASSUME IndInv, [Next]_vars PROVE IndInv'
  OBVIOUS
<1> USE DEF Goto
<1>r. reader_' = reader_
  BY PreferenceFixed
<1> USE <1>r
<1>0. TypeOK /\ CountsExact /\ MutualExclusion
  BY DEF IndInv
<1>1. ASSUME NEW t \in Thread, pc[t] \in {"idle", "readWoken"}, CanRead,
             reading_count_' = reading_count_ + 1, Goto(t, "reading"),
             read_count_' = IF pc[t] = "idle" THEN read_count_ + 1 ELSE read_count_,
             UNCHANGED <<write_count_, writing_>>
      PROVE  IndInv'
  <2>1. \A u \in Thread : pc[u] # "writing"
    BY <1>1, CanReadExcludes
  <2>2. CountsExact' /\ TypeOK'
    <3>1. writing_' = \E u \in Thread : pc'[u] = "writing"
      BY <1>0, <1>1, <2>1, CanReadExcludes DEF TypeOK
    <3>2. /\ read_count_' = read_count_ + (IF "reading" \in ReadSide THEN 1 ELSE 0)
                                         - (IF pc[t] \in ReadSide THEN 1 ELSE 0)
          /\ reading_count_' = reading_count_ + (IF "reading" \in {"reading"} THEN 1 ELSE 0)
                                               - (IF pc[t] \in {"reading"} THEN 1 ELSE 0)
          /\ write_count_' = write_count_ + (IF "reading" \in WriteSide THEN 1 ELSE 0)
                                           - (IF pc[t] \in WriteSide THEN 1 ELSE 0)
      BY <1>0, <1>1 DEF TypeOK, ReadSide, WriteSide
    <3> QED
      BY <1>1, <3>1, <3>2, CountersFollow DEF PC
  <2>3. MutualExclusion'
    BY <1>0, <1>1, <2>1 DEF MutualExclusion, TypeOK
  <2> QED
    BY <2>2, <2>3 DEF IndInv
<1>2. ASSUME NEW t \in Thread, pc[t] \in {"idle", "writeWoken"}, CanWrite,
             writing_' = TRUE, Goto(t, "writing"),
             write_count_' = IF pc[t] = "idle" THEN write_count_ + 1 ELSE write_count_,
             UNCHANGED <<read_count_, reading_count_>>
      PROVE  IndInv'
  <2>1. \A u \in Thread : pc[u] # "writing" /\ pc[u] # "reading"
    BY <1>2, CanWriteExcludes
  <2>2. CountsExact' /\ TypeOK'
    <3>1. writing_' = \E u \in Thread : pc'[u] = "writing"
      BY <1>0, <1>2 DEF TypeOK
    <3>2. /\ read_count_' = read_count_ + (IF "writing" \in ReadSide THEN 1 ELSE 0)
                                         - (IF pc[t] \in ReadSide THEN 1 ELSE 0)
          /\ reading_count_' = reading_count_ + (IF "writing" \in {"reading"} THEN 1 ELSE 0)
                                               - (IF pc[t] \in {"reading"} THEN 1 ELSE 0)
          /\ write_count_' = write_count_ + (IF "writing" \in WriteSide THEN 1 ELSE 0)
                                           - (IF pc[t] \in WriteSide THEN 1 ELSE 0)
      BY <1>0, <1>2 DEF TypeOK, ReadSide, WriteSide
    <3> QED
      BY <1>2, <3>1, <3>2, CountersFollow DEF PC
  <2>3. MutualExclusion'
    BY <1>0, <1>2, <2>1 DEF MutualExclusion, TypeOK
  <2> QED
    BY <2>2, <2>3 DEF IndInv
<1>3. ASSUME NEW t \in Thread, ReadLock(t) PROVE IndInv'
  <2>1. CASE CanRead
    BY <1>1, <1>3, <2>1 DEF ReadLock
  <2>2. CASE ~CanRead
    <3>1. writing_' = \E u \in Thread : pc'[u] = "writing"
      BY <1>0, <1>3, <2>2, CountersRead DEF ReadLock, TypeOK
    <3>2. /\ read_count_' = read_count_ + (IF "readWait" \in ReadSide THEN 1 ELSE 0)
                                         - (IF pc[t] \in ReadSide THEN 1 ELSE 0)
          /\ reading_count_' = reading_count_ + (IF "readWait" \in {"reading"} THEN 1 ELSE 0)
                                               - (IF pc[t] \in {"reading"} THEN 1 ELSE 0)
          /\ write_count_' = write_count_ + (IF "readWait" \in WriteSide THEN 1 ELSE 0)
                                           - (IF pc[t] \in WriteSide THEN 1 ELSE 0)
      BY <1>0, <1>3, <2>2 DEF ReadLock, TypeOK, ReadSide, WriteSide
    <3>3. CountsExact' /\ TypeOK'
      BY <1>3, <2>2, <3>1, <3>2, CountersFollow DEF ReadLock, PC
    <3>4. MutualExclusion'
      BY <1>0, <1>3, <2>2 DEF ReadLock, MutualExclusion, TypeOK
    <3> QED
      BY <3>3, <3>4 DEF IndInv
  <2> QED
    BY <2>1, <2>2
<1>4. ASSUME NEW t \in Thread, WriteLock(t) PROVE IndInv'
  <2>1. CASE CanWrite
    BY <1>2, <1>4, <2>1 DEF WriteLock
  <2>2. CASE ~CanWrite
    <3>1. writing_' = \E u \in Thread : pc'[u] = "writing"
      BY <1>0, <1>4, <2>2, CountersRead DEF WriteLock, TypeOK
    <3>2. /\ read_count_' = read_count_ + (IF "writeWait" \in ReadSide THEN 1 ELSE 0)
                                         - (IF pc[t] \in ReadSide THEN 1 ELSE 0)
          /\ reading_count_' = reading_count_ + (IF "writeWait" \in {"reading"} THEN 1 ELSE 0)
                                               - (IF pc[t] \in {"reading"} THEN 1 ELSE 0)
          /\ write_count_' = write_count_ + (IF "writeWait" \in WriteSide THEN 1 ELSE 0)
                                           - (IF pc[t] \in WriteSide THEN 1 ELSE 0)
      BY <1>0, <1>4, <2>2 DEF WriteLock, TypeOK, ReadSide, WriteSide
    <3>3. CountsExact' /\ TypeOK'
      BY <1>4, <2>2, <3>1, <3>2, CountersFollow DEF WriteLock, PC
    <3>4. MutualExclusion'
      BY <1>0, <1>4, <2>2 DEF WriteLock, MutualExclusion, TypeOK
    <3> QED
      BY <3>3, <3>4 DEF IndInv
  <2> QED
    BY <2>1, <2>2
<1>5. ASSUME NEW t \in Thread, ReadWake(t) PROVE IndInv'
  <2>1. CASE CanRead
    BY <1>1, <1>5, <2>1 DEF ReadWake
  <2>2. CASE ~CanRead
    BY <1>0, <1>5, <2>2, SameSides DEF ReadWake, TypeOK, PC, ReadSide, WriteSide
  <2> QED
    BY <2>1, <2>2
<1>6. ASSUME NEW t \in Thread, WriteWake(t) PROVE IndInv'
  <2>1. CASE CanWrite
    BY <1>2, <1>6, <2>1 DEF WriteWake
  <2>2. CASE ~CanWrite
    BY <1>0, <1>6, <2>2, SameSides DEF WriteWake, TypeOK, PC, ReadSide, WriteSide
  <2> QED
    BY <2>1, <2>2
<1>7. ASSUME NEW t \in Thread, ReadUnlock(t) PROVE IndInv'
  <2>1. read_count_ > 0 /\ reading_count_ > 0
    BY <1>7, CountersRead DEF ReadUnlock, ReadSide
  <2>2. PICK l \in {"notifyWriter", "idle"} : pc' = [pc EXCEPT ![t] = l]
    BY <1>0, <1>7, <2>1 DEF ReadUnlock, TypeOK
  <2>3. writing_' = \E u \in Thread : pc'[u] = "writing"
    BY <1>0, <1>7, <2>2, CountersRead DEF ReadUnlock, TypeOK
  <2>4. /\ read_count_' = read_count_ + (IF l \in ReadSide THEN 1 ELSE 0)
                                       - (IF pc[t] \in ReadSide THEN 1 ELSE 0)
        /\ reading_count_' = reading_count_ + (IF l \in {"reading"} THEN 1 ELSE 0)
                                             - (IF pc[t] \in {"reading"} THEN 1 ELSE 0)
        /\ write_count_' = write_count_ + (IF l \in WriteSide THEN 1 ELSE 0)
                                         - (IF pc[t] \in WriteSide THEN 1 ELSE 0)
    BY <1>0, <1>7, <2>1, <2>2 DEF ReadUnlock, TypeOK, ReadSide, WriteSide
  <2>5. CountsExact' /\ TypeOK'
    BY <2>2, <2>3, <2>4, CountersFollow DEF PC
  <2>6. MutualExclusion'
    BY <1>0, <2>2 DEF MutualExclusion, TypeOK
  <2> QED
    BY <2>5, <2>6 DEF IndInv
<1>8. ASSUME NEW t \in Thread, WriteUnlock(t) PROVE IndInv'
  <2>1. write_count_ > 0
    BY <1>8, CountersRead DEF WriteUnlock, WriteSide
  <2>2. PICK l \in {"notifyWriter", "notifyReaders", "idle"} : pc' = [pc EXCEPT ![t] = l]
    BY <1>8 DEF WriteUnlock, WriteUnlockWakes
  <2>3. writing_' = \E u \in Thread : pc'[u] = "writing"
    BY <1>0, <1>8, <2>2 DEF WriteUnlock, TypeOK, MutualExclusion
  <2>4. /\ read_count_' = read_count_ + (IF l \in ReadSide THEN 1 ELSE 0)
                                       - (IF pc[t] \in ReadSide THEN 1 ELSE 0)
        /\ reading_count_' = reading_count_ + (IF l \in {"reading"} THEN 1 ELSE 0)
                                             - (IF pc[t] \in {"reading"} THEN 1 ELSE 0)
        /\ write_count_' = write_count_ + (IF l \in WriteSide THEN 1 ELSE 0)
                                         - (IF pc[t] \in WriteSide THEN 1 ELSE 0)
    BY <1>0, <1>8, <2>1, <2>2 DEF WriteUnlock, TypeOK, ReadSide, WriteSide
  <2>5. CountsExact' /\ TypeOK'
    BY <2>2, <2>3, <2>4, CountersFollow DEF PC
  <2>6. MutualExclusion'
    BY <1>0, <2>2 DEF MutualExclusion, TypeOK
  <2> QED
    BY <2>5, <2>6 DEF IndInv
<1>9. ASSUME NEW t \in Thread, NotifyWriter(t) PROVE IndInv'
  <2>1. CASE pc' = [pc EXCEPT ![t] = "idle"]
    BY <1>0, <1>9, <2>1, SameSides DEF NotifyWriter, TypeOK, PC, ReadSide, WriteSide
  <2>2. CASE \E w \in At({"writeWait"}) : pc' = [pc EXCEPT ![t] = "idle", ![w] = "writeWoken"]
    BY <1>0, <1>9, <2>2, SameSides DEF NotifyWriter, TypeOK, PC, ReadSide, WriteSide, At
  <2> QED
    BY <1>9, <2>1, <2>2 DEF NotifyWriter
<1>10. ASSUME NEW t \in Thread, NotifyReaders(t) PROVE IndInv'
  BY <1>0, <1>10, SameSides DEF NotifyReaders, TypeOK, PC, ReadSide, WriteSide
<1>11. ASSUME NEW t \in Thread, SpuriousWakeup(t) PROVE IndInv'
  BY <1>0, <1>11, SameSides DEF SpuriousWakeup, TypeOK, PC, ReadSide, WriteSide
<1>12. CASE UNCHANGED vars
  BY <1>0, <1>12, SameSides DEF vars, TypeOK
<1> QED
  BY <1>3, <1>4, <1>5, <1>6, <1>7, <1>8, <1>9, <1>10, <1>11, <1>12 DEF Next, Progress

-----------------------------------------------------------------------------
(* The inductive invariant holds of every behaviour.                       *)
LEMMA SpecIndInv == Spec => []IndInv
BY InitIndInv, NextIndInv, PTL DEF Spec

(* The counters stay naturals and the threads stay at known labels.        *)
THEOREM TypeCorrect == Spec => []TypeOK
BY SpecIndInv, PTL DEF IndInv

(* The four fields of the mutex always say what the threads are doing.     *)
THEOREM CountersExact == Spec => []CountsExact
BY SpecIndInv, PTL DEF IndInv

(* A thread inside WriteLock .. WriteUnlock is alone inside the mutex.     *)
THEOREM Exclusion == Spec => []MutualExclusion
BY SpecIndInv, PTL DEF IndInv

-----------------------------------------------------------------------------
(* No wakeup of the readers is lost: whoever makes their predicate true    *)
(* (the writer that leaves) is the one that will notify them.              *)
LEMMA ReaderWakeupKept == IndInv /\ NoLostReaderWakeup /\ [Next]_vars => NoLostReaderWakeup'
<1> SUFFICES ASSUME IndInv, NoLostReaderWakeup, [Next]_vars, At({"readWait"})' # {}
             PROVE  \/ reader_ /\ writing_'
                    \/ ~reader_ /\ write_count_' > 0
                    \/ At({"notifyReaders"})' # {}
  BY PreferenceFixed DEF NoLostReaderWakeup
<1> USE DEF Goto
<1>r. reader_' = reader_
  BY PreferenceFixed
<1> USE <1>r
<1>0. TypeOK /\ reader_ \in BOOLEAN
  BY DEF IndInv, TypeOK
<1>1. ASSUME NEW t \in Thread, ReadLock(t) \/ ReadWake(t),
             ~CanRead, UNCHANGED <<write_count_, writing_>>
      PROVE  (reader_ /\ writing_') \/ (~reader_ /\ write_count_' > 0)
  BY <1>0, <1>1 DEF CanRead, TypeOK
<1>2. ASSUME NEW t \in Thread, WriteUnlock(t)
      PROVE  (~reader_ /\ write_count_' > 0) \/ At({"notifyReaders"})' # {}
  <2>1. PICK r \in Thread : pc[r] = "readWait"
    BY <1>0, <1>2 DEF WriteUnlock, WriteUnlockWakes, At, TypeOK
  <2>2. read_count_ > 0 /\ write_count_ > 0
    BY <1>2, <2>1, CountersRead DEF WriteUnlock, ReadSide, WriteSide
  <2>3. CASE write_count_' > 0 /\ ~reader_
    BY <2>3
  <2>4. CASE ~(write_count_' > 0 /\ ~reader_)
    <3>0. reader_ \/ write_count_' = 0
      BY <1>0, <1>2, <2>2, <2>4 DEF WriteUnlock, TypeOK
    <3>1. pc' = [pc EXCEPT ![t] = "notifyReaders"]
      <4>1. CASE reader_
        BY <1>2, <2>2, <4>1 DEF WriteUnlock, WriteUnlockWakes
      <4>2. CASE ~reader_
        BY <1>2, <3>0, <4>2 DEF WriteUnlock, WriteUnlockWakes
      <4> QED
        BY <4>1, <4>2
    <3> QED
      BY <1>0, <3>1 DEF At, TypeOK
  <2> QED
    BY <2>3, <2>4
<1>3. ASSUME NEW t \in Thread, NotifyReaders(t) PROVE FALSE
  BY <1>0, <1>3 DEF NotifyReaders, At, TypeOK
<1>4. ASSUME At({"readWait"}) # {}, writing_ => writing_', write_count_' >= write_count_,
             \A u \in Thread : pc[u] = "notifyReaders" => pc'[u] = "notifyReaders"
      PROVE  \/ reader_ /\ writing_'
             \/ ~reader_ /\ write_count_' > 0
             \/ At({"notifyReaders"})' # {}
  <2>1. \/ reader_ /\ writing_
        \/ ~reader_ /\ write_count_ > 0
        \/ \E u \in Thread : pc[u] = "notifyReaders"
    BY <1>4 DEF NoLostReaderWakeup, At
  <2>2. CASE ~reader_ /\ write_count_ > 0
    <3>1. write_count_ \in Nat /\ write_count_' \in Nat
      BY NextIndInv DEF IndInv, TypeOK
    <3> QED
      BY <1>4, <2>2, <3>1
  <2>3. CASE reader_ /\ writing_
    BY <1>4, <2>3
  <2>4. CASE \E u \in Thread : pc[u] = "notifyReaders"
    BY <1>4, <2>4 DEF At
  <2> QED
    BY <2>1, <2>2, <2>3, <2>4
<1>5. ASSUME NEW t \in Thread, ReadLock(t)
      PROVE  CanRead => At({"readWait"}) # {}
  BY <1>0, <1>5 DEF ReadLock, At, TypeOK
<1>6. ASSUME NEW t \in Thread, ReadLock(t)
      PROVE  \/ reader_ /\ writing_'
             \/ ~reader_ /\ write_count_' > 0
             \/ At({"notifyReaders"})' # {}
  <2>1. UNCHANGED <<write_count_, writing_>>
    BY <1>6 DEF ReadLock
  <2>2. CASE CanRead
    <3>1. \A u \in Thread : pc[u] = "notifyReaders" => pc'[u] = "notifyReaders"
      BY <1>0, <1>6 DEF ReadLock, TypeOK
    <3> QED
      BY <1>0, <1>4, <1>5, <1>6, <2>1, <2>2, <3>1 DEF TypeOK
  <2>3. CASE ~CanRead
    BY <1>1, <1>6, <2>1, <2>3
  <2> QED
    BY <2>2, <2>3
<1>7. ASSUME NEW t \in Thread, ReadWake(t)
      PROVE  \/ reader_ /\ writing_'
             \/ ~reader_ /\ write_count_' > 0
             \/ At({"notifyReaders"})' # {}
  <2>1. UNCHANGED <<write_count_, writing_>>
    BY <1>7 DEF ReadWake
  <2>2. CASE CanRead
    <3>1. /\ At({"readWait"}) # {}
          /\ \A u \in Thread : pc[u] = "notifyReaders" => pc'[u] = "notifyReaders"
      BY <1>0, <1>7, <2>2 DEF ReadWake, At, TypeOK
    <3> QED
      BY <1>0, <1>4, <2>1, <3>1 DEF TypeOK
  <2>3. CASE ~CanRead
    BY <1>1, <1>7, <2>1, <2>3
  <2> QED
    BY <2>2, <2>3
<1> DEFINE Kept == /\ At({"readWait"}) # {} /\ (writing_ => writing_') /\ write_count_' >= write_count_
                   /\ \A u \in Thread : pc[u] = "notifyReaders" => pc'[u] = "notifyReaders"
<1>8. ASSUME NEW t \in Thread, ReadUnlock(t) PROVE Kept
  BY <1>0, <1>8 DEF ReadUnlock, At, TypeOK
<1>9. ASSUME NEW t \in Thread, WriteLock(t) PROVE Kept
  BY <1>0, <1>9 DEF WriteLock, At, TypeOK
<1>10. ASSUME NEW t \in Thread, WriteWake(t) PROVE Kept
  BY <1>0, <1>10 DEF WriteWake, At, TypeOK
<1>11. ASSUME NEW t \in Thread, NotifyWriter(t) PROVE Kept
  BY <1>0, <1>11 DEF NotifyWriter, At, TypeOK
<1>12. ASSUME NEW t \in Thread, SpuriousWakeup(t) PROVE Kept
  BY <1>0, <1>12 DEF SpuriousWakeup, At, TypeOK
<1>13. CASE UNCHANGED vars
  BY <1>0, <1>4, <1>13 DEF vars, At, TypeOK
<1> QED
  BY <1>2, <1>3, <1>4, <1>6, <1>7, <1>8, <1>9, <1>10, <1>11, <1>12, <1>13 DEF Next, Progress

(* A reader asleep on read_cv_ is kept out by a writer or about to be      *)
(* notified: the notify_all after lock.unlock() in WriteUnlock suffices.   *)
THEOREM NoReaderLeftAsleep == Spec => []NoLostReaderWakeup
<1>1. Init => NoLostReaderWakeup
  BY DEF Init, NoLostReaderWakeup, At
<1> QED
  BY <1>1, SpecIndInv, ReaderWakeupKept, PTL DEF Spec

-----------------------------------------------------------------------------
(* What keeps a sleeping writer from being forgotten.                      *)
WriterDue ==
  \/ writing_
  \/ reader_ /\ read_count_ > 0
  \/ ~reader_ /\ reading_count_ > 0
  \/ \E u \in Thread : pc[u] \in {"notifyWriter", "writeWoken"}

(* No wakeup of a writer is lost: whoever makes their predicate true (the  *)
(* last reader, the writer that leaves) notifies one of them, and the one  *)
(* that was woken either gets in or is kept out by somebody else.          *)
LEMMA WriterWakeupKept == IndInv /\ NoLostWriterWakeup /\ [Next]_vars => NoLostWriterWakeup'
<1> SUFFICES ASSUME IndInv, NoLostWriterWakeup, [Next]_vars, At({"writeWait"})' # {}
             PROVE  WriterDue'
  BY DEF NoLostWriterWakeup, WriterDue, At
<1> USE DEF Goto
<1>r. reader_' = reader_
  BY PreferenceFixed
<1> USE <1>r
<1>0. TypeOK /\ reader_ \in BOOLEAN
  BY DEF IndInv, TypeOK
<1>1. TypeOK'
  BY NextIndInv DEF IndInv
<1>2. At({"writeWait"}) # {} => WriterDue
  BY DEF NoLostWriterWakeup, WriterDue, At
<1>3. ~CanWrite => writing_ \/ (reader_ /\ read_count_ > 0) \/ (~reader_ /\ reading_count_ > 0)
  BY <1>0 DEF CanWrite, TypeOK
<1>4. ASSUME NEW t \in Thread, WriteLock(t) PROVE WriterDue'
  <2>1. CASE CanWrite
    BY <1>4, <2>1 DEF WriteLock, WriterDue
  <2>2. CASE ~CanWrite
    BY <1>3, <1>4, <2>2 DEF WriteLock, WriterDue
  <2> QED
    BY <2>1, <2>2
<1>5. ASSUME NEW t \in Thread, WriteWake(t) PROVE WriterDue'
  <2>1. CASE CanWrite
    BY <1>5, <2>1 DEF WriteWake, WriterDue
  <2>2. CASE ~CanWrite
    BY <1>3, <1>5, <2>2 DEF WriteWake, WriterDue
  <2> QED
    BY <2>1, <2>2
<1>6. ASSUME NEW t \in Thread, WriteUnlock(t) PROVE WriterDue'
  <2>1. PICK w \in Thread : pc[w] = "writeWait" /\ w # t
    BY <1>0, <1>6 DEF WriteUnlock, WriteUnlockWakes, At, TypeOK
  <2>2. write_count_' > 0
    <3>1. Cardinality(At(WriteSide)') = 0 <=> \A u \in Thread : pc'[u] \notin WriteSide
      <4>1. IsFiniteSet(At(WriteSide)')
        BY ThreadFinite, FS_Subset DEF At
      <4>2. Cardinality(At(WriteSide)') = 0 <=> At(WriteSide)' = {}
        BY <4>1, FS_EmptySet
      <4> QED
        BY <4>2 DEF At
    <3>2. pc'[w] \in WriteSide
      BY <1>0, <1>6, <2>1 DEF WriteUnlock, TypeOK, WriteSide
    <3>3. CountsExact'
      BY NextIndInv DEF IndInv
    <3> QED
      BY <1>1, <2>1, <3>1, <3>2, <3>3 DEF CountsExact, TypeOK
  <2>3. CASE reader_ /\ read_count_ > 0
    BY <1>6, <2>3 DEF WriteUnlock, WriterDue
  <2>4. CASE ~(reader_ /\ read_count_ > 0)
    <3>1. WriteUnlockWakes(read_count_, write_count_') = "notifyWriter"
      BY <1>1, <2>2, <2>4 DEF WriteUnlockWakes, TypeOK
    <3>2. pc'[t] = "notifyWriter"
      BY <1>0, <1>6, <3>1 DEF WriteUnlock, TypeOK
    <3> QED
      BY <3>2 DEF WriterDue
  <2> QED
    BY <2>3, <2>4
<1>7. ASSUME NEW t \in Thread, ReadUnlock(t) PROVE WriterDue'
  <2>1. PICK w \in Thread : pc[w] = "writeWait"
    BY <1>0, <1>7 DEF ReadUnlock, At, TypeOK
  <2>2. read_count_ > 0 /\ write_count_ > 0
    BY <1>7, <2>1, CountersRead DEF ReadUnlock, ReadSide, WriteSide
  <2>3. CASE (reader_ /\ read_count_' > 0) \/ (~reader_ /\ reading_count_' > 0)
    BY <2>3 DEF WriterDue
  <2>4. CASE ~(reader_ /\ read_count_' > 0) /\ ~(~reader_ /\ reading_count_' > 0)
    <3>1. ReadUnlockWakes(read_count_', reading_count_', write_count_)
      BY <1>0, <1>1, <2>2, <2>4 DEF ReadUnlockWakes, TypeOK
    <3>2. pc'[t] = "notifyWriter"
      BY <1>0, <1>7, <2>2, <3>1 DEF ReadUnlock, TypeOK
    <3> QED
      BY <3>2 DEF WriterDue
  <2> QED
    BY <2>3, <2>4
<1>8. ASSUME NEW t \in Thread, NotifyWriter(t) PROVE WriterDue'
  <2>1. PICK w \in At({"writeWait"}) : pc' = [pc EXCEPT ![t] = "idle", ![w] = "writeWoken"]
    BY <1>0, <1>8 DEF NotifyWriter, At, TypeOK
  <2> QED
    BY <1>0, <2>1 DEF WriterDue, At, TypeOK
<1> DEFINE Kept == /\ At({"writeWait"}) # {} /\ (writing_ => writing_')
                   /\ read_count_' >= read_count_ /\ reading_count_' >= reading_count_
                   /\ \A u \in Thread : pc[u] \in {"notifyWriter", "writeWoken"}
                                           => pc'[u] \in {"notifyWriter", "writeWoken"}
<1>9. Kept => WriterDue'
  <2> SUFFICES ASSUME Kept PROVE WriterDue'
    OBVIOUS
  <2>1. read_count_ > 0 => read_count_' > 0
    BY <1>0, <1>1 DEF TypeOK
  <2>2. reading_count_ > 0 => reading_count_' > 0
    BY <1>0, <1>1 DEF TypeOK
  <2> QED
    BY <1>2, <2>1, <2>2 DEF WriterDue
<1>10. ASSUME NEW t \in Thread, ReadLock(t) PROVE Kept
  BY <1>0, <1>10 DEF ReadLock, At, TypeOK
<1>11. ASSUME NEW t \in Thread, ReadWake(t) PROVE Kept
  BY <1>0, <1>11 DEF ReadWake, At, TypeOK
<1>12. ASSUME NEW t \in Thread, NotifyReaders(t) PROVE Kept
  BY <1>0, <1>12 DEF NotifyReaders, At, TypeOK
<1>13. ASSUME NEW t \in Thread, SpuriousWakeup(t) PROVE Kept
  BY <1>0, <1>13 DEF SpuriousWakeup, At, TypeOK
<1>14. CASE UNCHANGED vars
  BY <1>0, <1>9, <1>14 DEF vars, At, TypeOK
<1> QED
  BY <1>4, <1>5, <1>6, <1>7, <1>8, <1>9, <1>10, <1>11, <1>12, <1>13, <1>14 DEF Next, Progress

(* A writer asleep on write_cv_ is kept out or about to be notified: one   *)
(* notify_one per unlock suffices, whatever writers arrive meanwhile.      *)
THEOREM NoWriterLeftAsleep == Spec => []NoLostWriterWakeup
<1>1. Init => NoLostWriterWakeup
  BY DEF Init, NoLostWriterWakeup, At
<1> QED
  BY <1>1, SpecIndInv, WriterWakeupKept, PTL DEF Spec

-----------------------------------------------------------------------------
(* Every step of the mutex is a step of the abstract lock or a stutter.    *)
LEMMA StepRefines == IndInv /\ [Next]_vars => [Abs!Next]_(Abs!absVars)
<1> SUFFICES ASSUME IndInv, [Next]_vars PROVE [Abs!Next]_(Abs!absVars)
  OBVIOUS
<1> USE DEF Goto
<1>0. TypeOK /\ MutualExclusion
  BY DEF IndInv
<1> DEFINE R == At({"reading"})
           W == At({"writing"})
<1>1. ASSUME NEW t \in Thread, ReadLock(t) \/ ReadWake(t) PROVE Abs!StartRead(t) \/ UNCHANGED <<R, W>>
  <2>1. CASE CanRead
    <3>1. pc' = [pc EXCEPT ![t] = "reading"] /\ pc[t] \in {"idle", "readWoken"}
      BY <1>1, <2>1 DEF ReadLock, ReadWake
    <3>2. W = {}
      BY <2>1, CanReadExcludes DEF At
    <3>3. t \notin R /\ R' = R \cup {t} /\ W' = W
      BY <1>0, <3>1 DEF At, TypeOK
    <3> QED
      BY <3>2, <3>3 DEF Abs!StartRead
  <2>2. CASE ~CanRead
    <3>1. pc' = [pc EXCEPT ![t] = "readWait"] /\ pc[t] \in {"idle", "readWoken"}
      BY <1>1, <2>2 DEF ReadLock, ReadWake
    <3> QED
      BY <1>0, <3>1 DEF At, TypeOK
  <2> QED
    BY <2>1, <2>2
<1>2. ASSUME NEW t \in Thread, WriteLock(t) \/ WriteWake(t) PROVE Abs!StartWrite(t) \/ UNCHANGED <<R, W>>
  <2>1. CASE CanWrite
    <3>1. pc' = [pc EXCEPT ![t] = "writing"] /\ pc[t] \in {"idle", "writeWoken"}
      BY <1>2, <2>1 DEF WriteLock, WriteWake
    <3>2. R = {} /\ W = {}
      BY <2>1, CanWriteExcludes DEF At
    <3>3. R' = R /\ W' = W \cup {t}
      BY <1>0, <3>1 DEF At, TypeOK
    <3> QED
      BY <3>2, <3>3 DEF Abs!StartWrite
  <2>2. CASE ~CanWrite
    <3>1. pc' = [pc EXCEPT ![t] = "writeWait"] /\ pc[t] \in {"idle", "writeWoken"}
      BY <1>2, <2>2 DEF WriteLock, WriteWake
    <3> QED
      BY <1>0, <3>1 DEF At, TypeOK
  <2> QED
    BY <2>1, <2>2
<1>3. ASSUME NEW t \in Thread, ReadUnlock(t) PROVE Abs!EndRead(t)
  <2>1. PICK l \in {"notifyWriter", "idle"} : pc' = [pc EXCEPT ![t] = l]
    BY <1>0, <1>3 DEF ReadUnlock, TypeOK
  <2>2. t \in R /\ R' = R \ {t} /\ W' = W
    BY <1>0, <1>3, <2>1 DEF ReadUnlock, At, TypeOK
  <2> QED
    BY <2>2 DEF Abs!EndRead
<1>4. ASSUME NEW t \in Thread, WriteUnlock(t) PROVE Abs!EndWrite(t)
  <2>1. PICK l \in {"notifyWriter", "notifyReaders", "idle"} : pc' = [pc EXCEPT ![t] = l]
    BY <1>4 DEF WriteUnlock, WriteUnlockWakes
  <2>2. t \in W /\ R' = R /\ W' = W \ {t}
    BY <1>0, <1>4, <2>1 DEF WriteUnlock, At, TypeOK
  <2> QED
    BY <2>2 DEF Abs!EndWrite
<1>5. ASSUME NEW t \in Thread, NotifyWriter(t) PROVE UNCHANGED <<R, W>>
  BY <1>0, <1>5 DEF NotifyWriter, At, TypeOK
<1>6. ASSUME NEW t \in Thread, NotifyReaders(t) PROVE UNCHANGED <<R, W>>
  BY <1>0, <1>6 DEF NotifyReaders, At, TypeOK
<1>7. ASSUME NEW t \in Thread, SpuriousWakeup(t) PROVE UNCHANGED <<R, W>>
  BY <1>0, <1>7 DEF SpuriousWakeup, At, TypeOK
<1>8. CASE UNCHANGED vars
  BY <1>8 DEF vars, At, Abs!absVars
<1> QED
  BY <1>1, <1>2, <1>3, <1>4, <1>5, <1>6, <1>7, <1>8 DEF Next, Progress, Abs!Next, Abs!absVars

(* The class implements the reader/writer lock it is documented to be, for *)
(* any number of threads, either preference and any spurious wakeups.      *)
THEOREM Refinement == Spec => ImplementsRwLock
<1>1. Init => Abs!Init
  BY DEF Init, Abs!Init, At
<1> QED
  BY <1>1, SpecIndInv, StepRefines, PTL DEF Spec, ImplementsRwLock, Abs!Spec

=============================================================================
