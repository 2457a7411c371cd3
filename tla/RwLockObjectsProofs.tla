------------------------ MODULE RwLockObjectsProofs ------------------------
(***************************************************************************)
(* Proofs about RwLockObjects for any finite sets of threads and objects,  *)
(* any owners and any nesting: what the mutex still promises when its      *)
(* locks are released by objects that may or may not hold one.             *)
(***************************************************************************)
EXTENDS RwLockObjects, FiniteSetTheorems, TLAPS

-----------------------------------------------------------------------------
(* Sums over the objects.                                                  *)

Others(f, o) == {u \in Object \X (1..MaxNested) : u[1] # o /\ u[2] <= f[u[1]]}

LEMMA UnitsFinite == IsFiniteSet(Object \X (1..MaxNested))
<1>1. MaxNested \in Int /\ 1 \in Int
  BY NestedBound
<1>2. IsFiniteSet(1..MaxNested)
  BY <1>1, FS_Interval
<1> QED BY <1>2, ObjectsFinite, FS_Product

\* One summand taken apart from the others.
LEMMA TotalSplits ==
  ASSUME NEW f \in [Object -> 0..MaxNested], NEW o \in Object
  PROVE  Cardinality(Others(f, o)) \in Nat /\ Total(f) = Cardinality(Others(f, o)) + f[o]
<1> DEFINE A == Others(f, o)
           B == {o} \X (1..f[o])
<1>0. MaxNested \in Nat /\ f[o] \in Nat /\ f[o] <= MaxNested
  BY NestedBound
<1>1. IsFiniteSet(Object \X (1..MaxNested))
  BY UnitsFinite
<1>2. IsFiniteSet(A) /\ Cardinality(A) \in Nat
  BY <1>1, FS_Subset, FS_CardinalityType DEF Others
<1>3. IsFiniteSet(B) /\ Cardinality(B) = f[o]
  <2>1. IsFiniteSet(1..f[o]) /\ Cardinality(1..f[o]) = f[o]
    BY <1>0, FS_Interval
  <2>2. IsFiniteSet({o}) /\ Cardinality({o}) = 1
    BY FS_Singleton
  <2>3. IsFiniteSet(B) /\ Cardinality(B) = 1 * f[o]
    BY <2>1, <2>2, FS_Product
  <2> QED BY <1>0, <2>3
<1>4. A \cap B = {}
  BY DEF Others
<1>5. {u \in Object \X (1..MaxNested) : u[2] <= f[u[1]]} = A \cup B
  BY <1>0 DEF Others
<1>6. Cardinality(A \cup B) = Cardinality(A) + Cardinality(B) - Cardinality(A \cap B)
  BY <1>2, <1>3, FS_Union
<1>7. Cardinality(A \cap B) = 0
  BY <1>4, FS_EmptySet
<1>8. Total(f) = Cardinality(A \cup B)
  BY <1>5 DEF Total
<1> HIDE DEF A, B
<1>9. Total(f) = Cardinality(A) + f[o]
  BY <1>0, <1>2, <1>3, <1>6, <1>7, <1>8
<1> QED BY <1>2, <1>9 DEF A

(* Changing one summand changes the sum by as much; no summand exceeds it; *)
(* and only zeros add up to zero.                                          *)
LEMMA TotalSet ==
  ASSUME NEW f \in [Object -> 0..MaxNested], NEW o \in Object, NEW n \in 0..MaxNested
  PROVE  Total([f EXCEPT ![o] = n]) = Total(f) - f[o] + n
<1> DEFINE g == [f EXCEPT ![o] = n]
<1>1. g \in [Object -> 0..MaxNested] /\ g[o] = n
  OBVIOUS
<1>2. Others(g, o) = Others(f, o)
  BY DEF Others
<1> HIDE DEF g
<1>3. /\ Cardinality(Others(f, o)) \in Nat
      /\ Total(f) = Cardinality(Others(f, o)) + f[o] /\ Total(g) = Cardinality(Others(f, o)) + n
  BY <1>1, <1>2, TotalSplits
<1>4. f[o] \in Nat /\ n \in Nat
  BY NestedBound
<1> QED BY <1>3, <1>4 DEF g

LEMMA TotalNat ==
  ASSUME NEW f \in [Object -> 0..MaxNested]
  PROVE  /\ Total(f) \in Nat
         /\ \A o \in Object : f[o] <= Total(f)
         /\ Total(f) > 0 => \E o \in Object : f[o] > 0
<1> DEFINE U == {u \in Object \X (1..MaxNested) : u[2] <= f[u[1]]}
<1>1. IsFiniteSet(Object \X (1..MaxNested))
  BY UnitsFinite
<1>2. IsFiniteSet(U) /\ Cardinality(U) \in Nat /\ (Cardinality(U) = 0 <=> U = {})
  BY <1>1, FS_Subset, FS_CardinalityType, FS_EmptySet
<1>3. Total(f) = Cardinality(U)
  BY DEF Total
<1>4. ASSUME NEW o \in Object PROVE f[o] <= Total(f)
  <2>1. f[o] \in Nat
    BY NestedBound
  <2> QED BY <2>1, TotalSplits
<1>5. ASSUME U # {} PROVE \E o \in Object : f[o] > 0
  <2>1. PICK u \in Object \X (1..MaxNested) : u[2] <= f[u[1]]
    BY <1>5
  <2>2. u[1] \in Object /\ u[2] \in Nat /\ u[2] > 0 /\ f[u[1]] \in Nat
    BY NestedBound
  <2> QED BY <2>1, <2>2
<1> QED BY <1>2, <1>3, <1>4, <1>5

\* What a move from p to o does to a sum: the target's summand is gone.
LEMMA TotalMoves ==
  ASSUME NEW f \in [Object -> 0..MaxNested], NEW o \in Object, NEW p \in Object,
         NEW g, g = [f EXCEPT ![o] = IF o = p THEN 0 ELSE f[p], ![p] = 0]
  PROVE  Total(g) = Total(f) - f[o]
<1> DEFINE n == IF o = p THEN 0 ELSE f[p]
           h == [f EXCEPT ![o] = n]
<1>0. n \in 0..MaxNested /\ 0 \in 0..MaxNested /\ f[o] \in Nat /\ f[p] \in Nat
  BY NestedBound
<1>1. Total(h) = Total(f) - f[o] + n
  BY <1>0, TotalSet
<1>2. h \in [Object -> 0..MaxNested] /\ h[p] = n
  BY <1>0
<1>3. g = [h EXCEPT ![p] = 0]
  OBVIOUS
<1> HIDE DEF h, n
<1>4. Total([h EXCEPT ![p] = 0]) = Total(h) - h[p] + 0
  BY <1>0, <1>2, TotalSet
<1>5. Total(f) \in Nat
  BY TotalNat
<1>6. Total(g) = Total(h) - h[p] + 0
  BY ONLY <1>3, <1>4
<1> QED BY <1>0, <1>1, <1>2, <1>5, <1>6, NestedBound

-----------------------------------------------------------------------------
(* The inductive invariant.  The counters of the mutex are sums, so a step *)
(* keeps them right only if each object's own counters are right: Balanced *)
(* says what they count, CallsOwn and Rest that only its owner is at work  *)
(* on it.  Alone is exclusion in the form in which a step preserves it.    *)

LockType == [kind : {"none", "read", "write", "both"}, mutex : BOOLEAN,
             count : 0..MaxNested, reading : 0..MaxNested, writes : 0..MaxNested]
Later == [object : Object, source : SUBSET Object]

Counts == [o \in Object |-> lock[o].count]
Readings == [o \in Object |-> lock[o].reading]
Writings == [o \in Object |-> lock[o].writes]

AddUp == read_count_ = Total(Counts) /\ reading_count_ = Total(Readings) /\ write_count_ = Total(Writings)

WaitsToRead(t) == pc[t] \in {"readWait", "readWoken"}
ReadPending(o) == WaitsToRead(owner[o]) /\ using[owner[o]] = {o}
WritePending(o) == WaitsToWrite(owner[o]) /\ using[owner[o]] = {o}

\* What holds nothing counts nothing, and an object counts only what its class can hold.
Shape(l) ==
  /\ l.kind = "none" => ~l.mutex
  /\ ~l.mutex => l.count = 0 /\ l.reading = 0 /\ l.writes = 0
  /\ l.kind = "read" => l.writes = 0
  /\ l.kind = "write" => l.count = 0 /\ l.reading = 0

Shaped == \A o \in Object : Shape(lock[o])

CallsOwn ==
  \A t \in Thread :
    IF WaitsToRead(t) \/ WaitsToWrite(t) THEN \E o \in Object : using[t] = {o} /\ owner[o] = t
                                         ELSE using[t] = {}

\* An object counts a lock that its owner waits for already.
Balanced ==
  \A o \in Object :
    /\ lock[o].count = lock[o].reading + (IF ReadPending(o) THEN 1 ELSE 0)
    /\ WritePending(o) => lock[o].writes > 0

\* What is left to do for d.object: its readers are released, and nobody but t touches it.
RestFits(t, d) ==
  /\ owner[d.object] = t /\ lock[d.object].kind = "both" /\ lock[d.object].count = 0
  /\ d.source = {} \/ \E p \in Object : d.source = {p} /\ owner[p] = t /\ lock[p].kind = "both"

Rest ==
  \A t \in Thread : todo[t] # {} =>
    pc[t] \in {"idle", "notifyWriter"} /\ \E d \in Later : todo[t] = {d} /\ RestFits(t, d)

\* The writer inside, by its object.
Inside(o) == lock[o].writes > (IF WritePending(o) THEN 1 ELSE 0)

Alone ==
  ~stray => /\ \A o \in Object : lock[o].writes <= (IF WritePending(o) THEN 2 ELSE 1)
            /\ writing_ <=> \E o \in Object : Inside(o)
            /\ \A o, p \in Object : Inside(o) => lock[p].reading = 0 /\ (p # o => ~Inside(p))

Local == TypeOK /\ Shaped /\ CallsOwn /\ Balanced /\ Rest
IInv == Local /\ AddUp /\ Alone

-----------------------------------------------------------------------------
(* What the sums say of the single objects.                                *)
LEMMA FieldsTyped ==
  ASSUME TypeOK
  PROVE  Counts \in [Object -> 0..MaxNested] /\ Readings \in [Object -> 0..MaxNested]
         /\ Writings \in [Object -> 0..MaxNested]
BY DEF TypeOK, Counts, Readings, Writings

LEMMA SumsBound ==
  ASSUME TypeOK, AddUp
  PROVE  /\ \A o \in Object : /\ lock[o].count <= read_count_ /\ lock[o].reading <= reading_count_
                              /\ lock[o].writes <= write_count_
         /\ read_count_ > 0 => \E o \in Object : lock[o].count > 0
         /\ reading_count_ > 0 => \E o \in Object : lock[o].reading > 0
         /\ write_count_ > 0 => \E o \in Object : lock[o].writes > 0
<1>1. ASSUME NEW o \in Object
      PROVE  Counts[o] = lock[o].count /\ Readings[o] = lock[o].reading /\ Writings[o] = lock[o].writes
  BY DEF Counts, Readings, Writings
<1> QED BY <1>1, FieldsTyped, TotalNat DEF AddUp

\* One object changes.
LEMMA SumsOfOne ==
  ASSUME TypeOK, NEW o \in Object, NEW l \in LockType, lock' = [lock EXCEPT ![o] = l]
  PROVE  /\ Total(Counts)' = Total(Counts) - lock[o].count + l.count
         /\ Total(Readings)' = Total(Readings) - lock[o].reading + l.reading
         /\ Total(Writings)' = Total(Writings) - lock[o].writes + l.writes
<1>1. /\ Counts[o] = lock[o].count /\ Readings[o] = lock[o].reading /\ Writings[o] = lock[o].writes
      /\ l.count \in 0..MaxNested /\ l.reading \in 0..MaxNested /\ l.writes \in 0..MaxNested
  BY DEF Counts, Readings, Writings, LockType
<1>2. Counts' = [Counts EXCEPT ![o] = l.count]
  BY DEF TypeOK, Counts
<1>3. Readings' = [Readings EXCEPT ![o] = l.reading]
  BY DEF TypeOK, Readings
<1>4. Writings' = [Writings EXCEPT ![o] = l.writes]
  BY DEF TypeOK, Writings
<1>5. /\ Total([Counts EXCEPT ![o] = l.count]) = Total(Counts) - Counts[o] + l.count
      /\ Total([Readings EXCEPT ![o] = l.reading]) = Total(Readings) - Readings[o] + l.reading
      /\ Total([Writings EXCEPT ![o] = l.writes]) = Total(Writings) - Writings[o] + l.writes
  BY <1>1, FieldsTyped, TotalSet
<1> QED BY <1>1, <1>2, <1>3, <1>4, <1>5

\* One object takes another one over.
LEMMA SumsOfMove ==
  ASSUME TypeOK, NEW o \in Object, NEW p \in Object, lock' = TakenOver(o, p)
  PROVE  /\ Total(Counts)' = Total(Counts) - lock[o].count
         /\ Total(Readings)' = Total(Readings) - lock[o].reading
         /\ Total(Writings)' = Total(Writings) - lock[o].writes
<1>0. lock \in [Object -> LockType]
  BY DEF TypeOK, LockType
<1>1. /\ \A q \in Object : Counts[q] = lock[q].count /\ Readings[q] = lock[q].reading
                           /\ Writings[q] = lock[q].writes
  BY DEF Counts, Readings, Writings
<1>2. \A l : MovedFrom(l).count = 0 /\ MovedFrom(l).reading = 0 /\ MovedFrom(l).writes = 0
  BY DEF MovedFrom, New
<1>3. lock' = [lock EXCEPT ![o] = IF o = p THEN MovedFrom(lock[o]) ELSE lock[p], ![p] = MovedFrom(lock[p])]
  BY DEF TakenOver
<1>4. \A q \in Object : lock'[q] = IF q = p THEN MovedFrom(lock[p]) ELSE IF q = o THEN lock[p] ELSE lock[q]
  BY <1>0, <1>3
<1>5. Counts' = [Counts EXCEPT ![o] = IF o = p THEN 0 ELSE Counts[p], ![p] = 0]
  <2>1. \A q \in Object : lock'[q].count = IF q = p THEN 0 ELSE IF q = o THEN Counts[p] ELSE Counts[q]
    BY <1>1, <1>2, <1>4
  <2> QED BY <2>1 DEF Counts
<1>6. Readings' = [Readings EXCEPT ![o] = IF o = p THEN 0 ELSE Readings[p], ![p] = 0]
  <2>1. \A q \in Object : lock'[q].reading = IF q = p THEN 0 ELSE IF q = o THEN Readings[p] ELSE Readings[q]
    BY <1>1, <1>2, <1>4
  <2> QED BY <2>1 DEF Readings
<1>7. Writings' = [Writings EXCEPT ![o] = IF o = p THEN 0 ELSE Writings[p], ![p] = 0]
  <2>1. \A q \in Object : lock'[q].writes = IF q = p THEN 0 ELSE IF q = o THEN Writings[p] ELSE Writings[q]
    BY <1>1, <1>2, <1>4
  <2> QED BY <2>1 DEF Writings
<1>8. /\ Total(Counts') = Total(Counts) - Counts[o]
      /\ Total(Readings') = Total(Readings) - Readings[o]
      /\ Total(Writings') = Total(Writings) - Writings[o]
  BY <1>5, <1>6, <1>7, FieldsTyped, TotalMoves
<1>9. Total(Counts)' = Total(Counts') /\ Total(Readings)' = Total(Readings') /\ Total(Writings)' = Total(Writings')
  OBVIOUS
<1> QED BY <1>1, <1>8, <1>9

-----------------------------------------------------------------------------
(* An object whose owner waits for nothing.                                *)
LEMMA IdleObject ==
  ASSUME IInv, NEW t \in Thread, pc[t] = "idle", NEW o \in Object, owner[o] = t
  PROVE  /\ lock[o] \in LockType /\ Shape(lock[o]) /\ using[t] = {}
         /\ ~ReadPending(o) /\ ~WritePending(o) /\ lock[o].count = lock[o].reading
         /\ lock[o].count <= read_count_ /\ lock[o].reading <= reading_count_ /\ lock[o].writes <= write_count_
         /\ ~stray => lock[o].writes <= 1
         /\ Inside(o) <=> lock[o].writes > 0
<1> USE DEF IInv, Local
<1>1. lock[o] \in LockType /\ Shape(lock[o])
  BY DEF TypeOK, LockType, Shaped
<1>2. ~WaitsToRead(t) /\ ~WaitsToWrite(t) /\ using[t] = {}
  BY DEF WaitsToRead, WaitsToWrite, CallsOwn
<1>3. ~ReadPending(o) /\ ~WritePending(o)
  BY <1>2 DEF ReadPending, WritePending
<1>4. lock[o].count = lock[o].reading
  BY <1>1, <1>3, NestedBound DEF Balanced, LockType
<1>5. ~stray => lock[o].writes <= 1
  BY <1>3 DEF Alone
<1> QED BY <1>1, <1>2, <1>3, <1>4, <1>5, SumsBound DEF Inside

\* How many locks ReadUnlock releases.
Reads(o, release) == IF release \/ lock[o].count = 0 THEN lock[o].count ELSE 1

Less(l, n) ==
  [kind |-> l.kind, mutex |-> l.mutex, count |-> l.count - n, reading |-> l.reading - n, writes |-> l.writes]

LEMMA FieldsSet ==
  ASSUME NEW l \in LockType, NEW a \in Nat, NEW b \in Nat
  PROVE  [l EXCEPT !.count = a, !.reading = b]
           = [kind |-> l.kind, mutex |-> l.mutex, count |-> a, reading |-> b, writes |-> l.writes]
<1> DEFINE Unbounded == [kind : {"none", "read", "write", "both"}, mutex : BOOLEAN,
                         count : Nat, reading : Nat, writes : Nat]
           k == [kind |-> l.kind, mutex |-> l.mutex, count |-> a, reading |-> l.reading, writes |-> l.writes]
<1>1. ASSUME NEW m \in Unbounded, NEW n \in Nat
      PROVE  /\ [m EXCEPT !.count = n] =
                  [kind |-> m.kind, mutex |-> m.mutex, count |-> n, reading |-> m.reading, writes |-> m.writes]
             /\ [m EXCEPT !.reading = n] =
                  [kind |-> m.kind, mutex |-> m.mutex, count |-> m.count, reading |-> n, writes |-> m.writes]
  OBVIOUS
<1>2. l \in Unbounded
  BY NestedBound DEF LockType
<1>3. k \in Unbounded
  BY <1>2
<1> HIDE DEF Unbounded
<1>4. [l EXCEPT !.count = a] = k
  BY <1>1, <1>2
<1>5. [k EXCEPT !.reading = b] =
        [kind |-> k.kind, mutex |-> k.mutex, count |-> k.count, reading |-> b, writes |-> k.writes]
  <2> HIDE DEF k
  <2> QED BY <1>1, <1>3
<1>6. [l EXCEPT !.count = a, !.reading = b] = [[l EXCEPT !.count = a] EXCEPT !.reading = b]
  OBVIOUS
<1>7. [l EXCEPT !.count = a, !.reading = b] = [k EXCEPT !.reading = b]
  BY <1>4, <1>6
<1> QED BY <1>5, <1>7

(* ReadUnlock of an object whose owner waits for nothing: its early return *)
(* is taken only if there is nothing to release, and no counter is cut off *)
(* at zero.                                                                *)
LEMMA ReadUnlockIs ==
  ASSUME IInv, NEW t \in Thread, pc[t] = "idle", NEW o \in Object, owner[o] = t,
         NEW release \in BOOLEAN, ReadUnlock(t, lock[o], release)
  PROVE  /\ Reads(o, release) \in 0..lock[o].count
         /\ release => Reads(o, release) = lock[o].count
         /\ read_count_' = read_count_ - Reads(o, release)
         /\ reading_count_' = reading_count_ - Reads(o, release)
         /\ ReadReleased(lock[o], release) =
              Less(lock[o], Reads(o, release))
         /\ pc' = [pc EXCEPT ![t] = "idle"] \/ pc' = [pc EXCEPT ![t] = "notifyWriter"]
         /\ Reads(o, release) > 0 /\ Mutex!ReadUnlockWakes(read_count_', reading_count_', write_count_)
              => pc' = [pc EXCEPT ![t] = "notifyWriter"]
         /\ UNCHANGED <<reader_, write_count_, writing_, stray>>
<1> DEFINE l == lock[o]
           n == Reads(o, release)
<1>1. /\ l \in LockType /\ l.count = l.reading
      /\ l.count <= read_count_ /\ l.reading <= reading_count_
      /\ read_count_ \in Nat /\ reading_count_ \in Nat /\ l.count \in Nat
  BY IdleObject, NestedBound DEF IInv, Local, TypeOK, LockType
<1>2. KeepsRead(l) <=> l.count = 0
  BY <1>1 DEF KeepsRead
<1>3. n \in 0..l.count /\ n \in Nat /\ n <= l.count /\ (release => n = l.count) /\ (n = 0 <=> l.count = 0)
  BY <1>1 DEF Reads
<1>4. UNCHANGED <<reader_, write_count_, writing_, stray>>
  BY DEF ReadUnlock
<1>5. CASE l.count = 0
  <2>1. n = 0 /\ ReadReleased(l, release) = l
    BY <1>2, <1>3, <1>5 DEF ReadReleased
  <2>2. l = Less(l, 0)
    BY <1>1, NestedBound DEF LockType, Less
  <2>3. read_count_' = read_count_ /\ reading_count_' = reading_count_ /\ pc' = [pc EXCEPT ![t] = "idle"]
    BY <1>2, <1>5 DEF ReadUnlock, Goto
  <2> QED BY <1>1, <1>3, <1>4, <2>1, <2>2, <2>3
<1>6. CASE l.count > 0
  <2>1. /\ n = (IF release THEN l.count ELSE 1) /\ n > 0
    BY <1>1, <1>6 DEF Reads
  <2>2. /\ read_count_' = Monus(read_count_, n) /\ reading_count_' = Monus(reading_count_, n)
        /\ pc' = [pc EXCEPT ![t] = IF Mutex!ReadUnlockWakes(read_count_', reading_count_', write_count_)
                                   THEN "notifyWriter" ELSE "idle"]
    BY <1>1, <1>2, <1>6, <2>1 DEF ReadUnlock, Goto
  <2>3. read_count_' = read_count_ - n /\ reading_count_' = reading_count_ - n
    BY <1>1, <1>3, <2>2 DEF Monus
  <2>4. ReadReleased(l, release) = Less(l, n)
    <3>1. CASE release
      <4>1. ReadReleased(l, release) = [l EXCEPT !.count = 0, !.reading = 0] /\ l.count - n = 0 /\ l.reading - n = 0
        BY <1>1, <1>2, <1>6, <2>1, <3>1 DEF ReadReleased
      <4> QED BY <1>1, <4>1 DEF LockType, Less
    <3>2. CASE ~release
      <4>1. ReadReleased(l, release) = [l EXCEPT !.count = l.count - 1, !.reading = Monus(l.reading, 1)]
        BY <1>1, <1>2, <1>6, <3>2 DEF ReadReleased
      <4>2. Monus(l.reading, 1) = l.reading - 1 /\ n = 1
        BY <1>1, <1>6, <2>1, <3>2 DEF Monus
      <4>3. l.count - 1 \in Nat /\ l.reading - 1 \in Nat
        BY <1>1, <1>6
      <4>4. [l EXCEPT !.count = l.count - 1, !.reading = l.reading - 1] = Less(l, 1)
        BY <1>1, <4>3, FieldsSet DEF Less
      <4> QED BY <4>1, <4>2, <4>4
    <3> QED BY <3>1, <3>2
  <2> QED BY <1>3, <1>4, <2>1, <2>2, <2>3, <2>4
<1> QED BY <1>1, <1>5, <1>6

LEMMA ReadUnlockTakes ==
  ASSUME IInv, NEW t \in Thread, pc[t] = "idle", NEW o \in Object, owner[o] = t,
         NEW release \in BOOLEAN, ReadUnlock(t, lock[o], release)
  PROVE  \E n \in 0..lock[o].count :
           /\ release => n = lock[o].count
           /\ read_count_' = read_count_ - n /\ reading_count_' = reading_count_ - n
           /\ ReadReleased(lock[o], release) = Less(lock[o], n)
           /\ \E l \in {"idle", "notifyWriter"} : pc' = [pc EXCEPT ![t] = l]
           /\ UNCHANGED <<reader_, write_count_, writing_, stray>>
<1> DEFINE n == Reads(o, release)
<1>1. /\ n \in 0..lock[o].count
      /\ release => n = lock[o].count
      /\ read_count_' = read_count_ - n /\ reading_count_' = reading_count_ - n
      /\ ReadReleased(lock[o], release) = Less(lock[o], n)
      /\ \E l \in {"idle", "notifyWriter"} : pc' = [pc EXCEPT ![t] = l]
      /\ UNCHANGED <<reader_, write_count_, writing_, stray>>
  BY ReadUnlockIs
<1> HIDE DEF n
<1> QED BY <1>1

(* WriteUnlock of such an object: as long as no unlock was stray, an object*)
(* that counts a lock is the writer inside, and nobody is inside after it. *)
LEMMA WriteUnlockIs ==
  ASSUME IInv, NEW t \in Thread, pc[t] = "idle", NEW o \in Object, owner[o] = t,
         NEW release \in BOOLEAN, WriteUnlock(t, lock[o], release)
  PROVE  /\ Writes(lock[o], release) \in 0..lock[o].writes
         /\ write_count_' = write_count_ - Writes(lock[o], release)
         /\ \E l \in {"idle", "notifyWriter", "notifyReaders"} : pc' = [pc EXCEPT ![t] = l]
         /\ writing_' = FALSE /\ stray' \in BOOLEAN
         /\ ~stray' => /\ ~stray /\ Writes(lock[o], release) = lock[o].writes
                       /\ (writing_ => lock[o].writes > 0)
                       /\ \A q \in Object : q # o => ~Inside(q)
         /\ UNCHANGED <<reader_, read_count_, reading_count_>>
<1> DEFINE l == lock[o]
           n == Writes(l, release)
<1>1. /\ l \in LockType /\ l.writes <= write_count_ /\ write_count_ \in Nat /\ l.writes \in Nat
      /\ ~stray => l.writes <= 1
      /\ Inside(o) <=> l.writes > 0
      /\ stray \in BOOLEAN /\ writing_ \in BOOLEAN
  BY IdleObject, NestedBound DEF IInv, Local, TypeOK, LockType
<1>2. n \in 0..l.writes /\ n \in Nat /\ n <= l.writes /\ (l.writes <= 1 => n = l.writes)
  BY <1>1 DEF Writes
<1>3. /\ writing_' = FALSE /\ stray' = (stray \/ (writing_ /\ l.writes = 0))
      /\ write_count_' = Monus(write_count_, n)
      /\ UNCHANGED <<reader_, read_count_, reading_count_>>
  BY DEF WriteUnlock
<1>4. write_count_' = write_count_ - n
  BY <1>1, <1>2, <1>3 DEF Monus
<1>5. \E m \in {"idle", "notifyWriter", "notifyReaders"} : pc' = [pc EXCEPT ![t] = m]
  BY DEF WriteUnlock, WriteNext, Goto, Mutex!WriteUnlockWakes
<1>6. ASSUME ~stray', NEW q \in Object, q # o PROVE ~Inside(q)
  <2>1. ~stray /\ (~writing_ \/ l.writes > 0)
    BY <1>1, <1>3, <1>6
  <2> QED BY <1>1, <1>6, <2>1 DEF IInv, Alone
<1> HIDE DEF n
<1>7. ~stray' => ~stray /\ n = l.writes /\ (writing_ => l.writes > 0)
  BY <1>1, <1>2, <1>3
<1> QED BY <1>2, <1>3, <1>4, <1>5, <1>6, <1>7, <1>1 DEF n

(* A thread that waits for nothing changes its own objects and goes on.    *)
LEMMA OwnerStep ==
  ASSUME IInv, NEW t \in Thread, pc[t] = "idle", todo[t] = {} \/ todo'[t] = {},
         NEW l \in {"idle", "notifyWriter", "notifyReaders", "undefined"}, pc' = [pc EXCEPT ![t] = l],
         using' = using, UNCHANGED reader_, writing_' \in BOOLEAN, stray' \in BOOLEAN,
         lock' \in [Object -> LockType],
         \A o \in Object : IF owner[o] = t THEN Shape(lock'[o]) /\ lock'[o].count = lock'[o].reading
                                           ELSE lock'[o] = lock[o],
         NEW D \in SUBSET Later, todo' = [todo EXCEPT ![t] = D],
         D # {} => l \in {"idle", "notifyWriter"} /\ \E d \in Later : D = {d} /\ RestFits(t, d)',
         AddUp'
  PROVE  Local' /\ AddUp'
<1> USE DEF IInv, Local
<1>1. TypeOK'
  <2>1. Counts' \in [Object -> 0..MaxNested] /\ Readings' \in [Object -> 0..MaxNested]
        /\ Writings' \in [Object -> 0..MaxNested]
    BY DEF Counts, Readings, Writings, LockType
  <2>2. Total(Counts') \in Nat /\ Total(Readings') \in Nat /\ Total(Writings') \in Nat
    BY <2>1, TotalNat
  <2>3. read_count_' \in Nat /\ write_count_' \in Nat /\ reading_count_' \in Nat
    BY <2>2 DEF AddUp
  <2>4. pc' \in [Thread -> (Mutex!PC \ {"reading", "writing"}) \cup {"undefined"}]
    BY DEF TypeOK, Mutex!PC
  <2>5. todo' \in [Thread -> SUBSET Later]
    BY DEF TypeOK, Later
  <2> QED BY <2>3, <2>4, <2>5 DEF TypeOK, LockType, Later
<1>2. Shaped'
  BY DEF Shaped
<1>3. /\ ~WaitsToRead(t) /\ ~WaitsToWrite(t) /\ using[t] = {}
      /\ \A u \in Thread : (WaitsToRead(u)' <=> WaitsToRead(u)) /\ (WaitsToWrite(u)' <=> WaitsToWrite(u))
  BY DEF WaitsToRead, WaitsToWrite, CallsOwn, TypeOK
<1>4. CallsOwn'
  BY <1>3 DEF CallsOwn
<1>5. Balanced'
  <2>1. ASSUME NEW o \in Object
        PROVE  /\ ReadPending(o)' <=> ReadPending(o)
               /\ WritePending(o)' <=> WritePending(o)
               /\ owner[o] = t => ~ReadPending(o) /\ ~WritePending(o)
    BY <1>3, OwnerType DEF ReadPending, WritePending
  <2>2. \A o \in Object : lock'[o].count \in Nat /\ lock'[o].reading \in Nat
    BY NestedBound DEF LockType
  <2> QED BY <2>1, <2>2 DEF Balanced
<1>6. Rest'
  <2> SUFFICES ASSUME NEW u \in Thread, todo'[u] # {}
               PROVE  pc'[u] \in {"idle", "notifyWriter"} /\ \E d \in Later : todo'[u] = {d} /\ RestFits(u, d)'
    BY DEF Rest
  <2>1. CASE u = t
    BY <2>1 DEF TypeOK
  <2>2. CASE u # t
    <3>1. pc'[u] = pc[u] /\ todo'[u] = todo[u]
      BY <2>2 DEF TypeOK
    <3>2. PICK d \in Later : todo[u] = {d} /\ RestFits(u, d) /\ pc[u] \in {"idle", "notifyWriter"}
      BY <3>1 DEF Rest
    <3>3. RestFits(u, d)'
      BY <2>2, <3>2 DEF RestFits, Later
    <3> QED BY <3>1, <3>2, <3>3
  <2> QED BY <2>1, <2>2
<1> QED BY <1>1, <1>2, <1>4, <1>5, <1>6

-----------------------------------------------------------------------------
(* Exclusion, as long as no unlock was stray.                              *)

\* Who waits to write is left alone by a thread that does not.
LEMMA PendingKept ==
  ASSUME IInv, NEW t \in Thread, ~WaitsToWrite(t), using' = using \/ (\E U : using' = [using EXCEPT ![t] = U]),
         NEW m, m \notin {"writeWait", "writeWoken"}, pc' = [pc EXCEPT ![t] = m]
  PROVE  \A o \in Object : WritePending(o)' <=> WritePending(o)
<1> SUFFICES ASSUME NEW o \in Object PROVE WritePending(o)' <=> WritePending(o)
  OBVIOUS
<1>1. pc \in [Thread -> (Mutex!PC \ {"reading", "writing"}) \cup {"undefined"}]
      /\ using \in [Thread -> SUBSET Object] /\ owner[o] \in Thread
  BY OwnerType DEF IInv, Local, TypeOK
<1>2. CASE owner[o] = t
  BY <1>1, <1>2 DEF WritePending, WaitsToWrite
<1>3. CASE owner[o] # t
  <2>1. pc'[owner[o]] = pc[owner[o]] /\ using'[owner[o]] = using[owner[o]]
    BY <1>1, <1>3
  <2> QED BY <2>1 DEF WritePending, WaitsToWrite
<1> QED BY <1>2, <1>3

\* Readers leave, or nothing happens to the locks that are held.
LEMMA AloneLess ==
  ASSUME IInv, UNCHANGED <<stray, writing_>>, lock' \in [Object -> LockType],
         \A o \in Object : /\ WritePending(o)' <=> WritePending(o)
                           /\ lock'[o].writes = lock[o].writes
                           /\ lock'[o].reading <= lock[o].reading
  PROVE  Alone'
<1>1. \A o \in Object : Inside(o)' <=> Inside(o)
  BY DEF Inside
<1>2. \A o \in Object : lock[o].reading \in Nat /\ lock'[o].reading \in Nat
  BY NestedBound DEF IInv, Local, TypeOK, LockType
<1>3. \A o \in Object : lock[o].reading = 0 => lock'[o].reading = 0
  BY <1>2
<1> QED BY <1>1, <1>3 DEF Alone, IInv

\* Nobody writes, and no lock for writing is added.
LEMMA AloneNone ==
  ASSUME ~stray' => ~writing_',
         \A o \in Object : ~stray' => lock'[o].writes <= (IF WritePending(o)' THEN 1 ELSE 0),
         lock' \in [Object -> LockType]
  PROVE  Alone'
<1> SUFFICES ASSUME ~stray' PROVE Alone'
  BY DEF Alone
<1>1. \A o \in Object : lock'[o].writes \in Nat
  BY NestedBound DEF LockType
<1>2. \A o \in Object : ~Inside(o)' /\ lock'[o].writes <= (IF WritePending(o)' THEN 2 ELSE 1)
  BY <1>1 DEF Inside
<1> QED BY <1>2 DEF Alone

\* One object takes another one over, and lets go of no lock for writing.
LEMMA AloneTake ==
  ASSUME IInv, NEW t \in Thread, pc[t] = "idle",
         NEW o \in Object, owner[o] = t, lock[o].writes = 0, NEW p \in Object, owner[p] = t,
         lock' = TakenOver(o, p), UNCHANGED <<stray, writing_>>,
         \A q \in Object : WritePending(q)' <=> WritePending(q)
  PROVE  Alone'
<1> SUFFICES ASSUME ~stray PROVE Alone'
  BY DEF Alone
<1>1. /\ ~WritePending(o) /\ ~WritePending(p) /\ lock[p].writes <= 1 /\ lock[p].writes \in Nat
      /\ Inside(p) <=> lock[p].writes > 0
      /\ ~Inside(o)
  BY IdleObject, NestedBound DEF LockType
<1>2. \A l : MovedFrom(l).reading = 0 /\ MovedFrom(l).writes = 0
  BY DEF MovedFrom, New
<1>3. \A q \in Object : lock'[q] = IF q = p THEN MovedFrom(lock[p]) ELSE IF q = o THEN lock[p] ELSE lock[q]
  <2>1. lock \in [Object -> LockType]
    BY DEF IInv, Local, TypeOK, LockType
  <2> QED BY <2>1 DEF TakenOver
<1>4. \A q \in Object : Inside(q)' <=> IF q = p THEN FALSE ELSE IF q = o THEN Inside(p) ELSE Inside(q)
  BY <1>1, <1>2, <1>3 DEF Inside
<1>5. \A q \in Object : lock'[q].reading = IF q = p THEN 0 ELSE IF q = o THEN lock[p].reading ELSE lock[q].reading
  BY <1>2, <1>3
<1>6. \A q \in Object : lock'[q].writes <= (IF WritePending(q)' THEN 2 ELSE 1)
  <2> SUFFICES ASSUME NEW q \in Object PROVE lock'[q].writes <= (IF WritePending(q)' THEN 2 ELSE 1)
    OBVIOUS
  <2>1. CASE q = p
    BY <1>2, <1>3, <2>1
  <2>2. CASE q = o /\ q # p
    BY <1>1, <1>3, <2>2
  <2>3. CASE q # o /\ q # p
    BY <1>3, <2>3 DEF Alone, IInv
  <2> QED BY <2>1, <2>2, <2>3
<1>7. writing_' <=> \E q \in Object : Inside(q)'
  BY <1>1, <1>4 DEF Alone, IInv
<1>8. ASSUME NEW q \in Object, NEW r \in Object, Inside(q)'
      PROVE  lock'[r].reading = 0 /\ (r # q => ~Inside(r)')
  <2>1. PICK a \in Object : Inside(a) /\ a = (IF q = o THEN p ELSE q)
    BY <1>4, <1>8
  <2>2. \A b \in Object : lock[b].reading = 0 /\ (b # a => ~Inside(b))
    BY <2>1 DEF Alone, IInv
  <2> QED BY <1>4, <1>5, <1>8, <2>1, <2>2
<1> QED BY <1>6, <1>7, <1>8 DEF Alone

\* The counters of an object without a mutex.
LEMMA WithoutMutex ==
  ASSUME NEW k \in {"none", "read", "write", "both"}
  PROVE  [New(k) EXCEPT !.mutex = FALSE] =
           [kind |-> k, mutex |-> FALSE, count |-> 0, reading |-> 0, writes |-> 0]
<1> DEFINE Typed == [kind : {"none", "read", "write", "both"}, mutex : BOOLEAN,
                     count : Nat, reading : Nat, writes : Nat]
           l == New(k)
           m == [l EXCEPT !.mutex = FALSE]
<1>1. l \in Typed /\ l.kind = k /\ l.count = 0 /\ l.reading = 0 /\ l.writes = 0
  BY DEF New
<1> HIDE DEF l
<1>2. /\ m \in Typed /\ m.mutex = FALSE
      /\ m.kind = l.kind /\ m.count = l.count /\ m.reading = l.reading /\ m.writes = l.writes
  BY <1>1
<1> HIDE DEF m
<1>3. m = [kind |-> m.kind, mutex |-> m.mutex, count |-> m.count, reading |-> m.reading, writes |-> m.writes]
  BY <1>2
<1> QED BY <1>1, <1>2, <1>3 DEF l, m

-----------------------------------------------------------------------------
(* The two ways in which an idle thread changes its objects: one of them   *)
(* gets new counters, or one takes another one over.                       *)
LEMMA OneObject ==
  ASSUME IInv, NEW t \in Thread, pc[t] = "idle", todo[t] = {} \/ todo'[t] = {},
         NEW o \in Object, owner[o] = t,
         NEW k \in LockType, Shape(k), k.count = k.reading, Become(o, k),
         NEW l \in {"idle", "notifyWriter", "notifyReaders", "undefined"}, pc' = [pc EXCEPT ![t] = l],
         using' = using, UNCHANGED reader_, writing_' \in BOOLEAN, stray' \in BOOLEAN,
         NEW D \in SUBSET Later, todo' = [todo EXCEPT ![t] = D],
         D # {} => l \in {"idle", "notifyWriter"} /\ \E d \in Later : D = {d} /\ RestFits(t, d)',
         read_count_' = read_count_ - lock[o].count + k.count,
         reading_count_' = reading_count_ - lock[o].reading + k.reading,
         write_count_' = write_count_ - lock[o].writes + k.writes
  PROVE  Local' /\ AddUp'
<1>1. TypeOK /\ AddUp /\ lock \in [Object -> LockType] /\ lock' = [lock EXCEPT ![o] = k]
  BY DEF IInv, Local, TypeOK, LockType, Become
<1>2. AddUp'
  BY <1>1, SumsOfOne DEF AddUp
<1>3. lock' \in [Object -> LockType]
  BY <1>1
<1>4. \A q \in Object : IF owner[q] = t THEN Shape(lock'[q]) /\ lock'[q].count = lock'[q].reading
                                        ELSE lock'[q] = lock[q]
  <2> SUFFICES ASSUME NEW q \in Object
               PROVE  IF owner[q] = t THEN Shape(lock'[q]) /\ lock'[q].count = lock'[q].reading
                                      ELSE lock'[q] = lock[q]
    OBVIOUS
  <2>1. CASE q = o
    BY <1>1, <2>1
  <2>2. CASE q # o
    <3>1. lock'[q] = lock[q]
      BY <1>1, <2>2
    <3> QED BY <3>1, IdleObject
  <2> QED BY <2>1, <2>2
<1> QED BY <1>2, <1>3, <1>4, OwnerStep

LEMMA OneTaken ==
  ASSUME IInv, NEW t \in Thread, pc[t] = "idle", todo[t] = {} \/ todo'[t] = {},
         NEW o \in Object, owner[o] = t, NEW p \in Object, owner[p] = t, lock' = TakenOver(o, p),
         NEW l \in {"idle", "notifyWriter", "notifyReaders", "undefined"}, pc' = [pc EXCEPT ![t] = l],
         using' = using, UNCHANGED reader_, writing_' \in BOOLEAN, stray' \in BOOLEAN,
         todo' = [todo EXCEPT ![t] = {}],
         read_count_' = read_count_ - lock[o].count,
         reading_count_' = reading_count_ - lock[o].reading,
         write_count_' = write_count_ - lock[o].writes
  PROVE  Local' /\ AddUp'
<1>1. TypeOK /\ AddUp /\ lock \in [Object -> LockType]
  BY DEF IInv, Local, TypeOK, LockType
<1>2. AddUp'
  BY <1>1, SumsOfMove DEF AddUp
<1>3. ASSUME NEW q \in Object
      PROVE  MovedFrom(lock[q]) \in LockType /\ Shape(MovedFrom(lock[q]))
             /\ MovedFrom(lock[q]).count = MovedFrom(lock[q]).reading
  <2>1. lock[q].kind \in {"none", "read", "write", "both"}
    BY <1>1 DEF LockType
  <2>2. MovedFrom(lock[q]) = [kind |-> lock[q].kind, mutex |-> FALSE, count |-> 0, reading |-> 0, writes |-> 0]
    BY <2>1, WithoutMutex DEF MovedFrom
  <2> QED BY <2>1, <2>2, NestedBound DEF LockType, Shape
<1>4. \A q \in Object : lock'[q] = IF q = p THEN MovedFrom(lock[p]) ELSE IF q = o THEN lock[p] ELSE lock[q]
  BY <1>1 DEF TakenOver
<1>5. lock' \in [Object -> LockType]
  <2>1. \A q \in Object : lock'[q] \in LockType
    BY <1>1, <1>3, <1>4
  <2>2. lock' = [q \in Object |-> lock'[q]]
    BY <1>1 DEF TakenOver
  <2> QED BY <2>1, <2>2
<1>6. \A q \in Object : IF owner[q] = t THEN Shape(lock'[q]) /\ lock'[q].count = lock'[q].reading
                                        ELSE lock'[q] = lock[q]
  <2> SUFFICES ASSUME NEW q \in Object
               PROVE  IF owner[q] = t THEN Shape(lock'[q]) /\ lock'[q].count = lock'[q].reading
                                      ELSE lock'[q] = lock[q]
    OBVIOUS
  <2>1. CASE q = p
    BY <1>3, <1>4, <2>1
  <2>2. CASE q # p /\ q = o
    BY <1>4, <2>2, IdleObject
  <2>3. CASE q # p /\ q # o
    BY <1>4, <2>3, IdleObject
  <2> QED BY <2>1, <2>2, <2>3
<1> QED BY <1>2, <1>5, <1>6, OwnerStep

\* A record of counters that a class can hold.
LEMMA Records ==
  ASSUME NEW l \in LockType, NEW n \in 0..l.count, l.count = l.reading, Shape(l)
  PROVE  /\ Less(l, n) \in LockType /\ Shape(Less(l, n))
         /\ NoObject \in LockType /\ Shape(NoObject) /\ NoObject.count = 0 /\ NoObject.reading = 0 /\ NoObject.writes = 0
         /\ \A k \in {"read", "write", "both"} : New(k) \in LockType /\ Shape(New(k))
<1>1. l.count \in Nat /\ l.count <= MaxNested /\ l.count - n \in 0..MaxNested /\ l.reading - n \in 0..MaxNested
  BY NestedBound DEF LockType
<1>2. NoObject = [kind |-> "none", mutex |-> FALSE, count |-> 0, reading |-> 0, writes |-> 0]
  BY WithoutMutex DEF NoObject
<1>3. Less(l, n) \in LockType
  BY <1>1 DEF LockType, Less
<1>4. Shape(Less(l, n))
  BY <1>1 DEF Shape, Less
<1>5. NoObject \in LockType /\ Shape(NoObject) /\ NoObject.count = 0 /\ NoObject.reading = 0 /\ NoObject.writes = 0
  BY <1>2, NestedBound DEF LockType, Shape
<1>6. \A k \in {"read", "write", "both"} : New(k) \in LockType /\ Shape(New(k))
  BY NestedBound DEF LockType, Shape, New
<1> QED BY <1>3, <1>4, <1>5, <1>6

-----------------------------------------------------------------------------
(* One lemma per operation: the objects built, locked and unlocked.        *)
LEMMA Unmoved ==
  ASSUME IInv, NEW t \in Thread
  PROVE  /\ pc[t] = "idle" => pc = [pc EXCEPT ![t] = "idle"]
         /\ todo[t] = {} => todo = [todo EXCEPT ![t] = {}]
         /\ lock \in [Object -> LockType]
         /\ pc[t] = "idle" => ~WaitsToRead(t) /\ ~WaitsToWrite(t)
BY DEF IInv, Local, TypeOK, LockType, WaitsToRead, WaitsToWrite

\* What an idle thread does without changing a lock that is held for writing.
LEMMA AloneKept ==
  ASSUME IInv, NEW t \in Thread, pc[t] = "idle", NEW o \in Object, owner[o] = t,
         NEW k \in LockType, Become(o, k), k.writes = lock[o].writes, k.reading <= lock[o].reading,
         NEW l \in {"idle", "notifyWriter", "notifyReaders", "undefined", "readWait"}, pc' = [pc EXCEPT ![t] = l],
         using' = using \/ (\E U : using' = [using EXCEPT ![t] = U]), UNCHANGED <<writing_, stray>>
  PROVE  Alone'
<1>1. \A q \in Object : WritePending(q)' <=> WritePending(q)
  BY Unmoved, PendingKept
<1>2. lock' = [lock EXCEPT ![o] = k] /\ lock \in [Object -> LockType] /\ lock' \in [Object -> LockType]
  BY Unmoved DEF Become
<1>3. \A q \in Object : lock'[q].writes = lock[q].writes /\ lock'[q].reading <= lock[q].reading
  <2> SUFFICES ASSUME NEW q \in Object PROVE lock'[q].writes = lock[q].writes /\ lock'[q].reading <= lock[q].reading
    OBVIOUS
  <2>1. CASE q = o
    BY <1>2, <2>1
  <2>2. CASE q # o
    BY <1>2, <2>2, NestedBound DEF LockType
  <2> QED BY <2>1, <2>2
<1> QED BY <1>1, <1>2, <1>3, AloneLess

LEMMA ConstructHolds ==
  ASSUME IInv, NEW t \in Thread, NEW o \in Object, NEW k \in {"read", "write", "both"}, Construct(t, o, k)
  PROVE  IInv'
<1>1. /\ pc[t] = "idle" /\ todo[t] = {} /\ owner[o] = t /\ lock[o].kind = "none" /\ Become(o, New(k))
      /\ UNCHANGED <<mutexVars, pc, using, todo, stray>>
  BY DEF Construct, Idle
<1>2. /\ lock[o] \in LockType /\ Shape(lock[o]) /\ lock[o].count = lock[o].reading
      /\ lock[o].count = 0 /\ lock[o].writes = 0 /\ 0 \in 0..lock[o].count
  BY <1>1, IdleObject DEF Shape
<1>3. /\ New(k) \in LockType /\ Shape(New(k))
      /\ New(k).count = 0 /\ New(k).reading = 0 /\ New(k).writes = 0
  BY <1>2, Records DEF New
<1>4. pc' = [pc EXCEPT ![t] = "idle"] /\ todo' = [todo EXCEPT ![t] = {}]
  BY <1>1, Unmoved
<1>5. /\ read_count_' = read_count_ - lock[o].count + New(k).count
      /\ reading_count_' = reading_count_ - lock[o].reading + New(k).reading
      /\ write_count_' = write_count_ - lock[o].writes + New(k).writes
      /\ UNCHANGED <<reader_, writing_, stray>> /\ writing_' \in BOOLEAN /\ stray' \in BOOLEAN
      /\ using' = using
  BY <1>1, <1>2, <1>3 DEF mutexVars, IInv, Local, TypeOK
<1>6. Local' /\ AddUp'
  BY <1>1, <1>2, <1>3, <1>4, <1>5, OneObject
<1>7. New(k).writes = lock[o].writes /\ New(k).reading <= lock[o].reading
  BY <1>2, <1>3
<1>8. Alone'
  BY <1>1, <1>3, <1>4, <1>5, <1>7, AloneKept
<1> QED BY <1>6, <1>8 DEF IInv

LEMMA UseMovedFromHolds ==
  ASSUME IInv, NEW t \in Thread, NEW o \in Object, UseMovedFrom(t, o)
  PROVE  IInv'
<1>1. /\ pc[t] = "idle" /\ todo[t] = {} /\ owner[o] = t /\ pc' = [pc EXCEPT ![t] = "undefined"]
      /\ UNCHANGED <<mutexVars, lock, using, todo, stray>>
  BY DEF UseMovedFrom, Idle, Goto
<1> DEFINE k == lock[o]
<1>2. k \in LockType /\ Shape(k) /\ k.count = k.reading /\ Become(o, k) /\ k.reading <= k.reading
      /\ k.count \in Nat /\ k.writes \in Nat
  BY <1>1, IdleObject, Unmoved, NestedBound DEF Become, LockType
<1>3. todo' = [todo EXCEPT ![t] = {}]
  BY <1>1, Unmoved
<1>4. /\ read_count_' = read_count_ - lock[o].count + k.count
      /\ reading_count_' = reading_count_ - lock[o].reading + k.reading
      /\ write_count_' = write_count_ - lock[o].writes + k.writes
      /\ UNCHANGED <<reader_, writing_, stray, using>> /\ writing_' \in BOOLEAN /\ stray' \in BOOLEAN
  BY <1>1, <1>2 DEF mutexVars, IInv, Local, TypeOK
<1> HIDE DEF k
<1>5. Local' /\ AddUp'
  BY <1>1, <1>2, <1>3, <1>4, OneObject
<1>6. k.writes = lock[o].writes /\ k.reading <= lock[o].reading
  BY <1>2 DEF k
<1>7. Alone'
  BY <1>1, <1>2, <1>4, <1>6, AloneKept
<1> QED BY <1>5, <1>7 DEF IInv

\* ReadUnlock of an object that keeps, loses or gives up its counters.
LEMMA ReadReleaseHolds ==
  ASSUME IInv, NEW t \in Thread, pc[t] = "idle", todo[t] = {}, NEW o \in Object, owner[o] = t,
         NEW n \in 0..lock[o].count, read_count_' = read_count_ - n, reading_count_' = reading_count_ - n,
         \E l \in {"idle", "notifyWriter"} : pc' = [pc EXCEPT ![t] = l],
         UNCHANGED <<reader_, write_count_, writing_, stray, using>>,
         NEW k \in LockType, Shape(k), Become(o, k),
         k.count = lock[o].count - n, k.reading = k.count, k.writes = lock[o].writes,
         NEW D \in SUBSET Later, todo' = [todo EXCEPT ![t] = D],
         D # {} => \E d \in Later : D = {d} /\ RestFits(t, d)'
  PROVE  IInv'
<1>1. PICK l \in {"idle", "notifyWriter"} : pc' = [pc EXCEPT ![t] = l]
  OBVIOUS
<1>2. /\ lock[o].count \in Nat /\ lock[o].writes \in Nat /\ lock[o].reading = lock[o].count
      /\ read_count_ \in Nat /\ reading_count_ \in Nat /\ write_count_ \in Nat
      /\ writing_' \in BOOLEAN /\ stray' \in BOOLEAN
  BY IdleObject, NestedBound DEF IInv, Local, TypeOK, LockType
<1>3. /\ read_count_' = read_count_ - lock[o].count + k.count
      /\ reading_count_' = reading_count_ - lock[o].reading + k.reading
      /\ write_count_' = write_count_ - lock[o].writes + k.writes
      /\ k.reading <= lock[o].reading
  BY <1>2
<1>4. Local' /\ AddUp'
  <2>1. D # {} => l \in {"idle", "notifyWriter"} /\ \E d \in Later : D = {d} /\ RestFits(t, d)'
    OBVIOUS
  <2>2. l \in {"idle", "notifyWriter", "notifyReaders", "undefined"} /\ k.count = k.reading
    OBVIOUS
  <2>3. UNCHANGED <<reader_, using>> /\ writing_' \in BOOLEAN /\ stray' \in BOOLEAN
    BY <1>2
  <2>4. /\ read_count_' = read_count_ - lock[o].count + k.count
        /\ reading_count_' = reading_count_ - lock[o].reading + k.reading
        /\ write_count_' = write_count_ - lock[o].writes + k.writes
    BY <1>3
  <2> QED BY ONLY IInv, t \in Thread, pc[t] = "idle", todo[t] = {}, o \in Object, owner[o] = t,
                  k \in LockType, Shape(k), Become(o, k), <1>1, <2>1, <2>2, <2>3, <2>4,
                  D \in SUBSET Later, todo' = [todo EXCEPT ![t] = D], OneObject
<1>5. Alone'
  BY <1>1, <1>3, AloneKept
<1> QED BY <1>4, <1>5 DEF IInv

LEMMA UnlockReadHolds ==
  ASSUME IInv, NEW t \in Thread, NEW o \in Object, UnlockRead(t, o)
  PROVE  IInv'
<1>1. /\ pc[t] = "idle" /\ todo[t] = {} /\ owner[o] = t /\ ReadUnlock(t, lock[o], FALSE)
      /\ Become(o, ReadReleased(lock[o], FALSE)) /\ UNCHANGED <<using, todo>>
  BY DEF UnlockRead, Usable, Idle
<1>2. lock[o] \in LockType /\ Shape(lock[o]) /\ lock[o].count = lock[o].reading
  BY <1>1, IdleObject
<1>3. PICK n \in 0..lock[o].count :
           /\ read_count_' = read_count_ - n /\ reading_count_' = reading_count_ - n
           /\ ReadReleased(lock[o], FALSE) = Less(lock[o], n)
           /\ \E l \in {"idle", "notifyWriter"} : pc' = [pc EXCEPT ![t] = l]
           /\ UNCHANGED <<reader_, write_count_, writing_, stray>>
  BY <1>1, ReadUnlockTakes
<1> DEFINE k == Less(lock[o], n)
<1>4. /\ k \in LockType /\ Shape(k) /\ k.count = lock[o].count - n /\ k.reading = k.count
      /\ k.writes = lock[o].writes
  <2>1. k \in LockType /\ Shape(k)
    BY <1>2, Records
  <2> QED BY <1>2, <2>1 DEF Less
<1>5. todo' = [todo EXCEPT ![t] = {}] /\ Become(o, k) /\ UNCHANGED using
  BY <1>1, <1>3, Unmoved
<1> HIDE DEF k
<1> QED BY <1>1, <1>3, <1>4, <1>5, ReadReleaseHolds

LEMMA DestroyReadHolds ==
  ASSUME IInv, NEW t \in Thread, NEW o \in Object, DestroyRead(t, o)
  PROVE  IInv'
<1>0. pc[t] = "idle" /\ owner[o] = t /\ ReadUnlock(t, lock[o], TRUE)
  BY DEF DestroyRead, Usable, Idle
<1>1. /\ todo[t] = {} /\ lock[o].kind = "read"
      /\ Become(o, NoObject) /\ UNCHANGED using /\ UNCHANGED todo
  BY DEF DestroyRead, Usable, Idle
<1>2. PICK n \in 0..lock[o].count :
           /\ n = lock[o].count
           /\ read_count_' = read_count_ - n /\ reading_count_' = reading_count_ - n
           /\ ReadReleased(lock[o], TRUE) = Less(lock[o], n)
           /\ \E l \in {"idle", "notifyWriter"} : pc' = [pc EXCEPT ![t] = l]
           /\ UNCHANGED <<reader_, write_count_, writing_, stray>>
  BY <1>0, ReadUnlockTakes
<1>3. lock[o] \in LockType /\ Shape(lock[o]) /\ lock[o].count = lock[o].reading /\ lock[o].count \in Nat
      /\ lock[o].writes = 0
  BY <1>0, <1>1, IdleObject, NestedBound DEF LockType, Shape
<1> DEFINE k == NoObject
<1>4. k \in LockType /\ Shape(k) /\ k.count = 0 /\ k.reading = 0 /\ k.writes = 0
  BY <1>3, Records
<1>5. todo' = [todo EXCEPT ![t] = {}] /\ Become(o, k)
  BY <1>1, Unmoved
<1> HIDE DEF k
<1>6. k.count = lock[o].count - n /\ k.writes = lock[o].writes /\ k.reading = k.count
  BY <1>2, <1>3, <1>4
<1> QED BY <1>0, <1>1, <1>2, <1>4, <1>5, <1>6, ReadReleaseHolds

\* Both the destructor and the assignment of a UniqueRwLock leave their WriteUnlock for later.
LEMMA ReadFirstHolds ==
  ASSUME IInv, NEW t \in Thread, pc[t] = "idle", todo[t] = {}, NEW o \in Object, owner[o] = t, lock[o].kind = "both",
         ReadUnlock(t, lock[o], TRUE), Become(o, ReadReleased(lock[o], TRUE)), UNCHANGED using,
         NEW S \in SUBSET Object, todo' = [todo EXCEPT ![t] = {[object |-> o, source |-> S]}],
         S = {} \/ \E p \in Object : S = {p} /\ owner[p] = t /\ lock[p].kind = "both"
  PROVE  IInv'
<1>1. lock[o] \in LockType /\ Shape(lock[o]) /\ lock[o].count = lock[o].reading /\ lock[o].count \in Nat
  BY IdleObject, NestedBound DEF LockType
<1>2. PICK n \in 0..lock[o].count :
           /\ n = lock[o].count
           /\ read_count_' = read_count_ - n /\ reading_count_' = reading_count_ - n
           /\ ReadReleased(lock[o], TRUE) = Less(lock[o], n)
           /\ \E l \in {"idle", "notifyWriter"} : pc' = [pc EXCEPT ![t] = l]
           /\ UNCHANGED <<reader_, write_count_, writing_, stray>>
  BY ReadUnlockTakes
<1> DEFINE k == Less(lock[o], n)
           d == [object |-> o, source |-> S]
<1>3. k \in LockType /\ Shape(k)
  BY <1>1, Records
<1>4. k.kind = "both" /\ k.count = 0 /\ k.count = lock[o].count - n /\ k.reading = k.count
      /\ k.writes = lock[o].writes
  BY <1>1, <1>2 DEF Less
<1>5. lock' = [lock EXCEPT ![o] = k] /\ lock \in [Object -> LockType]
  BY <1>2, Unmoved DEF Become
<1>6. d \in Later /\ RestFits(t, d)'
  <2>1. lock'[o].kind = "both" /\ lock'[o].count = 0
    BY <1>4, <1>5
  <2>2. \A p \in Object : lock[p].kind = "both" => lock'[p].kind = "both"
    BY <1>4, <1>5
  <2>3. d \in Later /\ d.object = o /\ d.source = S
    BY DEF Later
  <2> HIDE DEF d
  <2> QED BY <2>1, <2>2, <2>3 DEF RestFits
<1>7. todo' = [todo EXCEPT ![t] = {d}]
  OBVIOUS
<1> HIDE DEF k, d
<1>8. {d} \in SUBSET Later
  BY <1>6
<1>9. Become(o, k)
  BY <1>5 DEF Become
<1> QED BY <1>2, <1>3, <1>4, <1>6, <1>7, <1>8, <1>9, ReadReleaseHolds

LEMMA DestroyBothHolds ==
  ASSUME IInv, NEW t \in Thread, NEW o \in Object, DestroyBoth(t, o)
  PROVE  IInv'
<1>1. /\ pc[t] = "idle" /\ todo[t] = {} /\ owner[o] = t /\ lock[o].kind = "both"
      /\ todo' = [todo EXCEPT ![t] = {[object |-> o, source |-> {}]}] /\ UNCHANGED using
  BY DEF DestroyBoth, Usable, Idle
<1>2. ReadUnlock(t, lock[o], TRUE) /\ Become(o, ReadReleased(lock[o], TRUE))
  BY DEF DestroyBoth
<1> DEFINE S == {}
<1>3. S \in SUBSET Object /\ S = {} /\ todo' = [todo EXCEPT ![t] = {[object |-> o, source |-> S]}]
  BY <1>1
<1> HIDE DEF S
<1> QED BY <1>1, <1>2, <1>3, ReadFirstHolds

LEMMA WriteUnlockTakes ==
  ASSUME IInv, NEW t \in Thread, pc[t] = "idle", NEW o \in Object, owner[o] = t,
         NEW release \in BOOLEAN, WriteUnlock(t, lock[o], release)
  PROVE  \E n \in 0..lock[o].writes :
           /\ Writes(lock[o], release) = n
           /\ write_count_' = write_count_ - n
           /\ \E l \in {"idle", "notifyWriter", "notifyReaders"} : pc' = [pc EXCEPT ![t] = l]
           /\ writing_' = FALSE /\ stray' \in BOOLEAN
           /\ ~stray' => n = lock[o].writes /\ \A q \in Object : q # o => ~Inside(q)
           /\ UNCHANGED <<reader_, read_count_, reading_count_>>
<1> DEFINE n == Writes(lock[o], release)
<1>1. n \in 0..lock[o].writes /\ write_count_' = write_count_ - n
  BY WriteUnlockIs
<1>2. UNCHANGED <<reader_, read_count_, reading_count_>>
  BY WriteUnlockIs
<1>3. \E l \in {"idle", "notifyWriter", "notifyReaders"} : pc' = [pc EXCEPT ![t] = l]
  BY DEF WriteUnlock, WriteNext, Goto, Mutex!WriteUnlockWakes
<1>4. writing_' = FALSE /\ stray' \in BOOLEAN
  BY WriteUnlockIs
<1>5. ASSUME ~stray' PROVE n = lock[o].writes /\ \A q \in Object : q # o => ~Inside(q)
  BY <1>5, WriteUnlockIs
<1>6. Writes(lock[o], release) = n
  OBVIOUS
<1> HIDE DEF n
<1> QED BY <1>1, <1>2, <1>3, <1>4, <1>5, <1>6

\* WriteUnlock of an object that keeps, loses or gives up its counters.
LEMMA WriteReleaseHolds ==
  ASSUME IInv, NEW t \in Thread, pc[t] = "idle", NEW o \in Object, owner[o] = t,
         NEW n \in 0..lock[o].writes, write_count_' = write_count_ - n,
         \E l \in {"idle", "notifyWriter", "notifyReaders"} : pc' = [pc EXCEPT ![t] = l],
         writing_' = FALSE, stray' \in BOOLEAN,
         ~stray' => n = lock[o].writes /\ \A q \in Object : q # o => ~Inside(q),
         UNCHANGED <<reader_, read_count_, reading_count_, using>>,
         NEW k \in LockType, Shape(k), Become(o, k),
         k.count = lock[o].count, k.reading = k.count, k.writes = lock[o].writes - n,
         todo' = [todo EXCEPT ![t] = {}]
  PROVE  IInv'
<1>1. PICK l \in {"idle", "notifyWriter", "notifyReaders"} : pc' = [pc EXCEPT ![t] = l]
  OBVIOUS
<1>2. /\ lock[o].count \in Nat /\ lock[o].writes \in Nat /\ lock[o].reading = lock[o].count
      /\ read_count_ \in Nat /\ reading_count_ \in Nat /\ write_count_ \in Nat
      /\ todo'[t] = {}
  BY IdleObject, NestedBound DEF IInv, Local, TypeOK, LockType
<1>3. /\ read_count_' = read_count_ - lock[o].count + k.count
      /\ reading_count_' = reading_count_ - lock[o].reading + k.reading
      /\ write_count_' = write_count_ - lock[o].writes + k.writes
  BY <1>2
<1>4. writing_' \in BOOLEAN /\ UNCHANGED <<reader_, using>>
  OBVIOUS
<1>5. Local' /\ AddUp'
  <2> DEFINE D == {}
  <2>1. D \in SUBSET Later /\ D = {} /\ todo' = [todo EXCEPT ![t] = D]
    OBVIOUS
  <2> HIDE DEF D
  <2>2. l \in {"idle", "notifyWriter", "notifyReaders", "undefined"} /\ k.count = k.reading
    OBVIOUS
  <2> QED BY ONLY IInv, t \in Thread, pc[t] = "idle", o \in Object, owner[o] = t, stray' \in BOOLEAN,
                  k \in LockType, Shape(k), Become(o, k), <1>1, <1>2, <1>3, <1>4, <2>1, <2>2, OneObject
<1>6. /\ \A q \in Object : WritePending(q)' <=> WritePending(q)
  BY <1>1, Unmoved, PendingKept
<1>7. lock' = [lock EXCEPT ![o] = k] /\ lock \in [Object -> LockType] /\ lock' \in [Object -> LockType]
  BY Unmoved DEF Become
<1>8. ASSUME ~stray', NEW q \in Object PROVE lock'[q].writes <= (IF WritePending(q)' THEN 1 ELSE 0)
  <2>1. CASE q = o
    BY <1>2, <1>7, <1>8, <2>1
  <2>2. CASE q # o
    <3>1. lock'[q] = lock[q] /\ lock[q].writes \in Nat /\ ~Inside(q)
      BY <1>7, <1>8, <2>2, NestedBound DEF LockType
    <3> QED BY <1>6, <3>1 DEF Inside
  <2> QED BY <2>1, <2>2
<1>9. Alone'
  BY <1>7, <1>8, AloneNone
<1> QED BY <1>5, <1>9 DEF IInv

LEMMA WriteTakeHolds ==
  ASSUME IInv, NEW t \in Thread, pc[t] = "idle", NEW o \in Object, owner[o] = t, lock[o].count = 0,
         WriteUnlock(t, lock[o], TRUE), UNCHANGED using, todo' = [todo EXCEPT ![t] = {}],
         NEW p \in Object, owner[p] = t, lock' = TakenOver(o, p)
  PROVE  IInv'
<1>1. PICK n \in 0..lock[o].writes :
           /\ Writes(lock[o], TRUE) = n
           /\ write_count_' = write_count_ - n
           /\ \E l \in {"idle", "notifyWriter", "notifyReaders"} : pc' = [pc EXCEPT ![t] = l]
           /\ writing_' = FALSE /\ stray' \in BOOLEAN
           /\ ~stray' => n = lock[o].writes /\ \A q \in Object : q # o => ~Inside(q)
           /\ UNCHANGED <<reader_, read_count_, reading_count_>>
  BY WriteUnlockTakes
<1>2. PICK l \in {"idle", "notifyWriter", "notifyReaders"} : pc' = [pc EXCEPT ![t] = l]
  BY <1>1
<1>3. /\ n = lock[o].writes /\ lock[o].reading = 0 /\ lock[p].writes \in Nat
      /\ read_count_ \in Nat /\ reading_count_ \in Nat /\ todo'[t] = {}
      /\ Inside(p) <=> lock[p].writes > 0
  BY <1>1, IdleObject, NestedBound DEF Writes, IInv, Local, TypeOK, LockType
<1>4. /\ read_count_' = read_count_ - lock[o].count /\ reading_count_' = reading_count_ - lock[o].reading
      /\ write_count_' = write_count_ - lock[o].writes
      /\ UNCHANGED <<reader_, using>>
  BY <1>1, <1>3
<1>5. writing_' \in BOOLEAN /\ stray' \in BOOLEAN
  BY <1>1
<1>6. Local' /\ AddUp'
  BY <1>2, <1>3, <1>4, <1>5, OneTaken
<1>7. \A q \in Object : WritePending(q)' <=> WritePending(q)
  BY <1>2, Unmoved, PendingKept
<1>8. \A q \in Object : lock'[q] = IF q = p THEN MovedFrom(lock[p]) ELSE IF q = o THEN lock[p] ELSE lock[q]
  BY Unmoved DEF TakenOver
<1>9. ASSUME ~stray', NEW q \in Object PROVE lock'[q].writes <= (IF WritePending(q)' THEN 1 ELSE 0)
  <2>1. CASE q = p
    <3>1. lock'[q].writes = 0
      BY <1>8, <2>1 DEF MovedFrom, New
    <3> QED BY <3>1
  <2>2. CASE q # p /\ q = o
    <3>1. ~Inside(p)
      BY <1>1, <1>9, <2>2
    <3> QED BY <1>3, <1>8, <2>2, <3>1
  <2>3. CASE q # p /\ q # o
    <3>1. lock'[q] = lock[q] /\ lock[q].writes \in Nat /\ ~Inside(q)
      BY <1>1, <1>8, <1>9, <2>3, Unmoved, NestedBound DEF LockType
    <3> QED BY <1>7, <3>1 DEF Inside
  <2> QED BY <2>1, <2>2, <2>3
<1>10. lock' \in [Object -> LockType]
  BY <1>6 DEF Local, TypeOK, LockType
<1>11. Alone'
  BY <1>1, <1>9, <1>10, AloneNone
<1> QED BY <1>6, <1>11 DEF IInv

LEMMA UnlockWriteHolds ==
  ASSUME IInv, NEW t \in Thread, NEW o \in Object, UnlockWrite(t, o)
  PROVE  IInv'
<1>1. pc[t] = "idle" /\ owner[o] = t /\ WriteUnlock(t, lock[o], FALSE)
  BY DEF UnlockWrite, Usable, Idle
<1>2. /\ todo[t] = {} /\ lock[o].kind \in {"write", "both"} /\ UNCHANGED using /\ UNCHANGED todo
      /\ Become(o, [lock[o] EXCEPT !.writes = Monus(lock[o].writes, 1)])
  BY DEF UnlockWrite, Usable, Idle
<1>3. PICK n \in 0..lock[o].writes :
           /\ Writes(lock[o], FALSE) = n
           /\ write_count_' = write_count_ - n
           /\ \E l \in {"idle", "notifyWriter", "notifyReaders"} : pc' = [pc EXCEPT ![t] = l]
           /\ writing_' = FALSE /\ stray' \in BOOLEAN
           /\ ~stray' => n = lock[o].writes /\ \A q \in Object : q # o => ~Inside(q)
           /\ UNCHANGED <<reader_, read_count_, reading_count_>>
  BY <1>1, WriteUnlockTakes
<1>4. /\ lock[o] \in LockType /\ Shape(lock[o]) /\ lock[o].count = lock[o].reading
      /\ lock[o].writes \in Nat /\ lock[o].writes <= MaxNested
  BY <1>1, IdleObject, NestedBound DEF LockType
<1>5. Monus(lock[o].writes, 1) = lock[o].writes - n /\ lock[o].writes - n \in 0..MaxNested
  <2>1. n = IF lock[o].writes = 0 THEN 0 ELSE 1
    BY <1>3, <1>4 DEF Writes
  <2> QED BY <1>4, <2>1, NestedBound DEF Monus
<1> DEFINE w == lock[o].writes - n
           k == [lock[o] EXCEPT !.writes = w]
<1> HIDE DEF w
<1>6. w \in 0..MaxNested /\ w <= lock[o].writes
  BY <1>4, <1>5 DEF w
<1>7. /\ k \in LockType /\ k.kind = lock[o].kind /\ k.mutex = lock[o].mutex
      /\ k.count = lock[o].count /\ k.reading = lock[o].reading /\ k.writes = w
  BY <1>4, <1>6 DEF LockType
<1> HIDE DEF k
<1>8. Shape(k)
  <2>1. lock[o].writes = 0 => k.writes = 0
    BY <1>4, <1>6, <1>7
  <2>2. lock[o].mutex
    BY DEF UnlockWrite, Usable
  <2> QED BY <1>2, <1>4, <1>7, <2>1, <2>2 DEF Shape
<1>9. Become(o, k) /\ todo' = [todo EXCEPT ![t] = {}] /\ k.writes = lock[o].writes - n /\ k.reading = k.count
  BY <1>2, <1>4, <1>5, <1>7, Unmoved DEF k, w
<1> QED BY <1>1, <1>2, <1>3, <1>7, <1>8, <1>9, WriteReleaseHolds

\* The destructor of an object that counts no readers.
LEMMA WriteDestroyHolds ==
  ASSUME IInv, NEW t \in Thread, pc[t] = "idle", NEW o \in Object, owner[o] = t, lock[o].count = 0,
         WriteUnlock(t, lock[o], TRUE), Become(o, NoObject), UNCHANGED using, todo' = [todo EXCEPT ![t] = {}]
  PROVE  IInv'
<1>1. PICK n \in 0..lock[o].writes :
           /\ Writes(lock[o], TRUE) = n
           /\ write_count_' = write_count_ - n
           /\ \E l \in {"idle", "notifyWriter", "notifyReaders"} : pc' = [pc EXCEPT ![t] = l]
           /\ writing_' = FALSE /\ stray' \in BOOLEAN
           /\ ~stray' => n = lock[o].writes /\ \A q \in Object : q # o => ~Inside(q)
           /\ UNCHANGED <<reader_, read_count_, reading_count_>>
  BY WriteUnlockTakes
<1>2. n = lock[o].writes /\ lock[o].writes \in Nat /\ lock[o] \in LockType /\ Shape(lock[o])
      /\ lock[o].count = lock[o].reading
  BY <1>1, IdleObject, NestedBound DEF Writes, LockType
<1> DEFINE k == NoObject
<1>3. k \in LockType /\ Shape(k) /\ k.count = 0 /\ k.reading = 0 /\ k.writes = 0
  <2>1. 0 \in 0..lock[o].count
    BY <1>2
  <2> QED BY <1>2, <2>1, Records
<1> HIDE DEF k
<1>4. k.count = lock[o].count /\ k.reading = k.count /\ k.writes = lock[o].writes - n /\ Become(o, k)
  BY <1>2, <1>3 DEF k
<1> QED BY <1>1, <1>3, <1>4, WriteReleaseHolds

LEMMA DestroyWriteHolds ==
  ASSUME IInv, NEW t \in Thread, NEW o \in Object, DestroyWrite(t, o)
  PROVE  IInv'
<1>1. pc[t] = "idle" /\ owner[o] = t /\ WriteUnlock(t, lock[o], TRUE) /\ Become(o, NoObject)
  BY DEF DestroyWrite, Usable, Idle
<1>2. todo[t] = {} /\ lock[o].kind = "write" /\ UNCHANGED using /\ UNCHANGED todo
  BY DEF DestroyWrite, Usable, Idle
<1>3. lock[o].count = 0
  BY <1>1, <1>2, IdleObject DEF Shape
<1>4. todo' = [todo EXCEPT ![t] = {}]
  BY <1>2, Unmoved
<1> QED BY <1>1, <1>2, <1>3, <1>4, WriteDestroyHolds

LEMMA WriteRestHolds ==
  ASSUME IInv, NEW t \in Thread, WriteRest(t)
  PROVE  IInv'
<1>1. PICK d \in todo[t] :
        /\ WriteUnlock(t, lock[d.object], TRUE)
        /\ IF d.source = {} THEN Become(d.object, NoObject)
           ELSE \E p \in d.source : lock' = TakenOver(d.object, p)
  BY DEF WriteRest
<1>2. pc[t] = "idle" /\ UNCHANGED using /\ todo' = [todo EXCEPT ![t] = {}]
  BY DEF WriteRest
<1>3. d \in Later /\ RestFits(t, d)
  BY DEF IInv, Local, Rest
<1>4. d.object \in Object /\ owner[d.object] = t /\ lock[d.object].count = 0
  BY <1>3 DEF Later, RestFits
<1>5. CASE d.source = {}
  BY <1>1, <1>2, <1>4, <1>5, WriteDestroyHolds
<1>6. CASE d.source # {}
  <2>1. PICK p \in Object : d.source = {p} /\ owner[p] = t
    BY <1>3, <1>6 DEF RestFits
  <2>2. lock' = TakenOver(d.object, p)
    BY <1>1, <1>6, <2>1
  <2> QED BY <1>1, <1>2, <1>4, <2>1, <2>2, WriteTakeHolds
<1> QED BY <1>5, <1>6

\* One object takes over another one: the target releases its readers, or holds nothing.
LEMMA ReadTakeHolds ==
  ASSUME IInv, NEW t \in Thread, pc[t] = "idle", todo[t] = {}, NEW o \in Object, owner[o] = t, lock[o].writes = 0,
         ReadUnlock(t, lock[o], TRUE), UNCHANGED using, UNCHANGED todo,
         NEW p \in Object, owner[p] = t, lock' = TakenOver(o, p)
  PROVE  IInv'
<1>1. PICK n \in 0..lock[o].count :
           /\ n = lock[o].count
           /\ read_count_' = read_count_ - n /\ reading_count_' = reading_count_ - n
           /\ ReadReleased(lock[o], TRUE) = Less(lock[o], n)
           /\ \E l \in {"idle", "notifyWriter"} : pc' = [pc EXCEPT ![t] = l]
           /\ UNCHANGED <<reader_, write_count_, writing_, stray>>
  BY ReadUnlockTakes
<1>2. PICK l \in {"idle", "notifyWriter"} : pc' = [pc EXCEPT ![t] = l]
  BY <1>1
<1>3. lock[o].reading = lock[o].count /\ write_count_ \in Nat
  BY IdleObject DEF IInv, Local, TypeOK
<1>4. /\ read_count_' = read_count_ - lock[o].count /\ reading_count_' = reading_count_ - lock[o].reading
      /\ write_count_' = write_count_ - lock[o].writes
      /\ UNCHANGED <<reader_, using>>
  BY <1>1, <1>3
<1>5. UNCHANGED <<stray, writing_>> /\ writing_' \in BOOLEAN /\ stray' \in BOOLEAN
  BY <1>1 DEF IInv, Local, TypeOK
<1>6. todo' = [todo EXCEPT ![t] = {}]
  BY Unmoved
<1>7. Local' /\ AddUp'
  BY <1>2, <1>4, <1>5, <1>6, OneTaken
<1>8. \A q \in Object : WritePending(q)' <=> WritePending(q)
  BY <1>2, Unmoved, PendingKept
<1>9. Alone'
  BY <1>5, <1>8, AloneTake
<1> QED BY <1>7, <1>9 DEF IInv

LEMMA NoneTakeHolds ==
  ASSUME IInv, NEW t \in Thread, pc[t] = "idle", todo[t] = {}, NEW o \in Object, owner[o] = t,
         lock[o].count = 0, lock[o].writes = 0, UNCHANGED <<mutexVars, pc, stray>>, UNCHANGED using, UNCHANGED todo,
         NEW p \in Object, owner[p] = t, lock' = TakenOver(o, p)
  PROVE  IInv'
<1> DEFINE l == "idle"
<1>1. l \in {"idle", "notifyWriter"} /\ pc' = [pc EXCEPT ![t] = l]
  BY Unmoved
<1> HIDE DEF l
<1>2. lock[o].reading = lock[o].count /\ write_count_ \in Nat /\ read_count_ \in Nat /\ reading_count_ \in Nat
  BY IdleObject DEF IInv, Local, TypeOK
<1>3. /\ read_count_' = read_count_ - lock[o].count /\ reading_count_' = reading_count_ - lock[o].reading
      /\ write_count_' = write_count_ - lock[o].writes
      /\ UNCHANGED <<reader_, using>>
  BY <1>2 DEF mutexVars
<1>4. UNCHANGED <<stray, writing_>> /\ writing_' \in BOOLEAN /\ stray' \in BOOLEAN
  BY DEF mutexVars, IInv, Local, TypeOK
<1>5. todo' = [todo EXCEPT ![t] = {}]
  BY Unmoved
<1>6. Local' /\ AddUp'
  BY <1>1, <1>3, <1>4, <1>5, OneTaken
<1>7. \A q \in Object : WritePending(q)' <=> WritePending(q)
  BY <1>1, Unmoved, PendingKept
<1>8. Alone'
  BY <1>4, <1>7, AloneTake
<1> QED BY <1>6, <1>8 DEF IInv

LEMMA MoveConstructHolds ==
  ASSUME IInv, NEW t \in Thread, NEW o \in Object, NEW p \in Object, MoveConstruct(t, o, p)
  PROVE  IInv'
<1>1. /\ pc[t] = "idle" /\ todo[t] = {} /\ owner[o] = t /\ owner[p] = t
      /\ lock[o].kind = "none" /\ lock[p].kind # "none"
      /\ lock' = [lock EXCEPT ![o] = lock[p], ![p] = MovedFrom(lock[p])]
  BY DEF MoveConstruct, Idle
<1>2. UNCHANGED <<mutexVars, pc, stray>> /\ UNCHANGED using /\ UNCHANGED todo
  BY DEF MoveConstruct
<1>3. lock[o].count = 0 /\ lock[o].writes = 0
  BY <1>1, IdleObject DEF Shape
<1>4. o # p
  BY <1>1
<1>5. lock' = TakenOver(o, p)
  BY <1>1, <1>4 DEF TakenOver
<1> QED BY <1>1, <1>2, <1>3, <1>5, NoneTakeHolds

LEMMA AssignReadHolds ==
  ASSUME IInv, NEW t \in Thread, NEW o \in Object, NEW p \in Object, AssignRead(t, o, p)
  PROVE  IInv'
<1>1. /\ pc[t] = "idle" /\ todo[t] = {} /\ owner[o] = t /\ owner[p] = t /\ lock[o].kind = "read"
      /\ lock' = TakenOver(o, p) /\ UNCHANGED using /\ UNCHANGED todo
  BY DEF AssignRead, MayAssign, Idle
<1>2. lock[o].writes = 0
  BY <1>1, IdleObject DEF Shape
<1>3. CASE lock[o].count > 0 /\ ReadUnlock(t, lock[o], TRUE)
  BY <1>1, <1>2, <1>3, ReadTakeHolds
<1>4. CASE lock[o].count = 0 /\ UNCHANGED <<mutexVars, pc, stray>>
  BY <1>1, <1>2, <1>4, NoneTakeHolds
<1> QED BY <1>3, <1>4 DEF AssignRead

LEMMA AssignWriteHolds ==
  ASSUME IInv, NEW t \in Thread, NEW o \in Object, NEW p \in Object, AssignWrite(t, o, p)
  PROVE  IInv'
<1>1. /\ pc[t] = "idle" /\ todo[t] = {} /\ owner[o] = t /\ owner[p] = t /\ lock[o].kind = "write"
      /\ lock' = TakenOver(o, p) /\ UNCHANGED using /\ UNCHANGED todo
  BY DEF AssignWrite, MayAssign, Idle
<1>2. lock[o].count = 0
  BY <1>1, IdleObject DEF Shape
<1>3. todo' = [todo EXCEPT ![t] = {}]
  BY <1>1, Unmoved
<1>4. CASE lock[o].writes > 0 /\ WriteUnlock(t, lock[o], TRUE)
  BY <1>1, <1>2, <1>3, <1>4, WriteTakeHolds
<1>5. CASE lock[o].writes = 0 /\ UNCHANGED <<mutexVars, pc, stray>>
  BY <1>1, <1>2, <1>5, NoneTakeHolds
<1> QED BY <1>4, <1>5 DEF AssignWrite

LEMMA AssignBothHolds ==
  ASSUME IInv, NEW t \in Thread, NEW o \in Object, NEW p \in Object, AssignBoth(t, o, p)
  PROVE  IInv'
<1>1. /\ pc[t] = "idle" /\ todo[t] = {} /\ owner[o] = t /\ owner[p] = t
      /\ lock[o].kind = "both" /\ lock[p].kind = "both" /\ UNCHANGED using
  BY DEF AssignBoth, MayAssign, Idle
<1>2. CASE /\ lock[o].count > 0 /\ lock[o].writes > 0
           /\ ReadUnlock(t, lock[o], TRUE) /\ Become(o, ReadReleased(lock[o], TRUE))
           /\ todo' = [todo EXCEPT ![t] = {[object |-> o, source |-> {p}]}]
  <2> DEFINE S == {p}
  <2>1. S \in SUBSET Object /\ S = {p} /\ todo' = [todo EXCEPT ![t] = {[object |-> o, source |-> S]}]
    BY <1>2
  <2>2. \E q \in Object : S = {q} /\ owner[q] = t /\ lock[q].kind = "both"
    BY <1>1
  <2>3. ReadUnlock(t, lock[o], TRUE) /\ Become(o, ReadReleased(lock[o], TRUE))
    BY <1>2
  <2> HIDE DEF S
  <2> QED BY <1>1, <2>1, <2>2, <2>3, ReadFirstHolds
<1>3. CASE /\ lock[o].count > 0 /\ lock[o].writes = 0 /\ ReadUnlock(t, lock[o], TRUE)
           /\ lock' = TakenOver(o, p) /\ UNCHANGED todo
  BY <1>1, <1>3, ReadTakeHolds
<1>4. CASE /\ lock[o].count = 0 /\ lock[o].writes > 0 /\ WriteUnlock(t, lock[o], TRUE)
           /\ lock' = TakenOver(o, p) /\ UNCHANGED todo
  <2>1. todo' = [todo EXCEPT ![t] = {}]
    BY <1>1, <1>4, Unmoved
  <2> QED BY <1>1, <1>4, <2>1, WriteTakeHolds
<1>5. CASE /\ lock[o].count = 0 /\ lock[o].writes = 0 /\ UNCHANGED <<mutexVars, pc, stray>>
           /\ lock' = TakenOver(o, p) /\ UNCHANGED todo
  BY <1>1, <1>5, NoneTakeHolds
<1> QED BY <1>2, <1>3, <1>4, <1>5 DEF AssignBoth

-----------------------------------------------------------------------------
(* Locking, which may wait.                                                *)

(* A thread changes the object with which it begins to wait or ends to     *)
(* wait.                                                                   *)
LEMMA CallOne ==
  ASSUME IInv, NEW t \in Thread, todo[t] = {}, todo' = todo,
         NEW o \in Object, owner[o] = t, using[t] \in {{}, {o}},
         NEW m \in {"idle", "readWait", "readWoken", "writeWait", "writeWoken"}, pc' = [pc EXCEPT ![t] = m],
         NEW U, U = (IF m = "idle" THEN {} ELSE {o}), using' = [using EXCEPT ![t] = U],
         UNCHANGED reader_, writing_' \in BOOLEAN, UNCHANGED stray,
         NEW k \in LockType, Shape(k), Become(o, k),
         k.count = k.reading + (IF m \in {"readWait", "readWoken"} THEN 1 ELSE 0),
         m \in {"writeWait", "writeWoken"} => k.writes > 0,
         read_count_' = read_count_ - lock[o].count + k.count,
         reading_count_' = reading_count_ - lock[o].reading + k.reading,
         write_count_' = write_count_ - lock[o].writes + k.writes
  PROVE  Local' /\ AddUp'
<1> USE DEF IInv, Local
<1>1. lock' = [lock EXCEPT ![o] = k] /\ lock \in [Object -> LockType] /\ lock' \in [Object -> LockType]
  BY DEF TypeOK, LockType, Become
<1>2. AddUp'
  BY <1>1, SumsOfOne DEF AddUp
<1>3. U \in SUBSET Object
  OBVIOUS
<1>4. TypeOK'
  <2>1. Counts' \in [Object -> 0..MaxNested] /\ Readings' \in [Object -> 0..MaxNested]
        /\ Writings' \in [Object -> 0..MaxNested]
    BY <1>1 DEF Counts, Readings, Writings, LockType
  <2>2. Total(Counts') \in Nat /\ Total(Readings') \in Nat /\ Total(Writings') \in Nat
    BY <2>1, TotalNat
  <2>3. read_count_' \in Nat /\ write_count_' \in Nat /\ reading_count_' \in Nat
    BY <1>2, <2>2 DEF AddUp
  <2>4. pc' \in [Thread -> (Mutex!PC \ {"reading", "writing"}) \cup {"undefined"}]
    BY DEF TypeOK, Mutex!PC
  <2>5. using' \in [Thread -> SUBSET Object]
    BY <1>3 DEF TypeOK
  <2> QED BY <1>1, <2>3, <2>4, <2>5 DEF TypeOK, LockType
<1>5. Shaped'
  BY <1>1 DEF Shaped
<1>6. /\ pc'[t] = m /\ using'[t] = U
      /\ \A u \in Thread : u # t => pc'[u] = pc[u] /\ using'[u] = using[u]
  BY DEF TypeOK
<1>7. /\ WaitsToRead(t)' <=> m \in {"readWait", "readWoken"}
      /\ WaitsToWrite(t)' <=> m \in {"writeWait", "writeWoken"}
  BY <1>6 DEF WaitsToRead, WaitsToWrite
<1>8. CallsOwn'
  <2> SUFFICES ASSUME NEW u \in Thread
               PROVE  IF WaitsToRead(u)' \/ WaitsToWrite(u)'
                      THEN \E q \in Object : using'[u] = {q} /\ owner[q] = u ELSE using'[u] = {}
    BY DEF CallsOwn
  <2>1. CASE u = t
    <3>1. WaitsToRead(u)' \/ WaitsToWrite(u)' <=> m # "idle"
      BY <1>7, <2>1
    <3> QED BY <1>6, <2>1, <3>1
  <2>2. CASE u # t
    <3>1. (WaitsToRead(u)' <=> WaitsToRead(u)) /\ (WaitsToWrite(u)' <=> WaitsToWrite(u))
      BY <1>6, <2>2 DEF WaitsToRead, WaitsToWrite
    <3> QED BY <1>6, <2>2, <3>1 DEF CallsOwn
  <2> QED BY <2>1, <2>2
<1>9. Balanced'
  <2> SUFFICES ASSUME NEW q \in Object
               PROVE  /\ lock'[q].count = lock'[q].reading + (IF ReadPending(q)' THEN 1 ELSE 0)
                      /\ WritePending(q)' => lock'[q].writes > 0
    BY DEF Balanced
  <2>1. CASE q = o
    <3>1. lock'[q] = k
      BY <1>1, <2>1
    <3>2. ReadPending(q)' <=> m \in {"readWait", "readWoken"}
      BY <1>6, <1>7, <2>1 DEF ReadPending
    <3>3. WritePending(q)' <=> m \in {"writeWait", "writeWoken"}
      BY <1>6, <1>7, <2>1 DEF WritePending
    <3> QED BY <3>1, <3>2, <3>3
  <2>2. CASE q # o /\ owner[q] = t
    <3>1. lock'[q] = lock[q] /\ ~ReadPending(q) /\ ~ReadPending(q)' /\ ~WritePending(q)'
      BY <1>1, <1>6, <2>2 DEF ReadPending, WritePending
    <3> QED BY <3>1 DEF Balanced
  <2>3. CASE owner[q] # t
    <3>1. owner[q] \in Thread /\ lock'[q] = lock[q]
      BY <1>1, <2>3, OwnerType
    <3>2. (ReadPending(q)' <=> ReadPending(q)) /\ (WritePending(q)' <=> WritePending(q))
      BY <1>6, <2>3, <3>1 DEF ReadPending, WritePending, WaitsToRead, WaitsToWrite
    <3> QED BY <3>1, <3>2 DEF Balanced
  <2> QED BY <2>1, <2>2, <2>3
<1>10. Rest'
  <2> SUFFICES ASSUME NEW u \in Thread, todo[u] # {}
               PROVE  pc'[u] \in {"idle", "notifyWriter"} /\ \E d \in Later : todo[u] = {d} /\ RestFits(u, d)'
    BY DEF Rest
  <2>1. PICK d \in Later : todo[u] = {d} /\ RestFits(u, d) /\ pc[u] \in {"idle", "notifyWriter"}
    BY DEF Rest
  <2>2. \A q \in Object : owner[q] = u => lock'[q] = lock[q]
    BY <1>1
  <2>3. RestFits(u, d)'
    BY <2>1, <2>2 DEF RestFits, Later
  <2> QED BY <1>6, <2>1, <2>3
<1> QED BY <1>2, <1>4, <1>5, <1>8, <1>9, <1>10

\* No reader is let in while a writer is inside, no writer while anybody is.
LEMMA LetIn ==
  ASSUME IInv, ~stray
  PROVE  /\ Mutex!CanRead => \A q \in Object : ~Inside(q)
         /\ Mutex!CanWrite => \A q \in Object : ~Inside(q) /\ lock[q].reading = 0
<1> USE DEF IInv, Local
<1>1. ASSUME NEW q \in Object
      PROVE  /\ lock[q].count \in Nat /\ lock[q].reading \in Nat /\ lock[q].writes \in Nat
             /\ lock[q].reading <= lock[q].count
  <2>1. lock[q].count \in Nat /\ lock[q].reading \in Nat /\ lock[q].writes \in Nat
    BY NestedBound DEF TypeOK
  <2> QED BY <2>1 DEF Balanced
<1>2. ~writing_ => \A q \in Object : ~Inside(q)
  BY DEF Alone
<1>3. write_count_ = 0 => \A q \in Object : ~Inside(q)
  BY <1>1, SumsBound DEF Inside
<1>4. read_count_ = 0 \/ reading_count_ = 0 => \A q \in Object : lock[q].reading = 0
  <2> SUFFICES ASSUME NEW q \in Object, read_count_ = 0 \/ reading_count_ = 0 PROVE lock[q].reading = 0
    OBVIOUS
  <2>1. lock[q].count <= read_count_ /\ lock[q].reading <= reading_count_
    BY SumsBound
  <2> QED BY <1>1, <2>1
<1> QED BY <1>2, <1>3, <1>4 DEF Mutex!CanRead, Mutex!CanWrite

\* A reader is let in.
LEMMA AloneReads ==
  ASSUME IInv, Mutex!CanRead, UNCHANGED <<writing_, stray>>, lock' \in [Object -> LockType],
         \A q \in Object : (WritePending(q)' <=> WritePending(q)) /\ lock'[q].writes = lock[q].writes
  PROVE  Alone'
<1>1. ASSUME ~stray, NEW q \in Object PROVE lock'[q].writes <= (IF WritePending(q)' THEN 1 ELSE 0)
  <2>1. ~Inside(q) /\ lock'[q].writes \in Nat
    BY <1>1, LetIn, NestedBound DEF LockType
  <2> QED BY <2>1 DEF Inside
<1>2. ASSUME ~stray PROVE ~writing_
  BY <1>2, LetIn DEF IInv, Alone
<1> QED BY <1>1, <1>2, AloneNone

\* A writer is let in, with an object that counts one more lock than before or than it holds.
LEMMA AloneWrites ==
  ASSUME IInv, Mutex!CanWrite, writing_' = TRUE, UNCHANGED stray, NEW o \in Object,
         lock' \in [Object -> LockType], ~WritePending(o)',
         ~stray => lock'[o].writes = 1,
         \A q \in Object : /\ lock'[q].reading = lock[q].reading
                           /\ q # o => (WritePending(q)' <=> WritePending(q)) /\ lock'[q].writes = lock[q].writes
  PROVE  Alone'
<1> SUFFICES ASSUME ~stray PROVE Alone'
  BY DEF Alone
<1>1. \A q \in Object : lock'[q].reading = 0 /\ ~Inside(q)
  BY LetIn
<1>2. \A q \in Object : lock[q].writes <= (IF WritePending(q) THEN 2 ELSE 1)
  BY DEF IInv, Alone
<1>3. Inside(o)'
  BY DEF Inside
<1>4. \A q \in Object : q # o => ~Inside(q)'
  BY <1>1 DEF Inside
<1>5. \A q \in Object : lock'[q].writes <= (IF WritePending(q)' THEN 2 ELSE 1)
  BY <1>2
<1> QED BY <1>1, <1>3, <1>4, <1>5 DEF Alone

LEMMA ReadLockHolds ==
  ASSUME IInv, NEW t \in Thread, NEW o \in Object, ReadLock(t, o)
  PROVE  IInv'
<1>1. /\ pc[t] = "idle" /\ todo[t] = {} /\ owner[o] = t /\ lock[o].mutex
      /\ lock[o].kind \in {"read", "both"} /\ lock[o].count < MaxNested
  BY DEF ReadLock, Usable, Idle
<1>2. read_count_' = read_count_ + 1 /\ UNCHANGED <<reader_, write_count_>> /\ todo' = todo
  BY DEF ReadLock
<1>3. UNCHANGED <<writing_, stray>> /\ writing_' \in BOOLEAN /\ stray' \in BOOLEAN
  BY DEF ReadLock, IInv, Local, TypeOK
<1>4. /\ lock[o] \in LockType /\ Shape(lock[o]) /\ using[t] = {} /\ lock[o].count = lock[o].reading
      /\ lock[o].count \in Nat /\ lock[o].writes \in Nat
      /\ read_count_ \in Nat /\ reading_count_ \in Nat /\ write_count_ \in Nat
  BY <1>1, IdleObject, NestedBound DEF IInv, Local, TypeOK, LockType
<1>5. lock[o].count + 1 \in 0..MaxNested /\ lock[o].reading + 1 \in 0..MaxNested
  BY <1>1, <1>4, NestedBound
<1>6. CASE Mutex!CanRead
  <2> DEFINE k == [lock[o] EXCEPT !.count = lock[o].count + 1, !.reading = lock[o].reading + 1]
             l == "idle"
             D == {}
  <2>1. reading_count_' = reading_count_ + 1 /\ Become(o, k) /\ UNCHANGED <<pc, using>>
    BY <1>6 DEF ReadLock
  <2>2. k = [kind |-> lock[o].kind, mutex |-> lock[o].mutex, count |-> lock[o].count + 1,
             reading |-> lock[o].reading + 1, writes |-> lock[o].writes]
    <3>1. lock[o].count + 1 \in Nat /\ lock[o].reading + 1 \in Nat
      BY <1>4
    <3> QED BY <1>4, <3>1, FieldsSet
  <2>3. /\ k \in LockType /\ k.kind = lock[o].kind /\ k.mutex = lock[o].mutex /\ k.count = lock[o].count + 1
        /\ k.reading = lock[o].reading + 1 /\ k.writes = lock[o].writes
    BY <1>4, <1>5, <2>2 DEF LockType
  <2> HIDE DEF k, l, D
  <2>4. Shape(k)
    BY <1>1, <1>4, <2>3 DEF Shape
  <2>5. /\ l \in {"idle", "notifyWriter", "notifyReaders", "undefined"} /\ pc' = [pc EXCEPT ![t] = l]
        /\ l \notin {"writeWait", "writeWoken"} /\ using' = using
    BY <1>1, <2>1, Unmoved DEF l
  <2>6. /\ read_count_' = read_count_ - lock[o].count + k.count
        /\ reading_count_' = reading_count_ - lock[o].reading + k.reading
        /\ write_count_' = write_count_ - lock[o].writes + k.writes
        /\ UNCHANGED reader_
        /\ k.count = k.reading
    BY <1>2, <1>4, <2>1, <2>3
  <2>7. D \in SUBSET Later /\ D = {} /\ todo' = [todo EXCEPT ![t] = D]
    BY <1>1, <1>2, Unmoved DEF D
  <2>8. Local' /\ AddUp'
    BY <1>1, <1>3, <2>1, <2>3, <2>4, <2>5, <2>6, <2>7, OneObject
  <2>9. \A q \in Object : WritePending(q)' <=> WritePending(q)
    BY <1>1, <2>5, Unmoved, PendingKept
  <2>10. lock' = [lock EXCEPT ![o] = k] /\ lock' \in [Object -> LockType]
    BY <2>1, <2>3, Unmoved DEF Become
  <2>11. \A q \in Object : (WritePending(q)' <=> WritePending(q)) /\ lock'[q].writes = lock[q].writes
    BY <2>3, <2>9, <2>10, Unmoved
  <2>12. Alone'
    BY <1>3, <1>6, <2>10, <2>11, AloneReads
  <2> QED BY <2>8, <2>12 DEF IInv
<1>7. CASE ~Mutex!CanRead
  <2> DEFINE k == [lock[o] EXCEPT !.count = lock[o].count + 1]
             m == "readWait"
             U == {o}
  <2>1. Become(o, k) /\ pc' = [pc EXCEPT ![t] = m] /\ using' = [using EXCEPT ![t] = U] /\ UNCHANGED reading_count_
    BY <1>7 DEF ReadLock, Goto
  <2>2. /\ k \in LockType /\ k.kind = lock[o].kind /\ k.mutex = lock[o].mutex /\ k.count = lock[o].count + 1
        /\ k.reading = lock[o].reading /\ k.writes = lock[o].writes
    BY <1>4, <1>5 DEF LockType
  <2> HIDE DEF k
  <2>3. Shape(k)
    BY <1>1, <1>4, <2>2 DEF Shape
  <2>4. /\ read_count_' = read_count_ - lock[o].count + k.count
        /\ reading_count_' = reading_count_ - lock[o].reading + k.reading
        /\ write_count_' = write_count_ - lock[o].writes + k.writes
        /\ UNCHANGED reader_
        /\ k.count = k.reading + (IF m \in {"readWait", "readWoken"} THEN 1 ELSE 0)
    BY <1>2, <1>4, <2>1, <2>2
  <2>5. k.reading <= lock[o].reading
    BY <1>4, <2>2
  <2>6. Alone'
    BY <1>1, <1>3, <2>1, <2>2, <2>5, AloneKept
  <2>7. /\ m \in {"idle", "readWait", "readWoken", "writeWait", "writeWoken"} /\ m \notin {"writeWait", "writeWoken"}
        /\ U = (IF m = "idle" THEN {} ELSE {o}) /\ using[t] \in {{}, {o}}
    BY <1>4
  <2> HIDE DEF m, U
  <2>8. Local' /\ AddUp'
    BY <1>1, <1>2, <1>3, <2>1, <2>2, <2>3, <2>4, <2>7, CallOne
  <2> QED BY <2>6, <2>8 DEF IInv
<1> QED BY <1>6, <1>7

LEMMA WriteLockHolds ==
  ASSUME IInv, NEW t \in Thread, NEW o \in Object, WriteLock(t, o)
  PROVE  IInv'
<1>1. /\ pc[t] = "idle" /\ todo[t] = {} /\ owner[o] = t /\ lock[o].mutex
      /\ lock[o].kind \in {"write", "both"} /\ lock[o].writes < MaxNested
  BY DEF WriteLock, Usable, Idle
<1> DEFINE k == [lock[o] EXCEPT !.writes = lock[o].writes + 1]
<1>2. /\ write_count_' = write_count_ + 1 /\ Become(o, k)
      /\ UNCHANGED <<reader_, read_count_, reading_count_>> /\ todo' = todo
  BY DEF WriteLock
<1>3. UNCHANGED stray /\ stray' \in BOOLEAN
  BY DEF WriteLock, IInv, Local, TypeOK
<1>4. /\ lock[o] \in LockType /\ Shape(lock[o]) /\ using[t] = {} /\ lock[o].count = lock[o].reading
      /\ lock[o].count \in Nat /\ lock[o].writes \in Nat
      /\ read_count_ \in Nat /\ reading_count_ \in Nat /\ write_count_ \in Nat
      /\ ~stray => lock[o].writes <= 1
  BY <1>1, IdleObject, NestedBound DEF IInv, Local, TypeOK, LockType
<1>5. Inside(o) <=> lock[o].writes > 0
  BY <1>1, IdleObject
<1>6. lock[o].writes + 1 \in 0..MaxNested
  BY <1>1, <1>4, NestedBound
<1>7. /\ k \in LockType /\ k.kind = lock[o].kind /\ k.mutex = lock[o].mutex /\ k.count = lock[o].count
      /\ k.reading = lock[o].reading /\ k.writes = lock[o].writes + 1
  BY <1>4, <1>6 DEF LockType
<1> HIDE DEF k
<1>8. Shape(k)
  BY <1>1, <1>4, <1>7 DEF Shape
<1>9. /\ read_count_' = read_count_ - lock[o].count + k.count
      /\ reading_count_' = reading_count_ - lock[o].reading + k.reading
      /\ write_count_' = write_count_ - lock[o].writes + k.writes
      /\ UNCHANGED reader_
      /\ k.count = k.reading
  BY <1>2, <1>4, <1>7
<1>10. /\ lock' = [lock EXCEPT ![o] = k] /\ lock \in [Object -> LockType] /\ lock' \in [Object -> LockType]
       /\ \A q \in Object : lock'[q] = IF q = o THEN k ELSE lock[q]
  BY <1>2, <1>7, Unmoved DEF Become
<1>11. CASE Mutex!CanWrite
  <2> DEFINE l == "idle"
             D == {}
  <2>1. writing_' = TRUE /\ UNCHANGED <<pc, using>>
    BY <1>11 DEF WriteLock
  <2> HIDE DEF l, D
  <2>2. /\ l \in {"idle", "notifyWriter", "notifyReaders", "undefined"} /\ pc' = [pc EXCEPT ![t] = l]
        /\ l \notin {"writeWait", "writeWoken"} /\ using' = using
    BY <1>1, <2>1, Unmoved DEF l
  <2>3. D \in SUBSET Later /\ D = {} /\ todo' = [todo EXCEPT ![t] = D]
    BY <1>1, <1>2, Unmoved DEF D
  <2>4. writing_' \in BOOLEAN
    BY <2>1
  <2>5. Local' /\ AddUp'
    <3>1. pc[t] = "idle" /\ todo[t] = {} /\ owner[o] = t /\ Become(o, k)
      BY <1>1, <1>2
    <3>2. k \in LockType
      BY <1>7
    <3> QED BY ONLY IInv, t \in Thread, o \in Object, <1>3, <1>8, <1>9, <2>2, <2>3, <2>4, <3>1, <3>2, OneObject
  <2>6. \A q \in Object : WritePending(q)' <=> WritePending(q)
    BY <1>1, <2>2, Unmoved, PendingKept
  <2>7. ~WritePending(o)'
    BY <1>1, <2>6, IdleObject
  <2>8. ~stray => lock'[o].writes = 1
    BY <1>4, <1>5, <1>7, <1>10, <1>11, LetIn
  <2>9. \A q \in Object : /\ lock'[q].reading = lock[q].reading
                          /\ q # o => (WritePending(q)' <=> WritePending(q)) /\ lock'[q].writes = lock[q].writes
    BY <1>7, <1>10, <2>6
  <2>10. Alone'
    BY <1>3, <1>10, <1>11, <2>1, <2>7, <2>8, <2>9, AloneWrites
  <2> QED BY <2>5, <2>10 DEF IInv
<1>12. CASE ~Mutex!CanWrite
  <2> DEFINE m == "writeWait"
             U == {o}
  <2>1. pc' = [pc EXCEPT ![t] = m] /\ using' = [using EXCEPT ![t] = U]
    BY <1>12 DEF WriteLock, Goto
  <2>2. UNCHANGED writing_ /\ writing_' \in BOOLEAN
    BY <1>12 DEF WriteLock, IInv, Local, TypeOK
  <2>3. /\ m \in {"idle", "readWait", "readWoken", "writeWait", "writeWoken"}
        /\ m \in {"writeWait", "writeWoken"} /\ m \notin {"readWait", "readWoken"}
        /\ U = (IF m = "idle" THEN {} ELSE {o}) /\ using[t] \in {{}, {o}}
    BY <1>4
  <2> HIDE DEF m, U
  <2>4. k.writes > 0 /\ k.count = k.reading + (IF m \in {"readWait", "readWoken"} THEN 1 ELSE 0)
    BY <1>4, <1>7, <2>3
  <2>5. Local' /\ AddUp'
    BY <1>1, <1>2, <1>3, <1>7, <1>8, <1>9, <2>1, <2>2, <2>3, <2>4, CallOne
  <2>6. WritePending(o)' /\ \A q \in Object : q # o => (WritePending(q)' <=> WritePending(q))
    <3>1. pc'[t] = "writeWait" /\ using'[t] = {o}
      BY <2>1 DEF m, U, IInv, Local, TypeOK
    <3>2. WritePending(o)'
      BY <1>1, <3>1 DEF WritePending, WaitsToWrite
    <3>3. ASSUME NEW q \in Object, q # o PROVE WritePending(q)' <=> WritePending(q)
      <4>1. CASE owner[q] = t
        BY <1>4, <3>1, <3>3, <4>1 DEF WritePending
      <4>2. CASE owner[q] # t
        BY <2>1, <4>2, OwnerType DEF WritePending, WaitsToWrite, IInv, Local, TypeOK
      <4> QED BY <4>1, <4>2
    <3> QED BY <3>2, <3>3
  <2>7. \A q \in Object : (Inside(q)' <=> Inside(q)) /\ lock'[q].reading = lock[q].reading
    <3>1. Inside(o)' <=> Inside(o)
      BY <1>4, <1>5, <1>7, <1>10, <2>6 DEF Inside
    <3> QED BY <1>7, <1>10, <2>6, <3>1 DEF Inside
  <2>8. ASSUME ~stray, NEW q \in Object PROVE lock'[q].writes <= (IF WritePending(q)' THEN 2 ELSE 1)
    <3>1. CASE q = o
      BY <1>4, <1>7, <1>10, <2>6, <2>8, <3>1
    <3>2. CASE q # o
      BY <1>10, <2>6, <2>8, <3>2 DEF IInv, Alone
    <3> QED BY <3>1, <3>2
  <2>9. Alone'
    BY <1>3, <2>2, <2>7, <2>8 DEF IInv, Alone
  <2> QED BY <2>5, <2>9 DEF IInv
<1> QED BY <1>11, <1>12

\* Whoever waits does so with an object of its own, and has nothing else to do.
LEMMA Waiting ==
  ASSUME IInv, NEW t \in Thread, WaitsToRead(t) \/ WaitsToWrite(t)
  PROVE  /\ todo[t] = {}
         /\ \E o \in Object : /\ owner[o] = t /\ using[t] = {o} /\ lock[o] \in LockType /\ Shape(lock[o])
                              /\ IF WaitsToRead(t) THEN lock[o].count = lock[o].reading + 1
                                                   ELSE lock[o].count = lock[o].reading /\ lock[o].writes > 0
<1> USE DEF IInv, Local
<1>1. pc[t] \notin {"idle", "notifyWriter"} /\ ~(WaitsToRead(t) /\ WaitsToWrite(t))
  BY DEF WaitsToRead, WaitsToWrite
<1>2. todo[t] = {}
  BY <1>1 DEF Rest
<1>3. PICK o \in Object : using[t] = {o} /\ owner[o] = t
  BY DEF CallsOwn
<1>4. (ReadPending(o) <=> WaitsToRead(t)) /\ (WritePending(o) <=> WaitsToWrite(t))
  BY <1>3 DEF ReadPending, WritePending
<1>5. lock[o] \in LockType /\ Shape(lock[o]) /\ lock[o].reading \in Nat
  BY NestedBound DEF TypeOK, LockType, Shaped
<1>6. IF WaitsToRead(t) THEN lock[o].count = lock[o].reading + 1
                        ELSE lock[o].count = lock[o].reading /\ lock[o].writes > 0
  BY <1>1, <1>4, <1>5 DEF Balanced
<1> QED BY <1>2, <1>3, <1>5, <1>6

LEMMA ReadWakeHolds ==
  ASSUME IInv, NEW t \in Thread, ReadWake(t)
  PROVE  IInv'
<1>1. pc[t] = "readWoken" /\ WaitsToRead(t) /\ ~WaitsToWrite(t)
  BY DEF ReadWake, WaitsToRead, WaitsToWrite
<1>2. PICK o \in Object : /\ owner[o] = t /\ using[t] = {o} /\ lock[o] \in LockType /\ Shape(lock[o])
                          /\ lock[o].count = lock[o].reading + 1
  BY <1>1, Waiting
<1>3. todo[t] = {} /\ todo' = todo /\ UNCHANGED <<reader_, read_count_, write_count_>>
  BY <1>1, Waiting DEF ReadWake
<1>4. UNCHANGED <<writing_, stray>> /\ writing_' \in BOOLEAN
  BY DEF ReadWake, IInv, Local, TypeOK
<1>5. /\ lock[o].count \in Nat /\ lock[o].reading \in Nat /\ lock[o].writes \in Nat /\ lock[o].count <= MaxNested
      /\ read_count_ \in Nat /\ reading_count_ \in Nat /\ write_count_ \in Nat
      /\ lock[o].reading + 1 \in 0..MaxNested
  BY <1>2, NestedBound DEF IInv, Local, TypeOK, LockType
<1>6. CASE /\ Mutex!CanRead
           /\ reading_count_' = reading_count_ + 1
           /\ \E p \in using[t] : Become(p, [lock[p] EXCEPT !.reading = @ + 1])
           /\ Goto(t, "idle") /\ using' = [using EXCEPT ![t] = {}]
  <2> DEFINE k == [lock[o] EXCEPT !.reading = lock[o].reading + 1]
             m == "idle"
             U == {}
  <2>1. Become(o, k) /\ pc' = [pc EXCEPT ![t] = m] /\ using' = [using EXCEPT ![t] = U]
    BY <1>2, <1>6 DEF Goto
  <2>2. /\ k \in LockType /\ k.kind = lock[o].kind /\ k.mutex = lock[o].mutex /\ k.count = lock[o].count
        /\ k.reading = lock[o].reading + 1 /\ k.writes = lock[o].writes
    BY <1>2, <1>5 DEF LockType
  <2>3. /\ m \in {"idle", "readWait", "readWoken", "writeWait", "writeWoken"} /\ m \notin {"readWait", "readWoken"}
        /\ m \notin {"writeWait", "writeWoken"}
        /\ U = (IF m = "idle" THEN {} ELSE {o}) /\ using[t] \in {{}, {o}}
    BY <1>2
  <2> HIDE DEF k, m, U
  <2>4. Shape(k)
    BY <1>2, <1>5, <2>2 DEF Shape
  <2>5. /\ read_count_' = read_count_ - lock[o].count + k.count
        /\ reading_count_' = reading_count_ - lock[o].reading + k.reading
        /\ write_count_' = write_count_ - lock[o].writes + k.writes
        /\ UNCHANGED reader_
        /\ k.count = k.reading + (IF m \in {"readWait", "readWoken"} THEN 1 ELSE 0)
    BY <1>2, <1>3, <1>5, <1>6, <2>2, <2>3
  <2>6. Local' /\ AddUp'
    BY <1>2, <1>3, <1>4, <2>1, <2>2, <2>3, <2>4, <2>5, CallOne
  <2>7. \A q \in Object : WritePending(q)' <=> WritePending(q)
    BY <1>1, <2>1, <2>3, PendingKept
  <2>8. lock' = [lock EXCEPT ![o] = k] /\ lock' \in [Object -> LockType]
    BY <2>1, <2>2, Unmoved DEF Become
  <2>9. \A q \in Object : (WritePending(q)' <=> WritePending(q)) /\ lock'[q].writes = lock[q].writes
    BY <2>2, <2>7, <2>8, Unmoved
  <2>10. Alone'
    BY <1>4, <1>6, <2>8, <2>9, AloneReads
  <2> QED BY <2>6, <2>10 DEF IInv
<1>7. CASE ~Mutex!CanRead /\ Goto(t, "readWait") /\ UNCHANGED <<reading_count_, lock, using>>
  <2> DEFINE k == lock[o]
             m == "readWait"
             U == {o}
  <2>1. Become(o, k) /\ pc' = [pc EXCEPT ![t] = m] /\ using' = [using EXCEPT ![t] = U]
    BY <1>2, <1>7 DEF Goto, Become, IInv, Local, TypeOK
  <2>2. /\ m \in {"idle", "readWait", "readWoken", "writeWait", "writeWoken"} /\ m \in {"readWait", "readWoken"}
        /\ m \notin {"writeWait", "writeWoken"}
        /\ U = (IF m = "idle" THEN {} ELSE {o}) /\ using[t] \in {{}, {o}}
    BY <1>2
  <2>3. k \in LockType /\ Shape(k)
    BY <1>2
  <2> HIDE DEF m, U
  <2>4. /\ read_count_' = read_count_ - lock[o].count + k.count
        /\ reading_count_' = reading_count_ - lock[o].reading + k.reading
        /\ write_count_' = write_count_ - lock[o].writes + k.writes
        /\ UNCHANGED reader_
        /\ k.count = k.reading + (IF m \in {"readWait", "readWoken"} THEN 1 ELSE 0)
    BY <1>2, <1>3, <1>5, <1>7, <2>2
  <2>5. k.writes = lock[o].writes
    OBVIOUS
  <2> HIDE DEF k
  <2>6. Local' /\ AddUp'
    BY <1>2, <1>3, <1>4, <2>1, <2>2, <2>3, <2>4, CallOne
  <2>7. \A q \in Object : WritePending(q)' <=> WritePending(q)
    BY <1>1, <2>1, <2>2, PendingKept
  <2>8. lock' = lock /\ lock' \in [Object -> LockType] /\ \A q \in Object : lock'[q].reading <= lock[q].reading
    BY <1>7, Unmoved, NestedBound DEF LockType
  <2>9. Alone'
    BY <1>4, <2>7, <2>8, AloneLess
  <2> QED BY <2>6, <2>9 DEF IInv
<1> QED BY <1>6, <1>7 DEF ReadWake

LEMMA WriteWakeHolds ==
  ASSUME IInv, NEW t \in Thread, WriteWake(t)
  PROVE  IInv'
<1>1. pc[t] = "writeWoken" /\ WaitsToWrite(t) /\ ~WaitsToRead(t)
  BY DEF WriteWake, WaitsToRead, WaitsToWrite
<1>2. PICK o \in Object : /\ owner[o] = t /\ using[t] = {o} /\ lock[o] \in LockType /\ Shape(lock[o])
                          /\ lock[o].count = lock[o].reading /\ lock[o].writes > 0
  BY <1>1, Waiting
<1>3. /\ todo[t] = {} /\ todo' = todo /\ UNCHANGED <<reader_, read_count_, write_count_, reading_count_>>
      /\ UNCHANGED lock
  BY <1>1, Waiting DEF WriteWake
<1>4. UNCHANGED stray
  BY DEF WriteWake
<1> DEFINE k == lock[o]
<1>5. k \in LockType /\ Shape(k) /\ Become(o, k) /\ k.writes > 0
  BY <1>2, <1>3, Unmoved DEF Become
<1>6. /\ read_count_' = read_count_ - lock[o].count + k.count
      /\ reading_count_' = reading_count_ - lock[o].reading + k.reading
      /\ write_count_' = write_count_ - lock[o].writes + k.writes
      /\ UNCHANGED reader_
      /\ k.count = k.reading + 0
  <2>1. /\ lock[o].count \in Nat /\ lock[o].reading \in Nat /\ lock[o].writes \in Nat
        /\ read_count_ \in Nat /\ reading_count_ \in Nat /\ write_count_ \in Nat
    BY <1>2, NestedBound DEF IInv, Local, TypeOK, LockType
  <2> QED BY <1>2, <1>3, <2>1
<1> HIDE DEF k
<1>7. lock' = lock /\ lock' \in [Object -> LockType]
  BY <1>3, Unmoved
<1>8. CASE Mutex!CanWrite /\ writing_' = TRUE /\ Goto(t, "idle") /\ using' = [using EXCEPT ![t] = {}]
  <2> DEFINE m == "idle"
             U == {}
  <2>1. /\ pc' = [pc EXCEPT ![t] = m] /\ using' = [using EXCEPT ![t] = U]
        /\ m \in {"idle", "readWait", "readWoken", "writeWait", "writeWoken"} /\ m \notin {"readWait", "readWoken"}
        /\ m \notin {"writeWait", "writeWoken"}
        /\ U = (IF m = "idle" THEN {} ELSE {o}) /\ using[t] \in {{}, {o}}
    BY <1>2, <1>8 DEF Goto
  <2>2. writing_' \in BOOLEAN /\ Mutex!CanWrite
    BY <1>8
  <2> HIDE DEF m, U
  <2>3. k.count = k.reading + (IF m \in {"readWait", "readWoken"} THEN 1 ELSE 0)
    BY <1>6, <2>1
  <2>4. Local' /\ AddUp'
    BY <1>2, <1>3, <1>4, <1>5, <1>6, <2>1, <2>2, <2>3, CallOne
  <2>5. pc'[t] = "idle" /\ \A u \in Thread : u # t => pc'[u] = pc[u] /\ using'[u] = using[u]
    BY <1>8 DEF Goto, IInv, Local, TypeOK
  <2>6. ~WritePending(o)' /\ \A q \in Object : q # o => (WritePending(q)' <=> WritePending(q))
    <3>1. ~WritePending(o)'
      BY <1>2, <2>5 DEF WritePending, WaitsToWrite
    <3>2. ASSUME NEW q \in Object, q # o PROVE WritePending(q)' <=> WritePending(q)
      <4>1. CASE owner[q] = t
        BY <1>2, <2>5, <3>2, <4>1 DEF WritePending, WaitsToWrite
      <4>2. CASE owner[q] # t
        BY <2>5, <4>2, OwnerType DEF WritePending, WaitsToWrite
      <4> QED BY <4>1, <4>2
    <3> QED BY <3>1, <3>2
  <2>7. ~stray => lock'[o].writes = 1
    <3>1. WritePending(o) /\ lock[o].writes \in Nat
      BY <1>1, <1>2, NestedBound DEF WritePending, LockType
    <3>2. ~stray => ~Inside(o)
      BY <2>2, LetIn
    <3> QED BY <1>2, <1>7, <3>1, <3>2 DEF Inside
  <2>8. \A q \in Object : /\ lock'[q].reading = lock[q].reading
                          /\ q # o => (WritePending(q)' <=> WritePending(q)) /\ lock'[q].writes = lock[q].writes
    BY <1>7, <2>6
  <2>9. Alone'
    BY <1>4, <1>7, <1>8, <2>6, <2>7, <2>8, AloneWrites
  <2> QED BY <2>4, <2>9 DEF IInv
<1>9. CASE ~Mutex!CanWrite /\ Goto(t, "writeWait") /\ UNCHANGED <<writing_, using>>
  <2> DEFINE m == "writeWait"
             U == {o}
  <2>1. /\ pc' = [pc EXCEPT ![t] = m] /\ using' = [using EXCEPT ![t] = U]
    BY <1>2, <1>9 DEF Goto, IInv, Local, TypeOK
  <2>2. /\ m \in {"idle", "readWait", "readWoken", "writeWait", "writeWoken"} /\ m \notin {"readWait", "readWoken"}
        /\ U = (IF m = "idle" THEN {} ELSE {o}) /\ using[t] \in {{}, {o}}
    BY <1>2
  <2>3. UNCHANGED writing_ /\ writing_' \in BOOLEAN
    BY <1>9 DEF IInv, Local, TypeOK
  <2> HIDE DEF m, U
  <2>4. k.count = k.reading + (IF m \in {"readWait", "readWoken"} THEN 1 ELSE 0)
    BY <1>6, <2>2
  <2>5. Local' /\ AddUp'
    BY <1>2, <1>3, <1>4, <1>5, <1>6, <2>1, <2>2, <2>3, <2>4, CallOne
  <2>6. \A u \in Thread : using'[u] = using[u] /\ (u # t => pc'[u] = pc[u])
    BY <1>9 DEF Goto, IInv, Local, TypeOK
  <2>7. pc'[t] = "writeWait"
    BY <1>9 DEF Goto, IInv, Local, TypeOK
  <2>8. ASSUME NEW q \in Object PROVE WritePending(q)' <=> WritePending(q)
    BY <1>1, <2>6, <2>7, OwnerType DEF WritePending, WaitsToWrite
  <2>9. \A q \in Object : lock'[q].reading <= lock[q].reading
    BY <1>7, NestedBound DEF LockType
  <2>10. Alone'
    BY <1>4, <1>7, <2>3, <2>8, <2>9, AloneLess
  <2> QED BY <2>5, <2>10 DEF IInv
<1> QED BY <1>8, <1>9 DEF WriteWake

-----------------------------------------------------------------------------
(* What leaves the locks alone.                                            *)

\* Who waits goes on waiting, and nothing else changes.
LEMMA WaitersKept ==
  ASSUME IInv, UNCHANGED <<mutexVars, lock, using, todo, stray>>,
         pc' \in [Thread -> (Mutex!PC \ {"reading", "writing"}) \cup {"undefined"}],
         \A u \in Thread : /\ pc'[u] \in {"readWait", "readWoken"} <=> pc[u] \in {"readWait", "readWoken"}
                           /\ pc'[u] \in {"writeWait", "writeWoken"} <=> pc[u] \in {"writeWait", "writeWoken"}
                           /\ pc[u] \in {"idle", "notifyWriter"} => pc'[u] \in {"idle", "notifyWriter"}
  PROVE  IInv'
<1> USE DEF IInv, Local
<1>1. TypeOK'
  BY DEF TypeOK, mutexVars
<1>2. Shaped'
  BY DEF Shaped
<1>3. CallsOwn'
  <2> SUFFICES ASSUME NEW u \in Thread
               PROVE  IF WaitsToRead(u)' \/ WaitsToWrite(u)'
                      THEN \E o \in Object : using'[u] = {o} /\ owner[o] = u ELSE using'[u] = {}
    BY DEF CallsOwn
  <2>1. (WaitsToRead(u)' <=> WaitsToRead(u)) /\ (WaitsToWrite(u)' <=> WaitsToWrite(u))
    BY DEF WaitsToRead, WaitsToWrite
  <2> QED BY <2>1 DEF CallsOwn
<1>4. \A o \in Object : (ReadPending(o)' <=> ReadPending(o)) /\ (WritePending(o)' <=> WritePending(o))
  <2> SUFFICES ASSUME NEW o \in Object
               PROVE  (ReadPending(o)' <=> ReadPending(o)) /\ (WritePending(o)' <=> WritePending(o))
    OBVIOUS
  <2>1. owner[o] \in Thread
    BY OwnerType
  <2> QED BY <2>1 DEF ReadPending, WritePending, WaitsToRead, WaitsToWrite
<1>5. Balanced'
  BY <1>4 DEF Balanced
<1>6. Rest'
  <2> SUFFICES ASSUME NEW u \in Thread, todo[u] # {}
               PROVE  pc'[u] \in {"idle", "notifyWriter"} /\ \E d \in Later : todo[u] = {d} /\ RestFits(u, d)'
    BY DEF Rest
  <2>1. PICK d \in Later : todo[u] = {d} /\ RestFits(u, d) /\ pc[u] \in {"idle", "notifyWriter"}
    BY DEF Rest
  <2>2. RestFits(u, d)'
    BY <2>1 DEF RestFits
  <2> QED BY <2>1, <2>2
<1>7. AddUp'
  BY DEF AddUp, mutexVars, Counts, Readings, Writings
<1>8. Alone'
  <2>1. lock' \in [Object -> LockType] /\ \A o \in Object : lock'[o].writes = lock[o].writes /\ lock'[o].reading <= lock[o].reading
    BY NestedBound DEF TypeOK, LockType
  <2> QED BY <1>4, <2>1, AloneLess DEF mutexVars
<1> QED BY <1>1, <1>2, <1>3, <1>5, <1>6, <1>7, <1>8

LEMMA NotifyHolds ==
  ASSUME IInv, NEW t \in Thread, NotifyOrSpurious(t)
  PROVE  IInv'
<1> USE DEF IInv, Local
<1>0. pc \in [Thread -> (Mutex!PC \ {"reading", "writing"}) \cup {"undefined"}]
  BY DEF TypeOK
<1>1. CASE Mutex!NotifyWriter(t)
  <2>1. UNCHANGED <<mutexVars, lock, using, todo, stray>> /\ pc[t] = "notifyWriter"
    BY <1>1 DEF Mutex!NotifyWriter, NotifyOrSpurious, mutexVars
  <2>2. CASE pc' = [pc EXCEPT ![t] = "idle"]
    BY <1>0, <2>1, <2>2, WaitersKept DEF Mutex!PC
  <2>3. CASE \E w \in Mutex!At({"writeWait"}) : pc' = [pc EXCEPT ![t] = "idle", ![w] = "writeWoken"]
    BY <1>0, <2>1, <2>3, WaitersKept DEF Mutex!PC, Mutex!At
  <2> QED BY <1>1, <2>2, <2>3 DEF Mutex!NotifyWriter, Mutex!Goto
<1>2. CASE Mutex!NotifyReaders(t)
  <2>1. UNCHANGED <<mutexVars, lock, using, todo, stray>> /\ pc[t] = "notifyReaders"
    BY <1>2 DEF Mutex!NotifyReaders, NotifyOrSpurious, mutexVars
  <2>2. pc' = [u \in Thread |-> IF u = t THEN "idle" ELSE IF pc[u] = "readWait" THEN "readWoken" ELSE pc[u]]
    BY <1>2 DEF Mutex!NotifyReaders
  <2> QED BY <1>0, <2>1, <2>2, WaitersKept DEF Mutex!PC
<1>3. CASE Mutex!SpuriousWakeup(t)
  <2>1. UNCHANGED <<mutexVars, lock, using, todo, stray>>
    BY <1>3 DEF Mutex!SpuriousWakeup, NotifyOrSpurious, mutexVars
  <2>2. \/ pc[t] = "readWait" /\ pc' = [pc EXCEPT ![t] = "readWoken"]
        \/ pc[t] = "writeWait" /\ pc' = [pc EXCEPT ![t] = "writeWoken"]
    BY <1>3 DEF Mutex!SpuriousWakeup, Mutex!Goto
  <2> QED BY <1>0, <2>1, <2>2, WaitersKept DEF Mutex!PC
<1> QED BY <1>1, <1>2, <1>3 DEF NotifyOrSpurious

LEMMA InitHolds == Init => IInv
<1> SUFFICES ASSUME Init PROVE IInv
  OBVIOUS
<1>1. NoObject = [kind |-> "none", mutex |-> FALSE, count |-> 0, reading |-> 0, writes |-> 0]
  BY WithoutMutex DEF NoObject
<1>2. \A o \in Object : lock[o] = NoObject
  BY DEF Init
<1>3. NoObject \in LockType /\ Shape(NoObject) /\ NoObject.count = 0 /\ NoObject.reading = 0 /\ NoObject.writes = 0
  BY <1>1, NestedBound DEF LockType, Shape
<1>4. TypeOK
  BY <1>3 DEF Init, TypeOK, LockType, Mutex!PC
<1>5. Total(Counts) = 0 /\ Total(Readings) = 0 /\ Total(Writings) = 0
  <2>1. \A o \in Object : Counts[o] = 0 /\ Readings[o] = 0 /\ Writings[o] = 0
    BY <1>2, <1>3 DEF Counts, Readings, Writings
  <2> QED BY <1>4, <2>1, FieldsTyped, TotalNat
<1>6. AddUp
  BY <1>5 DEF AddUp, Init
<1>7. \A t \in Thread : ~WaitsToRead(t) /\ ~WaitsToWrite(t) /\ using[t] = {} /\ todo[t] = {}
  BY DEF WaitsToRead, WaitsToWrite, Init
<1>8. CallsOwn /\ Rest
  BY <1>7 DEF CallsOwn, Rest
<1>9. \A o \in Object : ~ReadPending(o) /\ ~WritePending(o)
  BY <1>7, OwnerType DEF ReadPending, WritePending
<1>10. Shaped /\ Balanced
  BY <1>2, <1>3, <1>9 DEF Shaped, Balanced
<1>11. ~writing_
  BY DEF Init
<1>12. \A o \in Object : ~Inside(o) /\ lock[o].writes = 0
  BY <1>2, <1>3, <1>9 DEF Inside
<1>13. Alone
  BY <1>9, <1>11, <1>12 DEF Alone
<1> QED BY <1>4, <1>6, <1>8, <1>10, <1>13 DEF IInv, Local

LEMMA NextHolds ==
  ASSUME IInv, [Next]_vars
  PROVE  IInv'
<1>1. CASE UNCHANGED vars
  <2>1. UNCHANGED <<mutexVars, lock, using, todo, stray>> /\ pc' = pc
    BY <1>1 DEF vars
  <2>2. pc' \in [Thread -> (Mutex!PC \ {"reading", "writing"}) \cup {"undefined"}]
    BY <2>1 DEF IInv, Local, TypeOK
  <2> QED BY <2>1, <2>2, WaitersKept
<1>2. CASE Next
  <2>1. PICK t \in Thread :
          \/ ReadWake(t) \/ WriteWake(t) \/ WriteRest(t) \/ NotifyOrSpurious(t)
          \/ \E o \in Object :
               \/ \E k \in {"read", "write", "both"} : Construct(t, o, k)
               \/ ReadLock(t, o) \/ WriteLock(t, o) \/ UnlockRead(t, o) \/ UnlockWrite(t, o)
               \/ DestroyRead(t, o) \/ DestroyWrite(t, o) \/ DestroyBoth(t, o) \/ UseMovedFrom(t, o)
               \/ \E p \in Object : \/ MoveConstruct(t, o, p)
                                  \/ AssignRead(t, o, p) \/ AssignWrite(t, o, p) \/ AssignBoth(t, o, p)
    BY <1>2 DEF Next
  <2>2. CASE ReadWake(t) \/ WriteWake(t) \/ WriteRest(t) \/ NotifyOrSpurious(t)
    BY <2>2, ReadWakeHolds, WriteWakeHolds, WriteRestHolds, NotifyHolds
  <2>3. ASSUME NEW o \in Object,
               \/ \E k \in {"read", "write", "both"} : Construct(t, o, k)
               \/ ReadLock(t, o) \/ WriteLock(t, o) \/ UnlockRead(t, o) \/ UnlockWrite(t, o)
        PROVE  IInv'
    BY <2>3, ConstructHolds, ReadLockHolds, WriteLockHolds, UnlockReadHolds, UnlockWriteHolds
  <2>4. ASSUME NEW o \in Object,
               DestroyRead(t, o) \/ DestroyWrite(t, o) \/ DestroyBoth(t, o) \/ UseMovedFrom(t, o)
        PROVE  IInv'
    BY <2>4, DestroyReadHolds, DestroyWriteHolds, DestroyBothHolds, UseMovedFromHolds
  <2>5. ASSUME NEW o \in Object, NEW p \in Object,
               \/ MoveConstruct(t, o, p)
               \/ AssignRead(t, o, p) \/ AssignWrite(t, o, p) \/ AssignBoth(t, o, p)
        PROVE  IInv'
    BY <2>5, MoveConstructHolds, AssignReadHolds, AssignWriteHolds, AssignBothHolds
  <2> QED BY <2>1, <2>2, <2>3, <2>4, <2>5
<1> QED BY <1>1, <1>2

LEMMA Invariance == Spec => []IInv
<1>1. Init => IInv
  BY InitHolds
<1>2. IInv /\ [Next]_vars => IInv'
  BY NextHolds
<1> QED BY <1>1, <1>2, PTL DEF Spec

(* However the objects are locked, unlocked, moved and destroyed, held or  *)
(* not, the counters of the mutex are the sums of theirs.                  *)
THEOREM CountersAlwaysAddUp == Spec => []CountersAddUp
<1>1. IInv => CountersAddUp
  BY DEF IInv, Local, AddUp, CountersAddUp, Counts, Readings, Writings
<1> QED BY <1>1, Invariance, PTL

-----------------------------------------------------------------------------
(* What the invariant says about exclusion.                                *)

\* An object writes if it counts more locks than its owner still waits for.
LEMMA PendingIs ==
  ASSUME IInv, NEW o \in Object
  PROVE  Pending(o) = (IF WritePending(o) THEN 1 ELSE 0) /\ (Writing(o) <=> Inside(o))
<1> DEFINE W == {t \in Thread : WaitsToWrite(t) /\ o \in using[t]}
<1>1. owner[o] \in Thread
  BY OwnerType
<1>2. \A t \in Thread : WaitsToWrite(t) /\ o \in using[t] <=> t = owner[o] /\ WritePending(o)
  <2> SUFFICES ASSUME NEW t \in Thread
               PROVE  WaitsToWrite(t) /\ o \in using[t] <=> t = owner[o] /\ WritePending(o)
    OBVIOUS
  <2>1. ASSUME WaitsToWrite(t), o \in using[t] PROVE t = owner[o] /\ WritePending(o)
    <3>1. PICK p \in Object : using[t] = {p} /\ owner[p] = t
      BY <2>1, Waiting
    <3> QED BY <2>1, <3>1 DEF WritePending
  <2> QED BY <2>1 DEF WritePending
<1>3. W = IF WritePending(o) THEN {owner[o]} ELSE {}
  BY <1>1, <1>2
<1>4. Cardinality(W) = IF WritePending(o) THEN 1 ELSE 0
  BY <1>3, FS_Singleton, FS_EmptySet
<1>5. Pending(o) = IF WritePending(o) THEN 1 ELSE 0
  BY <1>4 DEF Pending
<1> QED BY <1>5 DEF Writing, Inside

(* A writer is alone, whatever the objects are used for, until an object   *)
(* that does not write is unlocked or destroyed under one that does.       *)
THEOREM ExcludesUntilStray == Spec => []ExclusionUntilStray
<1>1. IInv => ExclusionUntilStray
  BY PendingIs DEF IInv, Alone, ExclusionUntilStray
<1> QED BY <1>1, Invariance, PTL

-----------------------------------------------------------------------------
(* Wakeups.  A waiting thread is counted by the mutex, through the object  *)
(* it waits with, so the unlock that ends what it waits for notifies.      *)

ReadersKept ==
  \A u \in Thread : pc[u] = "readWait" =>
    \/ reader_ /\ writing_
    \/ ~reader_ /\ write_count_ > 0
    \/ \E v \in Thread : pc[v] = "notifyReaders"

WritersKept ==
  \A u \in Thread : pc[u] = "writeWait" =>
    \/ writing_
    \/ reader_ /\ read_count_ > 0
    \/ ~reader_ /\ reading_count_ > 0
    \/ \E v \in Thread : pc[v] \in {"notifyWriter", "writeWoken"}

Kept == ~stray => ReadersKept /\ WritersKept

LEMMA WaitersCounted ==
  ASSUME IInv, NEW t \in Thread
  PROVE  /\ WaitsToRead(t) => read_count_ > 0
         /\ WaitsToWrite(t) => write_count_ > 0
<1>1. /\ read_count_ \in Nat /\ write_count_ \in Nat
      /\ \A o \in Object : /\ lock[o].count \in Nat /\ lock[o].reading \in Nat /\ lock[o].writes \in Nat
                           /\ lock[o].count <= read_count_ /\ lock[o].writes <= write_count_
  BY SumsBound, NestedBound DEF IInv, Local, TypeOK
<1>2. ASSUME WaitsToRead(t) PROVE read_count_ > 0
  <2>1. PICK o \in Object : lock[o].count = lock[o].reading + 1
    BY <1>2, Waiting
  <2> QED BY <1>1, <2>1
<1>3. ASSUME WaitsToWrite(t) PROVE write_count_ > 0
  <2>1. ~WaitsToRead(t)
    BY <1>3 DEF WaitsToRead, WaitsToWrite
  <2>2. PICK o \in Object : lock[o].writes > 0
    BY <1>3, <2>1, Waiting
  <2> QED BY <1>1, <2>2
<1> QED BY <1>2, <1>3

WritersCounted == \A t \in Thread : WaitsToWrite(t) => write_count_ > 0

LEMMA WritersCountedThen == (IInv => WritersCounted)'
<1>1. IInv => WritersCounted
  BY WaitersCounted DEF WritersCounted
<1> QED BY <1>1, PTL

LEMMA KeptByReadUnlock ==
  ASSUME IInv, IInv', Kept, NEW t \in Thread, pc[t] = "idle", NEW o \in Object, owner[o] = t,
         NEW release \in BOOLEAN, ReadUnlock(t, lock[o], release)
  PROVE  Kept'
<1> DEFINE n == Reads(o, release)
<1>1. /\ n \in 0..lock[o].count /\ lock[o].count \in Nat
      /\ read_count_' = read_count_ - n /\ reading_count_' = reading_count_ - n
      /\ UNCHANGED <<reader_, write_count_, writing_, stray>>
  BY ReadUnlockIs, NestedBound DEF IInv, Local, TypeOK
<1>2. pc' = [pc EXCEPT ![t] = "idle"] \/ pc' = [pc EXCEPT ![t] = "notifyWriter"]
  BY ReadUnlockIs
<1>3. n > 0 /\ Mutex!ReadUnlockWakes(read_count_', reading_count_', write_count_)
        => pc' = [pc EXCEPT ![t] = "notifyWriter"]
  BY ReadUnlockIs
<1> HIDE DEF n
<1>4. /\ \A u \in Thread : u # t => pc'[u] = pc[u]
      /\ pc'[t] \in {"idle", "notifyWriter"}
      /\ pc' = [pc EXCEPT ![t] = "notifyWriter"] => pc'[t] = "notifyWriter"
      /\ read_count_ \in Nat /\ reading_count_ \in Nat /\ write_count_ \in Nat
  BY <1>2 DEF IInv, Local, TypeOK
<1> SUFFICES ASSUME ~stray PROVE ReadersKept' /\ WritersKept'
  BY <1>1 DEF Kept
<1>5. ReadersKept'
  BY <1>1, <1>4 DEF Kept, ReadersKept
<1>6. WritersKept'
  <2> SUFFICES ASSUME NEW u \in Thread, pc'[u] = "writeWait"
               PROVE  \/ writing_'
                      \/ reader_' /\ read_count_' > 0
                      \/ ~reader_' /\ reading_count_' > 0
                      \/ \E v \in Thread : pc'[v] \in {"notifyWriter", "writeWoken"}
    BY DEF WritersKept
  <2>1. pc[u] = "writeWait" /\ u # t
    BY <1>4
  <2>2. write_count_ > 0
    BY <2>1, WaitersCounted DEF WaitsToWrite
  <2>3. CASE n = 0
    BY <1>1, <1>4, <2>1, <2>3 DEF Kept, WritersKept
  <2>4. CASE n > 0 /\ Mutex!ReadUnlockWakes(read_count_', reading_count_', write_count_)
    BY <1>3, <1>4, <2>4
  <2>5. CASE ~Mutex!ReadUnlockWakes(read_count_', reading_count_', write_count_)
    <3>1. read_count_' \in Nat /\ reading_count_' \in Nat
      BY DEF IInv, Local, TypeOK
    <3> QED BY <1>1, <2>2, <2>5, <3>1 DEF Mutex!ReadUnlockWakes
  <2> QED BY <1>1, <2>3, <2>4, <2>5
<1> QED BY <1>5, <1>6

LEMMA KeptByWriteUnlock ==
  ASSUME IInv, IInv', Kept, NEW t \in Thread, pc[t] = "idle", NEW o \in Object, owner[o] = t,
         NEW release \in BOOLEAN, WriteUnlock(t, lock[o], release)
  PROVE  Kept'
<1> SUFFICES ASSUME ~stray' PROVE ReadersKept' /\ WritersKept'
  BY DEF Kept
<1> DEFINE n == Writes(lock[o], release)
<1>1. n \in 0..lock[o].writes /\ write_count_' = write_count_ - n /\ UNCHANGED <<reader_, read_count_, reading_count_>>
  BY WriteUnlockIs
<1>2. ~stray /\ n = lock[o].writes /\ (writing_ => lock[o].writes > 0) /\ ~writing_'
  BY WriteUnlockIs
<1>3. write_count_ \in Nat /\ lock[o].writes \in Nat /\ lock[o].writes <= write_count_ /\ read_count_ \in Nat
      /\ reading_count_ \in Nat
  BY SumsBound, NestedBound DEF IInv, Local, TypeOK
<1>4. Monus(write_count_, n) = write_count_'
  BY <1>1, <1>2, <1>3 DEF Monus
<1>5. pc' = [pc EXCEPT ![t] = WriteNext(lock[o], n)]
  BY DEF WriteUnlock, Goto
<1> HIDE DEF n
<1>6. /\ \A u \in Thread : u # t => pc'[u] = pc[u]
      /\ pc'[t] = WriteNext(lock[o], n)
  BY <1>5 DEF IInv, Local, TypeOK
<1>7. pc'[t] \notin {"readWait", "writeWait"}
  BY <1>6 DEF WriteNext, Mutex!WriteUnlockWakes
<1>8. CASE lock[o].writes = 0
  <2>1. ~writing_ /\ write_count_' = write_count_
    BY <1>1, <1>2, <1>3, <1>8
  <2>2. ReadersKept /\ WritersKept
    BY <1>2 DEF Kept
  <2>3. ReadersKept'
    BY <1>1, <1>6, <1>7, <2>1, <2>2 DEF ReadersKept
  <2>4. WritersKept'
    BY <1>1, <1>6, <1>7, <2>1, <2>2 DEF WritersKept
  <2> QED BY <2>3, <2>4
<1>9. CASE lock[o].writes > 0
  <2>1. pc'[t] = Mutex!WriteUnlockWakes(read_count_, write_count_')
    BY <1>4, <1>6, <1>9 DEF WriteNext
  <2>2. write_count_' \in Nat
    BY DEF IInv, Local, TypeOK
  <2>3. ASSUME NEW u \in Thread, pc'[u] = "readWait"
        PROVE  \/ ~reader_' /\ write_count_' > 0
               \/ \E v \in Thread : pc'[v] = "notifyReaders"
    <3>1. read_count_' > 0
      <4>1. WaitsToRead(u)'
        BY <2>3 DEF WaitsToRead
      <4> QED BY <1>1, <1>6, <1>7, <2>3, WaitersCounted DEF WaitsToRead
    <3> QED BY <1>1, <1>3, <2>1, <2>2, <3>1 DEF Mutex!WriteUnlockWakes
  <2>4. ASSUME NEW u \in Thread, pc'[u] = "writeWait"
        PROVE  \/ reader_' /\ read_count_' > 0
               \/ \E v \in Thread : pc'[v] = "notifyWriter"
    <3>1. write_count_' > 0
      <4>1. WaitsToWrite(u)'
        BY <2>4 DEF WaitsToWrite
      <4>2. WritersCounted'
        BY WritersCountedThen
      <4> QED BY <4>1, <4>2 DEF WritersCounted
    <3> QED BY <1>1, <1>3, <2>1, <2>2, <3>1 DEF Mutex!WriteUnlockWakes
  <2> QED BY <2>3, <2>4 DEF ReadersKept, WritersKept
<1> QED BY <1>3, <1>8, <1>9

\* Nothing that is waited for changes, and whoever notifies or begins to wait does so elsewhere.
LEMMA KeptAnyway ==
  ASSUME Kept, UNCHANGED <<mutexVars, stray>>,
         \A u \in Thread : \/ pc'[u] = pc[u]
                           \/ pc[u] = "idle" /\ pc'[u] \notin {"readWait", "writeWait"}
  PROVE  Kept'
<1>1. ReadersKept => ReadersKept'
  BY DEF ReadersKept, mutexVars
<1>2. WritersKept => WritersKept'
  BY DEF WritersKept, mutexVars
<1> QED BY <1>1, <1>2 DEF Kept

LEMMA KeptByLocking ==
  ASSUME IInv, Kept, NEW t \in Thread,
         (\E o \in Object : ReadLock(t, o) \/ WriteLock(t, o)) \/ ReadWake(t) \/ WriteWake(t)
  PROVE  Kept'
<1> USE DEF IInv, Local
<1>1. /\ pc \in [Thread -> (Mutex!PC \ {"reading", "writing"}) \cup {"undefined"}]
      /\ read_count_ \in Nat /\ reading_count_ \in Nat /\ write_count_ \in Nat
  BY DEF TypeOK
<1>2. UNCHANGED <<reader_, stray>>
  BY DEF ReadLock, WriteLock, ReadWake, WriteWake
<1> SUFFICES ASSUME ~stray PROVE ReadersKept' /\ WritersKept'
  BY <1>2 DEF Kept
<1>3. ReadersKept /\ WritersKept
  BY DEF Kept
<1>4. ASSUME NEW o \in Object, ReadLock(t, o) PROVE ReadersKept' /\ WritersKept'
  <2>1. /\ pc[t] = "idle" /\ read_count_' = read_count_ + 1 /\ UNCHANGED <<write_count_, writing_>>
        /\ reading_count_' \in {reading_count_, reading_count_ + 1}
        /\ \/ pc' = pc
           \/ ~Mutex!CanRead /\ pc' = [pc EXCEPT ![t] = "readWait"]
    BY <1>4 DEF ReadLock, Usable, Idle, Goto
  <2>2. ReadersKept'
    BY <1>1, <1>2, <1>3, <2>1 DEF ReadersKept, Mutex!CanRead
  <2>3. WritersKept'
    BY <1>1, <1>2, <1>3, <2>1 DEF WritersKept
  <2> QED BY <2>2, <2>3
<1>5. ASSUME NEW o \in Object, WriteLock(t, o) PROVE ReadersKept' /\ WritersKept'
  <2>1. /\ pc[t] = "idle" /\ write_count_' = write_count_ + 1 /\ UNCHANGED <<read_count_, reading_count_>>
        /\ \/ pc' = pc /\ writing_' = TRUE
           \/ ~Mutex!CanWrite /\ pc' = [pc EXCEPT ![t] = "writeWait"] /\ UNCHANGED writing_
    BY <1>5 DEF WriteLock, Usable, Idle, Goto
  <2>2. ReadersKept'
    BY <1>1, <1>2, <1>3, <2>1 DEF ReadersKept
  <2>3. WritersKept'
    BY <1>1, <1>2, <1>3, <2>1 DEF WritersKept, Mutex!CanWrite
  <2> QED BY <2>2, <2>3
<1>6. ASSUME ReadWake(t) PROVE ReadersKept' /\ WritersKept'
  <2>1. /\ pc[t] = "readWoken" /\ UNCHANGED <<read_count_, write_count_, writing_>>
        /\ \/ reading_count_' = reading_count_ + 1 /\ pc' = [pc EXCEPT ![t] = "idle"]
           \/ ~Mutex!CanRead /\ pc' = [pc EXCEPT ![t] = "readWait"] /\ UNCHANGED reading_count_
    BY <1>6 DEF ReadWake, Goto
  <2>2. ReadersKept'
    BY <1>1, <1>2, <1>3, <2>1 DEF ReadersKept, Mutex!CanRead
  <2>3. WritersKept'
    BY <1>1, <1>2, <1>3, <2>1 DEF WritersKept
  <2> QED BY <2>2, <2>3
<1>7. ASSUME WriteWake(t) PROVE ReadersKept' /\ WritersKept'
  <2>1. /\ pc[t] = "writeWoken" /\ UNCHANGED <<read_count_, write_count_, reading_count_>>
        /\ \/ writing_' = TRUE /\ pc' = [pc EXCEPT ![t] = "idle"]
           \/ ~Mutex!CanWrite /\ pc' = [pc EXCEPT ![t] = "writeWait"] /\ UNCHANGED writing_
    BY <1>7 DEF WriteWake, Goto
  <2>2. write_count_ > 0
    BY <2>1, WaitersCounted DEF WaitsToWrite
  <2>3. ReadersKept'
    BY <1>1, <1>2, <1>3, <2>1, <2>2 DEF ReadersKept
  <2>4. WritersKept'
    BY <1>1, <1>2, <1>3, <2>1 DEF WritersKept, Mutex!CanWrite
  <2> QED BY <2>3, <2>4
<1> QED BY <1>4, <1>5, <1>6, <1>7

LEMMA KeptByNotify ==
  ASSUME IInv, Kept, NEW t \in Thread, NotifyOrSpurious(t)
  PROVE  Kept'
<1>1. /\ pc \in [Thread -> (Mutex!PC \ {"reading", "writing"}) \cup {"undefined"}]
      /\ UNCHANGED <<mutexVars, stray>>
  BY DEF IInv, Local, TypeOK, NotifyOrSpurious, Mutex!NotifyWriter, Mutex!NotifyReaders, Mutex!SpuriousWakeup, mutexVars
<1> SUFFICES ASSUME ~stray PROVE ReadersKept' /\ WritersKept'
  BY <1>1 DEF Kept
<1>2. ReadersKept /\ WritersKept
  BY DEF Kept
<1>3. CASE Mutex!NotifyWriter(t)
  <2>1. /\ pc[t] = "notifyWriter"
        /\ \/ Mutex!At({"writeWait"}) = {} /\ pc' = [pc EXCEPT ![t] = "idle"]
           \/ \E w \in Mutex!At({"writeWait"}) : pc' = [pc EXCEPT ![t] = "idle", ![w] = "writeWoken"]
    BY <1>3 DEF Mutex!NotifyWriter, Mutex!Goto
  <2>2. CASE Mutex!At({"writeWait"}) = {} /\ pc' = [pc EXCEPT ![t] = "idle"]
    BY <1>1, <1>2, <2>1, <2>2 DEF ReadersKept, WritersKept, mutexVars, Mutex!At
  <2>3. CASE \E w \in Mutex!At({"writeWait"}) : pc' = [pc EXCEPT ![t] = "idle", ![w] = "writeWoken"]
    <3>1. PICK w \in Thread : pc[w] = "writeWait" /\ pc' = [pc EXCEPT ![t] = "idle", ![w] = "writeWoken"]
      BY <2>3 DEF Mutex!At
    <3>2. pc'[w] = "writeWoken" /\ w # t /\ \A u \in Thread : u \notin {t, w} => pc'[u] = pc[u]
      BY <1>1, <2>1, <3>1
    <3>3. pc'[t] = "idle"
      BY <1>1, <2>1, <3>1
    <3> QED BY <1>1, <1>2, <2>1, <3>1, <3>2, <3>3 DEF ReadersKept, WritersKept, mutexVars
  <2> QED BY <2>1, <2>2, <2>3
<1>4. CASE Mutex!NotifyReaders(t)
  BY <1>1, <1>2, <1>4 DEF Mutex!NotifyReaders, ReadersKept, WritersKept, mutexVars
<1>5. CASE Mutex!SpuriousWakeup(t)
  BY <1>1, <1>2, <1>5 DEF Mutex!SpuriousWakeup, Mutex!Goto, ReadersKept, WritersKept, mutexVars
<1> QED BY <1>3, <1>4, <1>5 DEF NotifyOrSpurious

LEMMA NextKeeps ==
  ASSUME IInv, IInv', Kept, [Next]_vars
  PROVE  Kept'
<1>1. CASE UNCHANGED vars
  BY <1>1, KeptAnyway DEF vars
<1>2. ASSUME NEW t \in Thread, ReadWake(t) \/ WriteWake(t) PROVE Kept'
  BY <1>2, KeptByLocking
<1>3. ASSUME NEW t \in Thread, NotifyOrSpurious(t) PROVE Kept'
  BY <1>3, KeptByNotify
<1>4. ASSUME NEW t \in Thread, WriteRest(t) PROVE Kept'
  <2>1. PICK d \in todo[t] : WriteUnlock(t, lock[d.object], TRUE)
    BY <1>4 DEF WriteRest
  <2>2. d \in Later /\ RestFits(t, d) /\ pc[t] = "idle"
    BY <1>4 DEF IInv, Local, Rest, WriteRest
  <2>3. d.object \in Object /\ owner[d.object] = t
    BY <2>2 DEF Later, RestFits
  <2> QED BY <2>1, <2>2, <2>3, KeptByWriteUnlock
<1>5. ASSUME NEW t \in Thread, NEW o \in Object, ReadLock(t, o) \/ WriteLock(t, o) PROVE Kept'
  BY <1>5, KeptByLocking
<1>6. ASSUME NEW t \in Thread, NEW o \in Object,
             (\E k \in {"read", "write", "both"} : Construct(t, o, k)) \/ UseMovedFrom(t, o)
      PROVE  Kept'
  <2>1. UNCHANGED <<mutexVars, stray>> /\ pc[t] = "idle"
        /\ (pc' = pc \/ pc' = [pc EXCEPT ![t] = "undefined"])
    BY <1>6 DEF Construct, UseMovedFrom, Idle, Goto
  <2>2. \A u \in Thread : \/ pc'[u] = pc[u]
                          \/ pc[u] = "idle" /\ pc'[u] \notin {"readWait", "writeWait"}
    BY <2>1 DEF IInv, Local, TypeOK
  <2> QED BY <2>1, <2>2, KeptAnyway
<1>7. ASSUME NEW t \in Thread, NEW o \in Object, NEW release \in BOOLEAN,
             pc[t] = "idle", owner[o] = t,
             \/ ReadUnlock(t, lock[o], release) \/ WriteUnlock(t, lock[o], release)
             \/ UNCHANGED <<mutexVars, pc, stray>>
      PROVE  Kept'
  BY <1>7, KeptByReadUnlock, KeptByWriteUnlock, KeptAnyway
<1>8. ASSUME NEW t \in Thread, NEW o \in Object, UnlockRead(t, o) \/ UnlockWrite(t, o) PROVE Kept'
  <2>1. pc[t] = "idle" /\ owner[o] = t /\ (ReadUnlock(t, lock[o], FALSE) \/ WriteUnlock(t, lock[o], FALSE))
    BY <1>8 DEF UnlockRead, UnlockWrite, Usable, Idle
  <2> QED BY <1>7, <2>1
<1>9. ASSUME NEW t \in Thread, NEW o \in Object, DestroyRead(t, o) \/ DestroyWrite(t, o) \/ DestroyBoth(t, o)
      PROVE  Kept'
  <2>1. pc[t] = "idle" /\ owner[o] = t /\ (ReadUnlock(t, lock[o], TRUE) \/ WriteUnlock(t, lock[o], TRUE))
    BY <1>9 DEF DestroyRead, DestroyWrite, DestroyBoth, Usable, Idle
  <2> QED BY <1>7, <2>1
<1>10. ASSUME NEW t \in Thread, NEW o \in Object, NEW p \in Object,
              MoveConstruct(t, o, p) \/ AssignRead(t, o, p) \/ AssignWrite(t, o, p) \/ AssignBoth(t, o, p)
       PROVE  Kept'
  <2>1. /\ pc[t] = "idle" /\ owner[o] = t
        /\ \/ ReadUnlock(t, lock[o], TRUE) \/ WriteUnlock(t, lock[o], TRUE)
           \/ UNCHANGED <<mutexVars, pc, stray>>
    BY <1>10 DEF MoveConstruct, AssignRead, AssignWrite, AssignBoth, MayAssign, Idle
  <2> QED BY <1>7, <2>1
<1>11. CASE Next
  BY <1>2, <1>3, <1>4, <1>5, <1>6, <1>8, <1>9, <1>10, <1>11 DEF Next
<1> QED BY <1>1, <1>11

LEMMA KeptInvariance == Spec => [](IInv /\ Kept)
<1>1. Init => Kept
  BY DEF Init, Kept, ReadersKept, WritersKept
<1>2. IInv /\ IInv' /\ Kept /\ [Next]_vars => Kept'
  BY NextKeeps
<1> QED BY <1>1, <1>2, Invariance, PTL DEF Spec

(* Until the first stray unlock no thread sleeps for good: what keeps it   *)
(* out is still there, or a notify is on its way to it.                    *)
THEOREM WakeupsAreKept == Spec => []WakeupsKeptUntilStray
<1>1. Kept => WakeupsKeptUntilStray
  BY DEF Kept, ReadersKept, WritersKept, WakeupsKeptUntilStray, Mutex!NoLostReaderWakeup,
         Mutex!NoLostWriterWakeup, Mutex!At
<1> QED BY <1>1, KeptInvariance, PTL

-----------------------------------------------------------------------------
(* When all threads wait, the one that all wait for waits with an object   *)
(* and holds the mutex with another lock.                                  *)
LEMMA AllWait ==
  ASSUME IInv, Kept, ~stray, \A t \in Thread : pc[t] \in {"readWait", "writeWait"}
  PROVE  \E t \in Thread : Holds(t)
<1> USE DEF IInv, Local
<1>1. ASSUME NEW o \in Object, Inside(o) \/ lock[o].reading > 0 PROVE \E t \in Thread : Holds(t)
  BY <1>1, PendingIs, OwnerType DEF Holds
<1>2. ASSUME writing_ PROVE \E t \in Thread : Holds(t)
  BY <1>1, <1>2 DEF Alone
<1>3. ASSUME reading_count_ > 0 PROVE \E t \in Thread : Holds(t)
  BY <1>1, <1>3, SumsBound
<1>4. ASSUME NEW u \in Thread, pc[u] = "readWait", reader_ PROVE \E t \in Thread : Holds(t)
  BY <1>2, <1>4 DEF Kept, ReadersKept
<1>5. ASSUME NEW u \in Thread, pc[u] = "writeWait", ~reader_ PROVE \E t \in Thread : Holds(t)
  BY <1>2, <1>3, <1>5 DEF Kept, WritersKept
<1>6. ASSUME NEW u \in Thread, pc[u] = "readWait", ~reader_ PROVE \E t \in Thread : Holds(t)
  <2>1. write_count_ > 0
    BY <1>6 DEF Kept, ReadersKept
  <2>2. PICK o \in Object : lock[o].writes > 0
    BY <2>1, SumsBound
  <2>3. CASE Inside(o)
    BY <1>1, <2>3
  <2>4. CASE ~Inside(o)
    <3>1. WritePending(o)
      BY <2>2, <2>4 DEF Inside
    <3> QED BY <1>5, <1>6, <3>1, OwnerType DEF WritePending, WaitsToWrite
  <2> QED BY <2>3, <2>4
<1>7. ASSUME NEW u \in Thread, pc[u] = "writeWait", reader_ PROVE \E t \in Thread : Holds(t)
  <2>1. writing_ \/ read_count_ > 0
    BY <1>7 DEF Kept, WritersKept
  <2>2. CASE read_count_ > 0
    <3>1. PICK o \in Object : lock[o].count > 0
      BY <2>2, SumsBound
    <3>2. CASE lock[o].reading > 0
      BY <1>1, <3>2
    <3>3. CASE ~(lock[o].reading > 0)
      <4>1. lock[o].reading \in Nat
        BY NestedBound DEF TypeOK
      <4>2. ReadPending(o)
        BY <3>1, <3>3, <4>1 DEF Balanced
      <4> QED BY <1>4, <1>7, <4>2, OwnerType DEF ReadPending, WaitsToRead
    <3> QED BY <3>2, <3>3
  <2> QED BY <1>2, <2>1, <2>2
<1> QED BY <1>4, <1>5, <1>6, <1>7, ThreadsFinite

(* Only a thread that holds the mutex and asks for it again can leave all  *)
(* threads waiting, as long as no unlock was stray.                        *)
THEOREM OnlyNestingDeadlocks == Spec => []DeadlockNeedsNesting
<1>1. IInv /\ Kept => DeadlockNeedsNesting
  BY AllWait DEF DeadlockNeedsNesting
<1> QED BY <1>1, KeptInvariance, PTL

=============================================================================
