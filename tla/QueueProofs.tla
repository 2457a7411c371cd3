---------------------------- MODULE QueueProofs ----------------------------
(***************************************************************************)
(* Proofs about ThreadSafeQueue for any elements, any finite set of        *)
(* consumers and both containers, with and without timeouts.               *)
(***************************************************************************)
EXTENDS ThreadSafeQueue, SequenceTheorems, FiniteSetTheorems, TLAPS

-----------------------------------------------------------------------------
(* What the operators on a queue do, for any elements.                     *)

(* What is left of a sequence when the element at i is removed.            *)
LEMMA RemoveAtIs ==
  ASSUME NEW q \in Seq(Task), NEW i \in 1..Len(q)
  PROVE  /\ RemoveAt(q, i) \in Seq(Task)
         /\ Len(RemoveAt(q, i)) = Len(q) - 1
         /\ \A k \in 1..(Len(q) - 1) : RemoveAt(q, i)[k] = IF k < i THEN q[k] ELSE q[k + 1]
<1> DEFINE a == SubSeq(q, 1, i - 1)
           b == SubSeq(q, i + 1, Len(q))
<1>0. Len(q) \in Nat /\ i \in Nat /\ i >= 1 /\ i <= Len(q) /\ \A k \in 1..Len(q) : q[k] \in Task
  BY LenProperties, ElementOfSeq
<1>1. a \in Seq(Task) /\ Len(a) = i - 1 /\ \A k \in 1..(i - 1) : a[k] = q[k]
  <2>1. \A k \in 1..(i - 1) : q[k] \in Task
    BY <1>0
  <2>2. /\ a \in Seq(Task) /\ Len(a) = IF 1 <= i - 1 THEN (i - 1) - 1 + 1 ELSE 0
        /\ \A k \in 1..((i - 1) - 1 + 1) : a[k] = q[1 + k - 1]
    BY <1>0, <2>1, SubSeqProperties
  <2> QED BY <1>0, <2>2
<1>2. b \in Seq(Task) /\ Len(b) = Len(q) - i /\ \A k \in 1..(Len(q) - i) : b[k] = q[i + k]
  <2>1. \A k \in (i + 1)..Len(q) : q[k] \in Task
    BY <1>0
  <2>2. /\ b \in Seq(Task) /\ Len(b) = IF i + 1 <= Len(q) THEN Len(q) - (i + 1) + 1 ELSE 0
        /\ \A k \in 1..(Len(q) - (i + 1) + 1) : b[k] = q[(i + 1) + k - 1]
    BY <1>0, <2>1, SubSeqProperties
  <2> QED BY <1>0, <2>2
<1>3. RemoveAt(q, i) = a \o b
  BY DEF RemoveAt
<1> HIDE DEF a, b
<1>4. /\ a \o b \in Seq(Task) /\ Len(a \o b) = Len(a) + Len(b)
      /\ \A k \in 1..(Len(a) + Len(b)) : (a \o b)[k] = IF k <= Len(a) THEN a[k] ELSE b[k - Len(a)]
  BY <1>1, <1>2, ConcatProperties
<1>5. ASSUME NEW k \in 1..(Len(q) - 1) PROVE (a \o b)[k] = IF k < i THEN q[k] ELSE q[k + 1]
  <2>1. CASE k < i
    BY <1>0, <1>1, <1>2, <1>4, <2>1
  <2>2. CASE ~(k < i)
    <3>1. k - (i - 1) \in 1..(Len(q) - i) /\ i + (k - (i - 1)) = k + 1
      BY <1>0, <2>2
    <3>2. b[k - (i - 1)] = q[k + 1]
      BY <1>2, <3>1
    <3>3. ~(k <= Len(a)) /\ k \in 1..(Len(a) + Len(b)) /\ Len(a) = i - 1
      BY <1>0, <1>1, <1>2, <2>2
    <3> QED BY <1>4, <2>2, <3>2, <3>3
  <2> QED BY <2>1, <2>2
<1>6. Len(a \o b) = Len(q) - 1
  BY <1>0, <1>1, <1>2, <1>4
<1> QED BY <1>3, <1>4, <1>5, <1>6

\* Removing an element takes just that one out of the range.
LEMMA RangeOfRest ==
  ASSUME NEW q \in Seq(Task), NEW i \in 1..Len(q)
  PROVE  Range(q) = Range(RemoveAt(q, i)) \cup {q[i]}
<1> DEFINE r == RemoveAt(q, i)
<1>1. /\ r \in Seq(Task) /\ Len(r) = Len(q) - 1
      /\ \A k \in 1..(Len(q) - 1) : r[k] = IF k < i THEN q[k] ELSE q[k + 1]
  BY RemoveAtIs
<1> HIDE DEF r
<1>2. Range(q) = {q[k] : k \in 1..Len(q)} /\ Range(r) = {r[k] : k \in 1..(Len(q) - 1)}
  BY <1>1, RangeEquality
<1>3. Len(q) \in Nat
  BY LenProperties
<1>4. ASSUME NEW k \in 1..Len(q), k # i PROVE q[k] \in Range(r)
  <2>1. CASE k < i
    BY <1>1, <1>2, <1>3, <2>1
  <2>2. CASE k > i
    <3>1. k - 1 \in 1..(Len(q) - 1) /\ ~(k - 1 < i) /\ (k - 1) + 1 = k
      BY <1>3, <2>2
    <3>2. r[k - 1] = q[k]
      BY <1>1, <3>1
    <3> QED BY <1>2, <3>1, <3>2
  <2> QED BY <1>3, <1>4, <2>1, <2>2
<1>5. ASSUME NEW k \in 1..(Len(q) - 1) PROVE r[k] \in Range(q)
  BY <1>1, <1>2, <1>3
<1>6. q[i] \in Range(q)
  BY <1>2
<1> QED BY <1>2, <1>4, <1>5, <1>6 DEF r

\* Taking the first element from one sequence and appending it to another one.
LEMMA FirstMoves ==
  ASSUME NEW s \in Seq(Task), NEW q \in Seq(Task), Len(q) > 0
  PROVE  Append(s, q[1]) \o RemoveAt(q, 1) = s \o q
<1> DEFINE t == Append(s, q[1])
           r == RemoveAt(q, 1)
<1>0. Len(s) \in Nat /\ Len(q) \in Nat /\ 1 \in 1..Len(q) /\ q[1] \in Task
  BY LenProperties, ElementOfSeq
<1>1. /\ t \in Seq(Task) /\ Len(t) = Len(s) + 1
      /\ (\A k \in 1..Len(s) : t[k] = s[k]) /\ t[Len(s) + 1] = q[1]
  BY <1>0, AppendProperties
<1>2. r \in Seq(Task) /\ Len(r) = Len(q) - 1 /\ \A k \in 1..(Len(q) - 1) : r[k] = q[k + 1]
  <2>1. \A k \in 1..(Len(q) - 1) : ~(k < 1)
    BY <1>0
  <2> QED BY <1>0, <2>1, RemoveAtIs
<1> HIDE DEF t, r
<1>3. /\ t \o r \in Seq(Task) /\ Len(t \o r) = Len(t) + Len(r)
      /\ \A k \in 1..(Len(t) + Len(r)) : (t \o r)[k] = IF k <= Len(t) THEN t[k] ELSE r[k - Len(t)]
  BY <1>1, <1>2, ConcatProperties
<1>4. /\ s \o q \in Seq(Task) /\ Len(s \o q) = Len(s) + Len(q)
      /\ \A k \in 1..(Len(s) + Len(q)) : (s \o q)[k] = IF k <= Len(s) THEN s[k] ELSE q[k - Len(s)]
  BY ConcatProperties
<1>5. Len(t \o r) = Len(s \o q) /\ Len(t) + Len(r) = Len(s) + Len(q)
  BY <1>0, <1>1, <1>2, <1>3, <1>4
<1>6. ASSUME NEW k \in 1..(Len(s) + Len(q)) PROVE (t \o r)[k] = (s \o q)[k]
  <2>1. CASE k <= Len(s)
    BY <1>0, <1>1, <1>3, <1>4, <1>5, <2>1
  <2>2. CASE k = Len(s) + 1
    BY <1>0, <1>1, <1>3, <1>4, <1>5, <2>2
  <2>3. CASE k > Len(s) + 1
    <3>1. k - Len(t) \in 1..(Len(q) - 1) /\ (k - Len(t)) + 1 = k - Len(s) /\ ~(k <= Len(t)) /\ ~(k <= Len(s))
      BY <1>0, <1>1, <2>3
    <3> QED BY <1>2, <1>3, <1>4, <1>5, <3>1
  <2>4. k <= Len(s) \/ k = Len(s) + 1 \/ k > Len(s) + 1
    BY <1>0
  <2> QED BY ONLY <2>1, <2>2, <2>3, <2>4
<1>7. t \o r = s \o q
  BY <1>3, <1>4, <1>5, <1>6, SeqEqual
<1> QED BY <1>7 DEF t, r

LEMMA AppendOfConcat ==
  ASSUME NEW s \in Seq(Task), NEW q \in Seq(Task), NEW x \in Task
  PROVE  Append(s \o q, x) = s \o Append(q, x)
<1>1. <<x>> \in Seq(Task) /\ s \o q \in Seq(Task)
  BY ConcatProperties
<1>2. Append(s \o q, x) = (s \o q) \o <<x>> /\ Append(q, x) = q \o <<x>>
  BY <1>1, AppendIsConcat
<1> QED BY <1>1, <1>2, ConcatAssociative

LEMMA RangeOfAppend ==
  ASSUME NEW S, NEW s \in Seq(S), NEW x \in S
  PROVE  Range(Append(s, x)) = Range(s) \cup {x}
<1>1. /\ Append(s, x) \in Seq(S) /\ Len(Append(s, x)) = Len(s) + 1
      /\ (\A k \in 1..Len(s) : Append(s, x)[k] = s[k]) /\ Append(s, x)[Len(s) + 1] = x
  BY AppendProperties
<1>2. Len(s) \in Nat
  BY LenProperties
<1>3. Range(s) = {s[k] : k \in 1..Len(s)} /\ Range(Append(s, x)) = {Append(s, x)[k] : k \in 1..(Len(s) + 1)}
  BY <1>1, RangeEquality
<1>4. \A k \in 1..(Len(s) + 1) : k \in 1..Len(s) \/ k = Len(s) + 1
  BY <1>2
<1>5. Len(s) + 1 \in 1..(Len(s) + 1) /\ \A k \in 1..Len(s) : k \in 1..(Len(s) + 1)
  BY <1>2
<1> QED BY <1>1, <1>3, <1>4, <1>5

\* GetFrontAndPop takes the oldest element, or one that no other one exceeds.
LEMMA FrontsAre ==
  ASSUME NEW q \in Seq(Task), NEW f, NEW i \in Fronts(q, f)
  PROVE  /\ i \in 1..Len(q) /\ q[i] \in Task /\ Len(q) > 0
         /\ f => i = 1
         /\ ~f => \A j \in 1..Len(q) : ~Less(q[i], q[j])
<1>1. Len(q) \in Nat /\ DOMAIN q = 1..Len(q)
  BY LenProperties
<1>2. i \in 1..Len(q)
  BY <1>1 DEF Fronts
<1> QED BY <1>1, <1>2, ElementOfSeq DEF Fronts

-----------------------------------------------------------------------------
Pop == [task : Task, after : Nat]

Typed ==
  /\ fifo \in BOOLEAN /\ timed \in BOOLEAN
  /\ q_ \in Seq(Task) /\ pushed \in Seq(Task) /\ popped \in Seq(Pop)
  /\ pc \in [Consumer -> PC]

\* What was pushed has been handed out or is in the queue.
Kept ==
  /\ Len(pushed) = Len(popped) + Len(q_)
  /\ IF fifo THEN pushed = PoppedTasks \o q_
             ELSE Range(pushed) = Range(PoppedTasks) \cup Range(q_)

\* y is in s, behind the first n.
Behind(n, y, s) == \E k \in 1..Len(s) : k > n /\ s[k] = y

(* An element that is more urgent than one that was handed out, and was    *)
(* itself handed out later or is still in the queue, was pushed later.     *)
Urgent ==
  \A i \in 1..Len(popped) :
    /\ popped[i].after <= Len(pushed)
    /\ ~fifo =>
         /\ \A k \in 1..Len(q_) : Less(popped[i].task, q_[k]) => Behind(popped[i].after, q_[k], pushed)
         /\ \A j \in 1..Len(popped) :
              i < j /\ Less(popped[i].task, popped[j].task) => Behind(popped[i].after, popped[j].task, pushed)

IInv == Typed /\ Kept /\ Urgent /\ NothingStranded

-----------------------------------------------------------------------------
Tasks(s) == [i \in DOMAIN s |-> s[i].task]

\* The elements that were handed out, as a sequence.
LEMMA TasksIs ==
  ASSUME NEW s \in Seq(Pop)
  PROVE  Tasks(s) \in Seq(Task) /\ Len(Tasks(s)) = Len(s) /\ \A i \in 1..Len(s) : Tasks(s)[i] = s[i].task
<1>1. Len(s) \in Nat /\ DOMAIN s = 1..Len(s) /\ \A i \in 1..Len(s) : s[i] \in Pop
  BY LenProperties, ElementOfSeq
<1>2. Tasks(s) \in [1..Len(s) -> Task]
  BY <1>1 DEF Tasks, Pop
<1> QED BY <1>1, <1>2 DEF Tasks

LEMMA TasksOfAppend ==
  ASSUME NEW s \in Seq(Pop), NEW p \in Pop
  PROVE  Tasks(Append(s, p)) = Append(Tasks(s), p.task)
<1> DEFINE t == Append(s, p)
           u == Append(Tasks(s), p.task)
<1>0. p.task \in Task /\ Len(s) \in Nat
  BY LenProperties DEF Pop
<1>1. t \in Seq(Pop) /\ Len(t) = Len(s) + 1 /\ (\A k \in 1..Len(s) : t[k] = s[k]) /\ t[Len(s) + 1] = p
  BY AppendProperties
<1>2. Tasks(s) \in Seq(Task) /\ Len(Tasks(s)) = Len(s) /\ \A i \in 1..Len(s) : Tasks(s)[i] = s[i].task
  BY TasksIs
<1>3. /\ u \in Seq(Task) /\ Len(u) = Len(s) + 1
      /\ (\A k \in 1..Len(s) : u[k] = Tasks(s)[k]) /\ u[Len(s) + 1] = p.task
  BY <1>0, <1>2, AppendProperties
<1> HIDE DEF t, u
<1>4. Tasks(t) \in Seq(Task) /\ Len(Tasks(t)) = Len(s) + 1 /\ \A i \in 1..(Len(s) + 1) : Tasks(t)[i] = t[i].task
  BY <1>1, TasksIs
<1>5. ASSUME NEW k \in 1..(Len(s) + 1) PROVE Tasks(t)[k] = u[k]
  <2>1. CASE k = Len(s) + 1
    BY <1>1, <1>3, <1>4, <2>1
  <2>2. CASE k # Len(s) + 1
    <3>1. k \in 1..Len(s)
      BY <1>0, <2>2
    <3> QED BY <1>1, <1>2, <1>3, <1>4, <3>1
  <2> QED BY <2>1, <2>2
<1>6. Tasks(t) = u
  BY <1>3, <1>4, <1>5, SeqEqual
<1> QED BY <1>6 DEF t, u

-----------------------------------------------------------------------------
(* An element leaves the queue: none is lost, and no more urgent one is    *)
(* overtaken.                                                              *)
LEMMA PopHolds ==
  ASSUME Typed, Kept, Urgent, NEW i \in Fronts(q_, fifo), GetFrontAndPop(i),
         UNCHANGED <<kind, pushed>>, pc' \in [Consumer -> PC]
  PROVE  Typed' /\ Kept' /\ Urgent' /\ Len(q_') = Len(q_) - 1 /\ Len(q_) > 0
<1> DEFINE p == [task |-> q_[i], after |-> Len(pushed)]
<1>0. /\ Len(q_) \in Nat /\ Len(pushed) \in Nat /\ Len(popped) \in Nat
      /\ DOMAIN q_ = 1..Len(q_)
  BY LenProperties DEF Typed
<1>1. /\ i \in 1..Len(q_) /\ q_[i] \in Task
      /\ fifo => i = 1
      /\ ~fifo => \A j \in 1..Len(q_) : ~Less(q_[i], q_[j])
  BY FrontsAre DEF Typed
<1>2. /\ popped' = Append(popped, p) /\ q_' = RemoveAt(q_, i) /\ pushed' = pushed /\ fifo' = fifo /\ timed' = timed
  BY DEF GetFrontAndPop, kind
<1>3. p \in Pop /\ p.task = q_[i] /\ p.after = Len(pushed)
  BY <1>0, <1>1 DEF Pop
<1> HIDE DEF p
<1>4. /\ q_' \in Seq(Task) /\ Len(q_') = Len(q_) - 1
      /\ \A k \in 1..(Len(q_) - 1) : q_'[k] = IF k < i THEN q_[k] ELSE q_[k + 1]
  BY <1>1, <1>2, RemoveAtIs DEF Typed
<1>5. /\ popped' \in Seq(Pop) /\ Len(popped') = Len(popped) + 1
      /\ \A k \in 1..Len(popped) : popped'[k] = popped[k]
      /\ popped'[Len(popped) + 1] = p
  BY <1>2, <1>3, AppendProperties DEF Typed
<1>6. Typed'
  BY <1>2, <1>4, <1>5 DEF Typed
<1>7. PoppedTasks = Tasks(popped) /\ PoppedTasks' = Tasks(popped')
  BY DEF PoppedTasks, Tasks
<1>8. Tasks(popped) \in Seq(Task) /\ Tasks(popped') = Append(Tasks(popped), q_[i])
  BY <1>2, <1>3, TasksIs, TasksOfAppend DEF Typed
<1>9. Kept'
  <2>1. Len(pushed') = Len(popped') + Len(q_')
    <3>1. Len(pushed) = Len(popped) + Len(q_)
      BY DEF Kept
    <3> QED BY <3>1, <1>0, <1>2, <1>4, <1>5
  <2>2. CASE fifo
    <3>1. pushed = Tasks(popped) \o q_
      BY <1>7, <2>2 DEF Kept
    <3>2. i = 1 /\ Len(q_) > 0
      BY <1>0, <1>1, <2>2
    <3>3. Tasks(popped') \o q_' = Tasks(popped) \o q_
      BY <1>2, <1>8, <3>2, FirstMoves DEF Typed
    <3> QED BY <1>2, <1>7, <2>1, <2>2, <3>1, <3>3 DEF Kept
  <2>3. CASE ~fifo
    <3>1. Range(q_) = Range(q_') \cup {q_[i]}
      BY <1>1, <1>2, RangeOfRest DEF Typed
    <3>2. Range(Tasks(popped')) = Range(Tasks(popped)) \cup {q_[i]}
      BY <1>1, <1>8, RangeOfAppend
    <3>3. Range(pushed) = Range(Tasks(popped)) \cup Range(q_)
      BY <1>7, <2>3 DEF Kept
    <3> QED BY <1>2, <1>7, <2>1, <2>3, <3>1, <3>2, <3>3 DEF Kept
  <2> QED BY <2>2, <2>3
<1>10. Urgent'
  <2>0. ASSUME NEW k \in 1..Len(q_') PROVE \E m \in 1..Len(q_) : q_'[k] = q_[m]
    <3>1. k \in 1..Len(q_) /\ k + 1 \in 1..Len(q_) /\ k \in 1..(Len(q_) - 1)
      BY <1>0, <1>4
    <3> QED BY <1>4, <3>1
  <2>1. ASSUME NEW n \in 1..Len(popped')
        PROVE  /\ popped'[n].after <= Len(pushed)
               /\ ~fifo =>
                    /\ \A k \in 1..Len(q_') :
                         Less(popped'[n].task, q_'[k]) => Behind(popped'[n].after, q_'[k], pushed)
                    /\ \A j \in 1..Len(popped') :
                         n < j /\ Less(popped'[n].task, popped'[j].task)
                           => Behind(popped'[n].after, popped'[j].task, pushed)
    <3>1. CASE n = Len(popped) + 1
      <4>1. popped'[n] = p
        BY <1>5, <3>1
      <4>2. ASSUME ~fifo, NEW k \in 1..Len(q_') PROVE ~Less(popped'[n].task, q_'[k])
        BY <1>1, <1>3, <2>0, <4>1, <4>2
      <4>3. \A j \in 1..Len(popped') : ~(n < j)
        BY <1>0, <1>5, <3>1
      <4> QED BY <1>0, <1>3, <4>1, <4>2, <4>3
    <3>2. CASE n # Len(popped) + 1
      <4>1. n \in 1..Len(popped) /\ popped'[n] = popped[n]
        BY <1>0, <1>5, <3>2
      <4>2. popped[n].after <= Len(pushed)
        BY <4>1 DEF Urgent
      <4>3. ASSUME ~fifo, NEW k \in 1..Len(q_), Less(popped[n].task, q_[k])
            PROVE  Behind(popped[n].after, q_[k], pushed)
        BY <4>1, <4>3 DEF Urgent
      <4>4. ASSUME ~fifo, NEW j \in 1..Len(popped'), n < j, Less(popped[n].task, popped'[j].task)
            PROVE  Behind(popped[n].after, popped'[j].task, pushed)
        <5>1. CASE j = Len(popped) + 1
          <6>1. popped'[j].task = q_[i]
            BY <1>3, <1>5, <5>1
          <6> QED BY <1>1, <4>3, <4>4, <6>1
        <5>2. CASE j # Len(popped) + 1
          <6>1. j \in 1..Len(popped) /\ popped'[j] = popped[j]
            BY <1>0, <1>5, <5>2
          <6> QED BY <4>1, <4>4, <6>1 DEF Urgent
        <5> QED BY <5>1, <5>2
      <4> QED BY <2>0, <4>1, <4>2, <4>3, <4>4
    <3> QED BY <3>1, <3>2
  <2> QED BY <1>2, <2>1 DEF Urgent
<1> QED BY <1>0, <1>1, <1>4, <1>6, <1>9, <1>10

(* An element enters the queue: no element that was already handed out was *)
(* handed out after it was pushed.                                         *)
LEMMA PushHolds ==
  ASSUME Typed, Kept, Urgent, NEW x \in Task, Push(x)
  PROVE  Typed' /\ Kept' /\ Urgent' /\ Len(q_') = Len(q_) + 1
<1>0. /\ Len(q_) \in Nat /\ Len(pushed) \in Nat /\ Len(popped) \in Nat
      /\ q_ \in Seq(Task) /\ pushed \in Seq(Task) /\ popped \in Seq(Pop)
  BY LenProperties DEF Typed
<1>1. q_' = Append(q_, x) /\ pushed' = Append(pushed, x) /\ popped' = popped /\ fifo' = fifo /\ timed' = timed
  BY DEF Push, kind
<1>2. /\ q_' \in Seq(Task) /\ Len(q_') = Len(q_) + 1
      /\ (\A k \in 1..Len(q_) : q_'[k] = q_[k]) /\ q_'[Len(q_) + 1] = x
  BY <1>0, <1>1, AppendProperties
<1>3. /\ pushed' \in Seq(Task) /\ Len(pushed') = Len(pushed) + 1
      /\ (\A k \in 1..Len(pushed) : pushed'[k] = pushed[k]) /\ pushed'[Len(pushed) + 1] = x
  BY <1>0, <1>1, AppendProperties
<1>4. Typed'
  <2>1. pc' \in [Consumer -> PC]
    BY DEF Push, NotifyOne, Goto, Typed, PC
  <2> QED BY <1>1, <1>2, <1>3, <2>1 DEF Typed
<1>5. PoppedTasks = Tasks(popped) /\ PoppedTasks' = Tasks(popped) /\ Tasks(popped) \in Seq(Task)
  BY <1>0, <1>1, TasksIs DEF PoppedTasks, Tasks
<1>6. Kept'
  <2>1. Len(pushed') = Len(popped') + Len(q_')
    BY <1>0, <1>1, <1>2, <1>3 DEF Kept
  <2>2. CASE fifo
    <3>1. pushed = Tasks(popped) \o q_
      BY <1>5, <2>2 DEF Kept
    <3>2. pushed' = Tasks(popped) \o q_'
      BY <1>0, <1>1, <1>5, <3>1, AppendOfConcat
    <3> QED BY <1>1, <1>5, <2>1, <2>2, <3>2 DEF Kept
  <2>3. CASE ~fifo
    <3>1. Range(q_') = Range(q_) \cup {x} /\ Range(pushed') = Range(pushed) \cup {x}
      BY <1>0, <1>1, RangeOfAppend
    <3> QED BY <1>1, <1>5, <2>1, <2>3, <3>1 DEF Kept
  <2> QED BY <2>2, <2>3
<1>7. ASSUME NEW n, NEW y, Behind(n, y, pushed) PROVE Behind(n, y, pushed')
  <2>1. PICK k \in 1..Len(pushed) : k > n /\ pushed[k] = y
    BY <1>7 DEF Behind
  <2>2. k \in 1..Len(pushed') /\ pushed'[k] = y
    BY <1>0, <1>3, <2>1
  <2> QED BY <2>1, <2>2 DEF Behind
<1>8. Urgent'
  <2>1. ASSUME NEW n \in 1..Len(popped)
        PROVE  /\ popped[n].after <= Len(pushed')
               /\ ~fifo =>
                    /\ \A k \in 1..Len(q_') :
                         Less(popped[n].task, q_'[k]) => Behind(popped[n].after, q_'[k], pushed')
                    /\ \A j \in 1..Len(popped) :
                         n < j /\ Less(popped[n].task, popped[j].task)
                           => Behind(popped[n].after, popped[j].task, pushed')
    <3>1. popped[n].after \in Nat /\ popped[n].after <= Len(pushed)
      <4>1. popped[n] \in Pop
        BY <1>0, ElementOfSeq
      <4>2. popped[n].after <= Len(pushed)
        BY DEF Urgent
      <4> QED BY <4>1, <4>2 DEF Pop
    <3>2. ASSUME ~fifo, NEW k \in 1..Len(q_'), Less(popped[n].task, q_'[k])
          PROVE  Behind(popped[n].after, q_'[k], pushed')
      <4>1. CASE k = Len(q_) + 1
        <5>1. Len(pushed) + 1 \in 1..Len(pushed') /\ Len(pushed) + 1 > popped[n].after
          BY <1>0, <1>3, <3>1
        <5> QED BY <1>2, <1>3, <4>1, <5>1 DEF Behind
      <4>2. CASE k # Len(q_) + 1
        <5>1. k \in 1..Len(q_) /\ q_'[k] = q_[k]
          BY <1>0, <1>2, <4>2
        <5>2. Behind(popped[n].after, q_[k], pushed)
          BY <3>2, <5>1 DEF Urgent
        <5> QED BY <1>7, <5>1, <5>2
      <4> QED BY <4>1, <4>2
    <3>3. ASSUME ~fifo, NEW j \in 1..Len(popped), n < j, Less(popped[n].task, popped[j].task)
          PROVE  Behind(popped[n].after, popped[j].task, pushed')
      <4>1. Behind(popped[n].after, popped[j].task, pushed)
        BY <3>3 DEF Urgent
      <4> QED BY <1>7, <4>1
    <3>4. popped[n].after <= Len(pushed')
      BY <1>0, <1>3, <3>1
    <3> QED BY <3>2, <3>3, <3>4
  <2> QED BY <1>1, <2>1 DEF Urgent
<1> QED BY <1>2, <1>4, <1>6, <1>8

-----------------------------------------------------------------------------
\* The consumers that are woken, as one consumer moves.
LEMMA OneConsumerMoves ==
  ASSUME Typed, NEW c \in Consumer, NEW l \in PC, Goto(c, l)
  PROVE  /\ pc' \in [Consumer -> PC]
         /\ Cardinality(At("woken")) \in Nat
         /\ Cardinality(At("woken")') = Cardinality(At("woken"))
              + (IF l = "woken" THEN 1 ELSE 0) - (IF pc[c] = "woken" THEN 1 ELSE 0)
         /\ l # "waiting" => At("waiting")' = At("waiting") \ {c}
<1> DEFINE F == At("woken")
           G == At("woken")'
<1>1. IsFiniteSet(F) /\ Cardinality(F) \in Nat
  BY ConsumerFinite, FS_Subset, FS_CardinalityType DEF At
<1>2. G = IF l = "woken" THEN F \cup {c} ELSE F \ {c}
  BY DEF At, Typed, Goto
<1>3. c \in F <=> pc[c] = "woken"
  BY DEF At
<1>4. l # "waiting" => At("waiting")' = At("waiting") \ {c}
  BY DEF At, Typed, Goto
<1>5. pc' \in [Consumer -> PC]
  BY DEF Typed, Goto
<1> HIDE DEF F, G
<1>6. Cardinality(F \cup {c}) = IF c \in F THEN Cardinality(F) ELSE Cardinality(F) + 1
  BY <1>1, FS_AddElement
<1>7. Cardinality(F \ {c}) = IF c \in F THEN Cardinality(F) - 1 ELSE Cardinality(F)
  BY <1>1, FS_RemoveElement
<1>8. Cardinality(G) = Cardinality(F) + (IF l = "woken" THEN 1 ELSE 0) - (IF pc[c] = "woken" THEN 1 ELSE 0)
  BY <1>1, <1>2, <1>3, <1>6, <1>7
<1> QED BY <1>1, <1>4, <1>5, <1>8 DEF F, G

\* A step that leaves every element where it is.
LEMMA OnlyThePcMoves ==
  ASSUME Typed, Kept, Urgent, UNCHANGED <<kind, q_, pushed, popped>>, pc' \in [Consumer -> PC]
  PROVE  Typed' /\ Kept' /\ Urgent'
<1>1. fifo' = fifo /\ timed' = timed /\ q_' = q_ /\ pushed' = pushed /\ popped' = popped
  BY DEF kind
<1>2. Typed'
  BY <1>1 DEF Typed
<1>3. Kept'
  BY <1>1 DEF Kept, PoppedTasks
<1>4. Urgent'
  BY <1>1 DEF Urgent
<1> QED BY <1>2, <1>3, <1>4

\* An empty queue strands nothing.
LEMMA EmptyStrandsNothing == ASSUME q_ = <<>> PROVE NothingStranded
<1>1. Cardinality(At("woken")) \in Nat
  BY ConsumerFinite, FS_Subset, FS_CardinalityType DEF At
<1>2. Len(q_) = 0
  BY EmptySeq
<1> QED BY <1>1, <1>2 DEF NothingStranded

-----------------------------------------------------------------------------
LEMMA InitHolds == Init => IInv
<1> SUFFICES ASSUME Init PROVE IInv
  OBVIOUS
<1>1. /\ q_ = <<>> /\ pushed = <<>> /\ popped = <<>> /\ fifo \in BOOLEAN /\ timed \in BOOLEAN
      /\ pc = [c \in Consumer |-> "ready"] /\ Len(<<>>) = 0
  BY EmptySeq DEF Init
<1>2. Typed
  BY <1>1, EmptySeq DEF Typed, PC
<1>3. Kept
  <2>1. PoppedTasks = <<>>
    BY <1>1 DEF PoppedTasks
  <2> QED BY <1>1, <2>1 DEF Kept
<1>4. Urgent
  BY <1>1 DEF Urgent
<1> QED BY <1>1, <1>2, <1>3, <1>4, EmptyStrandsNothing DEF IInv

(* A push strands nothing: it wakes a consumer for its element, or there   *)
(* is none to wake.                                                        *)
LEMMA PushStrandsNothing ==
  ASSUME Typed, NothingStranded, NEW x \in Task, Push(x), Len(q_') = Len(q_) + 1
  PROVE  NothingStranded'
<1>1. CASE At("waiting") = {} /\ UNCHANGED pc
  BY <1>1 DEF At, NothingStranded
<1>2. CASE \E c \in At("waiting") : Goto(c, "woken")
  <2>1. PICK c \in Consumer : pc[c] = "waiting" /\ Goto(c, "woken")
    BY <1>2 DEF At
  <2>2. Cardinality(At("woken")') = Cardinality(At("woken")) + 1 /\ Cardinality(At("woken")) \in Nat
    <3>1. "woken" \in PC
      BY DEF PC
    <3> QED BY <2>1, <3>1, OneConsumerMoves
  <2>3. Len(q_) <= Cardinality(At("woken")) /\ Len(q_) \in Nat
    BY <1>2, LenProperties DEF NothingStranded, Typed
  <2> QED BY <2>2, <2>3 DEF NothingStranded
<1> QED BY <1>1, <1>2 DEF Push, NotifyOne

(* Nor does a pop: it takes the element of at most one woken consumer, its *)
(* own or a stolen one.                                                    *)
LEMMA PopStrandsNothing ==
  ASSUME Typed, NothingStranded, NEW c \in Consumer, pc[c] # "waiting",
         Goto(c, "ready") \/ UNCHANGED pc, Len(q_') = Len(q_) - 1, Len(q_) \in Nat
  PROVE  NothingStranded'
<1>1. CASE UNCHANGED pc
  <2>1. Cardinality(At("woken")) \in Nat
    BY ConsumerFinite, FS_Subset, FS_CardinalityType DEF At
  <2>2. At("waiting")' = At("waiting") /\ At("woken")' = At("woken")
    BY <1>1 DEF At
  <2> QED BY <2>1, <2>2 DEF NothingStranded
<1>2. CASE Goto(c, "ready")
  <2>1. "ready" \in PC
    BY DEF PC
  <2>2. /\ At("waiting")' = At("waiting") \ {c} /\ Cardinality(At("woken")) \in Nat
        /\ Cardinality(At("woken")') \in {Cardinality(At("woken")), Cardinality(At("woken")) - 1}
    BY <1>2, <2>1, OneConsumerMoves
  <2>3. SUFFICES ASSUME At("waiting")' # {} PROVE Len(q_') <= Cardinality(At("woken")')
    BY DEF NothingStranded
  <2>4. Len(q_) <= Cardinality(At("woken"))
    BY <2>2, <2>3 DEF NothingStranded
  <2> QED BY <2>2, <2>4
<1> QED BY <1>1, <1>2

LEMMA NextHolds == IInv /\ [Next]_vars => IInv'
<1> SUFFICES ASSUME IInv, [Next]_vars PROVE IInv'
  OBVIOUS
<1> USE DEF IInv
<1>0. Len(q_) \in Nat /\ Len(<<>>) = 0
  BY LenProperties, EmptySeq DEF Typed
<1>1. ASSUME NEW x \in Task, Push(x) PROVE IInv'
  BY <1>1, PushHolds, PushStrandsNothing
<1>2. ASSUME NEW c \in Consumer, TryPop(c) PROVE IInv'
  <2>1. PICK i \in Fronts(q_, fifo) : GetFrontAndPop(i)
    BY <1>2 DEF TryPop
  <2>2. UNCHANGED <<kind, pushed>> /\ UNCHANGED pc /\ pc[c] # "waiting"
    BY <1>2 DEF TryPop
  <2>3. pc' \in [Consumer -> PC]
    BY <2>2 DEF Typed
  <2> QED BY <1>0, <2>1, <2>2, <2>3, PopHolds, PopStrandsNothing
<1>3. ASSUME NEW c \in Consumer, pc[c] \in {"woken", "timedOut"}, Goto(c, "ready"), UNCHANGED <<kind, pushed>>,
             NEW i \in Fronts(q_, fifo), GetFrontAndPop(i)
      PROVE  IInv'
  <2>1. pc' \in [Consumer -> PC]
    BY <1>3 DEF Goto, Typed, PC
  <2> QED BY <1>0, <1>3, <2>1, PopHolds, PopStrandsNothing
<1>4. ASSUME NEW c \in Consumer, NEW l \in PC, Goto(c, l), q_ = <<>>, UNCHANGED <<kind, q_, pushed, popped>>
      PROVE  IInv'
  <2>1. pc' \in [Consumer -> PC]
    BY <1>4 DEF Goto, Typed
  <2>2. Cardinality(At("woken")') \in Nat
    BY ConsumerFinite, FS_Subset, FS_CardinalityType DEF At
  <2>3. NothingStranded'
    BY <1>0, <1>4, <2>2 DEF NothingStranded
  <2> QED BY <1>4, <2>1, <2>3, OnlyThePcMoves
<1>5. ASSUME NEW c \in Consumer, WaitAndTryPop(c) PROVE IInv'
  BY <1>4, <1>5 DEF WaitAndTryPop, PC
<1>6. ASSUME NEW c \in Consumer, Wakeup(c) PROVE IInv'
  <2>1. CASE (\E i \in Fronts(q_, fifo) : GetFrontAndPop(i)) /\ Goto(c, "ready")
    BY <1>3, <1>6, <2>1 DEF Wakeup
  <2>2. CASE q_ = <<>> /\ Goto(c, "waiting") /\ UNCHANGED <<q_, popped>>
    BY <1>4, <1>6, <2>2 DEF Wakeup, PC
  <2> QED BY <1>6, <2>1, <2>2 DEF Wakeup
<1>7. ASSUME NEW c \in Consumer, TimedOut(c) PROVE IInv'
  <2>1. CASE \E i \in Fronts(q_, fifo) : GetFrontAndPop(i)
    BY <1>3, <1>7, <2>1 DEF TimedOut
  <2>2. CASE q_ = <<>> /\ UNCHANGED <<q_, popped>>
    BY <1>4, <1>7, <2>2 DEF TimedOut, PC
  <2> QED BY <1>7, <2>1, <2>2 DEF TimedOut
<1>8. ASSUME NEW c \in Consumer, NEW l \in {"woken", "timedOut"}, pc[c] = "waiting", Goto(c, l),
             UNCHANGED <<kind, q_, pushed, popped>>
      PROVE  IInv'
  <2>1. l \in PC /\ l # "waiting"
    BY <1>8 DEF PC
  <2>2. /\ pc' \in [Consumer -> PC] /\ At("waiting")' = At("waiting") \ {c} /\ Cardinality(At("woken")) \in Nat
        /\ Cardinality(At("woken")') \in {Cardinality(At("woken")), Cardinality(At("woken")) + 1}
    BY <1>8, <2>1, OneConsumerMoves
  <2>3. NothingStranded'
    BY <1>0, <1>8, <2>2 DEF NothingStranded
  <2> QED BY <1>8, <2>2, <2>3, OnlyThePcMoves
<1>9. ASSUME NEW c \in Consumer, Timeout(c) \/ SpuriousWakeup(c) PROVE IInv'
  BY <1>8, <1>9 DEF Timeout, SpuriousWakeup
<1>10. CASE UNCHANGED vars
  BY <1>10 DEF vars, kind, Typed, Kept, PoppedTasks, Urgent, NothingStranded, At
<1> QED BY <1>1, <1>2, <1>5, <1>6, <1>7, <1>9, <1>10 DEF Next

LEMMA Invariance == Spec => []IInv
BY InitHolds, NextHolds, PTL DEF Spec

-----------------------------------------------------------------------------
(* ThreadSafeQueue hands out each element at most once and loses none,     *)
(* and a TSQueue keeps the order of the pushes, whichever threads pop,     *)
(* wait, are woken or run out of time.                                     *)
THEOREM QueueLosesNothing == Spec => []NothingLost
<1>1. IInv => NothingLost
  <2> SUFFICES ASSUME IInv PROVE NothingLost
    OBVIOUS
  <2> USE DEF IInv
  <2>1. Len(popped) <= Len(pushed)
    <3>1. Len(popped) \in Nat /\ Len(pushed) \in Nat /\ Len(q_) \in Nat
      BY LenProperties DEF Typed
    <3> QED BY <3>1 DEF Kept
  <2>2. TypeOK
    BY <2>1 DEF Typed, TypeOK, Pop
  <2> QED BY <2>2 DEF NothingLost, Kept
<1> QED BY <1>1, Invariance, PTL

(* TSPriorityQueue hands out an element before a more urgent one only if   *)
(* the more urgent one was pushed after the other had left.                *)
THEOREM MoreUrgentLeavesFirst == Spec => []UrgentFirst
<1>1. IInv => UrgentFirst
  <2> SUFFICES ASSUME IInv, ~fifo, NEW i \in DOMAIN popped, NEW j \in DOMAIN popped,
                      i < j, Less(popped[i].task, popped[j].task)
               PROVE  \E k \in DOMAIN pushed : k > popped[i].after /\ pushed[k] = popped[j].task
    BY DEF UrgentFirst
  <2>1. DOMAIN popped = 1..Len(popped) /\ DOMAIN pushed = 1..Len(pushed)
    BY LenProperties DEF IInv, Typed
  <2>2. Behind(popped[i].after, popped[j].task, pushed)
    BY <2>1 DEF IInv, Urgent
  <2> QED BY <2>1, <2>2 DEF Behind
<1> QED BY <1>1, Invariance, PTL

(* notify_one wakes one consumer for every element while anybody sleeps:   *)
(* stolen elements, timeouts and spurious wakeups leave none behind.       *)
THEOREM NoElementStranded == Spec => []NothingStranded
<1>1. IInv => NothingStranded
  BY DEF IInv
<1> QED BY <1>1, Invariance, PTL
=============================================================================
