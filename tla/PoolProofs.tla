----------------------------- MODULE PoolProofs -----------------------------
(***************************************************************************)
(* Proofs about ThreadPool for any tasks, any finite set of clients, any   *)
(* number of threads and any sizes, with and without spurious wakeups, for *)
(* both pools.                                                             *)
(***************************************************************************)
EXTENDS ThreadPool, SequenceTheorems, FiniteSetTheorems, TLAPS

-----------------------------------------------------------------------------
(* What the operators on a queue do, for any elements.                     *)

(* What is left of a sequence when the element at i is removed.            *)
LEMMA RemoveAtIs ==
  ASSUME NEW q \in Seq(Task), NEW i \in 1..Len(q)
  PROVE  /\ RemoveAt(q, i) \in Seq(Task)
         /\ Len(RemoveAt(q, i)) = Len(q) - 1
         /\ \A k \in 1..(Len(q) - 1) : RemoveAt(q, i)[k] = IF k < i THEN q[k] ELSE q[k + 1]
<1> DEFINE a == SubSeq(q, 1, i - 1)
           b == SubSeq(q, i + 1, Len(q))
<1>0. Len(q) \in Nat /\ i \in Nat /\ i >= 1 /\ i <= Len(q) /\ \A k \in 1..Len(q) : q[k] \in Task
  BY LenProperties, ElementOfSeq
<1>1. a \in Seq(Task) /\ Len(a) = i - 1 /\ \A k \in 1..(i - 1) : a[k] = q[k]
  <2>1. \A k \in 1..(i - 1) : q[k] \in Task
    BY <1>0
  <2>2. /\ a \in Seq(Task) /\ Len(a) = IF 1 <= i - 1 THEN (i - 1) - 1 + 1 ELSE 0
        /\ \A k \in 1..((i - 1) - 1 + 1) : a[k] = q[1 + k - 1]
    BY <1>0, <2>1, SubSeqProperties
  <2> QED BY <1>0, <2>2
<1>2. b \in Seq(Task) /\ Len(b) = Len(q) - i /\ \A k \in 1..(Len(q) - i) : b[k] = q[i + k]
  <2>1. \A k \in (i + 1)..Len(q) : q[k] \in Task
    BY <1>0
  <2>2. /\ b \in Seq(Task) /\ Len(b) = IF i + 1 <= Len(q) THEN Len(q) - (i + 1) + 1 ELSE 0
        /\ \A k \in 1..(Len(q) - (i + 1) + 1) : b[k] = q[(i + 1) + k - 1]
    BY <1>0, <2>1, SubSeqProperties
  <2> QED BY <1>0, <2>2
<1>3. RemoveAt(q, i) = a \o b
  BY DEF RemoveAt
<1> HIDE DEF a, b
<1>4. /\ a \o b \in Seq(Task) /\ Len(a \o b) = Len(a) + Len(b)
      /\ \A k \in 1..(Len(a) + Len(b)) : (a \o b)[k] = IF k <= Len(a) THEN a[k] ELSE b[k - Len(a)]
  BY <1>1, <1>2, ConcatProperties
<1>5. ASSUME NEW k \in 1..(Len(q) - 1) PROVE (a \o b)[k] = IF k < i THEN q[k] ELSE q[k + 1]
  <2>1. CASE k < i
    BY <1>0, <1>1, <1>2, <1>4, <2>1
  <2>2. CASE ~(k < i)
    <3>1. k - (i - 1) \in 1..(Len(q) - i) /\ i + (k - (i - 1)) = k + 1
      BY <1>0, <2>2
    <3>2. b[k - (i - 1)] = q[k + 1]
      BY <1>2, <3>1
    <3>3. ~(k <= Len(a)) /\ k \in 1..(Len(a) + Len(b)) /\ Len(a) = i - 1
      BY <1>0, <1>1, <1>2, <2>2
    <3> QED BY <1>4, <2>2, <3>2, <3>3
  <2> QED BY <2>1, <2>2
<1>6. Len(a \o b) = Len(q) - 1
  BY <1>0, <1>1, <1>2, <1>4
<1> QED BY <1>3, <1>4, <1>5, <1>6

\* Removing an element takes just that one out of the range.
LEMMA RangeOfRest ==
  ASSUME NEW q \in Seq(Task), NEW i \in 1..Len(q)
  PROVE  Range(q) = Range(RemoveAt(q, i)) \cup {q[i]}
<1> DEFINE r == RemoveAt(q, i)
<1>1. /\ r \in Seq(Task) /\ Len(r) = Len(q) - 1
      /\ \A k \in 1..(Len(q) - 1) : r[k] = IF k < i THEN q[k] ELSE q[k + 1]
  BY RemoveAtIs
<1> HIDE DEF r
<1>2. Range(q) = {q[k] : k \in 1..Len(q)} /\ Range(r) = {r[k] : k \in 1..(Len(q) - 1)}
  BY <1>1, RangeEquality
<1>3. Len(q) \in Nat
  BY LenProperties
<1>4. ASSUME NEW k \in 1..Len(q), k # i PROVE q[k] \in Range(r)
  <2>1. CASE k < i
    BY <1>1, <1>2, <1>3, <2>1
  <2>2. CASE k > i
    <3>1. k - 1 \in 1..(Len(q) - 1) /\ ~(k - 1 < i) /\ (k - 1) + 1 = k
      BY <1>3, <2>2
    <3>2. r[k - 1] = q[k]
      BY <1>1, <3>1
    <3> QED BY <1>2, <3>1, <3>2
  <2> QED BY <1>3, <1>4, <2>1, <2>2
<1>5. ASSUME NEW k \in 1..(Len(q) - 1) PROVE r[k] \in Range(q)
  BY <1>1, <1>2, <1>3
<1>6. q[i] \in Range(q)
  BY <1>2
<1> QED BY <1>2, <1>4, <1>5, <1>6 DEF r

LEMMA RangeOfAppend ==
  ASSUME NEW S, NEW s \in Seq(S), NEW x \in S
  PROVE  Range(Append(s, x)) = Range(s) \cup {x}
<1>1. /\ Append(s, x) \in Seq(S) /\ Len(Append(s, x)) = Len(s) + 1
      /\ (\A k \in 1..Len(s) : Append(s, x)[k] = s[k]) /\ Append(s, x)[Len(s) + 1] = x
  BY AppendProperties
<1>2. Len(s) \in Nat
  BY LenProperties
<1>3. Range(s) = {s[k] : k \in 1..Len(s)} /\ Range(Append(s, x)) = {Append(s, x)[k] : k \in 1..(Len(s) + 1)}
  BY <1>1, RangeEquality
<1>4. \A k \in 1..(Len(s) + 1) : k \in 1..Len(s) \/ k = Len(s) + 1
  BY <1>2
<1>5. Len(s) + 1 \in 1..(Len(s) + 1) /\ \A k \in 1..Len(s) : k \in 1..(Len(s) + 1)
  BY <1>2
<1> QED BY <1>1, <1>3, <1>4, <1>5

\* GetFrontAndPop takes the oldest element, or one that no other one exceeds.
LEMMA FrontsAre ==
  ASSUME NEW q \in Seq(Task), NEW f, NEW i \in Fronts(q, f)
  PROVE  /\ i \in 1..Len(q) /\ q[i] \in Task /\ Len(q) > 0
         /\ f => i = 1
         /\ ~f => \A j \in 1..Len(q) : ~Less(q[i], q[j])
<1>1. Len(q) \in Nat /\ DOMAIN q = 1..Len(q)
  BY LenProperties
<1>2. i \in 1..Len(q)
  BY <1>1 DEF Fronts
<1> QED BY <1>1, <1>2, ElementOfSeq DEF Fronts

-----------------------------------------------------------------------------
\* The first n threads have been created.
Created(n) == \A w \in Worker : pc[w] # "none" <=> w <= n

Threads ==
  /\ \E n \in 0..MaxThreads : Created(n) /\ Size <= n
  /\ \A i \in 1..Size : pc[threads_[i]] # "none"
  /\ \A i, j \in 1..Size : threads_[i] = threads_[j] => i = j
  /\ \A w \in flags_ : pc[w] # "none"

\* Where a shrink is, and what has been set when a Stop goes on.
Control ==
  /\ ctl.at \in {"shrink", "shrinkNotify"} => ctl.n \in Sizes /\ ctl.n < Size /\ ~is_done_ /\ ~is_stop_
  /\ ctl.at = "shrink" /\ ctl.n > 0 =>
       /\ ctl.i < Size /\ ctl.n <= ctl.i + 1
       /\ \A k \in 1..Size : threads_[k] \in flags_ <=> k > ctl.i + 1
  /\ ctl.at = "shrinkNotify" => ctl.n > 0 /\ \A k \in 1..Size : threads_[k] \in flags_ <=> k > ctl.n
  /\ ctl.at \in {"setFlags", "clear", "notify", "join", "finalClear"} => is_done_ \/ is_stop_
  /\ ctl.at = "undefined" => ctl.n = 0
  /\ ctl.at = "idle" /\ ~is_done_ /\ ~is_stop_ => \A k \in 1..Size : threads_[k] \notin flags_

Leaving == ~is_done_ => \A w \in Worker : pc[w] = "exited" => w \in flags_

\* Every task is in one place.
Once ==
  /\ \A i, j \in 1..Len(task_q_) : task_q_[i] = task_q_[j] => i = j
  /\ \A w \in Worker : holds[w] \cap Range(task_q_) = {} /\ \A x, y \in holds[w] : x = y
  /\ \A w, u \in Worker : w # u => holds[w] \cap holds[u] = {}

\* The tasks whose Push has not returned, and those that nobody has dropped.
InPush == UNION {pushing[c] : c \in Client}
Live == Range(task_q_) \cup Held \cup done \cup taken

\* Tasks that Stop(true) still owes.
Due == Range(task_q_) \cap owed.pushed

(* What Stop(true) owes.  A worker that has found the queue empty holds    *)
(* mutex_, so what has come into it since is still being pushed; it was    *)
(* not owed when is_done_ was set, and nothing owed comes in afterwards.   *)
Promised ==
  /\ At({"test", "block"}) # {} => Range(task_q_) \subseteq InPush
  /\ ~is_done_ => owed.pushed = {}
  /\ is_done_ /\ ~is_stop_ =>
       /\ owed.pushed \subseteq Live \/ Unmanned
       /\ At({"test", "block"}) # {} => Due = {}
       /\ \A k \in 1..Size : threads_[k] \notin flags_ /\ (pc[threads_[k]] = "exited" => Due = {})
       /\ Size = 0 => Due = {} \/ Unmanned
       /\ ctl.at \in {"notify", "join", "finalClear", "idle", "destroyed"}
       /\ ctl.at = "finalClear" => \A k \in 1..Size : pc[threads_[k]] = "exited"
       /\ ctl.at \in {"idle", "destroyed"} => Size = 0

(* A pool that may still be used and has no threads has never had any.     *)
(* What such a pool owes leaves the queue by a client or by the last       *)
(* ClearQueue only, and none of it is left when Stop is over.              *)
Bare ==
  /\ ~is_done_ /\ ~is_stop_ /\ Size = 0 => Unmanned
  /\ is_done_ /\ ~is_stop_ /\ Unmanned =>
       /\ owed.pushed \subseteq Range(task_q_) \cup taken \cup dropped
       /\ ctl.at \in {"idle", "destroyed"} => Due = {}

IInv == TypeOK /\ Threads /\ Control /\ Leaving /\ NothingStranded /\ Once /\ Promised /\ Bare

-----------------------------------------------------------------------------
\* A task that leaves the queue.
LEMMA RestIs ==
  ASSUME TypeOK, NEW i \in Fronts(task_q_, Fifo)
  PROVE  /\ i \in 1..Len(task_q_) /\ task_q_[i] \in Task /\ Len(task_q_) > 0
         /\ RemoveAt(task_q_, i) \in Seq(Task) /\ Len(RemoveAt(task_q_, i)) = Len(task_q_) - 1
         /\ Range(task_q_) = Range(RemoveAt(task_q_, i)) \cup {task_q_[i]}
BY FrontsAre, RemoveAtIs, RangeOfRest DEF TypeOK

\* What a worker's step does to the worker and to the rest.
LEMMA WorkerTypes ==
  ASSUME TypeOK, NEW w \in Worker, WorkerStep(w) \/ SpuriousWakeup(w) PROVE TypeOK'
<1>1. CASE WorkerTest(w) \/ WorkerBlock(w) \/ SpuriousWakeup(w)
  BY <1>1 DEF WorkerTest, WorkerBlock, SpuriousWakeup, TypeOK, Goto, PC, queueVars, poolVars, clientVars
<1>2. CASE WorkerRun(w)
  BY <1>2 DEF WorkerRun, TypeOK, Goto, PC, poolVars, clientVars
<1>3. ASSUME pc[w] # "run", UNCHANGED <<poolVars, clientVars, ctl, owed>>,
             NEW i \in Fronts(task_q_, Fifo), Take(w, i), Goto(w, "run")
      PROVE  TypeOK'
  BY <1>3, RestIs DEF Take, TypeOK, Goto, PC, poolVars, clientVars
<1>4. ASSUME pc[w] # "run", UNCHANGED <<poolVars, clientVars, ctl, owed>>,
             NEW l \in {"lock", "test"}, Goto(w, l), UNCHANGED queueVars
      PROVE  TypeOK'
  BY <1>4 DEF TypeOK, Goto, PC, poolVars, clientVars, queueVars
<1> QED BY <1>1, <1>2, <1>3, <1>4 DEF WorkerStep, WorkerPop, WorkerLock

LEMMA ClientTypes ==
  ASSUME TypeOK, NEW c \in Client, PushNotify(c) \/ Pop(c) \/ ClearQueue(c) \/ \E x \in Task : Push(c, x)
  PROVE  TypeOK'
<1>1. CASE PushNotify(c)
  BY <1>1 DEF PushNotify, TypeOK, At, Goto, PC, queueVars, poolVars
<1>2. CASE Pop(c) \/ ClearQueue(c)
  BY <1>2, RestIs DEF Pop, ClearQueue, Discard, TypeOK, poolVars, clientVars
<1>3. ASSUME NEW x \in Task, Push(c, x) PROVE TypeOK'
  BY <1>3, AppendProperties DEF Push, TypeOK, poolVars
<1> QED BY <1>1, <1>2, <1>3

(* Resize to no fewer threads: the threads beyond the n created so far     *)
(* start, and the vector ends with them.                                   *)
LEMMA Growth ==
  ASSUME TypeOK, Threads, NEW n \in Sizes, Resize(n), Size <= n,
         NEW m \in 0..MaxThreads, Created(m), Size <= m
  PROVE  /\ n \in Nat /\ m + n - Size \in 0..MaxThreads
         /\ threads_' \in Seq(Worker) /\ Size' = n
         /\ \A k \in 1..n : threads_'[k] = IF k <= Size THEN threads_[k] ELSE m + (k - Size)
         /\ pc' = [w \in Worker |-> IF m < w /\ w <= m + n - Size THEN "pop" ELSE pc[w]]
<1> DEFINE new == [j \in 1..(n - Size) |-> m + j]
<1>0. /\ n \in Nat /\ m \in Nat /\ MaxThreads \in Nat /\ Size \in Nat /\ m <= MaxThreads
      /\ threads_ \in Seq(Worker) /\ \A k \in 1..Size : threads_[k] \in Worker
  BY BoundsAreCounts, LenProperties, ElementOfSeq DEF TypeOK, Size
<1>1. Cardinality(At(PC \ {"none"})) = m
  <2>1. At(PC \ {"none"}) = 1..m
    BY <1>0 DEF At, Created, TypeOK, Worker
  <2> QED BY <1>0, <2>1, FS_Interval
<1>2. m + n - Size <= MaxThreads /\ threads_' = threads_ \o new
      /\ pc' = [w \in Worker |-> IF w \in Range(threads_') \ Range(threads_) THEN "pop" ELSE pc[w]]
  BY <1>1 DEF Resize
<1>3. new \in Seq(Worker) /\ Len(new) = n - Size /\ \A j \in 1..(n - Size) : new[j] = m + j
  <2>1. \A j \in 1..(n - Size) : m + j \in Worker
    BY <1>0, <1>2 DEF Worker
  <2>2. n - Size \in Nat
    BY <1>0
  <2> QED BY <2>1, <2>2
<1> HIDE DEF new
<1>4. /\ threads_' \in Seq(Worker) /\ Len(threads_') = n
      /\ \A k \in 1..n : threads_'[k] = IF k <= Size THEN threads_[k] ELSE m + (k - Size)
  <2>1. /\ threads_ \o new \in Seq(Worker) /\ Len(threads_ \o new) = Len(threads_) + Len(new)
        /\ \A k \in 1..(Len(threads_) + Len(new)) :
             (threads_ \o new)[k] = IF k <= Len(threads_) THEN threads_[k] ELSE new[k - Len(threads_)]
    BY <1>0, <1>3, ConcatProperties
  <2>2. Len(threads_) = Size /\ Len(threads_) + Len(new) = n
    BY <1>0, <1>3 DEF Size
  <2>3. ASSUME NEW k \in 1..n PROVE threads_'[k] = IF k <= Size THEN threads_[k] ELSE m + (k - Size)
    <3>1. CASE k <= Size
      BY <1>2, <2>1, <2>2, <3>1
    <3>2. CASE ~(k <= Size)
      <4>1. k - Size \in 1..(n - Size)
        BY <1>0, <3>2
      <4> QED BY <1>2, <1>3, <2>1, <2>2, <3>2, <4>1
    <3> QED BY <3>1, <3>2
  <2> QED BY <1>2, <2>1, <2>2, <2>3
<1>5. \A w \in Worker : w \in Range(threads_') \ Range(threads_) <=> m < w /\ w <= m + n - Size
  <2>1. Range(threads_) = {threads_[k] : k \in 1..Size} /\ Range(threads_') = {threads_'[k] : k \in 1..n}
    BY <1>0, <1>4, RangeEquality DEF Size
  <2>2. \A k \in 1..Size : threads_[k] <= m
    BY <1>0 DEF Threads, Created
  <2>3. ASSUME NEW w \in Worker, w \in Range(threads_') \ Range(threads_) PROVE m < w /\ w <= m + n - Size
    <3>1. PICK k \in 1..n : w = threads_'[k]
      BY <2>1, <2>3
    <3>2. ~(k <= Size)
      BY <1>0, <1>4, <2>1, <2>3, <3>1
    <3> QED BY <1>0, <1>4, <3>1, <3>2
  <2>4. ASSUME NEW w \in Worker, m < w, w <= m + n - Size PROVE w \in Range(threads_') \ Range(threads_)
    <3>1. w - m + Size \in 1..n /\ ~(w - m + Size <= Size) /\ m + ((w - m + Size) - Size) = w
      BY <1>0, <2>4 DEF Worker
    <3>2. w \in Range(threads_')
      BY <1>4, <2>1, <3>1
    <3>3. w \notin Range(threads_)
      BY <1>0, <2>1, <2>2, <2>4 DEF Worker
    <3> QED BY <3>2, <3>3
  <2> QED BY <2>3, <2>4
<1>6. m + n - Size \in 0..MaxThreads
  BY <1>0, <1>2
<1> QED BY <1>0, <1>2, <1>4, <1>5, <1>6 DEF Size

\* The vector after a shrink.
LEMMA Cut ==
  ASSUME TypeOK, Threads, Control, ctl.at = "shrinkNotify"
  PROVE  LET cut == SubSeq(threads_, 1, ctl.n) IN
         /\ cut \in Seq(Worker) /\ Len(cut) = ctl.n /\ ctl.n \in Nat /\ ctl.n <= Size
         /\ \A k \in 1..ctl.n : cut[k] = threads_[k]
<1>1. Size \in Nat /\ ctl.n \in Nat /\ ctl.n < Size /\ \A k \in 1..Size : threads_[k] \in Worker
  BY LenProperties, ElementOfSeq DEF TypeOK, Size, Control
<1>2. \A k \in 1..ctl.n : threads_[k] \in Worker
  BY <1>1
<1>3. /\ SubSeq(threads_, 1, ctl.n) \in Seq(Worker)
      /\ Len(SubSeq(threads_, 1, ctl.n)) = IF 1 <= ctl.n THEN ctl.n - 1 + 1 ELSE 0
      /\ \A k \in 1..(ctl.n - 1 + 1) : SubSeq(threads_, 1, ctl.n)[k] = threads_[1 + k - 1]
  BY <1>1, <1>2, SubSeqProperties DEF TypeOK
<1> QED BY <1>1, <1>3

\* The index of the shrink's loop after one round, unless it began at zero.
LEMMA Down ==
  ASSUME NEW i \in Nat, i < SizeMod
  PROVE  (i - 1) % SizeMod \in Nat /\ (i > 0 => (i - 1) % SizeMod = i - 1)
BY BoundsAreCounts

LEMMA ControlTypes ==
  ASSUME TypeOK, Threads, Control, ControlStep \/ StopNow \/ StopWait \/ Destroy \/ \E n \in Sizes : Resize(n)
  PROVE  TypeOK'
<1> USE DEF queueVars, clientVars, poolVars
<1>0. /\ Size \in Nat /\ (\A k \in 1..Size : threads_[k] \in Worker) /\ Size <= MaxThreads /\ MaxThreads < SizeMod
      /\ MaxThreads \in Nat /\ SizeMod \in Nat
  BY LenProperties, ElementOfSeq, BoundsAreCounts DEF TypeOK, Size, Threads
<1>1. ASSUME NEW n \in Sizes, Resize(n), Size <= n PROVE TypeOK'
  <2>1. PICK m \in 0..MaxThreads : Created(m) /\ Size <= m
    BY DEF Threads
  <2>2. /\ threads_' \in Seq(Worker)
        /\ pc' = [w \in Worker |-> IF m < w /\ w <= m + n - Size THEN "pop" ELSE pc[w]]
    BY <1>1, <2>1, Growth
  <2>3. \A w \in Worker : m < w => pc[w] = "none"
    BY <2>1 DEF Created, Worker
  <2>4. pc' \in [Worker -> PC] /\ \A w \in Worker : pc'[w] = "run" <=> pc[w] = "run"
    BY <2>2, <2>3 DEF TypeOK, PC
  <2> QED BY <1>1, <2>2, <2>4 DEF Resize, TypeOK
<1>2. ASSUME NEW n \in Sizes, Resize(n), ~(Size <= n) PROVE TypeOK'
  <2>1. n \in Nat /\ LastIndex \in Nat
    BY <1>0, <1>2, BoundsAreCounts DEF LastIndex
  <2>2. ctl' = [ctl EXCEPT !.at = "shrink", !.n = n, !.i = LastIndex] /\ UNCHANGED <<threads_, pc>>
    BY <1>2 DEF Resize
  <2>3. ctl' \in [at : ControlPoint, n : Nat, i : Nat, dtor : BOOLEAN]
    BY <2>1, <2>2 DEF TypeOK, ControlPoint
  <2> QED BY <1>2, <2>2, <2>3 DEF Resize, TypeOK
<1>3. CASE ShrinkFlag
  <2>1. CASE ctl.i < ctl.n
    BY <1>3, <2>1 DEF ShrinkFlag, TypeOK, ControlPoint
  <2>2. CASE ~(ctl.i < ctl.n) /\ ctl.i < Size
    <3>1. (ctl.i - 1) % SizeMod \in Nat /\ threads_[ctl.i + 1] \in Worker
      BY <1>0, <2>2, Down DEF TypeOK
    <3> QED BY <1>3, <2>2, <3>1 DEF ShrinkFlag, TypeOK, ControlPoint
  <2>3. CASE ~(ctl.i < ctl.n) /\ ~(ctl.i < Size)
    BY <1>3, <2>3 DEF ShrinkFlag, TypeOK, ControlPoint
  <2> QED BY <2>1, <2>2, <2>3
<1>4. CASE ShrinkNotify
  <2>1. threads_' \in Seq(Worker)
    BY <1>4, Cut DEF ShrinkNotify
  <2> QED BY <1>4, <2>1 DEF ShrinkNotify, NotifyAll, TypeOK, ControlPoint, PC
<1>5. CASE StopNow
  BY <1>5 DEF StopNow, TypeOK, ControlPoint
<1>6. CASE StopWait \/ Destroy
  <2>1. Range(task_q_) \subseteq Task
    BY RangeEquality, ElementOfSeq DEF TypeOK
  <2>2. PICK d \in BOOLEAN : StopWhenDone(d) /\ UNCHANGED <<queueVars, is_stop_, threads_, flags_, clientVars, pc>>
    BY <1>6 DEF StopWait, Destroy
  <2>3. ctl' \in [at : ControlPoint, n : Nat, i : Nat, dtor : BOOLEAN] /\ is_done_' \in BOOLEAN
    <3>1. \A l \in ControlPoint :
            /\ [ctl EXCEPT !.at = l] \in [at : ControlPoint, n : Nat, i : Nat, dtor : BOOLEAN]
            /\ [ctl EXCEPT !.at = l, !.dtor = d] \in [at : ControlPoint, n : Nat, i : Nat, dtor : BOOLEAN]
      BY DEF TypeOK
    <3>2. {"destroyed", "idle", "notify"} \subseteq ControlPoint
      BY DEF ControlPoint
    <3>3. CASE is_done_ \/ is_stop_
      BY <2>2, <3>1, <3>2, <3>3 DEF StopWhenDone, TypeOK
    <3>4. CASE ~(is_done_ \/ is_stop_)
      BY <2>2, <3>1, <3>2, <3>4 DEF StopWhenDone, TypeOK
    <3> QED BY <3>3, <3>4
  <2>4. owed' \in [queued : SUBSET Task, pushed : SUBSET Task]
    BY <2>1, <2>2 DEF StopWhenDone, TypeOK
  <2> QED BY <2>2, <2>3, <2>4 DEF TypeOK
<1>7. CASE StopSetFlags
  BY <1>0, <1>7 DEF StopSetFlags, TypeOK, ControlPoint
<1>8. CASE StopClear
  BY <1>8, RestIs DEF StopClear, Discard, TypeOK, ControlPoint
<1>9. CASE StopNotify
  BY <1>9 DEF StopNotify, NotifyAll, TypeOK, ControlPoint, PC
<1>10. CASE StopJoin
  BY <1>10 DEF StopJoin, TypeOK, ControlPoint
<1>11. CASE StopFinalClear
  <2>1. ASSUME NEW i \in Fronts(task_q_, Fifo), Discard(i), dropped' = dropped \cup {task_q_[i]}, UNCHANGED <<ctl, threads_>>
        PROVE  TypeOK'
    BY <1>11, <2>1, RestIs DEF StopFinalClear, Discard, TypeOK
  <2>2. CASE /\ task_q_ = <<>> /\ threads_' = <<>>
             /\ ctl' = [ctl EXCEPT !.at = IF ctl.dtor THEN "destroyed" ELSE "idle"]
             /\ UNCHANGED <<task_q_, holds, done, dropped>>
    <3>1. ctl' \in [at : ControlPoint, n : Nat, i : Nat, dtor : BOOLEAN]
      BY <2>2 DEF TypeOK, ControlPoint
    <3>2. threads_' \in Seq(Worker)
      BY <2>2, EmptySeq
    <3> QED BY <1>11, <2>2, <3>1, <3>2 DEF StopFinalClear, TypeOK
  <2> QED BY <1>11, <2>1, <2>2 DEF StopFinalClear
<1> QED BY <1>1, <1>2, <1>3, <1>4, <1>5, <1>6, <1>7, <1>8, <1>9, <1>10, <1>11 DEF ControlStep

-----------------------------------------------------------------------------
\* What workers and clients do to the pool: a worker leaves if it is told to.
LEMMA OthersStep ==
  ASSUME TypeOK,
         \/ \E w \in Worker : WorkerStep(w) \/ SpuriousWakeup(w)
         \/ \E c \in Client : PushNotify(c) \/ Pop(c) \/ ClearQueue(c) \/ \E x \in Task : Push(c, x)
  PROVE  /\ UNCHANGED <<poolVars, ctl, owed>>
         /\ \A w \in Worker : /\ pc'[w] = "none" <=> pc[w] = "none"
                              /\ pc'[w] = "exited" => pc[w] = "exited" \/ w \in flags_ \/ is_done_
<1>1. ASSUME NEW w \in Worker, WorkerStep(w) \/ SpuriousWakeup(w)
      PROVE  /\ UNCHANGED <<poolVars, ctl, owed>>
             /\ \E l \in PC \ {"none"} : /\ pc[w] # "none" /\ Goto(w, l)
                                         /\ l = "exited" => w \in flags_ \/ is_done_
  BY <1>1 DEF WorkerStep, SpuriousWakeup, WorkerPop, WorkerRun, WorkerLock, WorkerTest, WorkerBlock, PC
<1>2. ASSUME NEW c \in Client, PushNotify(c) \/ Pop(c) \/ ClearQueue(c) \/ \E x \in Task : Push(c, x)
      PROVE  /\ UNCHANGED <<poolVars, ctl, owed>>
             /\ pc' = pc \/ \E w \in Worker : pc[w] = "sleep" /\ Goto(w, "wake")
  BY <1>2 DEF PushNotify, Pop, ClearQueue, Push, At, clientVars
<1> QED BY <1>1, <1>2 DEF Goto, TypeOK

\* Threads stay created: what is left is that those of the vector and those with a flag are.
LEMMA OthersKeep ==
  ASSUME TypeOK, Threads, Control, Leaving, UNCHANGED <<poolVars, ctl>>,
         \A w \in Worker : /\ pc'[w] = "none" <=> pc[w] = "none"
                           /\ pc'[w] = "exited" => pc[w] = "exited" \/ w \in flags_ \/ is_done_
  PROVE  Threads' /\ Control' /\ Leaving'
<1>1. /\ threads_' = threads_ /\ flags_' = flags_ /\ is_done_' = is_done_ /\ is_stop_' = is_stop_ /\ ctl' = ctl
      /\ Size' = Size /\ flags_ \subseteq Worker /\ \A k \in 1..Size : threads_[k] \in Worker
  BY ElementOfSeq DEF poolVars, Size, TypeOK
<1>2. Threads'
  <2>1. \A n : Created(n) => Created(n)'
    BY DEF Created
  <2> QED BY <1>1, <2>1 DEF Threads
<1>3. Control'
  BY <1>1 DEF Control
<1>4. Leaving'
  BY <1>1 DEF Leaving
<1> QED BY <1>2, <1>3, <1>4

\* The controlling thread sets flags of the vector's threads, or wakes them up.
LEMMA SameThreads ==
  ASSUME TypeOK, Threads, threads_' = threads_, flags_' \subseteq flags_ \cup {threads_[k] : k \in 1..Size},
         \A w \in Worker : pc'[w] = "none" <=> pc[w] = "none"
  PROVE  Threads'
<1>1. Size' = Size /\ \A k \in 1..Size : threads_[k] \in Worker
  BY ElementOfSeq DEF Size, TypeOK
<1>2. \A n : Created(n) => Created(n)'
  BY DEF Created
<1>3. flags_' \subseteq Worker /\ \A w \in flags_' : pc[w] # "none"
  BY <1>1 DEF Threads, TypeOK
<1> QED BY <1>1, <1>2, <1>3 DEF Threads

LEMMA ResizeKeeps ==
  ASSUME TypeOK, Threads, Control, Leaving, NEW n \in Sizes, Resize(n) PROVE Threads' /\ Control' /\ Leaving'
<1>0. Size \in Nat /\ n \in Nat
  BY LenProperties, BoundsAreCounts DEF TypeOK, Size
<1>1. /\ ctl.at = "idle" /\ ~is_done_ /\ ~is_stop_ /\ is_done_' = is_done_ /\ is_stop_' = is_stop_ /\ flags_' = flags_
      /\ \A k \in 1..Size : threads_[k] \notin flags_
  BY DEF Resize, Control
<1>2. CASE Size <= n
  <2>1. PICK m \in 0..MaxThreads : Created(m) /\ Size <= m
    BY DEF Threads
  <2>2. /\ m + n - Size \in 0..MaxThreads
        /\ threads_' \in Seq(Worker) /\ Size' = n
        /\ \A k \in 1..n : threads_'[k] = IF k <= Size THEN threads_[k] ELSE m + (k - Size)
        /\ pc' = [w \in Worker |-> IF m < w /\ w <= m + n - Size THEN "pop" ELSE pc[w]]
    BY <1>2, <2>1, Growth
  <2>3. PICK created \in 0..MaxThreads : Created(created)' /\ n <= created
    <3>1. PICK created \in 0..MaxThreads : created = m + n - Size
      BY <2>2
    <3>2. \A w \in Worker : pc'[w] # "none" <=> w <= created
      BY <1>0, <1>2, <2>1, <2>2, <3>1 DEF Created, Worker
    <3>3. Created(created)' /\ n <= created
      BY <1>0, <2>1, <3>1, <3>2 DEF Created
    <3> QED BY <3>3
  <2>4. \A k \in 1..Size : threads_[k] \in Worker /\ threads_[k] <= m
    BY <2>1, ElementOfSeq DEF Threads, Created, TypeOK, Size
  <2>5. ASSUME NEW k \in 1..n
        PROVE  /\ threads_'[k] \in Worker /\ pc'[threads_'[k]] # "none" /\ threads_'[k] \notin flags_
               /\ k <= Size => threads_'[k] = threads_[k] /\ threads_'[k] <= m
               /\ ~(k <= Size) => threads_'[k] = m + (k - Size) /\ threads_'[k] > m
    <3>1. CASE k <= Size
      BY <1>1, <2>2, <2>4, <3>1 DEF Threads
    <3>2. CASE ~(k <= Size)
      <4>1. threads_'[k] = m + (k - Size) /\ threads_'[k] > m /\ threads_'[k] <= m + n - Size
        BY <1>0, <2>1, <2>2, <3>2
      <4>2. threads_'[k] \in Worker
        BY <2>2, ElementOfSeq DEF Size
      <4>3. pc[threads_'[k]] = "none"
        BY <2>1, <4>1, <4>2 DEF Created, Worker
      <4> QED BY <2>2, <3>2, <4>1, <4>2, <4>3 DEF Threads
    <3> QED BY <3>1, <3>2
  <2>6. ASSUME NEW k \in 1..n, NEW j \in 1..n, threads_'[k] = threads_'[j] PROVE k = j
    <3>1. CASE k <= Size /\ j <= Size
      BY <2>5, <2>6, <3>1 DEF Threads
    <3>2. CASE ~(k <= Size /\ j <= Size)
      BY <1>0, <2>1, <2>4, <2>5, <2>6, <3>2 DEF Worker
    <3> QED BY <3>1, <3>2
  <2>7. \A w \in flags_ : pc'[w] # "none"
    BY <2>2 DEF Threads, TypeOK
  <2>8. Threads'
    BY <1>1, <2>2, <2>3, <2>5, <2>6, <2>7 DEF Threads
  <2>9. Control'
    BY <1>1, <1>2, <2>2, <2>5 DEF Control, Resize
  <2> QED BY <1>1, <2>2, <2>8, <2>9 DEF Leaving
<1>3. CASE ~(Size <= n)
  <2>1. ctl' = [ctl EXCEPT !.at = "shrink", !.n = n, !.i = LastIndex] /\ threads_' = threads_ /\ pc' = pc
    BY <1>3 DEF Resize
  <2>2. ctl'.at = "shrink" /\ ctl'.n = n /\ ctl'.i = Size - 1
    BY <2>1 DEF TypeOK, LastIndex
  <2>3. Control'
    BY <1>0, <1>1, <1>3, <2>1, <2>2 DEF Control, Size
  <2> QED BY <1>1, <2>1, <2>3, SameThreads DEF Leaving
<1> QED BY <1>2, <1>3

LEMMA ShrinkKeeps ==
  ASSUME TypeOK, Threads, Control, Leaving, ShrinkFlag \/ ShrinkNotify PROVE Threads' /\ Control' /\ Leaving'
<1>0. /\ Size \in Nat /\ (\A k \in 1..Size : threads_[k] \in Worker) /\ Size <= MaxThreads /\ MaxThreads < SizeMod
      /\ MaxThreads \in Nat /\ SizeMod \in Nat /\ ctl.n \in Nat /\ ctl.i \in Nat
      /\ ctl.n < Size /\ ctl.n \in Sizes /\ ~is_done_ /\ ~is_stop_ /\ is_done_' = is_done_ /\ is_stop_' = is_stop_
  BY LenProperties, ElementOfSeq, BoundsAreCounts DEF TypeOK, Size, Threads, Control, ShrinkFlag, ShrinkNotify
<1>1. CASE ShrinkFlag
  <2>0. ctl.at = "shrink" /\ threads_' = threads_ /\ Size' = Size /\ pc' = pc
    BY <1>1 DEF ShrinkFlag, Size
  <2>1. CASE ctl.i < ctl.n
    <3>1. ctl' = [ctl EXCEPT !.at = "shrinkNotify"] /\ flags_' = flags_
      BY <1>1, <2>1 DEF ShrinkFlag
    <3>2. ctl'.at = "shrinkNotify" /\ ctl'.n = ctl.n
      BY <3>1 DEF TypeOK
    <3>3. ctl.n > 0 /\ ctl.i + 1 = ctl.n /\ \A k \in 1..Size : threads_[k] \in flags_ <=> k > ctl.n
      BY <1>0, <2>0, <2>1 DEF Control
    <3>4. Control'
      BY <1>0, <2>0, <3>1, <3>2, <3>3 DEF Control
    <3> QED BY <1>0, <2>0, <3>1, <3>4, SameThreads DEF Leaving
  <2>2. CASE ~(ctl.i < ctl.n) /\ ctl.i < Size
    <3>1. flags_' = flags_ \cup {threads_[ctl.i + 1]} /\ ctl' = [ctl EXCEPT !.i = (@ - 1) % SizeMod]
      BY <1>1, <2>2 DEF ShrinkFlag
    <3>2. ctl'.at = "shrink" /\ ctl'.n = ctl.n /\ ctl'.i = (ctl.i - 1) % SizeMod
      BY <2>0, <3>1 DEF TypeOK
    <3>3. ctl.i + 1 \in 1..Size
      BY <1>0, <2>2
    <3>4. ASSUME ctl.n > 0
          PROVE  /\ ctl'.i < Size /\ ctl.n <= ctl'.i + 1
                 /\ \A k \in 1..Size : threads_[k] \in flags_' <=> k > ctl'.i + 1
      <4>1. ctl'.i = ctl.i - 1
        BY <1>0, <2>2, <3>2, <3>4, Down
      <4>2. \A k \in 1..Size : threads_[k] \in flags_ <=> k > ctl.i + 1
        BY <2>0, <3>4 DEF Control
      <4>3. \A k \in 1..Size : threads_[k] = threads_[ctl.i + 1] <=> k = ctl.i + 1
        BY <3>3 DEF Threads
      <4>4. ASSUME NEW k \in 1..Size PROVE threads_[k] \in flags_' <=> k > ctl'.i + 1
        <5>1. threads_[k] \in flags_' <=> k > ctl.i + 1 \/ k = ctl.i + 1
          BY <3>1, <4>2, <4>3
        <5> QED BY <1>0, <4>1, <5>1
      <4> QED BY <1>0, <2>2, <3>4, <4>1, <4>4
    <3>5. Control'
      BY <1>0, <2>0, <3>2, <3>4 DEF Control
    <3>6. Threads'
      BY <2>0, <3>1, <3>3, SameThreads
    <3> QED BY <1>0, <2>0, <3>1, <3>5, <3>6 DEF Leaving
  <2>3. CASE ~(ctl.i < ctl.n) /\ ~(ctl.i < Size)
    <3>1. ctl' = [ctl EXCEPT !.at = "undefined"] /\ flags_' = flags_
      BY <1>1, <2>3 DEF ShrinkFlag
    <3>2. ctl'.at = "undefined" /\ ctl'.n = ctl.n
      BY <3>1 DEF TypeOK
    <3>3. ctl.n = 0
      BY <1>0, <2>0, <2>3 DEF Control
    <3>4. Control'
      BY <3>2, <3>3 DEF Control
    <3> QED BY <1>0, <2>0, <3>1, <3>4, SameThreads DEF Leaving
  <2> QED BY <2>1, <2>2, <2>3
<1>2. CASE ShrinkNotify
  <2>1. /\ threads_' \in Seq(Worker) /\ Size' = ctl.n /\ flags_' = flags_ /\ ctl' = [ctl EXCEPT !.at = "idle"]
        /\ \A k \in 1..ctl.n : threads_'[k] = threads_[k]
    BY <1>2, Cut DEF ShrinkNotify, Size
  <2>2. \A w \in Worker : /\ pc'[w] = "none" <=> pc[w] = "none"
                          /\ pc'[w] = "exited" <=> pc[w] = "exited"
    BY <1>2 DEF ShrinkNotify, NotifyAll
  <2>3. \A k \in 1..ctl.n : k \in 1..Size /\ ~(k > ctl.n)
    BY <1>0
  <2>4. Threads'
    <3>1. \A m \in 0..MaxThreads : Created(m) /\ Size <= m => Created(m)' /\ ctl.n <= m
      BY <1>0, <2>2 DEF Created
    <3>2. \A k \in 1..ctl.n : threads_'[k] \in Worker /\ pc'[threads_'[k]] # "none"
      BY <1>0, <2>1, <2>2, <2>3 DEF Threads
    <3>3. \A w \in flags_ : pc'[w] # "none"
      BY <2>2 DEF Threads, TypeOK
    <3> QED BY <2>1, <2>3, <3>1, <3>2, <3>3 DEF Threads
  <2>5. Control'
    <3>1. \A k \in 1..ctl.n : threads_'[k] \notin flags_
      BY <1>2, <2>1, <2>3 DEF Control, ShrinkNotify
    <3>2. ctl'.at = "idle"
      BY <2>1 DEF TypeOK
    <3> QED BY <2>1, <3>1, <3>2 DEF Control
  <2> QED BY <1>0, <2>1, <2>2, <2>4, <2>5 DEF Leaving
<1> QED BY <1>1, <1>2

LEMMA StopKeeps ==
  ASSUME TypeOK, Threads, Control, Leaving,
         \/ StopNow \/ StopWait \/ Destroy
         \/ StopSetFlags \/ StopClear \/ StopNotify \/ StopJoin \/ StopFinalClear
  PROVE  Threads' /\ Control' /\ Leaving'
<1> USE DEF poolVars
<1>0. Size \in Nat /\ \A k \in 1..Size : threads_[k] \in Worker
  BY LenProperties, ElementOfSeq DEF TypeOK, Size
<1>1. \A w \in Worker : /\ pc'[w] = "none" <=> pc[w] = "none"
                        /\ pc'[w] = "exited" <=> pc[w] = "exited"
  BY DEF StopNow, StopWait, Destroy, StopSetFlags, StopClear, StopNotify, StopJoin, StopFinalClear, NotifyAll
<1>2. Control'
  <2>1. (is_done_ \/ is_stop_) /\ ctl'.at \in {"idle", "destroyed", "setFlags", "clear", "notify", "join", "finalClear"}
          /\ UNCHANGED <<is_done_, is_stop_>> => Control'
    BY DEF Control
  <2>2. CASE StopNow
    BY <2>2 DEF StopNow, Control, TypeOK
  <2>3. CASE StopWait \/ Destroy
    <3>1. PICK d \in BOOLEAN : StopWhenDone(d) /\ is_stop_' = is_stop_ /\ flags_' = flags_ /\ threads_' = threads_
      BY <2>3 DEF StopWait, Destroy
    <3>2. CASE is_done_ \/ is_stop_
      <4>1. ctl'.at \in {"idle", "destroyed"} /\ is_done_' = is_done_
        BY <3>1, <3>2 DEF StopWhenDone, TypeOK
      <4> QED BY <2>1, <3>1, <3>2, <4>1
    <3>3. CASE ~(is_done_ \/ is_stop_)
      <4>1. ctl'.at = "notify" /\ is_done_'
        BY <3>1, <3>3 DEF StopWhenDone, TypeOK
      <4> QED BY <4>1 DEF Control
    <3> QED BY <3>2, <3>3
  <2>4. CASE StopSetFlags \/ StopClear \/ StopNotify \/ StopJoin \/ StopFinalClear
    <3>1. (is_done_ \/ is_stop_) /\ UNCHANGED <<is_done_, is_stop_>>
      BY <2>4 DEF StopSetFlags, StopClear, StopNotify, StopJoin, StopFinalClear, Control
    <3>2. ctl'.at \in {"idle", "destroyed", "setFlags", "clear", "notify", "join", "finalClear"}
      BY <2>4 DEF StopSetFlags, StopClear, StopNotify, StopJoin, StopFinalClear, TypeOK
    <3> QED BY <2>1, <3>1, <3>2
  <2> QED BY <2>2, <2>3, <2>4
<1>3. Threads'
  <2>1. CASE threads_' = threads_
    <3>1. flags_' \subseteq flags_ \cup {threads_[k] : k \in 1..Size}
      <4>1. CASE StopSetFlags
        <5>1. CASE ctl.i < Size
          <6>1. ctl.i + 1 \in 1..Size
            BY <1>0, <5>1 DEF TypeOK
          <6> QED BY <4>1, <5>1, <6>1 DEF StopSetFlags
        <5>2. CASE ~(ctl.i < Size)
          BY <4>1, <5>2 DEF StopSetFlags
        <5> QED BY <5>1, <5>2
      <4>2. CASE ~StopSetFlags
        BY <4>2 DEF StopNow, StopWait, Destroy, StopClear, StopNotify, StopJoin, StopFinalClear
      <4> QED BY <4>1, <4>2
    <3> QED BY <1>1, <2>1, <3>1, SameThreads
  <2>2. CASE threads_' = <<>> /\ flags_' = flags_
    <3>1. Size' = 0
      BY <2>2, EmptySeq DEF Size
    <3>2. \A m \in 0..MaxThreads : Created(m) => Created(m)' /\ 0 <= m
      BY <1>1 DEF Created
    <3>3. \A w \in flags_ : pc'[w] # "none"
      BY <1>1 DEF Threads, TypeOK
    <3> QED BY <2>2, <3>1, <3>2, <3>3 DEF Threads
  <2> QED BY <2>1, <2>2 DEF StopNow, StopWait, Destroy, StopSetFlags, StopClear, StopNotify, StopJoin, StopFinalClear
<1>4. Leaving'
  <2>1. is_done_ => is_done_'
    BY DEF StopNow, StopWait, Destroy, StopWhenDone, StopSetFlags, StopClear, StopNotify, StopJoin, StopFinalClear
  <2>2. flags_ \subseteq flags_'
    BY DEF StopNow, StopWait, Destroy, StopSetFlags, StopClear, StopNotify, StopJoin, StopFinalClear
  <2> QED BY <1>1, <2>1, <2>2 DEF Leaving
<1> QED BY <1>2, <1>3, <1>4

-----------------------------------------------------------------------------
(* Where the tasks are.                                                    *)

\* A task is taken by a worker, run, inserted, or removed from the queue unstarted.
LEMMA QueueSteps ==
  ASSUME [Next]_vars
  PROVE  \/ UNCHANGED queueVars
         \/ \E w \in Worker : pc[w] # "run" /\ \E i \in Fronts(task_q_, Fifo) : Take(w, i)
         \/ \E w \in Worker : WorkerRun(w)
         \/ \E x \in Task : /\ x \notin Known /\ task_q_' = Append(task_q_, x)
                            /\ UNCHANGED <<holds, done, taken, dropped>>
         \/ \E i \in Fronts(task_q_, Fifo) :
              Discard(i) /\ (taken \cup dropped)' = taken \cup dropped \cup {task_q_[i]}
<1> USE DEF queueVars
<1>1. CASE UNCHANGED vars
  BY <1>1 DEF vars
<1>2. ASSUME NEW w \in Worker, WorkerStep(w) \/ SpuriousWakeup(w)
      PROVE  \/ UNCHANGED queueVars
             \/ pc[w] # "run" /\ \E i \in Fronts(task_q_, Fifo) : Take(w, i)
             \/ WorkerRun(w)
  BY <1>2 DEF WorkerStep, SpuriousWakeup, WorkerPop, WorkerLock, WorkerTest, WorkerBlock
<1>3. ASSUME NEW c \in Client, PushNotify(c) PROVE UNCHANGED queueVars
  BY <1>3 DEF PushNotify
<1>4. ASSUME NEW c \in Client, Pop(c) \/ ClearQueue(c)
      PROVE  \/ UNCHANGED queueVars
             \/ \E i \in Fronts(task_q_, Fifo) :
                  Discard(i) /\ (taken \cup dropped)' = taken \cup dropped \cup {task_q_[i]}
  <2>1. CASE \E i \in Fronts(task_q_, Fifo) : Discard(i) /\ taken' = taken \cup {task_q_[i]}
    <3>1. dropped' = dropped
      BY <1>4 DEF Pop, ClearQueue
    <3> QED BY <2>1, <3>1
  <2>2. CASE UNCHANGED <<task_q_, holds, done, taken>>
    BY <1>4, <2>2 DEF Pop, ClearQueue
  <2> QED BY <1>4, <2>1, <2>2 DEF Pop, ClearQueue
<1>5. ASSUME NEW c \in Client, NEW x \in Task, Push(c, x)
      PROVE  x \notin Known /\ task_q_' = Append(task_q_, x) /\ UNCHANGED <<holds, done, taken, dropped>>
  BY <1>5 DEF Push
<1>6. ASSUME NEW n \in Sizes, Resize(n) PROVE UNCHANGED queueVars
  BY <1>6 DEF Resize
<1>7. CASE StopNow \/ StopWait \/ Destroy \/ ShrinkFlag \/ ShrinkNotify \/ StopSetFlags \/ StopNotify \/ StopJoin
  BY <1>7 DEF StopNow, StopWait, Destroy, ShrinkFlag, ShrinkNotify, StopSetFlags, StopNotify, StopJoin
<1>8. CASE StopClear \/ StopFinalClear
  <2>1. CASE \E i \in Fronts(task_q_, Fifo) : Discard(i) /\ dropped' = dropped \cup {task_q_[i]}
    <3>1. taken' = taken
      BY <1>8 DEF StopClear, StopFinalClear
    <3> QED BY <2>1, <3>1
  <2>2. CASE UNCHANGED <<task_q_, holds, done, dropped>>
    BY <1>8, <2>2 DEF StopClear, StopFinalClear
  <2> QED BY <1>8, <2>1, <2>2 DEF StopClear, StopFinalClear
<1>9. CASE Next
  BY <1>2, <1>3, <1>4, <1>5, <1>6, <1>7, <1>8, <1>9 DEF Next, ControlStep
<1> QED BY <1>1, <1>9

\* What leaves the queue is not in it any more.
LEMMA RestOnce ==
  ASSUME TypeOK, Once, NEW i \in Fronts(task_q_, Fifo)
  PROVE  LET r == RemoveAt(task_q_, i) IN
         /\ Range(r) = Range(task_q_) \ {task_q_[i]}
         /\ \A j, k \in 1..Len(r) : r[j] = r[k] => j = k
<1> DEFINE r == RemoveAt(task_q_, i)
<1>1. /\ i \in 1..Len(task_q_) /\ Len(task_q_) \in Nat /\ r \in Seq(Task) /\ Len(r) = Len(task_q_) - 1
      /\ \A k \in 1..(Len(task_q_) - 1) : r[k] = IF k < i THEN task_q_[k] ELSE task_q_[k + 1]
      /\ Range(task_q_) = Range(r) \cup {task_q_[i]}
  BY RestIs, RemoveAtIs, LenProperties DEF TypeOK
<1> HIDE DEF r
<1>2. ASSUME NEW j \in 1..Len(r)
      PROVE  \E m \in 1..Len(task_q_) : m # i /\ r[j] = task_q_[m] /\ m = IF j < i THEN j ELSE j + 1
  <2>1. CASE j < i
    BY <1>1, <2>1
  <2>2. CASE ~(j < i)
    BY <1>1, <2>2
  <2> QED BY <2>1, <2>2
<1>3. \A j, k \in 1..Len(r) : r[j] = r[k] => j = k
  <2> SUFFICES ASSUME NEW j \in 1..Len(r), NEW k \in 1..Len(r), r[j] = r[k] PROVE j = k
    OBVIOUS
  <2>1. PICK m \in 1..Len(task_q_) : r[j] = task_q_[m] /\ m = IF j < i THEN j ELSE j + 1
    BY <1>2
  <2>2. PICK l \in 1..Len(task_q_) : r[k] = task_q_[l] /\ l = IF k < i THEN k ELSE k + 1
    BY <1>2
  <2>3. m = l
    BY <2>1, <2>2 DEF Once
  <2> QED BY <1>1, <2>1, <2>2, <2>3
<1>4. task_q_[i] \notin Range(r)
  <2>1. Range(r) = {r[k] : k \in 1..Len(r)}
    BY <1>1, RangeEquality
  <2> QED BY <1>1, <1>2, <2>1 DEF Once
<1> QED BY <1>1, <1>3, <1>4 DEF r

LEMMA OnceKept == ASSUME TypeOK, Once, [Next]_vars PROVE Once'
<1>1. CASE UNCHANGED queueVars
  BY <1>1 DEF queueVars, Once
<1>2. ASSUME NEW w \in Worker, pc[w] # "run", NEW i \in Fronts(task_q_, Fifo), Take(w, i) PROVE Once'
  <2>1. /\ task_q_' = RemoveAt(task_q_, i) /\ holds' = [holds EXCEPT ![w] = {task_q_[i]}]
    BY <1>2 DEF Take
  <2>2. Range(task_q_') = Range(task_q_) \ {task_q_[i]} /\ task_q_[i] \in Range(task_q_)
    BY <2>1, RestOnce, RestIs
  <2>3. \A j, k \in 1..Len(task_q_') : task_q_'[j] = task_q_'[k] => j = k
    BY <2>1, RestOnce
  <2> QED BY <2>1, <2>2, <2>3 DEF Once, TypeOK
<1>3. ASSUME NEW w \in Worker, WorkerRun(w) PROVE Once'
  BY <1>3 DEF WorkerRun, Once, TypeOK
<1>4. ASSUME NEW x \in Task, x \notin Known, task_q_' = Append(task_q_, x), UNCHANGED <<holds, done, taken, dropped>>
      PROVE  Once'
  <2>1. /\ Len(task_q_) \in Nat /\ Len(task_q_') = Len(task_q_) + 1 /\ task_q_'[Len(task_q_) + 1] = x
        /\ \A k \in 1..Len(task_q_) : task_q_'[k] = task_q_[k]
    BY <1>4, AppendProperties, LenProperties DEF TypeOK
  <2>2. Range(task_q_') = Range(task_q_) \cup {x} /\ Range(task_q_) = {task_q_[k] : k \in 1..Len(task_q_)}
    BY <1>4, RangeOfAppend, RangeEquality DEF TypeOK
  <2>3. x \notin Range(task_q_) /\ \A w \in Worker : x \notin holds[w]
    BY <1>4 DEF Known, Held
  <2>4. ASSUME NEW j \in 1..Len(task_q_'), NEW k \in 1..Len(task_q_'), task_q_'[j] = task_q_'[k] PROVE j = k
    <3>1. CASE j # Len(task_q_) + 1 /\ k # Len(task_q_) + 1
      BY <2>1, <2>4, <3>1 DEF Once
    <3>2. CASE j = Len(task_q_) + 1 /\ k # Len(task_q_) + 1
      BY <2>1, <2>2, <2>3, <2>4, <3>2
    <3>3. CASE j # Len(task_q_) + 1 /\ k = Len(task_q_) + 1
      BY <2>1, <2>2, <2>3, <2>4, <3>3
    <3> QED BY <3>1, <3>2, <3>3
  <2> QED BY <1>4, <2>2, <2>3, <2>4 DEF Once
<1>5. ASSUME NEW i \in Fronts(task_q_, Fifo), Discard(i) PROVE Once'
  BY <1>5, RestOnce DEF Discard, Once
<1> QED BY <1>1, <1>2, <1>3, <1>4, <1>5, QueueSteps

-----------------------------------------------------------------------------
(* Who will come for the tasks.                                            *)

Pushing == {c \in Client : pushing[c] # {}}
Waiting == {"test", "block", "sleep"}

LEMMA Counts ==
  /\ IsFiniteSet(At({"wake"})) /\ Cardinality(At({"wake"})) \in Nat
  /\ IsFiniteSet(Pushing) /\ Cardinality(Pushing) \in Nat
<1>1. IsFiniteSet(Worker)
  BY BoundsAreCounts, FS_Interval DEF Worker
<1> QED BY <1>1, ClientFinite, FS_Subset, FS_CardinalityType DEF At, Pushing

\* The workers that were woken, as one worker moves.
LEMMA OneWorkerMoves ==
  ASSUME TypeOK, NEW w \in Worker, NEW l \in PC, Goto(w, l)
  PROVE  Cardinality(At({"wake"})') = Cardinality(At({"wake"}))
           + (IF l = "wake" THEN 1 ELSE 0) - (IF pc[w] = "wake" THEN 1 ELSE 0)
<1> DEFINE F == At({"wake"})
           G == At({"wake"})'
<1>1. IsFiniteSet(F) /\ Cardinality(F) \in Nat
  BY Counts
<1>2. G = IF l = "wake" THEN F \cup {w} ELSE F \ {w}
  BY DEF At, TypeOK, Goto
<1>3. w \in F <=> pc[w] = "wake"
  BY DEF At
<1> HIDE DEF F, G
<1>4. Cardinality(F \cup {w}) = IF w \in F THEN Cardinality(F) ELSE Cardinality(F) + 1
  BY <1>1, FS_AddElement
<1>5. Cardinality(F \ {w}) = IF w \in F THEN Cardinality(F) - 1 ELSE Cardinality(F)
  BY <1>1, FS_RemoveElement
<1>6. Cardinality(G) = Cardinality(F) + (IF l = "wake" THEN 1 ELSE 0) - (IF pc[w] = "wake" THEN 1 ELSE 0)
  BY <1>1, <1>2, <1>3, <1>4, <1>5
<1> QED BY <1>6 DEF F, G

\* Nothing is stranded when the tasks do not increase and those who will come do not decrease.
LEMMA NotFewer ==
  ASSUME TypeOK, NothingStranded, Len(task_q_') \in Nat, Len(task_q_') <= Len(task_q_), pushing' = pushing,
         At({"wake"}) \subseteq At({"wake"})', At(Waiting)' # {} => At(Waiting) # {}
  PROVE  NothingStranded'
<1>1. Cardinality(At({"wake"})) <= Cardinality(At({"wake"})') /\ Cardinality(At({"wake"})') \in Nat
  <2>1. IsFiniteSet(At({"wake"})')
    <3>1. IsFiniteSet(Worker)
      BY BoundsAreCounts, FS_Interval DEF Worker
    <3> QED BY <3>1, FS_Subset DEF At
  <2> QED BY <2>1, FS_Subset, FS_CardinalityType
<1>2. Cardinality(At({"wake"})) \in Nat /\ Cardinality(Pushing) \in Nat /\ Len(task_q_) \in Nat
  BY Counts, LenProperties DEF TypeOK
<1>3. Pushing' = Pushing
  BY DEF Pushing
<1> QED BY <1>1, <1>2, <1>3 DEF NothingStranded, Pushing, Waiting

LEMMA EmptyStrandsNothing == ASSUME task_q_ = <<>> PROVE NothingStranded
<1>1. Len(task_q_) = 0
  BY EmptySeq
<1> QED BY <1>1, Counts DEF NothingStranded, Pushing

LEMMA WorkerStrandsNothing ==
  ASSUME TypeOK, NothingStranded, NEW w \in Worker, WorkerStep(w) \/ SpuriousWakeup(w)
  PROVE  NothingStranded'
<1>0. Len(task_q_) \in Nat /\ Cardinality(At({"wake"})) \in Nat /\ Cardinality(Pushing) \in Nat
  BY Counts, LenProperties DEF TypeOK
<1>1. ASSUME NEW i \in Fronts(task_q_, Fifo), Take(w, i), Goto(w, "run"), pushing' = pushing PROVE NothingStranded'
  <2>1. Len(task_q_') = Len(task_q_) - 1
    BY <1>1, RestIs DEF Take
  <2>2. "run" \in PC
    BY DEF PC
  <2>3. Cardinality(At({"wake"})') \in {Cardinality(At({"wake"})), Cardinality(At({"wake"})) - 1}
    BY <1>0, <1>1, <2>2, OneWorkerMoves
  <2>4. At(Waiting)' \subseteq At(Waiting) /\ Pushing' = Pushing
    BY <1>1 DEF At, Goto, TypeOK, Waiting, Pushing
  <2>5. At(Waiting) # {} => Len(task_q_) <= Cardinality(Pushing) + Cardinality(At({"wake"}))
    BY DEF NothingStranded, Pushing, Waiting
  <2>6. At(Waiting)' # {} => Len(task_q_') <= Cardinality(Pushing') + Cardinality(At({"wake"})')
    BY <1>0, <2>1, <2>3, <2>4, <2>5
  <2> QED BY <2>6 DEF NothingStranded, Pushing, Waiting
<1>2. ASSUME task_q_ = <<>>, UNCHANGED queueVars PROVE NothingStranded'
  <2>1. Len(task_q_') = 0
    BY <1>2, EmptySeq DEF queueVars
  <2>2. IsFiniteSet(At({"wake"})') /\ IsFiniteSet(Pushing')
    BY BoundsAreCounts, ClientFinite, FS_Interval, FS_Subset DEF At, Worker, Pushing
  <2>3. Cardinality(At({"wake"})') \in Nat /\ Cardinality(Pushing') \in Nat
    BY <2>2, FS_CardinalityType
  <2> QED BY <2>1, <2>3 DEF NothingStranded, Pushing
<1>3. CASE WorkerRun(w) \/ WorkerTest(w) \/ WorkerBlock(w) \/ SpuriousWakeup(w)
  <2>1. task_q_' = task_q_ /\ pushing' = pushing
    BY <1>3 DEF WorkerRun, WorkerTest, WorkerBlock, SpuriousWakeup, queueVars, clientVars
  <2>2. At({"wake"}) \subseteq At({"wake"})' /\ (At(Waiting)' # {} => At(Waiting) # {})
    BY <1>3 DEF WorkerRun, WorkerTest, WorkerBlock, SpuriousWakeup, Goto, TypeOK, At, Waiting
  <2> QED BY <1>0, <2>1, <2>2, NotFewer
<1> QED BY <1>1, <1>2, <1>3 DEF WorkerStep, WorkerPop, WorkerLock, clientVars

LEMMA ClientStrandsNothing ==
  ASSUME TypeOK, NothingStranded, NEW c \in Client,
         PushNotify(c) \/ Pop(c) \/ ClearQueue(c) \/ \E x \in Task : Push(c, x)
  PROVE  NothingStranded'
<1>0. /\ Len(task_q_) \in Nat /\ Cardinality(At({"wake"})) \in Nat /\ Cardinality(Pushing) \in Nat
      /\ IsFiniteSet(Pushing)
      /\ At(Waiting) # {} => Len(task_q_) <= Cardinality(Pushing) + Cardinality(At({"wake"}))
  BY Counts, LenProperties DEF TypeOK, NothingStranded, Pushing, Waiting
<1>1. CASE PushNotify(c)
  <2>1. task_q_' = task_q_ /\ pushing' = [pushing EXCEPT ![c] = {}] /\ c \in Pushing /\ At({"test", "block"}) = {}
    BY <1>1 DEF PushNotify, queueVars, Pushing, MutexFree
  <2>2. Cardinality(Pushing') = Cardinality(Pushing) - 1
    <3>1. Pushing' = Pushing \ {c}
      BY <2>1 DEF Pushing, TypeOK
    <3> QED BY <1>0, <2>1, <3>1, FS_RemoveElement
  <2>3. CASE At({"sleep"}) = {} /\ UNCHANGED pc
    BY <2>1, <2>3 DEF NothingStranded, At
  <2>4. ASSUME NEW w \in At({"sleep"}), Goto(w, "wake") PROVE NothingStranded'
    <3>1. w \in Worker /\ pc[w] = "sleep" /\ "wake" \in PC
      BY <2>4 DEF At, PC
    <3>2. Cardinality(At({"wake"})') = Cardinality(At({"wake"})) + 1
      BY <1>0, <2>4, <3>1, OneWorkerMoves
    <3>3. At(Waiting) # {}
      BY <3>1 DEF At, Waiting
    <3>4. Len(task_q_') <= Cardinality(Pushing') + Cardinality(At({"wake"})')
      BY <1>0, <2>1, <2>2, <3>2, <3>3
    <3> QED BY <3>4 DEF NothingStranded, Pushing
  <2> QED BY <1>1, <2>3, <2>4 DEF PushNotify
<1>2. CASE Pop(c) \/ ClearQueue(c)
  <2>1. pushing' = pushing /\ pc' = pc
    BY <1>2 DEF Pop, ClearQueue, clientVars
  <2>2. Len(task_q_') \in Nat /\ Len(task_q_') <= Len(task_q_)
    BY <1>0, <1>2, RestIs DEF Pop, ClearQueue, Discard
  <2> QED BY <2>1, <2>2, NotFewer DEF At
<1>3. ASSUME NEW x \in Task, Push(c, x) PROVE NothingStranded'
  <2>1. /\ Len(task_q_') = Len(task_q_) + 1 /\ pc' = pc
        /\ pushing' = [pushing EXCEPT ![c] = {x}] /\ c \notin Pushing
    BY <1>3, AppendProperties DEF Push, Free, Pushing, TypeOK
  <2>2. Cardinality(Pushing') = Cardinality(Pushing) + 1
    <3>1. Pushing' = Pushing \cup {c}
      BY <2>1 DEF Pushing, TypeOK
    <3> QED BY <1>0, <2>1, <3>1, FS_AddElement
  <2>3. At(Waiting)' = At(Waiting) /\ At({"wake"})' = At({"wake"})
    BY <2>1 DEF At
  <2>4. At(Waiting)' # {} => Len(task_q_') <= Cardinality(Pushing') + Cardinality(At({"wake"})')
    BY <1>0, <2>1, <2>2, <2>3
  <2> QED BY <2>4 DEF NothingStranded, Pushing, Waiting
<1> QED BY <1>1, <1>2, <1>3

LEMMA ControlStrandsNothing ==
  ASSUME TypeOK, Threads, NothingStranded,
         ControlStep \/ StopNow \/ StopWait \/ Destroy \/ \E n \in Sizes : Resize(n)
  PROVE  NothingStranded'
<1>0. Len(task_q_) \in Nat
  BY LenProperties DEF TypeOK
<1>1. CASE StopClear \/ StopFinalClear
  <2>1. pushing' = pushing /\ pc' = pc
    BY <1>1 DEF StopClear, StopFinalClear, clientVars
  <2>2. Len(task_q_') \in Nat /\ Len(task_q_') <= Len(task_q_)
    BY <1>0, <1>1, RestIs DEF StopClear, StopFinalClear, Discard
  <2> QED BY <2>1, <2>2, NotFewer DEF At
<1>2. CASE ShrinkNotify \/ StopNotify
  <2>1. pushing' = pushing /\ task_q_' = task_q_ /\ NotifyAll
    BY <1>2 DEF ShrinkNotify, StopNotify, clientVars, queueVars
  <2>2. At({"wake"}) \subseteq At({"wake"})' /\ (At(Waiting)' # {} => At(Waiting) # {})
    BY <2>1 DEF NotifyAll, At, Waiting
  <2> QED BY <1>0, <2>1, <2>2, NotFewer
<1>3. CASE StopNow \/ StopWait \/ Destroy \/ ShrinkFlag \/ StopSetFlags \/ StopJoin
  <2>1. pushing' = pushing /\ task_q_' = task_q_ /\ pc' = pc
    BY <1>3 DEF StopNow, StopWait, Destroy, ShrinkFlag, StopSetFlags, StopJoin, clientVars, queueVars
  <2> QED BY <1>0, <2>1, NotFewer DEF At
<1>4. ASSUME NEW n \in Sizes, Resize(n) PROVE NothingStranded'
  <2>1. pushing' = pushing /\ task_q_' = task_q_
    BY <1>4 DEF Resize, clientVars, queueVars
  <2>2. \A w \in Worker : pc'[w] = pc[w] \/ (pc'[w] = "pop" /\ pc[w] = "none")
    <3>1. CASE Size <= n
      <4>1. PICK m \in 0..MaxThreads : Created(m) /\ Size <= m
        BY DEF Threads
      <4>2. pc' = [w \in Worker |-> IF m < w /\ w <= m + n - Size THEN "pop" ELSE pc[w]]
        BY <1>4, <3>1, <4>1, Growth
      <4>3. \A w \in Worker : m < w => pc[w] = "none"
        BY <4>1 DEF Created, Worker
      <4> QED BY <4>2, <4>3
    <3>2. CASE ~(Size <= n)
      <4>1. pc' = pc
        BY <1>4, <3>2 DEF Resize
      <4> QED BY <4>1
    <3> QED BY <3>1, <3>2
  <2>3. At({"wake"}) \subseteq At({"wake"})' /\ (At(Waiting)' # {} => At(Waiting) # {})
    BY <2>2 DEF At, Waiting
  <2> QED BY <1>0, <2>1, <2>3, NotFewer
<1> QED BY <1>1, <1>2, <1>3, <1>4 DEF ControlStep

-----------------------------------------------------------------------------
(* What is owed.                                                           *)

LEMMA WorkerKeepsPromise ==
  ASSUME TypeOK, Once, Promised, NEW w \in Worker, WorkerStep(w) \/ SpuriousWakeup(w) PROVE Promised'
<1>0. /\ is_done_' = is_done_ /\ is_stop_' = is_stop_ /\ threads_' = threads_ /\ flags_' = flags_ /\ Size' = Size
      /\ ctl' = ctl /\ owed' = owed /\ pushing' = pushing /\ taken' = taken /\ InPush' = InPush
      /\ Unmanned' = Unmanned /\ \A k \in 1..Size : threads_[k] \in Worker
  <2>1. UNCHANGED <<poolVars, pushing, ctl, owed, taken>>
    BY DEF WorkerStep, SpuriousWakeup, WorkerPop, WorkerRun, WorkerLock, WorkerTest, WorkerBlock, Take, clientVars, queueVars
  <2>2. Unmanned' = Unmanned
    BY OthersStep DEF Unmanned
  <2> QED BY <2>1, <2>2, ElementOfSeq DEF poolVars, Size, InPush, TypeOK
<1>1. ASSUME Live \subseteq Live', Range(task_q_') \subseteq Range(task_q_),
             At({"test", "block"})' # {} => At({"test", "block"}) # {} \/ Range(task_q_') = {},
             \A k \in 1..Size : pc'[threads_[k]] = "exited" =>
                                  \/ pc[threads_[k]] = "exited" \/ threads_[k] \in flags_ \/ At({"test", "block"}) # {},
             \A u \in Worker : pc[u] = "exited" => pc'[u] = "exited"
      PROVE  Promised'
  <2>1. Due' \subseteq Due
    BY <1>0, <1>1 DEF Due
  <2>2. At({"test", "block"})' # {} => Range(task_q_') \subseteq InPush'
    BY <1>0, <1>1 DEF Promised
  <2>3. ASSUME is_done_, ~is_stop_
        PROVE  /\ owed.pushed \subseteq Live' \/ Unmanned
               /\ At({"test", "block"})' # {} => Due' = {}
               /\ \A k \in 1..Size : threads_[k] \notin flags_ /\ (pc'[threads_[k]] = "exited" => Due' = {})
               /\ Size = 0 => Due' = {} \/ Unmanned
               /\ ctl.at = "finalClear" => \A k \in 1..Size : pc'[threads_[k]] = "exited"
    <3>1. owed.pushed \subseteq Live' \/ Unmanned
      BY <1>1, <2>3 DEF Promised
    <3>2. At({"test", "block"})' # {} => Due' = {}
      BY <1>1, <2>1, <2>3 DEF Promised, Due
    <3>3. \A k \in 1..Size : threads_[k] \notin flags_ /\ (pc'[threads_[k]] = "exited" => Due' = {})
      BY <1>1, <2>1, <2>3 DEF Promised
    <3>4. Size = 0 => Due' = {} \/ Unmanned
      BY <2>1, <2>3 DEF Promised
    <3>5. ctl.at = "finalClear" => \A k \in 1..Size : pc'[threads_[k]] = "exited"
      BY <1>0, <1>1, <2>3 DEF Promised
    <3> QED BY <3>1, <3>2, <3>3, <3>4, <3>5
  <2> QED BY <1>0, <2>2, <2>3 DEF Promised
<1>2. ASSUME pc[w] # "run", pc[w] # "exited", NEW i \in Fronts(task_q_, Fifo), Take(w, i), Goto(w, "run") PROVE Promised'
  <2>1. /\ holds' = [holds EXCEPT ![w] = {task_q_[i]}] /\ done' = done /\ holds[w] = {}
        /\ Range(task_q_') = Range(task_q_) \ {task_q_[i]} /\ task_q_[i] \in Range(task_q_)
    BY <1>2, RestIs, RestOnce DEF Take, TypeOK
  <2>2. Held' = Held \cup {task_q_[i]}
    BY <2>1 DEF Held, TypeOK
  <2>3. Live \subseteq Live'
    BY <1>0, <2>1, <2>2 DEF Live
  <2>4. /\ At({"test", "block"})' \subseteq At({"test", "block"})
        /\ \A u \in Worker : pc[u] = "exited" <=> pc'[u] = "exited"
    BY <1>2 DEF At, Goto, TypeOK
  <2> QED BY <1>0, <1>1, <2>1, <2>3, <2>4
<1>3. ASSUME pc[w] \in {"pop", "lock", "wake"}, NEW l \in {"lock", "test"}, Goto(w, l), task_q_ = <<>>, UNCHANGED queueVars
      PROVE  Promised'
  <2>1. Range(task_q_') = {} /\ Range(task_q_) = {}
    BY <1>3 DEF Range, queueVars
  <2>2. Live' = Live
    BY <1>3 DEF Live, Held, queueVars
  <2>3. \A u \in Worker : pc[u] = "exited" <=> pc'[u] = "exited"
    BY <1>3 DEF Goto, TypeOK
  <2> QED BY <1>0, <1>1, <2>1, <2>2, <2>3
<1>4. CASE WorkerRun(w)
  <2>1. pc[w] = "run" /\ done' = done \cup holds[w] /\ holds' = [holds EXCEPT ![w] = {}] /\ task_q_' = task_q_
        /\ Goto(w, IF w \in flags_ THEN "exited" ELSE "pop")
    BY <1>4 DEF WorkerRun
  <2>2. Live \subseteq Live'
    BY <1>0, <2>1 DEF Live, Held, TypeOK
  <2>3. /\ At({"test", "block"})' \subseteq At({"test", "block"})
        /\ \A u \in Worker : /\ pc[u] = "exited" => pc'[u] = "exited"
                             /\ pc'[u] = "exited" => pc[u] = "exited" \/ u \in flags_
    BY <2>1 DEF At, Goto, TypeOK
  <2> QED BY <1>0, <1>1, <2>1, <2>2, <2>3
<1>5. CASE WorkerTest(w) \/ WorkerBlock(w) \/ SpuriousWakeup(w)
  <2>1. UNCHANGED queueVars
    BY <1>5 DEF WorkerTest, WorkerBlock, SpuriousWakeup
  <2>2. Live' = Live /\ Range(task_q_') = Range(task_q_)
    BY <2>1 DEF Live, Held, queueVars
  <2>3. /\ At({"test", "block"})' \subseteq At({"test", "block"})
        /\ \A u \in Worker : /\ pc[u] = "exited" => pc'[u] = "exited"
                             /\ pc'[u] = "exited" => pc[u] = "exited" \/ At({"test", "block"}) # {}
    BY <1>5 DEF WorkerTest, WorkerBlock, SpuriousWakeup, At, Goto, TypeOK
  <2> QED BY <1>0, <1>1, <2>2, <2>3
<1>6. CASE WorkerPop(w) \/ WorkerLock(w)
  BY <1>2, <1>3, <1>6 DEF WorkerPop, WorkerLock
<1> QED BY <1>4, <1>5, <1>6 DEF WorkerStep

\* A task that comes in is not owed, and none that is owed gets lost to a client.
LEMMA ClientKeepsPromise ==
  ASSUME TypeOK, Once, Promised, Bare, NEW c \in Client,
         PushNotify(c) \/ Pop(c) \/ ClearQueue(c) \/ \E x \in Task : Push(c, x)
  PROVE  Promised'
<1>0. /\ is_done_' = is_done_ /\ is_stop_' = is_stop_ /\ threads_' = threads_ /\ flags_' = flags_ /\ Size' = Size
      /\ ctl' = ctl /\ owed' = owed /\ Unmanned' = Unmanned /\ \A k \in 1..Size : threads_[k] \in Worker
  <2>1. UNCHANGED <<poolVars, ctl, owed>>
    BY DEF PushNotify, Pop, ClearQueue, Push
  <2>2. Unmanned' = Unmanned
    BY OthersStep DEF Unmanned
  <2> QED BY <2>1, <2>2, ElementOfSeq DEF poolVars, Size, TypeOK
<1>1. ASSUME Live \subseteq Live', Due' \subseteq Due,
             At({"test", "block"})' # {} => At({"test", "block"}) # {} /\ Range(task_q_') \subseteq InPush',
             \A u \in Worker : pc'[u] = "exited" <=> pc[u] = "exited"
      PROVE  Promised'
  <2>1. ASSUME is_done_, ~is_stop_
        PROVE  /\ owed.pushed \subseteq Live' \/ Unmanned
               /\ At({"test", "block"})' # {} => Due' = {}
               /\ \A k \in 1..Size : threads_[k] \notin flags_ /\ (pc'[threads_[k]] = "exited" => Due' = {})
               /\ Size = 0 => Due' = {} \/ Unmanned
               /\ ctl.at = "finalClear" => \A k \in 1..Size : pc'[threads_[k]] = "exited"
    <3>1. (owed.pushed \subseteq Live' \/ Unmanned) /\ (At({"test", "block"})' # {} => Due' = {}) /\ (Size = 0 => Due' = {} \/ Unmanned)
      BY <1>1, <2>1 DEF Promised
    <3>2. \A k \in 1..Size : threads_[k] \notin flags_ /\ (pc'[threads_[k]] = "exited" => Due' = {})
      BY <1>0, <1>1, <2>1 DEF Promised
    <3>3. ctl.at = "finalClear" => \A k \in 1..Size : pc'[threads_[k]] = "exited"
      BY <1>0, <1>1, <2>1 DEF Promised
    <3> QED BY <3>1, <3>2, <3>3
  <2> QED BY <1>0, <1>1, <2>1 DEF Promised
<1>2. CASE PushNotify(c)
  <2>1. UNCHANGED queueVars /\ At({"test", "block"}) = {}
    BY <1>2 DEF PushNotify, MutexFree
  <2>2. Live' = Live /\ Due' = Due
    BY <1>0, <2>1 DEF Live, Held, Due, queueVars
  <2>3. At({"test", "block"})' = {} /\ \A u \in Worker : pc'[u] = "exited" <=> pc[u] = "exited"
    BY <1>2, <2>1 DEF PushNotify, At, Goto, TypeOK
  <2> QED BY <1>1, <2>2, <2>3
<1>3. CASE Pop(c) \/ ClearQueue(c)
  <2>1. pc' = pc /\ pushing' = pushing /\ holds' = holds /\ done' = done
    BY <1>3 DEF Pop, ClearQueue, Discard, clientVars
  <2>2. Range(task_q_') \subseteq Range(task_q_) /\ Range(task_q_) \cup taken \subseteq Range(task_q_') \cup taken'
    BY <1>3, RestIs DEF Pop, ClearQueue, Discard
  <2>3. Live \subseteq Live' /\ Due' \subseteq Due
    BY <1>0, <2>1, <2>2 DEF Live, Held, Due
  <2>4. At({"test", "block"})' = At({"test", "block"}) /\ InPush' = InPush
    BY <2>1 DEF At, InPush
  <2>5. At({"test", "block"}) # {} => Range(task_q_') \subseteq InPush
    BY <2>2 DEF Promised
  <2> QED BY <1>1, <2>1, <2>3, <2>4, <2>5
<1>4. ASSUME NEW x \in Task, Push(c, x) PROVE Promised'
  <2>1. /\ pc' = pc /\ pushing' = [pushing EXCEPT ![c] = {x}] /\ pushing[c] = {} /\ x \notin Known
        /\ task_q_' = Append(task_q_, x) /\ UNCHANGED <<holds, done, taken>>
    BY <1>4 DEF Push, Free
  <2>2. Range(task_q_') = Range(task_q_) \cup {x}
    BY <2>1, RangeOfAppend DEF TypeOK
  <2>3. InPush' = InPush \cup {x} /\ At({"test", "block"})' = At({"test", "block"})
    BY <2>1 DEF InPush, TypeOK, At
  <2>4. Live \subseteq Live' /\ x \notin Live
    BY <2>1, <2>2 DEF Live, Held, Known
  <2>5. CASE ~(is_done_ /\ is_stop_)
    <3>1. x \notin owed.pushed
      BY <2>1, <2>4, <2>5 DEF Promised, Bare, Known
    <3>2. Due' = Due
      BY <1>0, <2>2, <3>1 DEF Due
    <3> QED BY <1>1, <2>1, <2>2, <2>3, <2>4, <3>2 DEF Promised
  <2>6. CASE is_done_ /\ is_stop_
    BY <1>0, <2>2, <2>3, <2>6 DEF Promised
  <2> QED BY <2>5, <2>6
<1> QED BY <1>2, <1>3, <1>4

LEMMA ControlKeepsPromise ==
  ASSUME TypeOK, Threads, Control, Leaving, Once, Promised, Bare,
         ControlStep \/ StopNow \/ StopWait \/ Destroy \/ \E n \in Sizes : Resize(n)
  PROVE  Promised'
<1>0. \A k \in 1..Size : threads_[k] \in Worker
  BY ElementOfSeq DEF Size, TypeOK
<1>1. At({"test", "block"})' # {} => Range(task_q_') \subseteq InPush'
  <2>1. pushing' = pushing /\ Range(task_q_') \subseteq Range(task_q_)
    BY RestIs DEF ControlStep, ShrinkFlag, ShrinkNotify, StopNow, StopWait, Destroy, StopSetFlags, StopClear, StopNotify,
       StopJoin, StopFinalClear, Resize, Discard, clientVars, queueVars
  <2>2. \A w \in Worker : pc'[w] \in {"test", "block"} => pc[w] \in {"test", "block"}
    BY DEF ControlStep, ShrinkFlag, ShrinkNotify, StopNow, StopWait, Destroy, StopSetFlags, StopClear, StopNotify,
       StopJoin, StopFinalClear, Resize, NotifyAll
  <2> QED BY <2>1, <2>2 DEF Promised, At, InPush
<1>2. ASSUME is_done_' = is_done_, owed' = owed, is_stop_' \/ ~is_done_ PROVE Promised'
  BY <1>1, <1>2 DEF Promised
<1>3. CASE \/ ShrinkFlag \/ ShrinkNotify \/ StopSetFlags \/ StopClear \/ StopNow \/ \E n \in Sizes : Resize(n)
  <2>1. is_done_' = is_done_ /\ owed' = owed
    BY <1>3 DEF ShrinkFlag, ShrinkNotify, StopSetFlags, StopClear, StopNow, Resize, poolVars
  <2>2. is_stop_' \/ ~is_done_
    BY <1>3 DEF ShrinkFlag, ShrinkNotify, StopSetFlags, StopClear, StopNow, Resize, poolVars, Control, Promised
  <2> QED BY <1>2, <2>1, <2>2
<1>4. CASE StopWait \/ Destroy
  <2>1. PICK d \in BOOLEAN : StopWhenDone(d) /\ UNCHANGED <<queueVars, is_stop_, threads_, flags_, clientVars, pc>>
    BY <1>4 DEF StopWait, Destroy
  <2>2. /\ Range(task_q_') = Range(task_q_) /\ Live' = Live /\ At({"test", "block"})' = At({"test", "block"})
        /\ Size' = Size /\ threads_' = threads_ /\ flags_' = flags_ /\ pc' = pc /\ is_stop_' = is_stop_ /\ ctl.at = "idle"
    BY <1>4, <2>1 DEF queueVars, Live, Held, At, Size, StopWait, Destroy
  <2>3. CASE is_done_ \/ is_stop_
    <3>1. is_done_' = is_done_ /\ owed' = owed /\ ctl'.at \in {"idle", "destroyed"}
      BY <2>1, <2>3 DEF StopWhenDone, TypeOK
    <3>2. Due' = Due /\ Unmanned' = Unmanned
      BY <2>2, <3>1 DEF Due, Unmanned
    <3> QED BY <1>1, <2>2, <2>3, <3>1, <3>2 DEF Promised
  <2>4. CASE ~(is_done_ \/ is_stop_)
    <3>1. /\ is_done_' /\ ctl'.at = "notify"
          /\ owed' = [queued |-> Range(task_q_), pushed |-> Range(task_q_) \ InPush]
      BY <2>1, <2>4 DEF StopWhenDone, TypeOK, InPush
    <3>2. owed'.pushed = Range(task_q_) \ InPush
      BY <3>1
    <3>3. owed'.pushed \subseteq Live' /\ (Size = 0 => Unmanned')
      BY <2>2, <2>4, <3>2 DEF Live, Bare, Unmanned
    <3>4. At({"test", "block"}) # {} => Due' = {}
      BY <2>2, <3>2 DEF Due, Promised
    <3>5. \A k \in 1..Size : threads_[k] \notin flags_ /\ pc[threads_[k]] # "exited"
      BY <1>0, <2>2, <2>4 DEF Control, Leaving
    <3> QED BY <1>1, <2>2, <2>4, <3>1, <3>3, <3>4, <3>5 DEF Promised
  <2> QED BY <2>3, <2>4
<1>5. CASE StopNotify \/ StopJoin
  <2>1. /\ UNCHANGED queueVars /\ UNCHANGED poolVars /\ owed' = owed
        /\ \A w \in Worker : pc'[w] = "exited" <=> pc[w] = "exited"
        /\ At({"test", "block"})' = At({"test", "block"})
        /\ Unmanned' = Unmanned
    BY <1>5 DEF StopNotify, StopJoin, NotifyAll, At, Unmanned
  <2>2. /\ Live' = Live /\ Due' = Due /\ Size' = Size /\ is_done_' = is_done_ /\ is_stop_' = is_stop_
        /\ threads_' = threads_ /\ flags_' = flags_
    BY <2>1 DEF queueVars, poolVars, Live, Held, Due, Size
  <2>3. /\ ctl'.at \in {"join", "finalClear"}
        /\ ctl'.at = "finalClear" => \A k \in 1..Size : pc'[threads_[k]] = "exited"
    <3>1. CASE StopNotify
      BY <3>1 DEF StopNotify, TypeOK
    <3>2. CASE StopJoin
      <4>1. \A k \in 1..Size : threads_[k] \in Range(threads_)
        BY RangeEquality DEF TypeOK, Size
      <4> QED BY <3>2, <4>1 DEF StopJoin, TypeOK
    <3> QED BY <1>5, <3>1, <3>2
  <2> QED BY <1>0, <1>1, <2>1, <2>2, <2>3 DEF Promised
<1>6. CASE StopFinalClear
  <2>1. /\ ctl.at = "finalClear" /\ pc' = pc /\ owed' = owed /\ is_done_' = is_done_ /\ is_stop_' = is_stop_ /\ flags_' = flags_
        /\ holds' = holds /\ done' = done /\ taken' = taken /\ Range(task_q_') \subseteq Range(task_q_)
    BY <1>6, RestIs DEF StopFinalClear, Discard
  <2>2. is_done_ /\ ~is_stop_ => Due = {} \/ Unmanned
    BY <2>1, LenProperties DEF Promised, Size, TypeOK
  <2>3. /\ Unmanned' = Unmanned /\ Due' \subseteq Due /\ At({"test", "block"})' = At({"test", "block"})
        /\ is_done_ /\ ~is_stop_ => (Due' = {} /\ owed.pushed \subseteq Live') \/ Unmanned
    BY <2>1, <2>2 DEF Due, Live, Held, Promised, Unmanned, At
  <2>4. CASE ctl' = ctl /\ threads_' = threads_
    <3>1. Size' = Size
      BY <2>4 DEF Size
    <3> QED BY <1>1, <2>1, <2>3, <2>4, <3>1 DEF Promised
  <2>5. CASE threads_' = <<>> /\ ctl' = [ctl EXCEPT !.at = IF ctl.dtor THEN "destroyed" ELSE "idle"]
    <3>1. Size' = 0 /\ ctl'.at \in {"idle", "destroyed"}
      BY <2>5, EmptySeq DEF Size, TypeOK
    <3> QED BY <1>1, <2>1, <2>3, <3>1 DEF Promised
  <2> QED BY <1>6, <2>4, <2>5 DEF StopFinalClear
<1> QED BY <1>3, <1>4, <1>5, <1>6 DEF ControlStep

(* In a pool that never had a thread every owed task is in the queue, or a *)
(* client or the last ClearQueue has taken it out.                         *)
LEMMA BareKept ==
  ASSUME TypeOK, Threads, Control, Promised, Bare, Next PROVE Bare'
<1>1. CASE \E w \in Worker : WorkerStep(w) \/ SpuriousWakeup(w)
  <2>1. UNCHANGED <<poolVars, ctl, owed>> /\ Unmanned' = Unmanned
    BY <1>1, OthersStep DEF Unmanned
  <2>2. ~Unmanned
    BY <1>1 DEF WorkerStep, SpuriousWakeup, WorkerPop, WorkerRun, WorkerLock, WorkerTest, WorkerBlock, Unmanned
  <2> QED BY <2>1, <2>2 DEF Bare, poolVars, Size
<1>2. ASSUME NEW c \in Client, PushNotify(c) \/ Pop(c) \/ ClearQueue(c) \/ \E x \in Task : Push(c, x)
      PROVE  Bare'
  <2>1. UNCHANGED <<poolVars, ctl, owed>> /\ Unmanned' = Unmanned
    BY <1>2, OthersStep DEF Unmanned
  <2>2. CASE PushNotify(c) \/ Pop(c) \/ ClearQueue(c)
    <3>1. /\ Range(task_q_') \subseteq Range(task_q_) /\ taken \subseteq taken' /\ dropped' = dropped
          /\ Range(task_q_) \cup taken \subseteq Range(task_q_') \cup taken'
      BY <2>2, RestIs DEF PushNotify, Pop, ClearQueue, Discard, queueVars
    <3> QED BY <2>1, <3>1 DEF Bare, poolVars, Size, Due
  <2>3. ASSUME NEW x \in Task, Push(c, x) PROVE Bare'
    <3>1. x \notin Known /\ UNCHANGED <<taken, dropped>> /\ task_q_' = Append(task_q_, x)
      BY <2>3 DEF Push
    <3>2. Range(task_q_') = Range(task_q_) \cup {x}
      BY <3>1, RangeOfAppend DEF TypeOK
    <3> QED BY <2>1, <3>1, <3>2 DEF Bare, poolVars, Size, Due, Known
  <2> QED BY <1>2, <2>2, <2>3
<1>3. ASSUME NEW n \in Sizes, Resize(n) PROVE Bare'
  <2>1. /\ ~is_done_ /\ is_done_' = is_done_ /\ ~is_stop_ /\ is_stop_' = is_stop_ /\ Size \in Nat /\ n \in Nat
    BY <1>3, LenProperties, BoundsAreCounts DEF Resize, Size, TypeOK
  <2>2. CASE Size <= n
    <3>1. PICK m \in 0..MaxThreads : Created(m) /\ Size <= m
      BY DEF Threads
    <3>2. /\ Size' = n
          /\ pc' = [w \in Worker |-> IF m < w /\ w <= m + n - Size THEN "pop" ELSE pc[w]]
      BY <1>3, <2>2, <3>1, Growth
    <3>3. ASSUME Size' = 0 PROVE Unmanned'
      <4>1. Size = 0 /\ n = 0
        BY <2>1, <2>2, <3>2, <3>3
      <4>2. \A w \in Worker : pc'[w] = pc[w]
        BY <3>2, <4>1 DEF Worker
      <4> QED BY <2>1, <4>1, <4>2 DEF Bare, Unmanned
    <3> QED BY <2>1, <3>3 DEF Bare
  <2>3. CASE ~(Size <= n)
    <3>1. threads_' = threads_ /\ pc' = pc
      BY <1>3, <2>3 DEF Resize
    <3> QED BY <2>1, <3>1 DEF Bare, Unmanned, Size
  <2> QED BY <2>2, <2>3
<1>4. CASE ShrinkFlag
  <2>1. ~is_done_' /\ threads_' = threads_ /\ pc' = pc /\ is_stop_' = is_stop_ /\ ~is_done_
    BY <1>4 DEF ShrinkFlag, Control
  <2> QED BY <2>1 DEF Bare, Unmanned, Size
<1>5. CASE ShrinkNotify
  <2>1. ~is_done_' /\ ctl.n > 0 /\ ctl.at = "shrinkNotify" /\ threads_' = SubSeq(threads_, 1, ctl.n)
    BY <1>5 DEF ShrinkNotify, Control
  <2>2. Size' # 0
    BY <2>1, Cut DEF Size
  <2> QED BY <2>1, <2>2 DEF Bare
<1>6. CASE StopNow
  BY <1>6 DEF StopNow, Bare
<1>7. CASE StopSetFlags \/ StopClear
  <2>1. is_stop_' = is_stop_ /\ ctl.at \in {"setFlags", "clear"}
    BY <1>7 DEF StopSetFlags, StopClear, poolVars
  <2> QED BY <2>1 DEF Control, Promised, Bare
<1>8. CASE StopWait \/ Destroy
  <2>1. PICK d \in BOOLEAN : StopWhenDone(d) /\ UNCHANGED <<queueVars, is_stop_, threads_, flags_, clientVars, pc>>
    BY <1>8 DEF StopWait, Destroy
  <2>2. /\ Range(task_q_') = Range(task_q_) /\ taken' = taken /\ dropped' = dropped /\ Unmanned' = Unmanned
        /\ is_stop_' = is_stop_ /\ ctl.at = "idle"
    BY <1>8, <2>1 DEF queueVars, Unmanned, StopWait, Destroy
  <2>3. CASE is_done_ \/ is_stop_
    <3>1. is_done_' = is_done_ /\ owed' = owed
      BY <2>1, <2>3 DEF StopWhenDone
    <3>2. Due' = Due
      BY <2>2, <3>1 DEF Due
    <3>3. ~(~is_done_' /\ ~is_stop_')
      BY <2>2, <2>3, <3>1
    <3>4. \/ owed.pushed \subseteq Range(task_q_) \cup taken \cup dropped /\ Due = {}
          \/ ~(is_done_ /\ ~is_stop_ /\ Unmanned)
      BY <2>2 DEF Bare
    <3>5. CASE is_done_ /\ ~is_stop_ /\ Unmanned
      BY <2>2, <3>1, <3>2, <3>3, <3>4, <3>5 DEF Bare
    <3>6. CASE ~(is_done_ /\ ~is_stop_ /\ Unmanned)
      <4>1. ~(is_done_' /\ ~is_stop_' /\ Unmanned')
        BY <2>2, <3>1, <3>6
      <4> QED BY <3>3, <4>1 DEF Bare
    <3> QED BY <3>5, <3>6
  <2>4. CASE ~(is_done_ \/ is_stop_)
    <3>1. /\ is_done_' /\ ctl'.at = "notify"
          /\ owed' = [queued |-> Range(task_q_), pushed |-> Range(task_q_) \ InPush]
      BY <2>1, <2>4 DEF StopWhenDone, TypeOK, InPush
    <3>2. owed'.pushed \subseteq Range(task_q_)
      BY <3>1
    <3> QED BY <2>2, <3>1, <3>2 DEF Bare
  <2> QED BY <2>3, <2>4
<1>9. CASE StopNotify \/ StopJoin
  <2>1. /\ UNCHANGED queueVars /\ UNCHANGED poolVars /\ owed' = owed /\ Unmanned' = Unmanned
        /\ ctl.at \in {"notify", "join"} /\ ctl'.at \in {"join", "finalClear"}
    BY <1>9 DEF StopNotify, StopJoin, NotifyAll, Unmanned, TypeOK
  <2> QED BY <2>1 DEF Bare, Control, queueVars, poolVars
<1>10. CASE StopFinalClear
  <2>1. /\ ctl.at = "finalClear" /\ owed' = owed /\ is_done_' = is_done_ /\ is_stop_' = is_stop_
        /\ taken' = taken /\ Unmanned' = Unmanned
    BY <1>10 DEF StopFinalClear, Unmanned
  <2>2. is_done_ \/ is_stop_
    BY <2>1 DEF Control
  <2>3. ASSUME NEW i \in Fronts(task_q_, Fifo), Discard(i), dropped' = dropped \cup {task_q_[i]}, ctl' = ctl PROVE Bare'
    <3>1. Range(task_q_) = Range(task_q_') \cup {task_q_[i]}
      BY <2>3, RestIs DEF Discard
    <3> QED BY <2>1, <2>2, <2>3, <3>1 DEF Bare
  <2>4. CASE task_q_ = <<>> /\ UNCHANGED <<task_q_, holds, done, dropped>>
    <3>1. Range(task_q_') = {} /\ Range(task_q_) = {}
      BY <2>4 DEF Range
    <3> QED BY <2>1, <2>2, <2>4, <3>1 DEF Bare, Due
  <2> QED BY <1>10, <2>3, <2>4 DEF StopFinalClear
<1> QED BY <1>1, <1>2, <1>3, <1>4, <1>5, <1>6, <1>7, <1>8, <1>9, <1>10 DEF Next, ControlStep

-----------------------------------------------------------------------------
LEMMA InitHolds == Init => IInv
<1> SUFFICES ASSUME Init PROVE IInv
  OBVIOUS
<1>1. task_q_ = <<>> /\ threads_ = <<>> /\ Len(<<>>) = 0 /\ Size = 0
  BY EmptySeq DEF Init, Size
<1>2. TypeOK
  BY EmptySeq DEF Init, TypeOK, PC, ControlPoint
<1>3. Threads
  <2>1. Created(0) /\ 0 \in 0..MaxThreads
    BY BoundsAreCounts DEF Init, Created, Worker
  <2> QED BY <1>1, <2>1 DEF Init, Threads
<1>4. Control /\ Leaving
  BY <1>1 DEF Init, Control, Leaving
<1>5. Once
  <2>1. \A w \in Worker : holds[w] = {}
    BY DEF Init
  <2> QED BY <1>1, <2>1 DEF Once
<1>6. Promised
  <2>1. Range(task_q_) = {}
    BY <1>1 DEF Range
  <2>2. At({"test", "block"}) = {} /\ owed.pushed = {} /\ ~is_done_
    BY DEF Init, At
  <2> QED BY <2>1, <2>2 DEF Promised
<1>7. Bare
  BY DEF Init, Bare, Unmanned
<1> QED BY <1>1, <1>2, <1>3, <1>4, <1>5, <1>6, <1>7, EmptyStrandsNothing DEF IInv

LEMMA NextHolds == IInv /\ [Next]_vars => IInv'
<1> SUFFICES ASSUME IInv, [Next]_vars PROVE IInv'
  OBVIOUS
<1> USE DEF IInv
<1>1. Once'
  BY OnceKept
<1>2. CASE \/ \E w \in Worker : WorkerStep(w) \/ SpuriousWakeup(w)
           \/ \E c \in Client : PushNotify(c) \/ Pop(c) \/ ClearQueue(c) \/ \E x \in Task : Push(c, x)
  <2>1. TypeOK'
    BY <1>2, WorkerTypes, ClientTypes
  <2>2. Threads' /\ Control' /\ Leaving'
    BY <1>2, OthersStep, OthersKeep
  <2>3. NothingStranded'
    BY <1>2, WorkerStrandsNothing, ClientStrandsNothing
  <2>4. Promised'
    BY <1>2, WorkerKeepsPromise, ClientKeepsPromise
  <2>5. Bare'
    BY <1>2, BareKept DEF Next
  <2> QED BY <1>1, <2>1, <2>2, <2>3, <2>4, <2>5
<1>3. CASE StopNow \/ StopWait \/ Destroy \/ ControlStep \/ \E n \in Sizes : Resize(n)
  <2>1. TypeOK' /\ NothingStranded'
    BY <1>3, ControlTypes, ControlStrandsNothing
  <2>2. Threads' /\ Control' /\ Leaving'
    BY <1>3, ResizeKeeps, ShrinkKeeps, StopKeeps DEF ControlStep
  <2>3. Promised'
    BY <1>3, ControlKeepsPromise
  <2>4. Bare'
    BY <1>3, BareKept DEF Next
  <2> QED BY <1>1, <2>1, <2>2, <2>3, <2>4
<1>4. CASE UNCHANGED vars
  <2>1. TypeOK'
    BY <1>4 DEF vars, queueVars, poolVars, clientVars, TypeOK
  <2>2. Threads' /\ Control' /\ Leaving'
    BY <1>4, OthersKeep DEF vars
  <2>3. NothingStranded'
    BY <1>4 DEF vars, queueVars, clientVars, NothingStranded, At
  <2>4. Promised'
    BY <1>4 DEF vars, queueVars, poolVars, clientVars, Promised, At, InPush, Live, Held, Due, Size, Unmanned
  <2>5. Bare'
    BY <1>4 DEF vars, queueVars, poolVars, Bare, Due, Size, Unmanned
  <2> QED BY <1>1, <2>1, <2>2, <2>3, <2>4, <2>5
<1> QED BY <1>2, <1>3, <1>4 DEF Next

LEMMA Invariance == Spec => []IInv
BY InitHolds, NextHolds, PTL DEF Spec

-----------------------------------------------------------------------------
(* The variables of ThreadPool keep their types: the vector of threads     *)
(* holds threads that exist, and just the workers that run a task hold one.*)
THEOREM TypeCorrect == Spec => []TypeOK
<1>1. IInv => TypeOK
  BY DEF IInv
<1> QED BY <1>1, Invariance, PTL

(* Push inserts outside mutex_ and notifies one worker, and yet no task is *)
(* left in front of a pool whose workers sleep or are about to.            *)
THEOREM NoTaskStranded == Spec => []NothingStranded
<1>1. IInv => NothingStranded
  BY DEF IInv
<1> QED BY <1>1, Invariance, PTL

(* A worker of SetThread leaves only with its flag set or after Stop(true),*)
(* and an idle pool has all the threads it counts.                         *)
THEOREM NobodyLeaves == Spec => []NobodyLeavesUntold
<1>1. IInv => NobodyLeavesUntold
  <2> SUFFICES ASSUME IInv PROVE NobodyLeavesUntold
    OBVIOUS
  <2>1. ~is_done_ => At({"exited"}) \subseteq flags_
    BY DEF IInv, Leaving, At
  <2>2. ASSUME ctl.at = "idle", ~is_done_, ~is_stop_, NEW w \in Range(threads_)
        PROVE  w \notin flags_ /\ pc[w] \notin {"none", "exited"}
    <3>1. PICK k \in 1..Size : w = threads_[k]
      BY RangeEquality DEF IInv, TypeOK, Size
    <3>2. w \in Worker /\ w \notin flags_ /\ pc[w] # "none"
      BY <2>2, <3>1, ElementOfSeq DEF IInv, Control, Threads, TypeOK, Size
    <3> QED BY <2>2, <3>2 DEF IInv, Leaving
  <2> QED BY <2>1, <2>2 DEF NobodyLeavesUntold
<1> QED BY <1>1, Invariance, PTL

(* Resize's loop over an unsigned index flags the threads from the new     *)
(* size on and no others, and leaves the vectors for Resize(0) only.       *)
THEOREM ShrinksFlagTheRest == Spec => []ShrinkFlagsTheRest
<1>1. IInv => ShrinkFlagsTheRest
  <2> SUFFICES ASSUME IInv PROVE ShrinkFlagsTheRest
    OBVIOUS
  <2>1. DOMAIN threads_ = 1..Size
    BY LenProperties DEF IInv, TypeOK, Size
  <2> QED BY <2>1 DEF IInv, Control, ShrinkFlagsTheRest
<1> QED BY <1>1, Invariance, PTL

(* When Stop(true) has joined its threads, every task whose Push had       *)
(* returned before it was called has been run, unless a client took it     *)
(* back or a worker that a shrink detached has it; a pool that never had a *)
(* thread is the only one that runs none of them, and when its Stop is     *)
(* over all of them are gone: taken by a client or thrown away.            *)
THEOREM StopRunsReturnedPushes == Spec => []ReturnedPushesRun
<1>1. IInv => ReturnedPushesRun
  <2> SUFFICES ASSUME IInv, StoppedWaiting PROVE ReturnedPushesRun
    BY DEF ReturnedPushesRun
  <2> USE DEF IInv
  <2>1. /\ is_done_ /\ ~is_stop_ /\ \A k \in 1..Size : pc[threads_[k]] = "exited"
        /\ ctl.at \in {"finalClear", "idle", "destroyed"}
    BY DEF StoppedWaiting, Promised
  <2>2. CASE Unmanned
    <3>1. ctl.at # "finalClear" => owed.pushed \subseteq taken \cup dropped
      BY <2>1, <2>2 DEF Bare, Due
    <3> QED BY <2>2, <3>1 DEF ReturnedPushesRun
  <2>3. CASE ~Unmanned
    <3>1. ASSUME NEW w \in Worker, holds[w] # {} PROVE w \in Detached
      <4>1. pc[w] = "run"
        BY <3>1 DEF TypeOK
      <4>2. w \notin Range(threads_)
        BY <2>1, <4>1, RangeEquality DEF TypeOK, Size
      <4> QED BY <4>1, <4>2 DEF Detached, At, PC
    <3>2. Due = {} /\ owed.pushed \subseteq Live
      BY <2>1, <2>3, LenProperties DEF Promised, Size, TypeOK
    <3>3. owed.pushed \subseteq done \cup taken \cup UNION {holds[w] : w \in Detached}
      BY <3>1, <3>2 DEF Live, Held, Due
    <3> QED BY <3>3 DEF ReturnedPushesRun
  <2> QED BY <2>2, <2>3
<1> QED BY <1>1, Invariance, PTL

-----------------------------------------------------------------------------
\* Every step of the pool is a step of the executor, or none.
LEMMA StepRefines == ASSUME IInv, [Next]_vars PROVE [Abs!Next]_Abs!absVars
<1> USE DEF IInv
<1>1. CASE UNCHANGED queueVars
  BY <1>1 DEF queueVars, Abs!absVars, Held
<1>2. ASSUME NEW w \in Worker, pc[w] # "run", NEW i \in Fronts(task_q_, Fifo), Take(w, i)
      PROVE  Abs!Start(task_q_[i])
  <2>1. /\ holds' = [holds EXCEPT ![w] = {task_q_[i]}] /\ UNCHANGED <<done, taken, dropped>> /\ holds[w] = {}
        /\ Range(task_q_') = Range(task_q_) \ {task_q_[i]} /\ task_q_[i] \in Range(task_q_)
    BY <1>2, RestIs, RestOnce DEF Take, TypeOK
  <2>2. Held' = Held \cup {task_q_[i]}
    BY <2>1 DEF Held, TypeOK
  <2> QED BY <2>1, <2>2 DEF Abs!Start
<1>3. ASSUME NEW w \in Worker, WorkerRun(w) PROVE \E x \in Task : Abs!Finish(x)
  <2>1. PICK x \in Task : holds[w] = {x}
    BY <1>3 DEF WorkerRun, TypeOK, Once
  <2>2. /\ done' = done \cup {x} /\ holds' = [holds EXCEPT ![w] = {}] /\ UNCHANGED <<task_q_, taken, dropped>>
    BY <1>3, <2>1 DEF WorkerRun
  <2>3. x \in Held /\ Held' = Held \ {x}
    BY <2>1, <2>2 DEF Held, TypeOK, Once
  <2> QED BY <2>2, <2>3 DEF Abs!Finish
<1>4. ASSUME NEW x \in Task, x \notin Known, task_q_' = Append(task_q_, x), UNCHANGED <<holds, done, taken, dropped>>
      PROVE  Abs!Submit(x)
  <2>1. Range(task_q_') = Range(task_q_) \cup {x}
    BY <1>4, RangeOfAppend DEF TypeOK
  <2> QED BY <1>4, <2>1 DEF Abs!Submit, Abs!Known, Known, Held
<1>5. ASSUME NEW i \in Fronts(task_q_, Fifo), Discard(i), (taken \cup dropped)' = taken \cup dropped \cup {task_q_[i]}
      PROVE  Abs!Discard(task_q_[i])
  <2>1. Range(task_q_') = Range(task_q_) \ {task_q_[i]} /\ task_q_[i] \in Range(task_q_) /\ UNCHANGED <<holds, done>>
    BY <1>5, RestIs, RestOnce DEF Discard
  <2> QED BY <1>5, <2>1 DEF Abs!Discard, Held
<1>6. \A i \in Fronts(task_q_, Fifo) : task_q_[i] \in Task
  BY RestIs
<1> QED BY <1>1, <1>2, <1>3, <1>4, <1>5, <1>6, QueueSteps DEF Abs!Next

(* ThreadPool implements AbstractExecutor: every task is run at most once, *)
(* to its end, and only if nobody took it out of the queue before.         *)
THEOREM Refinement == Spec => ImplementsExecutor
<1>1. Init => Abs!Init
  <2> SUFFICES ASSUME Init PROVE Abs!Init
    OBVIOUS
  <2>1. Range(task_q_) = {}
    BY DEF Init, Range
  <2> QED BY <2>1 DEF Init, Abs!Init, Held
<1>2. IInv /\ [Next]_vars => [Abs!Next]_Abs!absVars
  BY StepRefines
<1> QED BY <1>1, <1>2, Invariance, PTL DEF Spec, ImplementsExecutor, Abs!Spec
=============================================================================
