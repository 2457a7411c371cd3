---------------------------- MODULE BatcherProofs ----------------------------
(***************************************************************************)
(* Proofs about Batcher for any threads, items and batch sizes, with       *)
(* setters and failures of std::async between any two steps.               *)
(***************************************************************************)
EXTENDS Batcher, SequenceTheorems, TLAPS

Typed ==
  /\ cache_ \in Seq(Item) /\ added \in Seq(Item) /\ delivered \in Seq(Item)
  /\ batch_size_ \in Nat /\ notifier_ \in Notifier
  /\ pc \in [Thread -> PC] /\ item \in [Thread -> SUBSET Item]
  /\ sizes \subseteq Nat /\ steady \in BOOLEAN

\* m_ is a mutex.
Alone == \A t, u \in Thread : pc[t] \in Inside /\ pc[u] \in Inside => t = u

\* Who has m_ has put an item into the cache, and what the notifier is given stays there until it is over.
Holding ==
  /\ added = <<>> => cache_ = <<>> /\ sizes = {}
  /\ \A t \in Thread : pc[t] \in Inside => cache_ # <<>>
  /\ \A b \in batch : b.items = cache_ /\ \E t \in Thread : pc[t] = "wait"

Emitting == {"emit", "launch", "wait", "stuck", "clear"}

\* The length of the cache along AddItem.
Lengths ==
  steady => /\ sizes \subseteq {OneBatch}
            /\ (\A t \in Thread : pc[t] \notin Inside) => Len(cache_) < OneBatch
            /\ \A t \in Thread : pc[t] = "test" => Len(cache_) <= OneBatch
            /\ \A t \in Thread : pc[t] \in Emitting => Len(cache_) = OneBatch

IInv == Typed /\ Alone /\ Holding /\ Lengths

-----------------------------------------------------------------------------
\* A cache is empty or has a length that is not zero, and a batch size stands for at least one item.
LEMMA Sizes ==
  ASSUME Typed
  PROVE  /\ Len(cache_) \in Nat /\ (cache_ # <<>> => Len(cache_) >= 1)
         /\ OneBatch \in Nat /\ OneBatch >= 1 /\ OneBatch >= batch_size_ /\ Len(<<>>) = 0
<1>1. Len(cache_) \in Nat /\ (cache_ # <<>> => Len(cache_) >= 1) /\ Len(<<>>) = 0
  BY LenProperties, EmptySeq DEF Typed
<1>2. OneBatch \in Nat /\ OneBatch >= 1 /\ OneBatch >= batch_size_
  BY DEF OneBatch, Typed
<1> QED BY <1>1, <1>2

\* The thread that has m_ moves: it stays the only one.
LEMMA HolderMoves ==
  ASSUME Typed, Alone, NEW t \in Thread, pc[t] \in Inside, NEW l \in PC, Goto(t, l)
  PROVE  /\ pc' \in [Thread -> PC] /\ pc'[t] = l /\ Alone'
         /\ \A u \in Thread : u # t => pc[u] \notin Inside /\ pc'[u] \notin Inside
<1>1. pc' \in [Thread -> PC] /\ pc'[t] = l /\ \A u \in Thread : u # t => pc'[u] = pc[u]
  BY DEF Typed, Goto
<1>2. \A u \in Thread : u # t => pc[u] \notin Inside
  BY DEF Alone
<1> QED BY <1>1, <1>2 DEF Alone

-----------------------------------------------------------------------------
LEMMA InitHolds == Init => IInv
<1> SUFFICES ASSUME Init PROVE IInv
  OBVIOUS
<1>1. Typed
  BY EmptySeq DEF Init, Typed, Notifier, PC
<1>2. Alone /\ Holding
  BY DEF Init, Alone, Holding, Inside
<1>3. Lengths
  BY EmptySeq DEF Init, Lengths, Emitting, OneBatch
<1> QED BY <1>1, <1>2, <1>3 DEF IInv

\* A thread calls AddItem and waits for m_.
LEMMA AddItemHolds ==
  ASSUME IInv, NEW t \in Thread, NEW x \in Item, AddItem(t, x) PROVE IInv'
<1> USE DEF IInv
<1>1. /\ pc[t] = "out" /\ pc' = [pc EXCEPT ![t] = "lock"]
      /\ cache_' = cache_ /\ added' = added /\ delivered' = delivered /\ sizes' = sizes /\ batch' = batch
      /\ batch_size_' = batch_size_ /\ notifier_' = notifier_ /\ dropped' = dropped /\ steady' = steady
  BY DEF AddItem, Goto, settings, notified
<1>2. Typed'
  <2>1. item' \in [Thread -> SUBSET Item]
    BY DEF AddItem, Typed
  <2> QED BY <1>1, <2>1 DEF Typed, PC
<1>3. \A u \in Thread : /\ pc'[u] \in Inside <=> pc[u] \in Inside
                        /\ pc[u] \in Inside => pc'[u] = pc[u]
  BY <1>1 DEF Typed, Inside
<1>4. Alone'
  BY <1>3 DEF Alone
<1>5. Holding'
  BY <1>1, <1>3 DEF Holding, Inside
<1>6. Lengths'
  <2>1. OneBatch' = OneBatch
    BY <1>1 DEF OneBatch
  <2> QED BY <1>1, <1>3, <2>1 DEF Lengths, Inside, Emitting
<1> QED BY <1>2, <1>4, <1>5, <1>6

\* It gets m_ and puts its item into the cache.
LEMMA CollectHolds ==
  ASSUME IInv, NEW t \in Thread, Collect(t) PROVE IInv'
<1> USE DEF IInv
<1>1. PICK x \in Item : cache_' = Append(cache_, x) /\ added' = Append(added, x)
  BY DEF Collect, Typed
<1>2. /\ pc[t] = "lock" /\ pc' = [pc EXCEPT ![t] = "test"] /\ item' = item
      /\ delivered' = delivered /\ sizes' = sizes /\ batch' = batch
      /\ batch_size_' = batch_size_ /\ notifier_' = notifier_ /\ dropped' = dropped /\ steady' = steady
  BY DEF Collect, Goto, settings, notified
<1>3. /\ \A u \in Thread : pc[u] \notin Inside
      /\ \A u \in Thread : pc'[u] \in Inside => u = t
      /\ pc'[t] = "test"
  BY <1>2 DEF Collect, MutexFree, At, Typed
<1>4. /\ cache_' \in Seq(Item) /\ Len(cache_') = Len(cache_) + 1
      /\ added' \in Seq(Item) /\ Len(added') = Len(added) + 1
  BY <1>1, AppendProperties DEF Typed
<1>5. cache_' # <<>> /\ added' # <<>>
  BY <1>4, LenProperties, EmptySeq DEF Typed
<1>6. Typed'
  BY <1>2, <1>4 DEF Typed, PC, Inside
<1>7. Alone'
  BY <1>3 DEF Alone
<1>8. Holding'
  <2>1. batch = {}
    BY <1>3 DEF Holding, Inside
  <2> QED BY <1>2, <1>5, <2>1 DEF Holding
<1>9. Lengths'
  <2>1. OneBatch' = OneBatch
    BY <1>2 DEF OneBatch
  <2>2. steady => Len(cache_') <= OneBatch
    BY <1>3, <1>4, Sizes DEF Lengths
  <2>3. \A u \in Thread : pc'[u] \notin Emitting
    BY <1>3 DEF Emitting, Inside
  <2>4. "test" \in Inside
    BY DEF Inside
  <2> QED BY <1>2, <1>3, <2>1, <2>2, <2>3, <2>4 DEF Lengths
<1> QED BY <1>6, <1>7, <1>8, <1>9

(* A step with m_ that leaves the items and the settings alone: Test,      *)
(* FindNotifier, Launch, LaunchFails and, of the dropped items abstracted  *)
(* from, NotifyNobody.                                                     *)
LEMMA QuietHolds ==
  ASSUME IInv, NEW t \in Thread, pc[t] \in {"test", "emit", "launch", "wait"},
         NEW l \in {"out", "emit", "launch", "wait", "clear"}, Goto(t, l),
         item' \in [Thread -> SUBSET Item], UNCHANGED <<cache_, settings, added, notified>>,
         steady' \in BOOLEAN, steady' => steady,
         \A b \in batch' : b.items = cache_ /\ l = "wait",
         steady' /\ l = "out" => Len(cache_) < OneBatch,
         steady' /\ l # "out" => Len(cache_) = OneBatch
  PROVE  IInv'
<1> USE DEF IInv
<1>1. /\ cache_' = cache_ /\ added' = added /\ delivered' = delivered /\ sizes' = sizes
      /\ batch_size_' = batch_size_ /\ notifier_' = notifier_
  BY DEF settings, notified
<1>2. pc[t] \in Inside /\ l \in PC
  BY DEF Inside, PC
<1>3. /\ pc' \in [Thread -> PC] /\ pc'[t] = l /\ Alone'
      /\ \A u \in Thread : u # t => pc[u] \notin Inside /\ pc'[u] \notin Inside
  BY <1>2, HolderMoves
<1>4. Typed'
  BY <1>1, <1>3 DEF Typed
<1>5. Holding'
  BY <1>1, <1>2, <1>3 DEF Holding
<1>6. Lengths'
  <2>1. OneBatch' = OneBatch
    BY <1>1 DEF OneBatch
  <2>2. \A u \in Thread : u # t => pc'[u] # "test" /\ pc'[u] \notin Emitting
    BY <1>3 DEF Inside, Emitting
  <2>3. l # "test" /\ "out" \notin Emitting /\ (l # "out" => l \in Inside)
    BY DEF Inside, Emitting
  <2> QED BY <1>1, <1>3, <2>1, <2>2, <2>3 DEF Lengths
<1> QED BY <1>3, <1>4, <1>5, <1>6

\* A full batch is cleared: it was given to the notifier, or there is none.
LEMMA ClearHolds ==
  ASSUME IInv, NEW t \in Thread, Discard(t) \/ Clear(t) PROVE IInv'
<1> USE DEF IInv
<1>1. /\ cache_' = <<>> /\ added' = added /\ delivered' = delivered /\ sizes' = sizes /\ batch' = batch
      /\ batch_size_' = batch_size_ /\ notifier_' = notifier_ /\ steady' = steady
      /\ Goto(t, "out") /\ item' = [item EXCEPT ![t] = {}] /\ pc[t] \in {"emit", "clear"}
  BY DEF Discard, Clear, Return, settings, notified
<1>2. pc[t] \in Inside /\ "out" \in PC /\ "out" \notin Inside
  BY <1>1 DEF Inside, PC
<1>3. /\ pc' \in [Thread -> PC] /\ pc'[t] = "out" /\ Alone'
      /\ \A u \in Thread : u # t => pc[u] \notin Inside /\ pc'[u] \notin Inside
  BY <1>1, <1>2, HolderMoves
<1>4. Typed'
  BY <1>1, <1>3, EmptySeq DEF Typed
<1>5. Holding'
  <2>1. batch = {}
    BY <1>1, <1>3 DEF Holding, Inside
  <2> QED BY <1>1, <1>2, <1>3, <2>1 DEF Holding
<1>6. Lengths'
  <2>1. OneBatch' = OneBatch
    BY <1>1 DEF OneBatch
  <2>2. \A u \in Thread : pc'[u] # "test" /\ pc'[u] \notin Emitting
    BY <1>2, <1>3 DEF Inside, Emitting
  <2> QED BY <1>1, <2>1, <2>2, Sizes DEF Lengths
<1> QED BY <1>3, <1>4, <1>5, <1>6

\* The notifier is given the batch while all of it is still in the cache.
LEMMA NotifyHolds ==
  ASSUME IInv, NEW t \in Thread, Notify(t) PROVE IInv'
<1> USE DEF IInv
<1>1. PICK l \in {"stuck", "clear"} :
        delivered' = delivered \o cache_ /\ sizes' = sizes \cup {Len(cache_)} /\ Goto(t, l)
  BY DEF Notify, Holding
<1>2. /\ pc[t] = "wait" /\ cache_' = cache_ /\ added' = added /\ batch' = {} /\ item' = item
      /\ batch_size_' = batch_size_ /\ notifier_' = notifier_ /\ dropped' = dropped /\ steady' = steady
  BY DEF Notify, settings
<1>3. pc[t] \in Inside /\ l \in PC /\ l \in Inside
  BY <1>2 DEF Inside, PC
<1>4. /\ pc' \in [Thread -> PC] /\ pc'[t] = l /\ Alone'
      /\ \A u \in Thread : u # t => pc[u] \notin Inside /\ pc'[u] \notin Inside
  BY <1>1, <1>3, HolderMoves
<1>5. delivered' \in Seq(Item)
  BY <1>1, ConcatProperties DEF Typed
<1>6. Typed'
  BY <1>1, <1>2, <1>4, <1>5, Sizes DEF Typed
<1>7. Holding'
  <2>1. cache_ # <<>> /\ added # <<>>
    BY <1>3 DEF Holding
  <2> QED BY <1>2, <2>1 DEF Holding
<1>8. Lengths'
  <2>1. OneBatch' = OneBatch
    BY <1>2 DEF OneBatch
  <2>2. steady => Len(cache_) = OneBatch /\ sizes \subseteq {OneBatch}
    BY <1>2 DEF Lengths, Emitting
  <2>3. \A u \in Thread : pc'[u] # "test"
    BY <1>4 DEF Inside
  <2> QED BY <1>1, <1>2, <1>3, <1>4, <2>1, <2>2, <2>3 DEF Lengths
<1> QED BY <1>4, <1>6, <1>7, <1>8

(* A setter: a size that is set before the first item finds everything     *)
(* empty, and one that is set later ends the steadiness.                   *)
LEMMA SetterHolds ==
  ASSUME IInv, (\E n \in BatchSizes : SetBatchSize(n)) \/ (\E f \in Notifier : SetNotifier(f))
  PROVE  IInv'
<1> USE DEF IInv
<1>1. /\ cache_' = cache_ /\ pc' = pc /\ item' = item /\ batch' = batch /\ added' = added
      /\ delivered' = delivered /\ sizes' = sizes /\ dropped' = dropped
      /\ batch_size_' \in Nat /\ notifier_' \in Notifier /\ steady' \in BOOLEAN
      /\ (batch_size_' = batch_size_ /\ steady' = steady) \/ (steady' => added = <<>>)
  BY SizesNatural DEF SetBatchSize, SetNotifier, Typed, settings, notified
<1>2. Typed' /\ Alone' /\ Holding'
  BY <1>1 DEF Typed, Alone, Holding
<1>3. Lengths'
  <2>1. CASE batch_size_' = batch_size_ /\ steady' = steady
    <3>1. OneBatch' = OneBatch
      BY <2>1 DEF OneBatch
    <3> QED BY <1>1, <2>1, <3>1 DEF Lengths
  <2>2. CASE steady' => added = <<>>
    <3>1. added = <<>> => /\ cache_ = <<>> /\ sizes = {} /\ \A t \in Thread : pc[t] \notin Inside
      BY DEF Holding
    <3>2. OneBatch' \in Nat /\ OneBatch' >= 1 /\ Len(<<>>) = 0
      BY <1>1, EmptySeq DEF OneBatch
    <3> QED BY <1>1, <2>2, <3>1, <3>2 DEF Lengths, Inside, Emitting
  <2> QED BY <1>1, <2>1, <2>2
<1> QED BY <1>2, <1>3

LEMMA NextHolds == IInv /\ [Next]_vars => IInv'
<1> SUFFICES ASSUME IInv, [Next]_vars PROVE IInv'
  OBVIOUS
<1>0. /\ Len(cache_) \in Nat /\ batch_size_ \in Nat /\ steady \in BOOLEAN /\ item \in [Thread -> SUBSET Item]
      /\ OneBatch \in Nat /\ OneBatch >= batch_size_ /\ OneBatch = (IF batch_size_ = 0 THEN 1 ELSE batch_size_)
  BY Sizes DEF IInv, Typed, OneBatch
<1>1. ASSUME NEW t \in Thread, NEW x \in Item, AddItem(t, x) PROVE IInv'
  BY <1>1, AddItemHolds
<1>2. ASSUME NEW t \in Thread, Collect(t) PROVE IInv'
  BY <1>2, CollectHolds
<1>3. ASSUME NEW t \in Thread, Test(t) PROVE IInv'
  <2>1. /\ pc[t] = "test" /\ UNCHANGED <<cache_, settings, batch, added, notified, dropped>> /\ steady' = steady
    BY <1>3 DEF Test
  <2>2. batch = {}
    BY <2>1 DEF IInv, Holding, Alone, Inside
  <2>3. (steady => Len(cache_) <= OneBatch) /\ Len(cache_) >= 1
    BY <2>1, Sizes DEF IInv, Lengths, Holding, Inside
  <2>4. CASE Full /\ Goto(t, "emit") /\ UNCHANGED item
    <3>1. steady => Len(cache_) = OneBatch
      <4> SUFFICES ASSUME steady PROVE Len(cache_) = OneBatch
        OBVIOUS
      <4>1. Len(cache_) >= batch_size_
        BY <2>4 DEF Full
      <4>2. Len(cache_) >= OneBatch
        BY <1>0, <2>3, <4>1
      <4>3. Len(cache_) <= OneBatch
        BY <2>3
      <4>4. Len(cache_) \in Nat /\ OneBatch \in Nat
        BY <1>0
      <4> QED BY ONLY <4>2, <4>3, <4>4
    <3> QED BY <1>0, <2>1, <2>2, <2>4, <3>1, QuietHolds
  <2>5. CASE ~Full /\ Return(t)
    <3>1. Len(cache_) < OneBatch /\ item' \in [Thread -> SUBSET Item] /\ Goto(t, "out")
      BY <1>0, <2>5 DEF Full, Return
    <3> QED BY <1>0, <2>1, <2>2, <3>1, QuietHolds
  <2> QED BY <1>3, <2>4, <2>5 DEF Test
<1>9. ASSUME NEW t \in Thread, FindNotifier(t) PROVE IInv'
  <2>1. /\ pc[t] = "emit" /\ UNCHANGED <<cache_, settings, added, notified, dropped>> /\ steady' = steady
        /\ item' = item /\ Goto(t, "launch") /\ batch' = batch
    BY <1>9 DEF FindNotifier
  <2>2. batch = {}
    BY <2>1 DEF IInv, Holding, Alone, Inside
  <2>3. steady => Len(cache_) = OneBatch
    BY <2>1 DEF IInv, Lengths, Emitting
  <2> QED BY <1>0, <2>1, <2>2, <2>3, QuietHolds
<1>4. ASSUME NEW t \in Thread, Launch(t) PROVE IInv'
  <2>1. /\ pc[t] = "launch" /\ UNCHANGED <<cache_, settings, added, notified, dropped>> /\ steady' = steady
        /\ item' = item /\ Goto(t, "wait") /\ \A b \in batch' : b.items = cache_
    BY <1>4 DEF Launch
  <2>2. steady => Len(cache_) = OneBatch
    BY <2>1 DEF IInv, Lengths, Emitting
  <2> QED BY <1>0, <2>1, <2>2, QuietHolds
<1>5. ASSUME NEW t \in Thread, LaunchFails(t) PROVE IInv'
  <2>1. /\ pc[t] = "launch" /\ UNCHANGED <<cache_, settings, added, notified, dropped>> /\ steady' = FALSE
        /\ Goto(t, "out") /\ item' \in [Thread -> SUBSET Item] /\ batch' = batch
    BY <1>0, <1>5 DEF LaunchFails, Return
  <2>2. batch = {}
    BY <2>1 DEF IInv, Holding, Alone, Inside
  <2> QED BY <2>1, <2>2, QuietHolds
<1>6. ASSUME NEW t \in Thread, Notify(t) PROVE IInv'
  BY <1>6, NotifyHolds
<1>7. ASSUME NEW t \in Thread, Discard(t) \/ Clear(t) PROVE IInv'
  BY <1>7, ClearHolds
<1>10. ASSUME NEW t \in Thread, NotifyNobody(t) PROVE IInv'
  <2>1. /\ pc[t] = "wait" /\ UNCHANGED <<cache_, settings, added, notified>> /\ steady' = steady
        /\ item' = item /\ Goto(t, "clear") /\ batch' = {}
    BY <1>10 DEF NotifyNobody
  <2>2. steady => Len(cache_) = OneBatch
    BY <2>1 DEF IInv, Lengths, Emitting
  <2> QED BY <1>0, <2>1, <2>2, QuietHolds
<1>8. CASE UNCHANGED vars
  BY <1>8 DEF vars, settings, notified, IInv, Typed, Alone, Holding, Lengths, OneBatch
<1> QED BY <1>1, <1>2, <1>3, <1>4, <1>5, <1>6, <1>7, <1>8, <1>9, <1>10, SetterHolds DEF Next, Progress

LEMMA Invariance == Spec => []IInv
BY InitHolds, NextHolds, PTL DEF Spec

-----------------------------------------------------------------------------
(* Batcher gives its notifier batches of just the size that was set before *)
(* the first item, and an AddItem that has returned leaves no full batch   *)
(* in the cache, for any number of threads and any sizes.                  *)
THEOREM BatchesAreFull == Spec => []FullBatches
<1>1. IInv => FullBatches
  BY DEF IInv, Lengths, FullBatches, MutexFree, At
<1> QED BY <1>1, Invariance, PTL

-----------------------------------------------------------------------------
(* The order of the items.                                                 *)

Sent == delivered \o Undelivered

\* The batch of the thread that waits for its notifier.
Handed ==
  /\ batch \subseteq [items : Seq(Item), notifier : Notifier]
  /\ (\E t \in Thread : pc[t] = "wait") => batch # {}

\* An item is in one AddItem, or in the cache after it.
Distinct ==
  /\ IsInjective(added) /\ dropped \subseteq Range(added)
  /\ \A t \in Thread : pc[t] = "lock" =>
       item[t] \cap Range(added) = {} /\ \A u \in Thread \ {t} : item[u] \cap item[t] = {}

Ordered == Selected(Sent, added, dropped)

OrderInv == Handed /\ Distinct /\ Ordered

\* The items are in the cache until the notifier has been given them.
LEMMA UndeliveredIs ==
  ASSUME NEW t \in Thread
  PROVE  /\ (\A u \in Thread : pc[u] \notin {"clear", "stuck"}) => Undelivered = cache_
         /\ pc[t] \in {"clear", "stuck"} => Undelivered = <<>>
BY DEF Undelivered, At

LEMMA SentIs == ASSUME Typed PROVE Undelivered \in Seq(Item) /\ Sent \in Seq(Item)
<1>1. Undelivered \in Seq(Item)
  BY EmptySeq DEF Undelivered, Typed
<1> QED BY <1>1, ConcatProperties DEF Sent, Typed

LEMMA AppendOfConcat ==
  ASSUME NEW s \in Seq(Item), NEW c \in Seq(Item), NEW x \in Item
  PROVE  Append(s \o c, x) = s \o Append(c, x)
<1>1. <<x>> \in Seq(Item) /\ s \o c \in Seq(Item)
  BY ConcatProperties
<1>2. Append(s \o c, x) = (s \o c) \o <<x>> /\ Append(c, x) = c \o <<x>>
  BY <1>1, AppendIsConcat
<1> QED BY <1>1, <1>2, ConcatAssociative

LEMMA RangeOfAppend ==
  ASSUME NEW s \in Seq(Item), NEW x \in Item
  PROVE  /\ Append(s, x) \in Seq(Item) /\ Len(Append(s, x)) = Len(s) + 1 /\ Len(s) \in Nat
         /\ \A i \in 1..Len(s) : Append(s, x)[i] = s[i]
         /\ Append(s, x)[Len(s) + 1] = x
         /\ Range(Append(s, x)) = Range(s) \cup {x}
<1>1. /\ Append(s, x) \in Seq(Item) /\ Len(Append(s, x)) = Len(s) + 1 /\ Len(s) \in Nat
      /\ \A i \in 1..Len(s) : Append(s, x)[i] = s[i]
      /\ Append(s, x)[Len(s) + 1] = x
  BY AppendProperties, LenProperties
<1>2. Range(s) = {s[i] : i \in 1..Len(s)} /\ Range(Append(s, x)) = {Append(s, x)[i] : i \in 1..(Len(s) + 1)}
  BY <1>1, RangeEquality
<1>3. \A i : i \in 1..(Len(s) + 1) <=> i \in 1..Len(s) \/ i = Len(s) + 1
  BY <1>1
<1> QED BY <1>1, <1>2, <1>3

\* An item enters the cache behind all others.
LEMMA SelectedAppend ==
  ASSUME NEW s \in Seq(Item), NEW a \in Seq(Item), NEW d, NEW x \in Item, x \notin Range(a), d \subseteq Range(a),
         Selected(s, a, d), IsInjective(a)
  PROVE  Selected(Append(s, x), Append(a, x), d) /\ IsInjective(Append(a, x))
<1>1. /\ DOMAIN s = 1..Len(s) /\ DOMAIN a = 1..Len(a)
      /\ DOMAIN Append(s, x) = 1..(Len(s) + 1) /\ DOMAIN Append(a, x) = 1..(Len(a) + 1)
  BY RangeOfAppend, LenProperties
<1>2. Range(Append(s, x)) = Range(Append(a, x)) \ d
  BY RangeOfAppend DEF Selected
<1>3. ASSUME NEW i \in 1..(Len(s) + 1), NEW j \in 1..(Len(s) + 1), i < j
      PROVE  \E k, l \in 1..(Len(a) + 1) : k < l /\ Append(s, x)[i] = Append(a, x)[k] /\ Append(s, x)[j] = Append(a, x)[l]
  <2>1. i \in 1..Len(s) /\ Append(s, x)[i] = s[i]
    BY <1>3, RangeOfAppend
  <2>2. CASE j = Len(s) + 1
    <3>1. s[i] \in Range(a)
      BY <2>1, RangeEquality DEF Selected
    <3>2. PICK k \in 1..Len(a) : s[i] = a[k]
      BY <3>1, RangeEquality
    <3>3. k < Len(a) + 1 /\ k \in 1..(Len(a) + 1) /\ Len(a) + 1 \in 1..(Len(a) + 1)
      BY RangeOfAppend
    <3>4. Append(a, x)[k] = a[k] /\ Append(a, x)[Len(a) + 1] = x /\ Append(s, x)[j] = x
      BY <2>2, RangeOfAppend
    <3> QED BY <2>1, <3>2, <3>3, <3>4
  <2>3. CASE j # Len(s) + 1
    <3>1. j \in 1..Len(s) /\ Append(s, x)[j] = s[j]
      BY <2>3, RangeOfAppend
    <3>2. PICK k \in 1..Len(a), l \in 1..Len(a) : k < l /\ s[i] = a[k] /\ s[j] = a[l]
      BY <1>1, <1>3, <2>1, <3>1 DEF Selected
    <3>3. Append(a, x)[k] = a[k] /\ Append(a, x)[l] = a[l] /\ k \in 1..(Len(a) + 1) /\ l \in 1..(Len(a) + 1)
      BY RangeOfAppend
    <3> QED BY <2>1, <3>1, <3>2, <3>3
  <2> QED BY <2>2, <2>3
<1>4. Selected(Append(s, x), Append(a, x), d)
  <2> DEFINE Later(m, n) ==
               \A i, j \in 1..m : i < j => \E k, l \in 1..n : k < l /\ Append(s, x)[i] = Append(a, x)[k]
                                                                  /\ Append(s, x)[j] = Append(a, x)[l]
  <2>1. Later(Len(s) + 1, Len(a) + 1)
    BY <1>3
  <2>2. Len(Append(s, x)) = Len(s) + 1 /\ Len(Append(a, x)) = Len(a) + 1
    BY RangeOfAppend
  <2> HIDE DEF Later
  <2>3. Later(Len(Append(s, x)), Len(Append(a, x)))
    BY <2>1, <2>2
  <2> QED BY <1>2, <2>3 DEF Selected, Later
<1>5. ASSUME NEW k \in 1..(Len(a) + 1), NEW l \in 1..(Len(a) + 1), Append(a, x)[k] = Append(a, x)[l] PROVE k = l
  <2>1. \A m \in 1..Len(a) : Append(a, x)[m] = a[m] /\ a[m] # x
    BY RangeOfAppend, RangeEquality
  <2>2. \A m \in 1..(Len(a) + 1) : m \in 1..Len(a) \/ m = Len(a) + 1
    BY RangeOfAppend
  <2>3. \A m, n \in 1..Len(a) : a[m] = a[n] => m = n
    BY <1>1 DEF IsInjective
  <2> QED BY <1>5, <2>1, <2>2, <2>3, RangeOfAppend
<1> QED BY <1>1, <1>4, <1>5 DEF IsInjective

\* What was in the cache is dropped: the items before it are the ones that are left.
LEMMA SelectedFront ==
  ASSUME NEW s \in Seq(Item), NEW c \in Seq(Item), NEW a \in Seq(Item), NEW d,
         Selected(s \o c, a, d), IsInjective(a)
  PROVE  Selected(s, a, d \cup Range(c))
<1>1. /\ DOMAIN s = 1..Len(s) /\ DOMAIN a = 1..Len(a) /\ DOMAIN (s \o c) = 1..(Len(s) + Len(c))
      /\ Len(s) \in Nat /\ Len(c) \in Nat
      /\ \A i \in 1..Len(s) : (s \o c)[i] = s[i]
      /\ \A j \in 1..Len(c) : (s \o c)[Len(s) + j] = c[j]
  BY ConcatProperties, LenProperties
<1>0. \A i, j \in 1..(Len(s) + Len(c)) :
        i < j => \E k, l \in 1..Len(a) : k < l /\ (s \o c)[i] = a[k] /\ (s \o c)[j] = a[l]
  <2> DEFINE Later(n) == \A i, j \in 1..n :
                           i < j => \E k, l \in 1..Len(a) : k < l /\ (s \o c)[i] = a[k] /\ (s \o c)[j] = a[l]
  <2>1. Later(Len(s \o c))
    BY DEF Selected
  <2>2. Len(s \o c) = Len(s) + Len(c)
    BY ConcatProperties
  <2> HIDE DEF Later
  <2>3. Later(Len(s) + Len(c))
    BY <2>1, <2>2
  <2> QED BY <2>3 DEF Later
<1>2. Range(s \o c) = Range(s) \cup Range(c)
  BY RangeConcatenation
<1>3. Range(s) = {s[i] : i \in 1..Len(s)} /\ Range(c) = {c[i] : i \in 1..Len(c)}
  BY RangeEquality
<1>4. Range(s) \cap Range(c) = {}
  <2> SUFFICES ASSUME NEW i \in 1..Len(s), NEW j \in 1..Len(c) PROVE s[i] # c[j]
    BY <1>3
  <2>1. i \in 1..(Len(s) + Len(c)) /\ Len(s) + j \in 1..(Len(s) + Len(c)) /\ i < Len(s) + j
    BY <1>1
  <2>2. (s \o c)[i] = s[i] /\ (s \o c)[Len(s) + j] = c[j]
    BY <1>1
  <2>3. PICK k \in 1..Len(a), l \in 1..Len(a) : k < l /\ (s \o c)[i] = a[k] /\ (s \o c)[Len(s) + j] = a[l]
    BY ONLY <1>0, <2>1
  <2>4. a[k] # a[l]
    BY <1>1, <2>3, LenProperties DEF IsInjective
  <2> QED BY <2>2, <2>3, <2>4
<1>5. Range(s) = Range(a) \ (d \cup Range(c))
  BY <1>2, <1>4 DEF Selected
<1>6. ASSUME NEW i \in 1..Len(s), NEW j \in 1..Len(s), i < j
      PROVE  \E k, l \in 1..Len(a) : k < l /\ s[i] = a[k] /\ s[j] = a[l]
  <2>1. i \in 1..(Len(s) + Len(c)) /\ j \in 1..(Len(s) + Len(c)) /\ (s \o c)[i] = s[i] /\ (s \o c)[j] = s[j]
    BY <1>1
  <2> QED BY ONLY <1>0, <1>6, <2>1
<1> QED BY <1>5, <1>6 DEF Selected

LEMMA OrderInit == Init => OrderInv
<1> SUFFICES ASSUME Init PROVE OrderInv
  OBVIOUS
<1>1. Handed
  BY DEF Init, Handed
<1>2. Range(<<>>) = {} /\ IsInjective(<<>>) /\ Len(<<>>) = 0
  BY EmptySeq DEF Range, IsInjective
<1>3. Distinct
  BY <1>2 DEF Init, Distinct
<1>4. Sent = <<>>
  BY ConcatEmptySeq, EmptySeq DEF Init, Sent, Undelivered
<1>5. Ordered
  BY <1>2, <1>4 DEF Init, Ordered, Selected
<1> QED BY <1>1, <1>3, <1>5 DEF OrderInv

\* A step with m_ that brings no item in and drops none.
LEMMA OrderKept ==
  ASSUME OrderInv, UNCHANGED <<added, dropped>>, Sent' = Sent, Handed',
         \A t \in Thread : /\ pc'[t] = "lock" => pc[t] = "lock" /\ item'[t] = item[t]
                          /\ item'[t] \subseteq item[t]
  PROVE  OrderInv'
<1>1. Distinct'
  BY DEF OrderInv, Distinct
<1>2. Ordered'
  BY DEF OrderInv, Ordered
<1> QED BY <1>1, <1>2 DEF OrderInv

\* What becomes of the argument of AddItem when the thread with m_ moves.
LEMMA ItemsKept ==
  ASSUME Typed, NEW t \in Thread, NEW l, l # "lock", pc' = [pc EXCEPT ![t] = l],
         item' = item \/ item' = [item EXCEPT ![t] = {}]
  PROVE  \A u \in Thread : /\ pc'[u] = "lock" => pc[u] = "lock" /\ item'[u] = item[u]
                           /\ item'[u] \subseteq item[u]
BY DEF Typed

LEMMA OrderNext == IInv /\ OrderInv /\ [Next]_vars => OrderInv'
<1> SUFFICES ASSUME IInv, OrderInv, [Next]_vars PROVE OrderInv'
  OBVIOUS
<1>0. /\ Typed /\ Alone /\ Holding /\ Handed /\ Distinct /\ Ordered
      /\ Undelivered \in Seq(Item) /\ Sent \in Seq(Item)
  BY SentIs DEF IInv, OrderInv
<1>1. ASSUME NEW t \in Thread, NEW x \in Item, AddItem(t, x) PROVE OrderInv'
  <2>1. /\ pc[t] = "out" /\ x \notin Range(added) /\ \A u \in Thread : x \notin item[u]
        /\ pc' = [pc EXCEPT ![t] = "lock"] /\ item' = [item EXCEPT ![t] = {x}]
        /\ UNCHANGED <<cache_, batch, added, delivered, dropped>>
    BY <1>1 DEF AddItem, Goto, notified
  <2>2. Handed'
    BY <1>0, <2>1 DEF Handed, Typed
  <2>3. Distinct'
    <3>1. ASSUME NEW u \in Thread, pc'[u] = "lock", NEW v \in Thread \ {u}
          PROVE  item'[u] \cap Range(added) = {} /\ item'[v] \cap item'[u] = {}
      BY <1>0, <2>1, <3>1 DEF Distinct, Typed
    <3>2. item'[t] \cap Range(added) = {}
      BY <1>0, <2>1 DEF Typed
    <3>3. ASSUME NEW u \in Thread, pc'[u] = "lock" PROVE item'[u] \cap Range(added) = {}
      BY <1>0, <2>1, <3>2, <3>3 DEF Distinct, Typed
    <3> QED BY <1>0, <2>1, <3>1, <3>3 DEF Distinct
  <2>4. Sent' = Sent
    BY <1>0, <2>1 DEF Sent, Undelivered, At, Typed
  <2> QED BY <1>0, <2>1, <2>2, <2>3, <2>4 DEF OrderInv, Ordered
<1>2. ASSUME NEW t \in Thread, Collect(t) PROVE OrderInv'
  <2>1. /\ pc[t] = "lock" /\ \A u \in Thread : pc[u] \notin Inside
        /\ pc' = [pc EXCEPT ![t] = "test"] /\ UNCHANGED <<item, batch, delivered, dropped>>
    BY <1>2 DEF Collect, MutexFree, At, Goto, notified
  <2>2. PICK x \in item[t] : cache_' = Append(cache_, x) /\ added' = Append(added, x)
    BY <1>2 DEF Collect
  <2>3. x \in Item /\ x \notin Range(added) /\ dropped \subseteq Range(added)
    BY <1>0, <2>1, <2>2 DEF Typed, Distinct
  <2>4. Sent' = Append(Sent, x)
    <3>1. Undelivered = cache_ /\ Undelivered' = cache_'
      BY <1>0, <2>1 DEF Undelivered, At, Inside, Typed
    <3> QED BY <1>0, <2>1, <2>2, <2>3, <3>1, AppendOfConcat DEF Sent, Typed
  <2>5. Selected(Append(Sent, x), Append(added, x), dropped) /\ IsInjective(Append(added, x))
    BY <1>0, <2>3, SelectedAppend DEF Typed, Distinct, Ordered
  <2>6. Range(added') = Range(added) \cup {x}
    BY <1>0, <2>2, <2>3, RangeOfAppend DEF Typed
  <2>7. Handed'
    BY <1>0, <2>1 DEF Handed, Typed
  <2>8. Distinct'
    BY <1>0, <2>1, <2>2, <2>3, <2>5, <2>6 DEF Distinct, Typed
  <2> QED BY <2>1, <2>2, <2>4, <2>5, <2>7, <2>8 DEF OrderInv, Ordered
<1>3. ASSUME NEW t \in Thread, Test(t) \/ FindNotifier(t) \/ Launch(t) \/ LaunchFails(t) PROVE OrderInv'
  <2>1. PICK l \in {"emit", "launch", "out", "wait"} :
          /\ pc[t] \in {"test", "emit", "launch"} /\ pc' = [pc EXCEPT ![t] = l]
          /\ item' = item \/ item' = [item EXCEPT ![t] = {}]
          /\ UNCHANGED <<cache_, added, delivered, dropped>>
    BY <1>3 DEF Test, FindNotifier, Launch, LaunchFails, Return, Goto, notified
  <2>2. Sent' = Sent
    <3>1. \A u \in Thread : pc'[u] \in {"clear", "stuck"} <=> pc[u] \in {"clear", "stuck"}
      BY <1>0, <2>1 DEF Typed
    <3> QED BY <2>1, <3>1 DEF Sent, Undelivered, At
  <2>3. Handed'
    <3>1. CASE Launch(t)
      BY <1>0, <3>1 DEF Launch, Handed, Typed
    <3>2. CASE Test(t) \/ FindNotifier(t) \/ LaunchFails(t)
      BY <1>0, <3>2 DEF Test, FindNotifier, LaunchFails, Return, Goto, Handed, Typed
    <3> QED BY <1>3, <3>1, <3>2
  <2>4. \A u \in Thread : /\ pc'[u] = "lock" => pc[u] = "lock" /\ item'[u] = item[u]
                          /\ item'[u] \subseteq item[u]
    BY <1>0, <2>1, ItemsKept
  <2> QED BY <2>1, <2>2, <2>3, <2>4, OrderKept
<1>4. ASSUME NEW t \in Thread, Notify(t) PROVE OrderInv'
  <2>1. PICK l \in {"stuck", "clear"} : /\ pc' = [pc EXCEPT ![t] = l] /\ delivered' = delivered \o cache_
    BY <1>0, <1>4 DEF Notify, Holding, Goto
  <2>2. pc[t] = "wait" /\ batch' = {} /\ UNCHANGED <<item, cache_, added, dropped>>
    BY <1>4 DEF Notify
  <2>3. \A u \in Thread : u # t => pc[u] \notin Inside
    BY <1>0, <2>2 DEF Alone, Inside
  <2>4. Sent' = Sent
    <3>1. Undelivered = cache_ /\ Undelivered' = <<>>
      <4>1. At({"clear", "stuck"}) = {}
        BY <2>2, <2>3 DEF At, Inside
      <4>2. t \in At({"clear", "stuck"})'
        BY <1>0, <2>1 DEF At, Typed
      <4> QED BY <4>1, <4>2 DEF Undelivered
    <3>2. delivered \o cache_ \in Seq(Item)
      BY <1>0, ConcatProperties DEF Typed
    <3> QED BY <2>1, <3>1, <3>2, ConcatEmptySeq DEF Sent
  <2>5. Handed'
    BY <1>0, <2>1, <2>2, <2>3 DEF Handed, Typed, Inside
  <2>6. \A u \in Thread : /\ pc'[u] = "lock" => pc[u] = "lock" /\ item'[u] = item[u]
                          /\ item'[u] \subseteq item[u]
    BY <1>0, <2>1, <2>2, ItemsKept
  <2> QED BY <2>2, <2>4, <2>5, <2>6, OrderKept
<1>5. ASSUME NEW t \in Thread, Discard(t) \/ Clear(t) PROVE OrderInv'
  <2>1. /\ pc[t] \in {"emit", "clear"} /\ pc' = [pc EXCEPT ![t] = "out"] /\ item' = [item EXCEPT ![t] = {}]
        /\ cache_' = <<>> /\ UNCHANGED <<batch, added, delivered>>
    BY <1>5 DEF Discard, Clear, Return, Goto, notified
  <2>2. Sent' = delivered
    BY <1>0, <2>1, ConcatEmptySeq DEF Sent, Undelivered, Typed
  <2>3. Handed'
    BY <1>0, <2>1 DEF Handed, Typed
  <2>4. \A u \in Thread : /\ pc'[u] = "lock" => pc[u] = "lock" /\ item'[u] = item[u]
                          /\ item'[u] \subseteq item[u]
    BY <1>0, <2>1, ItemsKept
  <2>5. CASE Clear(t)
    <3>1. Sent = delivered
      <4>1. Undelivered = <<>>
        BY <2>5, UndeliveredIs DEF Clear
      <4> QED BY <1>0, <4>1, ConcatEmptySeq DEF Sent, Typed
    <3>2. dropped' = dropped
      BY <2>5 DEF Clear
    <3> QED BY <2>1, <2>2, <2>3, <2>4, <3>1, <3>2, OrderKept
  <2>6. CASE Discard(t)
    <3>1. dropped' = dropped \cup Range(cache_) /\ pc[t] = "emit"
      BY <2>6 DEF Discard
    <3>2. Sent = delivered \o cache_
      <4>1. \A u \in Thread : pc[u] \notin {"clear", "stuck"}
        BY <1>0, <3>1 DEF Alone, Inside
      <4> QED BY <4>1, UndeliveredIs DEF Sent
    <3>3. Selected(delivered, added, dropped \cup Range(cache_))
      BY <1>0, <3>2, SelectedFront DEF Ordered, Distinct, Typed
    <3>4. Range(cache_) \subseteq Range(added)
      BY <1>0, <3>2, RangeConcatenation DEF Ordered, Selected, Typed
    <3>5. Distinct'
      BY <1>0, <2>1, <2>4, <3>1, <3>4 DEF Distinct
    <3>6. Ordered'
      BY <2>1, <2>2, <3>1, <3>3 DEF Ordered
    <3> QED BY <2>3, <3>5, <3>6 DEF OrderInv
  <2> QED BY <1>5, <2>5, <2>6
<1>6. ASSUME (\E n \in BatchSizes : SetBatchSize(n)) \/ (\E f \in Notifier : SetNotifier(f)) PROVE OrderInv'
  <2>1. UNCHANGED <<cache_, pc, item, batch, added, delivered, dropped>>
    BY <1>6 DEF SetBatchSize, SetNotifier, notified
  <2> QED BY <1>0, <2>1 DEF OrderInv, Handed, Distinct, Ordered, Sent, Undelivered, At
<1>8. ASSUME NEW t \in Thread, NotifyNobody(t) PROVE OrderInv'
  <2>1. /\ pc[t] = "wait" /\ pc' = [pc EXCEPT ![t] = "clear"] /\ dropped' = dropped \cup Range(cache_)
        /\ batch' = {} /\ UNCHANGED <<item, cache_, added, delivered>>
    BY <1>0, <1>8 DEF NotifyNobody, Holding, Goto, notified
  <2>2. \A u \in Thread : u # t => pc[u] \notin Inside
    BY <1>0, <2>1 DEF Alone, Inside
  <2>3. Handed'
    BY <1>0, <2>1, <2>2 DEF Handed, Typed, Inside
  <2>4. \A u \in Thread : /\ pc'[u] = "lock" => pc[u] = "lock" /\ item'[u] = item[u]
                          /\ item'[u] \subseteq item[u]
    BY <1>0, <2>1, ItemsKept
  <2>5. Sent = delivered \o cache_
    <3>1. \A u \in Thread : pc[u] \notin {"clear", "stuck"}
      BY <2>1, <2>2 DEF Inside
    <3> QED BY <3>1, UndeliveredIs DEF Sent
  <2>6. Sent' = delivered
    <3>1. t \in At({"clear", "stuck"})'
      BY <1>0, <2>1 DEF At, Typed
    <3> QED BY <1>0, <2>1, <3>1, ConcatEmptySeq DEF Sent, Undelivered, Typed
  <2>7. Selected(delivered, added, dropped \cup Range(cache_))
    BY <1>0, <2>5, SelectedFront DEF Ordered, Distinct, Typed
  <2>8. Range(cache_) \subseteq Range(added)
    BY <1>0, <2>5, RangeConcatenation DEF Ordered, Selected, Typed
  <2>9. Distinct'
    BY <1>0, <2>1, <2>4, <2>8 DEF Distinct
  <2>10. Ordered'
    BY <2>1, <2>6, <2>7 DEF Ordered
  <2> QED BY <2>3, <2>9, <2>10 DEF OrderInv
<1>7. CASE UNCHANGED vars
  BY <1>0, <1>7 DEF vars, notified, OrderInv, Handed, Distinct, Ordered, Sent, Undelivered, At
<1> QED BY <1>1, <1>2, <1>3, <1>4, <1>5, <1>6, <1>7, <1>8 DEF Next, Progress

LEMMA OrderInvariance == Spec => [](IInv /\ OrderInv)
BY Invariance, OrderInit, OrderNext, PTL DEF Spec

(* Through changes of the settings, notifiers that call back, and failures *)
(* of std::async: every item whose AddItem has got m_ was given to a       *)
(* notifier or is in the cache, once and in the order of the calls, but    *)
(* for the full batches that found no notifier or lost it before it was    *)
(* copied.                                                                 *)
THEOREM ItemsInOrder == Spec => []InOrder
<1>1. IInv /\ OrderInv => InOrder
  <2> SUFFICES ASSUME IInv, OrderInv PROVE InOrder
    OBVIOUS
  <2>1. dropped \subseteq Item
    BY RangeOfSeq DEF IInv, OrderInv, Distinct, Typed
  <2>2. sizes \subseteq Nat
    BY DEF IInv, Typed
  <2>3. batch # {} <=> At({"wait"}) # {}
    BY DEF IInv, OrderInv, Holding, Handed, At
  <2>4. \A t, u \in At(Inside) : t = u
    BY DEF IInv, Alone, At
  <2>5. TypeOK
    BY <2>1, <2>2, <2>3, <2>4 DEF IInv, OrderInv, Handed, Typed, TypeOK
  <2> QED BY <2>5 DEF InOrder, OrderInv, Distinct, Ordered, Sent
<1> QED BY <1>1, OrderInvariance, PTL
=============================================================================
