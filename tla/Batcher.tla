------------------------------ MODULE Batcher ------------------------------
(***************************************************************************)
(* class Batcher (batcher.h).  AddItem collects items under m_; with       *)
(* enough of them Emit hands a copy of the cache to the notifier, in a     *)
(* thread of std::async.  The future is a temporary: its destructor waits  *)
(* for the notifier, with m_ held and the items still in the cache.  The   *)
(* setters take no lock and come between any two steps; one that overlaps  *)
(* a single access is a data race, which the using program has to exclude. *)
(***************************************************************************)
EXTENDS Naturals, SequencesExt

CONSTANTS
  Thread,       \* the threads that call AddItem
  Item,
  BatchSizes    \* the arguments of SetBatchSize that are tried

ASSUME SizesNatural == BatchSizes \subseteq Nat

VARIABLES
  cache_, batch_size_,
  notifier_,    \* "none", "plain", or "adds": one that calls AddItem
  pc,           \* where each thread is in AddItem
  item,         \* the argument of each thread's AddItem, {} or a singleton
  batch,        \* std::async's copies of cache_ and notifier_, {} or a singleton
  added,        \* history: the items in the order they entered the cache
  delivered,    \* history: the items in the order the notifiers were given them
  sizes,        \* history: the lengths of the batches they came in
  dropped,      \* history: the items that were cleared without a call of a notifier
  steady        \* history: since the first item no size was set and no std::async failed

settings == <<batch_size_, notifier_>>
notified == <<delivered, sizes>>
vars == <<cache_, settings, pc, item, batch, added, notified, dropped, steady>>

Notifier == {"none", "plain", "adds"}
Inside == {"test", "emit", "launch", "wait", "stuck", "clear"}   \* with m_ locked
PC == {"out", "lock"} \cup Inside

At(P) == {t \in Thread : pc[t] \in P}

Goto(t, l) == pc' = [pc EXCEPT ![t] = l]
Return(t) == Goto(t, "out") /\ item' = [item EXCEPT ![t] = {}]

Init ==
  /\ cache_ = <<>> /\ batch_size_ = 0 /\ notifier_ = "none"
  /\ pc = [t \in Thread |-> "out"] /\ item = [t \in Thread |-> {}]
  /\ batch = {}
  /\ added = <<>> /\ delivered = <<>> /\ sizes = {} /\ dropped = {} /\ steady = TRUE

-----------------------------------------------------------------------------
\* Mutant: a batch is emitted when the cache has grown beyond its size.
MutantFull == Len(cache_) > batch_size_

MutexFree == At(Inside) = {}
Full == Len(cache_) >= batch_size_

\* A thread calls AddItem ...
AddItem(t, x) ==
  /\ pc[t] = "out"
  /\ x \notin Range(added) \cup UNION {item[u] : u \in Thread}
  /\ item' = [item EXCEPT ![t] = {x}] /\ Goto(t, "lock")
  /\ UNCHANGED <<cache_, settings, batch, added, notified, dropped, steady>>

\* ... gets m_ and puts its item into the cache ...
Collect(t) ==
  /\ pc[t] = "lock" /\ MutexFree
  /\ \E x \in item[t] : cache_' = Append(cache_, x) /\ added' = Append(added, x)
  /\ Goto(t, "test")
  /\ UNCHANGED <<settings, item, batch, notified, dropped, steady>>

\* ... and is done, unless the batch is full.
Test(t) ==
  /\ pc[t] = "test"
  /\ \/ Full /\ Goto(t, "emit") /\ UNCHANGED item
     \/ ~Full /\ Return(t)
  /\ UNCHANGED <<cache_, settings, batch, added, notified, dropped, steady>>

-----------------------------------------------------------------------------
(* Emit *)

\* Mutant: a future is waited for although no notifier was started.
MutantDiscard(t) ==
  /\ pc[t] = "emit" /\ notifier_ = "none"
  /\ dropped' = dropped \cup Range(cache_) /\ cache_' = <<>>
  /\ Goto(t, "wait")
  /\ UNCHANGED <<settings, item, batch, added, notified, steady>>
\* Mutant: the cache is not cleared.
MutantClear(t) ==
  /\ pc[t] = "clear"
  /\ Return(t)
  /\ UNCHANGED <<cache_, settings, batch, added, notified, dropped, steady>>

\* Without a notifier the batch is cleared all the same.
Discard(t) ==
  /\ pc[t] = "emit" /\ notifier_ = "none"
  /\ dropped' = dropped \cup Range(cache_) /\ cache_' = <<>>
  /\ Return(t)
  /\ UNCHANGED <<settings, batch, added, notified, steady>>

FindNotifier(t) ==
  /\ pc[t] = "emit" /\ notifier_ # "none"
  /\ Goto(t, "launch")
  /\ UNCHANGED <<cache_, settings, item, batch, added, notified, dropped, steady>>

\* std::async copies the notifier that is there now, an empty one after SetNotifier(nullptr).
Launch(t) ==
  /\ pc[t] = "launch"
  /\ batch' = {[items |-> cache_, notifier |-> notifier_]}
  /\ Goto(t, "wait")
  /\ UNCHANGED <<cache_, settings, item, added, notified, dropped, steady>>

\* std::async throws when it gets no thread: AddItem ends, its item and the others stay.
LaunchFails(t) ==
  /\ pc[t] = "launch"
  /\ steady' = FALSE
  /\ Return(t)
  /\ UNCHANGED <<cache_, settings, batch, added, notified, dropped>>

\* The notifier runs; if it calls AddItem it waits for m_, which t keeps until it is over.
Notify(t) ==
  /\ pc[t] = "wait"
  /\ \E b \in batch :
       /\ b.notifier # "none"
       /\ delivered' = delivered \o b.items /\ sizes' = sizes \cup {Len(b.items)}
       /\ Goto(t, IF b.notifier = "adds" THEN "stuck" ELSE "clear")
  /\ batch' = {}
  /\ UNCHANGED <<cache_, settings, item, added, dropped, steady>>

\* An empty notifier throws bad_function_call, which stays in the future that nobody looks at.
NotifyNobody(t) ==
  /\ pc[t] = "wait"
  /\ \E b \in batch : b.notifier = "none" /\ dropped' = dropped \cup Range(b.items)
  /\ Goto(t, "clear")
  /\ batch' = {}
  /\ UNCHANGED <<cache_, settings, item, added, notified, steady>>

Clear(t) ==
  /\ pc[t] = "clear"
  /\ cache_' = <<>>
  /\ Return(t)
  /\ UNCHANGED <<settings, batch, added, notified, dropped, steady>>

-----------------------------------------------------------------------------
(* The setters (reserve changes nothing that can be seen). *)

SetBatchSize(n) ==
  /\ batch_size_' = n
  /\ steady' = (steady /\ added = <<>>)
  /\ UNCHANGED <<cache_, notifier_, pc, item, batch, added, notified, dropped>>

SetNotifier(f) ==
  /\ notifier_' = f
  /\ UNCHANGED <<cache_, batch_size_, pc, item, batch, added, notified, dropped, steady>>

Progress(t) ==
  \/ Collect(t) \/ Test(t) \/ Discard(t) \/ FindNotifier(t) \/ Launch(t) \/ LaunchFails(t)
  \/ Notify(t) \/ NotifyNobody(t) \/ Clear(t)

Next ==
  \/ \E t \in Thread : Progress(t) \/ \E x \in Item : AddItem(t, x)
  \/ \E n \in BatchSizes : SetBatchSize(n)
  \/ \E f \in Notifier : SetNotifier(f)

Spec == Init /\ [][Next]_vars

\* Threads are scheduled, get m_ when it stays free, and notifiers end; nobody has to add an item.
FairSpec == Spec /\ \A t \in Thread : WF_vars(Progress(t))

-----------------------------------------------------------------------------
\* A part of InOrder.
TypeOK ==
  /\ cache_ \in Seq(Item) /\ added \in Seq(Item) /\ delivered \in Seq(Item)
  /\ batch_size_ \in Nat /\ sizes \subseteq Nat /\ notifier_ \in Notifier
  /\ pc \in [Thread -> PC] /\ item \in [Thread -> SUBSET Item]
  /\ batch \subseteq [items : Seq(Item), notifier : Notifier]
  /\ batch # {} <=> At({"wait"}) # {}
  /\ \A t, u \in At(Inside) : t = u
  /\ dropped \subseteq Item /\ steady \in BOOLEAN

\* The items still to be given to a notifier: not those in the cache that are about to be cleared.
Undelivered == IF At({"clear", "stuck"}) = {} THEN cache_ ELSE <<>>

\* The items of s are those of a without those of d, in the order of a.
Selected(s, a, d) ==
  /\ Range(s) = Range(a) \ d
  /\ \A i, j \in 1..Len(s) : i < j => \E k, l \in 1..Len(a) : k < l /\ s[i] = a[k] /\ s[j] = a[l]

(* Every item reaches a notifier once and in the order of the AddItems,    *)
(* whatever the settings, the failures of std::async and the threads that  *)
(* wait meanwhile: between the copy for the notifier and cache_.clear()    *)
(* nothing may enter the cache.  Only a batch is lost that finds no        *)
(* notifier when it is full, or none any more when std::async copies it.   *)
InOrder == TypeOK /\ IsInjective(added) /\ Selected(delivered \o Undelivered, added, dropped)

OneBatch == IF batch_size_ = 0 THEN 1 ELSE batch_size_

(* With a size that was set before the first item the notifier is given    *)
(* batches of just this size (of one item if it is zero), and no full      *)
(* batch is left behind in the cache by an AddItem that has returned.      *)
FullBatches ==
  steady => sizes \subseteq {OneBatch} /\ (MutexFree => Len(cache_) < OneBatch)

(* AddItem returns, however many threads call it, unless a notifier that   *)
(* calls AddItem itself has been started: that one waits for the thread    *)
(* that waits for it.                                                      *)
AddItemReturns == \A t \in Thread : pc[t] # "out" ~> (pc[t] = "out" \/ At({"stuck"}) # {})
=============================================================================
