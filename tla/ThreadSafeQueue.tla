-------------------------- MODULE ThreadSafeQueue --------------------------
(***************************************************************************)
(* class ThreadSafeQueue (threadsafe_queue.h).  Every operation holds      *)
(* data_m_ from beginning to end, notify_one included, so it is one step;  *)
(* only WaitAndTryPop lets go of the mutex, while it waits.  A wait ends   *)
(* because of a notify, spuriously, or because rel_time is over, and the   *)
(* thread then has to get data_m_ back before it looks at the queue.       *)
(***************************************************************************)
EXTENDS TaskQueue

CONSTANT Consumer   \* the threads that call TryPop and WaitAndTryPop

ASSUME ConsumerFinite == IsFiniteSet(Consumer)

VARIABLES
  fifo,     \* the kind of queue: TRUE for TSQueue, FALSE for TSPriorityQueue
  timed,    \* FALSE when every rel_time is too long to run out
  q_,       \* the elements, in insertion order
  pc,       \* where each consumer is in WaitAndTryPop; "ready" outside
  pushed,   \* history: the elements inserted so far, in order
  popped    \* history: what was handed out, in order, and how many had been pushed then

kind == <<fifo, timed>>
vars == <<kind, q_, pc, pushed, popped>>

PC == {"ready", "waiting", "woken", "timedOut"}

At(l) == {c \in Consumer : pc[c] = l}

Goto(c, l) == pc' = [pc EXCEPT ![c] = l]

Init ==
  /\ fifo \in BOOLEAN /\ timed \in BOOLEAN
  /\ q_ = <<>>
  /\ pc = [c \in Consumer |-> "ready"]
  /\ pushed = <<>> /\ popped = <<>>

-----------------------------------------------------------------------------
\* Mutant: notify_one only when the queue was empty before the push.
MutantNotifyOne ==
  \/ (At("waiting") = {} \/ Len(pushed) > Len(popped)) /\ UNCHANGED pc
  \/ \E c \in At("waiting") : Goto(c, "woken")
\* Mutant: a consumer whose time is over does not look at the queue again.
MutantTimedOut(c) ==
  /\ pc[c] = "timedOut"
  /\ Goto(c, "waiting")
  /\ UNCHANGED <<kind, q_, pushed, popped>>

\* notempty_cond_.notify_one(): one of the threads in the wait, if there is any
NotifyOne ==
  \/ At("waiting") = {} /\ UNCHANGED pc
  \/ \E c \in At("waiting") : Goto(c, "woken")

GetFrontAndPop(i) ==
  /\ popped' = Append(popped, [task |-> q_[i], after |-> Len(pushed)])
  /\ q_' = RemoveAt(q_, i)

\* Push and Emplace: they differ in how the element is built, not in what they do to the queue.
Push(x) ==
  /\ x \notin Range(pushed)
  /\ q_' = Append(q_, x)
  /\ pushed' = Append(pushed, x)
  /\ NotifyOne
  /\ UNCHANGED <<kind, popped>>

\* Mutant: front() is read and back() removed.
MutantTryPop(c) ==
  /\ pc[c] = "ready" /\ q_ # <<>>
  /\ popped' = Append(popped, [task |-> q_[1], after |-> Len(pushed)])
  /\ q_' = Front(q_)
  /\ UNCHANGED <<kind, pc, pushed>>

\* TryPop, or WaitAndTryPop that need not wait; TryPop on an empty queue returns false and changes nothing.
TryPop(c) ==
  /\ pc[c] = "ready"
  /\ \E i \in Fronts(q_, fifo) : GetFrontAndPop(i)
  /\ UNCHANGED <<kind, pc, pushed>>

(* WaitAndTryPop on an empty queue; on any other it is a TryPop.  wait_for *)
(* evaluates the predicate !q_.empty() on entry, on every wakeup, and once *)
(* more when the time is over.                                             *)
WaitAndTryPop(c) ==
  /\ pc[c] = "ready"
  /\ q_ = <<>>
  /\ Goto(c, "waiting")
  /\ UNCHANGED <<kind, q_, pushed, popped>>

Wakeup(c) ==
  /\ pc[c] = "woken"
  /\ \/ (\E i \in Fronts(q_, fifo) : GetFrontAndPop(i)) /\ Goto(c, "ready")
     \/ q_ = <<>> /\ Goto(c, "waiting") /\ UNCHANGED <<q_, popped>>
  /\ UNCHANGED <<kind, pushed>>

TimedOut(c) ==
  /\ pc[c] = "timedOut"
  /\ \/ \E i \in Fronts(q_, fifo) : GetFrontAndPop(i)
     \/ q_ = <<>> /\ UNCHANGED <<q_, popped>>
  /\ Goto(c, "ready")
  /\ UNCHANGED <<kind, pushed>>

\* The wait ends without a notify: rel_time is over ...
Timeout(c) ==
  /\ timed /\ pc[c] = "waiting"
  /\ Goto(c, "timedOut")
  /\ UNCHANGED <<kind, q_, pushed, popped>>

\* ... or for no reason.
SpuriousWakeup(c) ==
  /\ pc[c] = "waiting"
  /\ Goto(c, "woken")
  /\ UNCHANGED <<kind, q_, pushed, popped>>

-----------------------------------------------------------------------------
Next ==
  \/ \E x \in Task : Push(x)
  \/ \E c \in Consumer :
       \/ TryPop(c) \/ WaitAndTryPop(c) \/ Wakeup(c)
       \/ Timeout(c) \/ TimedOut(c) \/ SpuriousWakeup(c)

Spec == Init /\ [][Next]_vars

(* A thread that was woken or whose time is over gets data_m_.  wait_for   *)
(* turns rel_time into a deadline: once it has passed, the next wait is    *)
(* over at once, however many wakeups came before, hence SF for Timeout.   *)
(* Nobody is obliged to push or to pop.                                    *)
FairSpec ==
  Spec /\ \A c \in Consumer : WF_vars(Wakeup(c)) /\ WF_vars(TimedOut(c)) /\ SF_vars(Timeout(c))

-----------------------------------------------------------------------------
\* A part of NothingLost.
TypeOK ==
  /\ fifo \in BOOLEAN /\ timed \in BOOLEAN
  /\ q_ \in Seq(Task) /\ pushed \in Seq(Task)
  /\ popped \in Seq([task : Task, after : Nat]) /\ Len(popped) <= Len(pushed)
  /\ pc \in [Consumer -> PC]

PoppedTasks == [i \in DOMAIN popped |-> popped[i].task]

(* Whatever the consumers do, each element is handed out at most once and  *)
(* none is lost; a TSQueue hands them out in the order they were pushed.   *)
NothingLost ==
  /\ TypeOK
  /\ IF fifo THEN pushed = PoppedTasks \o q_
     ELSE /\ Range(pushed) = Range(PoppedTasks) \cup Range(q_)
          /\ Len(pushed) = Len(popped) + Len(q_)

(* From a TSPriorityQueue an element comes out before a more urgent one    *)
(* only if the more urgent one was pushed afterwards.                      *)
UrgentFirst ==
  ~fifo => \A i, j \in DOMAIN popped :
             i < j /\ Less(popped[i].task, popped[j].task)
               => \E k \in DOMAIN pushed : k > popped[i].after /\ pushed[k] = popped[j].task

(* While a consumer sleeps every element has a consumer woken for it:      *)
(* neither a TryPop that steals the element of a woken consumer nor a      *)
(* timeout that races a Push leaves an element behind.                     *)
NothingStranded == At("waiting") # {} => Len(q_) <= Cardinality(At("woken"))

(* A call of WaitAndTryPop whose time can run out comes back, with or      *)
(* without an element.                                                     *)
WaitReturns == \A c \in Consumer : timed /\ pc[c] = "waiting" ~> pc[c] = "ready"

(* Even if no wait ever times out, elements and sleeping consumers do not  *)
(* stay together for ever.                                                 *)
ElementsMeetWaiters ==
  (q_ # <<>> /\ At("waiting") # {}) ~> (q_ = <<>> \/ At("waiting") = {})
=============================================================================
