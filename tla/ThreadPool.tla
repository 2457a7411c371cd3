----------------------------- MODULE ThreadPool -----------------------------
(***************************************************************************)
(* class ThreadPool (thread_pool.h): worker threads that run SetThread's   *)
(* lambda, client threads that call Push, VoidPush, Pop and ClearQueue,    *)
(* and the one thread that calls Resize, Stop and the destructor (the      *)
(* class asks for these not to be interleaved).                            *)
(*                                                                         *)
(* A step ends where another thread can see a difference: every operation  *)
(* on task_q_ is atomic (it holds data_m_), while mutex_ is held by a      *)
(* worker over two steps, from the empty TryPop of the wait predicate to   *)
(* the moment it sleeps or leaves.                                         *)
(***************************************************************************)
EXTENDS TaskQueue

CONSTANTS
  Fifo,         \* TRUE for EqualityThreadPool, FALSE for PriorityThreadPool
  Client,       \* the threads that push and pop
  MaxThreads,   \* bound: how many std::threads the pool ever creates
  Sizes,        \* the arguments of Resize that are tried
  SizeMod,      \* size_t counts modulo this
  Calls,        \* which of the pool's other calls the program makes
  Spurious      \* whether cv_.wait may return without a notify

ASSUME FifoBoolean == Fifo \in BOOLEAN
ASSUME ClientFinite == IsFiniteSet(Client)
ASSUME BoundsAreCounts ==
  MaxThreads \in Nat /\ SizeMod \in Nat /\ MaxThreads < SizeMod /\ Sizes \subseteq 0..(SizeMod - 1)

Worker == 1..MaxThreads   \* the threads, in the order they are created

VARIABLES
  task_q_,            \* the queue
  is_done_, is_stop_, \* set by Stop(true) and by Stop(false)
  threads_,           \* the vector: the threads that are not detached, by index
  flags_,             \* the threads whose flag is set (each shares its flag with the vector)
  pc,                 \* where each worker is
  holds,              \* the task a worker has popped, {} or a singleton
  pushing,            \* the task a client has inserted and not yet notified, {} or a singleton
  clearing,           \* the clients inside ClearQueue
  ctl,                \* where the controlling thread is in Resize, Stop or the destructor
  done,               \* history: the tasks that were run
  taken,              \* history: the tasks the clients took out of the queue
  dropped,            \* history: the tasks Stop took out of the queue
  owed                \* history: the tasks Stop(true) found queued, and those whose Push had returned

queueVars == <<task_q_, holds, done, taken, dropped>>
poolVars == <<is_done_, is_stop_, threads_, flags_>>
clientVars == <<pushing, clearing>>
vars == <<queueVars, poolVars, clientVars, pc, ctl, owed>>

PC == {"none", "pop", "run", "lock", "test", "block", "sleep", "wake", "exited"}

ControlPoint == {"idle", "shrink", "shrinkNotify", "setFlags", "clear", "notify",
                 "join", "finalClear", "destroyed", "undefined"}

At(P) == {w \in Worker : pc[w] \in P}

Goto(w, l) == pc' = [pc EXCEPT ![w] = l]

Size == Len(threads_)

\* mutex_ is held over a step only by a worker that found the queue empty.
MutexFree == At({"test", "block"}) = {}

Held == UNION {holds[w] : w \in Worker}
Known == Range(task_q_) \cup Held \cup done \cup taken \cup dropped
Detached == At(PC \ {"none"}) \ Range(threads_)

Init ==
  /\ task_q_ = <<>> /\ threads_ = <<>> /\ flags_ = {}
  /\ is_done_ = FALSE /\ is_stop_ = FALSE
  /\ pc = [w \in Worker |-> "none"] /\ holds = [w \in Worker |-> {}]
  /\ pushing = [c \in Client |-> {}] /\ clearing = {}
  /\ ctl = [at |-> "idle", n |-> 0, i |-> 0, dtor |-> FALSE]
  /\ done = {} /\ taken = {} /\ dropped = {}
  /\ owed = [queued |-> {}, pushed |-> {}]

-----------------------------------------------------------------------------
(* The workers *)

\* Mutant: TryPop copies the front and forgets to remove it.
MutantTake(w, i) ==
  /\ holds' = [holds EXCEPT ![w] = {task_q_[i]}]
  /\ UNCHANGED <<task_q_, done, taken, dropped>>
\* Mutant: t.func is kept after the call.
MutantKeepFunc(w) ==
  /\ pc[w] = "run"
  /\ done' = done \cup holds[w]
  /\ Goto(w, IF w \in flags_ THEN "exited" ELSE "pop")
  /\ UNCHANGED <<task_q_, holds, taken, dropped, poolVars, clientVars, ctl, owed>>
\* Mutant: after a task the worker looks at is_done_ too, before the queue is empty.
MutantLeaveEarly(w) ==
  /\ pc[w] = "run"
  /\ done' = done \cup holds[w]
  /\ holds' = [holds EXCEPT ![w] = {}]
  /\ Goto(w, IF w \in flags_ \/ is_done_ THEN "exited" ELSE "pop")
  /\ UNCHANGED <<task_q_, taken, dropped, poolVars, clientVars, ctl, owed>>

\* task_q_.TryPop(t) that succeeds: worker w has the task at position i.
Take(w, i) ==
  /\ task_q_' = RemoveAt(task_q_, i)
  /\ holds' = [holds EXCEPT ![w] = {task_q_[i]}]
  /\ UNCHANGED <<done, taken, dropped>>

WorkerPop(w) ==
  /\ pc[w] = "pop"
  /\ \/ (\E i \in Fronts(task_q_, Fifo) : Take(w, i)) /\ Goto(w, "run")
     \/ task_q_ = <<>> /\ Goto(w, "lock") /\ UNCHANGED queueVars
  /\ UNCHANGED <<poolVars, clientVars, ctl, owed>>

\* The task is run; the flag decides whether the worker looks for another one.
WorkerRun(w) ==
  /\ pc[w] = "run"
  /\ done' = done \cup holds[w]
  /\ holds' = [holds EXCEPT ![w] = {}]
  /\ Goto(w, IF w \in flags_ THEN "exited" ELSE "pop")
  /\ UNCHANGED <<task_q_, taken, dropped, poolVars, clientVars, ctl, owed>>

\* Mutant: the predicate looks at the flag before it pops.
MutantFlagFirst(w) ==
  /\ pc[w] \in {"lock", "wake"} /\ MutexFree
  /\ IF w \in flags_ THEN Goto(w, "exited") /\ UNCHANGED queueVars
     ELSE \/ (\E i \in Fronts(task_q_, Fifo) : Take(w, i)) /\ Goto(w, "run")
          \/ task_q_ = <<>> /\ Goto(w, "test") /\ UNCHANGED queueVars
  /\ UNCHANGED <<poolVars, clientVars, ctl, owed>>

(* The worker gets mutex_, first for the wait or back from it, and the     *)
(* predicate pops: with a task it lets the mutex go and runs it, otherwise *)
(* it keeps the mutex.                                                     *)
WorkerLock(w) ==
  /\ pc[w] \in {"lock", "wake"} /\ MutexFree
  /\ \/ (\E i \in Fronts(task_q_, Fifo) : Take(w, i)) /\ Goto(w, "run")
     \/ task_q_ = <<>> /\ Goto(w, "test") /\ UNCHANGED queueVars
  /\ UNCHANGED <<poolVars, clientVars, ctl, owed>>

\* Mutant: a wakeup without a task is taken for the command to leave.
MutantWorkerTest(w) ==
  /\ pc[w] = "test"
  /\ \/ Goto(w, "exited")
     \/ Goto(w, "block")
  /\ UNCHANGED <<queueVars, poolVars, clientVars, ctl, owed>>

\* ... || is_done_ || flag
WorkerTest(w) ==
  /\ pc[w] = "test"
  /\ Goto(w, IF is_done_ \/ w \in flags_ THEN "exited" ELSE "block")
  /\ UNCHANGED <<queueVars, poolVars, clientVars, ctl, owed>>

\* cv_.wait lets mutex_ go and sleeps: from now on, and not before, a notify reaches the worker.
WorkerBlock(w) ==
  /\ pc[w] = "block" /\ Goto(w, "sleep")
  /\ UNCHANGED <<queueVars, poolVars, clientVars, ctl, owed>>

SpuriousWakeup(w) ==
  /\ Spurious /\ pc[w] = "sleep" /\ Goto(w, "wake")
  /\ UNCHANGED <<queueVars, poolVars, clientVars, ctl, owed>>

NotifyAll == pc' = [w \in Worker |-> IF pc[w] = "sleep" THEN "wake" ELSE pc[w]]

-----------------------------------------------------------------------------
(* The clients *)

Free(c) == pushing[c] = {} /\ c \notin clearing /\ ctl.at # "destroyed"

\* Push and VoidPush put the task into the queue ...
Push(c, x) ==
  /\ Free(c) /\ x \notin Known
  /\ task_q_' = Append(task_q_, x)
  /\ pushing' = [pushing EXCEPT ![c] = {x}]
  /\ UNCHANGED <<holds, done, taken, dropped, poolVars, clearing, pc, ctl, owed>>

\* Mutant: the notify is left out while a worker is busy.
MutantPushNotify(c) ==
  /\ pushing[c] # {} /\ MutexFree
  /\ pushing' = [pushing EXCEPT ![c] = {}]
  /\ \/ (At({"sleep"}) = {} \/ At({"run"}) # {}) /\ UNCHANGED pc
     \/ \E w \in At({"sleep"}) : Goto(w, "wake")
  /\ UNCHANGED <<queueVars, poolVars, clearing, ctl, owed>>

\* ... and only then lock mutex_ and notify one worker.
PushNotify(c) ==
  /\ pushing[c] # {} /\ MutexFree
  /\ pushing' = [pushing EXCEPT ![c] = {}]
  /\ \/ At({"sleep"}) = {} /\ UNCHANGED pc
     \/ \E w \in At({"sleep"}) : Goto(w, "wake")
  /\ UNCHANGED <<queueVars, poolVars, clearing, ctl, owed>>

Discard(i) ==
  /\ task_q_' = RemoveAt(task_q_, i)
  /\ UNCHANGED <<holds, done>>

\* Pop: a task leaves the queue to its caller (an empty queue: nothing happens).
Pop(c) ==
  /\ "Pop" \in Calls /\ Free(c)
  /\ \E i \in Fronts(task_q_, Fifo) : Discard(i) /\ taken' = taken \cup {task_q_[i]}
  /\ UNCHANGED <<dropped, poolVars, clientVars, pc, ctl, owed>>

\* One round of ClearQueue's loop.
ClearQueue(c) ==
  /\ "ClearQueue" \in Calls /\ (Free(c) \/ c \in clearing)
  /\ \/ /\ \E i \in Fronts(task_q_, Fifo) : Discard(i) /\ taken' = taken \cup {task_q_[i]}
        /\ clearing' = clearing \cup {c}
     \/ task_q_ = <<>> /\ clearing' = clearing \ {c} /\ UNCHANGED <<task_q_, holds, done, taken>>
  /\ UNCHANGED <<dropped, poolVars, pushing, pc, ctl, owed>>

-----------------------------------------------------------------------------
(* The controlling thread: Resize *)

\* Mutant: the loop of a shrink begins behind the end.
MutantLastIndex == Size

\* old_n_threads - 1, where the loop of a shrink begins.
LastIndex == Size - 1

Resize(n) ==
  /\ ctl.at = "idle" /\ ~is_stop_ /\ ~is_done_
  /\ LET created == Cardinality(At(PC \ {"none"})) IN
     IF Size <= n
     THEN /\ created + n - Size <= MaxThreads
          /\ threads_' = threads_ \o [j \in 1..(n - Size) |-> created + j]
          /\ pc' = [w \in Worker |-> IF w \in Range(threads_') \ Range(threads_) THEN "pop" ELSE pc[w]]
          /\ UNCHANGED ctl
     ELSE /\ ctl' = [ctl EXCEPT !.at = "shrink", !.n = n, !.i = LastIndex]
          /\ UNCHANGED <<threads_, pc>>
  /\ UNCHANGED <<queueVars, is_done_, is_stop_, flags_, clientVars, owed>>

(* One round of the loop over i: set the flag and detach.  An index        *)
(* outside the vectors is undefined behaviour; the model leaves the        *)
(* controlling thread there.                                               *)
ShrinkFlag ==
  /\ ctl.at = "shrink"
  /\ IF ctl.i < ctl.n
     THEN ctl' = [ctl EXCEPT !.at = "shrinkNotify"] /\ UNCHANGED flags_
     ELSE IF ctl.i < Size
     THEN /\ flags_' = flags_ \cup {threads_[ctl.i + 1]}
          /\ ctl' = [ctl EXCEPT !.i = (@ - 1) % SizeMod]
     ELSE ctl' = [ctl EXCEPT !.at = "undefined"] /\ UNCHANGED flags_
  /\ UNCHANGED <<queueVars, is_done_, is_stop_, threads_, clientVars, pc, owed>>

\* Mutant: notify_all without mutex_, as Stop does it.
MutantShrinkNotify ==
  /\ ctl.at = "shrinkNotify"
  /\ NotifyAll
  /\ threads_' = SubSeq(threads_, 1, ctl.n)
  /\ ctl' = [ctl EXCEPT !.at = "idle"]
  /\ UNCHANGED <<queueVars, is_done_, is_stop_, flags_, clientVars, owed>>

\* notify_all under mutex_, then the vectors are cut.
ShrinkNotify ==
  /\ ctl.at = "shrinkNotify" /\ MutexFree
  /\ NotifyAll
  /\ threads_' = SubSeq(threads_, 1, ctl.n)
  /\ ctl' = [ctl EXCEPT !.at = "idle"]
  /\ UNCHANGED <<queueVars, is_done_, is_stop_, flags_, clientVars, owed>>

(* Stop and the destructor *)

\* Stop(false); a second one returns at once.
StopNow ==
  /\ "StopNow" \in Calls /\ ctl.at = "idle" /\ ~is_stop_
  /\ is_stop_' = TRUE
  /\ ctl' = [ctl EXCEPT !.at = "setFlags", !.i = 0]
  /\ UNCHANGED <<queueVars, is_done_, threads_, flags_, clientVars, pc, owed>>

\* Stop(true), also from the destructor; after any Stop it returns at once.
StopWhenDone(dtor) ==
  IF is_done_ \/ is_stop_
  THEN ctl' = [ctl EXCEPT !.at = IF dtor THEN "destroyed" ELSE "idle"] /\ UNCHANGED <<is_done_, owed>>
  ELSE /\ is_done_' = TRUE
       /\ ctl' = [ctl EXCEPT !.at = "notify", !.dtor = dtor]
       /\ owed' = [queued |-> Range(task_q_),
                   pushed |-> Range(task_q_) \ UNION {pushing[c] : c \in Client}]

StopWait ==
  /\ "StopWait" \in Calls /\ ctl.at = "idle" /\ StopWhenDone(FALSE)
  /\ UNCHANGED <<queueVars, is_stop_, threads_, flags_, clientVars, pc>>

\* The pool is destroyed when nobody is inside another call of it.
Destroy ==
  /\ "Destroy" \in Calls /\ ctl.at = "idle"
  /\ \A c \in Client : Free(c)
  /\ StopWhenDone(TRUE)
  /\ UNCHANGED <<queueVars, is_stop_, threads_, flags_, clientVars, pc>>

StopSetFlags ==
  /\ ctl.at = "setFlags"
  /\ IF ctl.i < Size
     THEN flags_' = flags_ \cup {threads_[ctl.i + 1]} /\ ctl' = [ctl EXCEPT !.i = @ + 1]
     ELSE ctl' = [ctl EXCEPT !.at = "clear"] /\ UNCHANGED flags_
  /\ UNCHANGED <<queueVars, is_done_, is_stop_, threads_, clientVars, pc, owed>>

\* One round of the ClearQueue loop that precedes the notify of Stop(false).
StopClear ==
  /\ ctl.at = "clear"
  /\ \/ /\ \E i \in Fronts(task_q_, Fifo) : Discard(i) /\ dropped' = dropped \cup {task_q_[i]}
        /\ UNCHANGED ctl
     \/ /\ task_q_ = <<>> /\ ctl' = [ctl EXCEPT !.at = "notify"]
        /\ UNCHANGED <<task_q_, holds, done, dropped>>
  /\ UNCHANGED <<taken, poolVars, clientVars, pc, owed>>

\* cv_.notify_all() without mutex_.
StopNotify ==
  /\ ctl.at = "notify"
  /\ NotifyAll
  /\ ctl' = [ctl EXCEPT !.at = "join"]
  /\ UNCHANGED <<queueVars, poolVars, clientVars, owed>>

StopJoin ==
  /\ ctl.at = "join"
  /\ \A w \in Range(threads_) : pc[w] = "exited"
  /\ ctl' = [ctl EXCEPT !.at = "finalClear"]
  /\ UNCHANGED <<queueVars, poolVars, clientVars, pc, owed>>

\* One round of the last ClearQueue; then the vectors are emptied.
StopFinalClear ==
  /\ ctl.at = "finalClear"
  /\ \/ /\ \E i \in Fronts(task_q_, Fifo) : Discard(i) /\ dropped' = dropped \cup {task_q_[i]}
        /\ UNCHANGED <<ctl, threads_>>
     \/ /\ task_q_ = <<>> /\ threads_' = <<>>
        /\ ctl' = [ctl EXCEPT !.at = IF ctl.dtor THEN "destroyed" ELSE "idle"]
        /\ UNCHANGED <<task_q_, holds, done, dropped>>
  /\ UNCHANGED <<taken, is_done_, is_stop_, flags_, clientVars, pc, owed>>

-----------------------------------------------------------------------------
WorkerStep(w) == WorkerPop(w) \/ WorkerRun(w) \/ WorkerLock(w) \/ WorkerTest(w) \/ WorkerBlock(w)

ControlStep ==
  \/ ShrinkFlag \/ ShrinkNotify
  \/ StopSetFlags \/ StopClear \/ StopNotify \/ StopJoin \/ StopFinalClear

Next ==
  \/ \E w \in Worker : WorkerStep(w) \/ SpuriousWakeup(w)
  \/ \E c \in Client : PushNotify(c) \/ Pop(c) \/ ClearQueue(c) \/ \E x \in Task : Push(c, x)
  \/ \E n \in Sizes : Resize(n)
  \/ StopNow \/ StopWait \/ Destroy \/ ControlStep

Spec == Init /\ [][Next]_vars

(* Tasks end, threads are scheduled and get a mutex that stays free; a     *)
(* call of the pool that has begun goes on.  No call has to be made.       *)
FairSpec ==
  /\ Spec
  /\ \A w \in Worker : WF_vars(WorkerStep(w))
  /\ \A c \in Client : WF_vars(PushNotify(c))
  /\ WF_vars(ControlStep)

-----------------------------------------------------------------------------
TypeOK ==
  /\ task_q_ \in Seq(Task)
  /\ is_done_ \in BOOLEAN /\ is_stop_ \in BOOLEAN
  /\ threads_ \in Seq(Worker) /\ flags_ \subseteq Worker
  /\ pc \in [Worker -> PC] /\ holds \in [Worker -> SUBSET Task]
  /\ \A w \in Worker : holds[w] # {} <=> pc[w] = "run"
  /\ pushing \in [Client -> SUBSET Task] /\ clearing \subseteq Client
  /\ ctl \in [at : ControlPoint, n : Nat, i : Nat, dtor : BOOLEAN]
  /\ done \subseteq Task /\ taken \subseteq Task /\ dropped \subseteq Task
  /\ owed \in [queued : SUBSET Task, pushed : SUBSET Task]

(* While a worker sleeps, or is about to, every queued task has a client   *)
(* that will still notify or a worker that was woken: tasks are inserted   *)
(* outside mutex_ and yet no task is left in front of a sleeping pool,     *)
(* not even when the notify goes to a worker that a shrink told to leave.  *)
NothingStranded ==
  At({"test", "block", "sleep"}) # {} =>
    Len(task_q_) <= Cardinality({c \in Client : pushing[c] # {}}) + Cardinality(At({"wake"}))

(* A worker leaves only if it was told to, and every thread of threads_    *)
(* that was not told to is there: the pool keeps its Size() threads.       *)
NobodyLeavesUntold ==
  /\ ~is_done_ => At({"exited"}) \subseteq flags_
  /\ ctl.at = "idle" /\ ~is_done_ /\ ~is_stop_ =>
       \A w \in Range(threads_) : w \notin flags_ /\ pc[w] \notin {"none", "exited"}

(* The loop of a shrink goes down with an unsigned index: it flags the     *)
(* threads from n_threads on and no others, and leaves the vectors for     *)
(* Resize(0) only, which counts it below zero.                             *)
ShrinkFlagsTheRest ==
  /\ ctl.at = "undefined" => ctl.n = 0
  /\ ctl.at = "shrinkNotify" =>
       ctl.n > 0 /\ \A i \in DOMAIN threads_ : threads_[i] \in flags_ <=> i > ctl.n

StoppedWaiting == is_done_ /\ ctl.at \in {"finalClear", "idle", "destroyed"} /\ ~is_stop_

\* The pool has never had a thread: it was built without, and Resize has made none.
Unmanned == \A w \in Worker : pc[w] = "none"

(* When Stop(true) has joined the threads, every task whose Push had       *)
(* returned before it was called has been run, unless a client took it     *)
(* back or a detached worker has it.  The one exception, of which the      *)
(* comments of Stop and of the destructor say nothing, is a pool that      *)
(* never had a thread: it runs none of them, and once Stop is over those   *)
(* that no client took have been thrown away.                              *)
ReturnedPushesRun ==
  StoppedWaiting =>
    \/ owed.pushed \subseteq done \cup taken \cup UNION {holds[w] : w \in Detached}
    \/ Unmanned /\ (ctl.at # "finalClear" => owed.pushed \subseteq taken \cup dropped)

(* Every task is run at most once, and only if nobody removed it before.   *)
Abs == INSTANCE AbstractExecutor WITH
         pending <- Range(task_q_), running <- Held, finished <- done, discarded <- taken \cup dropped

ImplementsExecutor == Abs!Spec

(* If the pool has threads and is not stopped, every task is run or taken. *)
EveryTaskRuns ==
  \A x \in Task : (x \in Range(task_q_) /\ threads_ # <<>>) ~> x \in done \cup taken

(* A worker that a shrink told to leave does leave.                        *)
ToldWorkersLeave == \A w \in Worker : w \in flags_ ~> pc[w] = "exited"

-----------------------------------------------------------------------------
(* What the comments of the class say. *)

(* "stop all waiting threads": a Stop that has notified them comes back.   *)
StopReturns == ctl.at = "join" ~> ctl.at \in {"idle", "destroyed"}

(* "wait for all computing threads to finish and stop all threads": after  *)
(* the destructor no worker is left that could touch the pool.             *)
NoWorkerOutlivesPool == ctl.at = "destroyed" => At(PC \ {"none", "exited"}) = {}

(* "if wait_all_task_done == true, all the functions in the queue are      *)
(* run": those that were in the queue when Stop was called, at the least.  *)
(* Of a pool that never had a thread ReturnedPushesRun says that they are  *)
(* not, so this is about the others.                                       *)
QueuedTasksRun == StoppedWaiting /\ ~Unmanned => owed.queued \subseteq done \cup taken \cup Held
=============================================================================
