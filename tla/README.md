# Verification of try_and_learn

The repository is a collection of C++14 headers (a reader/writer mutex with its
guards, a thread-safe queue, a thread pool, a spinlock, an `any`, a batcher,
signals and slots) and a `main.cpp` that tries them out.  It has no test suite;
its statements about itself are the comments of the headers.  This directory
holds TLA+ models of the headers, the configurations that check them with TLC,
and proofs checked by TLAPS.

Each model is a translation of the code.  An action is what the code does between two
points at which another thread can see a difference; names are those of the
source (`read_count_`, `flags_`, `WaitAndTryPop`).  `PROJECT.json` maps every
definition to the lines it stands for, and lists the hazards the properties
are aimed at.

## 1. Inventory

| Component | State | Operations | Hard behaviour | What makes it correct | Modelled in |
|---|---|---|---|---|---|
| `RwMutex`, `ReadLockGuard`, `WriteLockGuard` (`rw_mutex.h`) | `mutex_`, two condition variables, `read_count_`, `write_count_`, `reading_count_`, `writing_`, `reader_` | `ReadLock`, `ReadUnlock`, `WriteLock`, `WriteUnlock` | notifies sent after the mutex is released, one `notify_one` per unlock, predicates over three fields, unsigned counters | exclusion, exact counters, no lost wakeup, no starvation of the preferred side | `RwMutex`, `RwMutexProofs` |
| `UniqueReadLock`, `UniqueWriteLock`, `UniqueRwLock` (`rw_mutex.h`) | pointer to the mutex, their own counters | (deferred) construction, lock and unlock in any state, move, destruction | unlocking what is not held, several locks released at once, moves | the mutex's counters are the sum of the objects' | `RwLockObjects`, `RwLockObjectsProofs` |
| `ThreadSafeQueue` (`threadsafe_queue.h`) | `q_`, `data_m_`, `notempty_cond_` | `Push`, `Emplace`, `TryPop`, `WaitAndTryPop`, `Empty`, `Size` | stolen elements, timeouts that race a push | nothing lost, repeated or out of order; nothing left in front of a sleeping consumer | `TaskQueue`, `ThreadSafeQueue`, `QueueProofs` |
| `ThreadPool`, `Task` (`thread_pool.h`) | a queue, `threads_`, `flags_`, `is_done_`, `is_stop_`, `mutex_`, `cv_` | `Resize`, `Push`, `VoidPush`, `Pop`, `ClearQueue`, `Stop`, destructor, `SetThread`'s lambda | tasks inserted outside `mutex_`, flags set outside it, detached workers, a notify that goes to a worker told to leave | every task run at most once, none stranded, workers told to leave do, `Stop` keeps its promises | `AbstractExecutor`, `ThreadPool`, `PoolProofs` |
| `SpinLock`, `SpinLockGuard` (`spinlock.h`) | one atomic flag; one per guard | `Lock`, `Unlock`, guard construction, `Lock`, `Unlock`, destruction | test and release are two steps | exclusion; a guard releases its own lock only | `SpinLock`, `BenchmarkProofs` |
| `RwLock`, guards (`rwlock.h`) | a `pthread_rwlock_t` | thin wrappers | return codes are ignored | exclusion (promised by pthread) | external lock in `LockBenchmark` |
| `TestRwlock` (`lock_benchmark.h`) | five locks, loop counters, two futures | five sections one after the other | main thread and two tasks compete, joined by futures | each lock excludes, is left free, the benchmark returns | `LockBenchmark`, `BenchmarkProofs` |
| `any`, `any_cast` (`any.h`) | a pointer to a vtable, a buffer that holds the object or a pointer to it | construction, copy, move, assignment, `swap`, `clear`, casts | object lifetimes through temporaries | no object used dead, leaked or shared; contents as documented | `Any`, `AnyProofs` |
| `Batcher` (`batcher.h`, `batcher.cpp`) | `cache_`, `notifier_`, `batch_size_`, `m_` | `AddItem`, setters, `Emit` | waits for the notifier with `m_` held; unlocked setters | every full batch delivered once, in order; `AddItem` returns | `Batcher`, `BatcherProofs` |
| `Signal`, `Slot` (`sigslot.h`) | `slots_` | `Bind`, call | forwarded arguments, slots that throw or bind while they are called | every slot bound before the call is called once, in order, with what was sent | `Signal`, `DemoProofs` |
| `CurlDownloader`, `FileHandle`, `IsNetFile` (`main.cpp`) | files in a directory | constructor, `Download`, destructor | partial files after a failure or a kill, two processes in one directory, error pages, `fclose` that fails | a path that is returned names a whole model, or one of the listed things has happened to it | `Downloader`, `DemoProofs` |
| `main` (`main.cpp`) with `TestCurl`, `TestSigSlot`, `TestGetPath` | the objects above; `readlink`'s answer | the tests in their order | exceptions nobody catches, a result used although the test of it failed, `size_t` that wraps | how a run can end, and that it ends | `Demo`, `DemoProofs` |
| the other demonstrations (`main.cpp`, `temp*`, `thing*`) | none of their own | print language features | none (`TestAtomic`, the threaded one, is commented out of `main`) | - | no |
| `OneItem` (`item.h`), map benchmark, curl demonstration, `meson.build` | - | tracing, timing, I/O, build | none | - | no |

How they interact: the pool owns a `ThreadSafeQueue` of tasks, uses only
`Push` and `TryPop` of it, and waits on a condition variable of its own; the
benchmark drives `RwMutex`, `SpinLock` and three pthread or standard locks from
a main thread and two `std::async` tasks; `main` downloads, then emits a signal,
then asks for its own path.  `lock_benchmark.h` is the only user of `rw_mutex.h`,
`rwlock.h` and `spinlock.h`, and no file includes it; `sigslot.h` is the only
user of `thread_pool.h`, for asynchronous slots that cannot be instantiated.
`main.cpp` runs `any`, `OneItem`, the downloader and the signals, and has the calls of `TestBatcher` and `TestAtomic` commented out.

## 2. The modules and the code

### RwMutex (with AbstractRwLock)

Everything a call does while it holds `mutex_` is one action.  A lock call is
`ReadLock`, and if its predicate is false the thread is at `"readWait"` until a
notify or a spurious wakeup moves it to `"readWoken"`, where `ReadWake`
evaluates the predicate again; `WriteLock`/`WriteWake` likewise.  The unlock
calls release the mutex *before* they notify, so the notify is an action of its
own (`NotifyWriter`, `NotifyReaders`) and any other thread can run in between.
`reader_` is chosen in `Init` (the constructor's argument), so one run covers
both preferences.  The calls here pass no counters: that is what the two guards
use.  `AbstractRwLock` says what any reader/writer lock
promises; the refinement maps the threads at `"reading"` and `"writing"` to its
holders.

### RwLockObjects

The same mutex (`Mutex == INSTANCE RwMutex` gives the predicates and notifies),
called by lock objects.  An object is a record of its class, whether `mutex_`
is set, and its counters.  A thread may construct, lock, unlock, move and
destroy its objects in any order: that includes destroying an object that holds
nothing (a deferred `UniqueWriteLock`, a `UniqueRwLock` that only read) whose
`WriteUnlock` clears `writing_` before it looks at its counter.  The history
variable `stray` records that this happened under another writer; exclusion is
claimed up to that moment only.  A thread may lock an object again while it
holds it: `DeadlockNeedsNesting` says that this is the only way in which all
threads come to wait for the mutex.  Using an object that was moved from
dereferences a null pointer (`UseMovedFrom`): the thread stays there.  A
`UniqueRwLock` may release in two calls of the mutex (destructor, assignment);
`todo` holds the second one.

### ThreadSafeQueue (with TaskQueue)

Every operation holds `data_m_` throughout, its `notify_one` included, so it is
one action; only a wait lets the mutex go.  `TaskQueue` says which elements a
pop may return: the oldest for `TSQueue`, any of the greatest priority for
`TSPriorityQueue` (`std::priority_queue` does not order equal ones).  The
container and whether waits can time out are chosen in `Init`, so one run covers
the four combinations.  `pushed` and `popped` are history.

### ThreadPool (with TaskQueue, AbstractExecutor)

Three kinds of threads: workers (the lambda of `SetThread`), clients, and the one thread
that resizes, stops and destroys (the class asks for these not to be
interleaved).  The worker's loop is `WorkerPop` (the `TryPop` outside the
mutex), `WorkerRun`, and the wait in three steps: `WorkerLock` (gets `mutex_`;
the predicate's `TryPop`), `WorkerTest` (the predicate's `is_done_ || flag`),
`WorkerBlock` (lets `mutex_` go and sleeps).  Between the last three the worker
holds `mutex_`; `Stop` does not take it, which is what the first finding is
about.  `Push` inserts, and only `PushNotify` takes `mutex_`.  `Resize`'s
shrink is a loop (`ShrinkFlag`) with an index of type `size_t` (`% SizeMod`),
then `ShrinkNotify`; `Stop` is `StopNow` or `StopWait` followed by its steps.
`Resize(0)` runs its index below zero: the model takes that step and leaves the
controlling thread at `"undefined"`; `ShrinkFlagsTheRest` says that no other
shrink gets there, and that each tells exactly the threads beyond the new size.
The pool may be made without threads and never get one (`Unmanned`): what is
pushed to it stays in the queue until somebody takes it back or the pool is
stopped.  `owed` (what the queue and the returned pushes held when `Stop(true)`
was called) and the sets `done`, `taken`,
`dropped` are history.

### SpinLock, LockBenchmark

Each access to an atomic is a step.  `maker` and `users` of `SpinLock` say which
thread constructs a guard and which threads call its `Lock` and `Unlock`;
`OneUser` makes them the same thread, as for the guards of the benchmark and of
any program that keeps its guards in automatic storage.  `LockBenchmark` composes `RwMutex` and
`SpinLock` with its own loops: `Begin` is the head of an iteration (the guard's
constructor starts), `GoOn` whatever the lock's calls do next, and `Write`,
`Launch`, `Join` are the main thread between its loops.  The benchmark locks
the mutex with `UniqueReadLock` and `UniqueWriteLock` (lines 70, 79, 91, 99), whose calls pass
their counters.  Each object locks once and is destroyed, so its counters go
from zero to one and back, and each branch on them does what the calls without
counters do: `LockBenchmark` takes those, and `RwLockObjects` has the others.  The pthread read/write
lock, `std::mutex` and the pthread spinlock are external: they keep their
holders apart and promise nothing about order.  Clocks and printing are left out.

### Any

An `any` is a place with a vtable entry and either an object or the address of
one.  Operations are functions from a memory to a memory, composed as the code
composes them (an assignment is a construction of a temporary, a swap and a
destruction), so `DoesWhatItSays` can compare each one, in every reachable state,
with what its comment says.  What is compared are the results of the casts
(`cast`, `AnyCast`, `Get`, for every type a program may try), and the casts are
the only way in which the properties look into an `any`.  `misused` records a lifetime error: an object
read or destroyed when dead, or built over a live one.  A copy that throws does
so before anything else has changed and is no step.  `swap` of an in-place
`any` with itself constructs the object from the one it has just destroyed, and
what comes out depends on the type: no step takes it (`MaySwap`), and
`NothingMisused` says in every state that it, and no other swap, is misuse.

### Batcher

`AddItem` waits for `m_` (`"lock"`), puts its item into the cache (`Collect`), compares
(`Test`) and emits.  `FindNotifier` is the test of `notifier_` and `Launch` the
copy of it and of the cache, two reads with a setter possibly between them: the copy
may be empty, then its call throws inside the future and the batch is lost
(`NotifyNobody`).  `Notify` is the
notifier's run, and only then does the future's destructor let `Clear` empty
the cache; `m_` is held all along.  A notifier that calls `AddItem` leaves the
thread at `"stuck"`, where no step follows.  `std::async` may throw
(`LaunchFails`): the item stays in the cache.  The setters take no lock and may
come between any two steps; a setter that overlaps a single access is a data
race, which the model leaves to the using program to exclude.

### Downloader, Signal, Demo

`Downloader` is a set of processes that download into one directory.  The first
of them may find anything there: no file, a model, other bytes, a directory of
that name, and `model_dir_` may be no directory at all.  The last segment of a
URL that ends in '/' is empty (`Itself`), and its path is the directory's own, which
the test of line 143 finds.  From then on only these processes write there.
`Download` is its look at the directory, `Open` the `fopen` that empties the file,
`Receive` a part that libcurl writes, `Perform` the return of
`curl_easy_perform`, `Close` the `return` with the `fclose` of `~FileHandle`.
Between any two another process may take a step, and `Kill` may end the process.
The part received last is in stdio's buffer: it reaches the file with the next
one (`Flushed`) or with `fclose`, and is lost by a kill or a failed `fclose`.
What the server sends may be an error page: curl is not given `CURLOPT_FAILONERROR`
and calls that a success.  `saved` and `broken` are history: what the last
download that opened a file, and those that were writing it beside that one, were sent,
and which files had a download that did not end well.

`Signal` is the range-for of `operator()` with its two iterators and the
forwarded argument.  A slot returns, throws, or binds another slot, whereupon
the vector may move and the iterators dangle.

`Demo` is `main`: it takes the steps of both in the order of the tests,
`TestGetPath` after them, and leaves out the tests between them that keep no
state.  `TestGetPath` has whatever `readlink` may answer (`Answer`): the length
(-1 and the whole buffer included), the length of the directory's name, and
whether a zero byte happens to follow, since line 662 prints the path after
'$' has replaced its end and before line 663 ends it (`Printable`).
`"returned"`, `"exited"`, `"terminated"` (an exception that nobody
catches) and `"undefined"` are the ends of a run, after which it may be started
again.  What the program does after undefined behaviour is not modelled.
`MCDemo` starts either the process that runs `main`, alone, or two processes
that only use a downloader.

What comes out: line 144 says "model exists in specified directory, skip
download", and what exists is something of that name.  `PathNamesModel` lists
what must have happened if it is not the whole model: a download into it that
failed or is going on, a file that was sent something else, or no download at
all, when the path is what the directory held before, or the directory;
`FilesStay` says that it then remains so, since a file that exists is never
fetched again.

## 3. The runs

Every run uses the model's own next-state relation; bounds are in the `.cfg`.
The type invariants are checked everywhere: `RwMutex` and `ThreadPool` list
`TypeOK` as a property, in the other modules it is a conjunct of the invariant
it belongs to (`CountersAddUp`, `NothingLost`, `LocksLeftFree`, `OneOwner`,
`InOrder`, `EndsExplained`).

| Run | Instance | What it shows |
|---|---|---|
| `rw_mutex` | 4 threads, both preferences | type, exact counters, exclusion, no lost wakeups, refinement of `AbstractRwLock`, no starvation of the preferred side |
| `rw_lock_objects` | 2 threads with 2 and 1 objects, nesting 2 | counters add up whatever is done to the objects; exclusion and wakeups up to the first stray unlock; only a nested lock makes a deadlock |
| `queue` | 3 elements (two of equal priority), 3 consumers, both containers, with and without timeouts | each element out once, in order or by urgency; none left in front of a sleeping consumer, now (`NothingStranded`) or for ever (`ElementsMeetWaiters`); a wait that can time out comes back |
| `pool_safety` | 2 tasks, 2 clients, up to 3 threads, `Resize` to 0, 1, 2, both Stops, destructor, `Pop`, `ClearQueue`, spurious wakeups | nothing stranded, nobody leaves untold, what was pushed before `Stop(true)` is run unless the pool never had a thread, a shrink flags the right threads, refinement of `AbstractExecutor` |
| `pool_live` | priority queue, 2 tasks, 2 clients, 3 threads, resizes to 1 and 2, no Stop | every task is run, every worker told to leave does |
| `pool_stop_hangs`, `pool_worker_outlives`, `pool_queued_dropped` | 1 task, 1 client, 2 or 3 threads | the three findings about the pool |
| `lock_benchmark` | main thread, 2 tasks, 2 rounds per loop | every lock excludes, is released by its holder only and is left free, the benchmark returns |
| `any` | 3 anys, 3 heap cells, 2 values in place, 1 on the heap | no leak, no double destruction, every operation does what its comment says |
| `batcher` | 2 threads, 4 items, sizes 0 (the default), 2 and 3 set at any time, every kind of notifier | items delivered once and in order, in full batches, lost only for want of a notifier; `AddItem` returns unless a notifier calls it |
| `demo` | `main` alone (4 URLs, two with one last segment, one that ends in a slash and one without any; nothing, a model, other bytes or a directory in the way; 2 calls of `Download`, 2 parts, up to 3 slots that the program binds), or 2 downloading processes | what a returned path can name, that a settled file stays, which slots an emission calls, how a run ends and that it does |

Why the bounds are enough.  Four threads at an `RwMutex` give two waiters on
one side with an owner and a newcomer on the other, the smallest case in which
a `notify_one` can go to the wrong thread.  Three consumers give one asleep, one
woken and one that steals.  Three created threads let the pool shrink and grow
again, so that a detached worker, a remaining one and a new one exist together,
and two clients let one `Push` be between its insertion and its notify while
another finishes.  Two rounds per loop let a thread come back to a lock another
one has not left.  Four items fill a batch of two twice and leave a rest
in a batch of three.  Three anys are a target, a source and a bystander.  Two parts are
one in the file and one in the buffer; two calls are one that leaves a file and
one that finds it, and the second process can come between any two steps of the
first.  Three slots are one before, one after, and one that does something else.
A path buffer of 8 leaves room for a directory that is shorter than `build/`, as
long, and longer, for an answer that fills the buffer, and for one that fills all but a byte.  The pool's
`SizeMod` (8) stands for the width of `size_t`: it must only exceed the sizes,
so that zero minus one lands outside the vector.  In `demo` it is 64, and six
less than nothing must exceed every length.

Symmetry is used in `pool_safety` only: the clients run the same code, and the
tasks of a FIFO pool are never compared.  The run's properties are invariants and the
step-wise safety of `ImplementsExecutor`, for which symmetry is sound.

`CHECK_DEADLOCK FALSE` is set where the system may stop: nobody has to call a
queue or a pool, tasks are finite, undefined behaviour is a last state of a pool, no server has
to answer a download, and a thread that misuses lock objects may wait for itself.  `rw_mutex`,
`lock_benchmark` and `any` check deadlock.

### Fairness

- `RwMutex`: weak fairness of each thread's `Progress`: who holds the lock
  releases it, who is woken or about to notify is scheduled.  Nobody is obliged
  to ask for the lock, and no fairness is given to spurious wakeups.
- `ThreadSafeQueue`: weak fairness for consumers that are woken or timed out.
  `Timeout` has strong fairness: `wait_for` turns its duration into one
  deadline, so a wait that is interrupted again and again still ends.  Where
  `timed` is false no timeout helps the queue.
- `ThreadPool`: weak fairness for each worker, each client's `PushNotify`, and
  the controlling thread inside a call.  Tasks therefore end.  No call has to
  be made.
- `Batcher`: weak fairness of each thread inside `AddItem`: it gets `m_` when
  that stays free, and its notifier ends.  Nobody has to add an item.
- `Demo`: weak fairness of what a process does by itself (`Local`).  There is none
  for the network, for starting a process or for killing it: no time limit is
  set for curl, and `MainEnds` names the transfer that never ends as the one
  thing that keeps `main` from ending.
- `LockBenchmark`: weak fairness of each thread.  It is enough because every
  loop is finite: nobody can overtake for ever.

### Findings

Three runs end in a violation on purpose; each disagrees with a comment.

1. `pool_stop_hangs`: `Stop` notifies without `mutex_` (`thread_pool.h:133`).  A
   worker that has read `is_done_` and not yet gone to sleep misses it, and
   `join` waits for ever.  `Resize` takes the mutex for its `notify_all`, and
   the mutant of `ToldWorkersLeave` shows that it has to.
2. `pool_worker_outlives`: a shrink detaches its workers and forgets them
   (line 79), so the destructor, which promises "wait for all computing threads
   to finish", is over while one of them still runs a task and then looks at the
   destroyed queue.
3. `pool_queued_dropped`: "if wait_all_task_done == true, all the functions in
   the queue are run" (line 112).  A task whose `Push` has inserted it and
   waits for `mutex_` can be in the queue when `Stop(true)` begins and be thrown
   away by the last `ClearQueue`.  `ReturnedPushesRun` is what does hold.

In two more places the code does not do what a comment says.  They need no run
of their own, since a property that is checked and proved says exactly what
happens instead:

- A pool made without a size (`thread_pool.h:43`) has no threads.  If it never
  gets one, `Stop(true)` and the destructor join nobody and throw away whatever was
  pushed (line 142), although "the destructor waits for all the functions in the
  queue to be finished" (line 48; line 112 says the like of `Stop`).
  `ReturnedPushesRun` names this as the one case in which returned pushes are not run.
- `swap` says "Exchange the states of *this and rhs" (`any.h:149`) and excepts
  no `rhs`.  With itself as `rhs`, an `any` that keeps its object in the storage
  destroys the object and constructs it from itself (line 257).
  `NothingMisused` names this as the one swap that does so.

Not findings, because no document of the repository says otherwise: a guard that
two threads share can release another guard's lock (both pass the test of
`is_locked`; hence `OneUser`), the deferred lock objects that end another
writer's exclusion, `Resize(0)`, the batch whose notifier is taken away, the
unterminated print, and the files a download leaves behind.

## 4. The proofs

### RwMutexProofs

`RwMutexProofs` proves, for every finite set of threads and both preferences,
from the one assumption `ThreadFinite`:

| Theorem | Statement |
|---|---|
| `TypeCorrect` | `Spec => []TypeOK` |
| `CountersExact` | `Spec => []CountsExact` |
| `Exclusion` | `Spec => []MutualExclusion` |
| `NoReaderLeftAsleep` | `Spec => []NoLostReaderWakeup` |
| `NoWriterLeftAsleep` | `Spec => []NoLostWriterWakeup` |
| `Refinement` | `Spec => ImplementsRwLock` |

The argument.  Exclusion is not inductive: the predicates of the waits read
counters, not threads.  `IndInv` joins it with `TypeOK` and `CountsExact`, which
says that each counter is the number of threads at certain labels.
`OneThreadMoves` gives the change of such a number when one thread moves, and
`CountersRead` turns a counter that is zero into "no thread is there", so that
`CanRead` and `CanWrite` keep the incompatible threads out (`CanReadExcludes`,
`CanWriteExcludes`); that every step keeps `IndInv` follows action by action.
The two wakeup invariants are inductive relative to `IndInv`: an action can
make the waited-for condition true only in an unlock call, and the condition
under which that call notifies is then exactly what is needed.  With one
`notify_one` per unlock this needs the case of a woken writer that has not run
yet, which is why `NoLostWriterWakeup` counts it.  Each step then maps to a
step of `AbstractRwLock` or a stutter.

### RwLockObjectsProofs

For any finite sets of threads (not empty) and objects, any owners and any bound
on nesting, with every operation of the objects in any order, destructors of
objects that hold nothing and stray unlocks included:

| Theorem | Statement |
|---|---|
| `CountersAlwaysAddUp` | `Spec => []CountersAddUp` |
| `ExcludesUntilStray` | `Spec => []ExclusionUntilStray` |
| `WakeupsAreKept` | `Spec => []WakeupsKeptUntilStray` |
| `OnlyNestingDeadlocks` | `Spec => []DeadlockNeedsNesting` |

The counters of the mutex are sums over the objects (`Total`, a cardinality, so
that `TotalSet` and `TotalMoves` follow from what the library says of finite
sets).  That they stay equal to the sums is not inductive: `ReadUnlock` and
`WriteUnlock` subtract with a floor at zero and have an early return, both
decided by the mutex's counter and the object's.  `IInv` adds what makes
them harmless:

- `Balanced`: an object's `count` is its `reading`, plus the lock its owner still
  waits for.  Hence `reading` never exceeds `count`, and the early return is
  taken only when there is nothing to release (`ReadUnlockIs`).
- `CallsOwn` and `Rest`: a thread waits with one object of its own, and what a
  destructor or an assignment has left to do concerns its own objects, whose
  readers are released already.  So nobody else changes an object in
  the middle of a call.
- `Shaped`: an object without a mutex counts nothing, so a move neither loses
  a lock nor counts it twice (`SumsOfMove`).
- `Alone`: exclusion in the form that a step preserves, with `writing_` true just
  when an object is inside for writing.  It holds until `stray`, and the
  sums survive a stray unlock.

An object's write counter is raised before its owner waits, so "this object
writes" is a comparison with the number of waiters (`Writing`); `PendingIs` shows
that number to be zero or one.  `Kept` is the wakeup invariant: whoever waits is
counted by the mutex (`WaitersCounted`), so the unlock that lets it in does not
return without its notify, whichever object it was called with.
`OnlyNestingDeadlocks` then follows from both: what keeps the waiters out is an
object held by one of them.

### BenchmarkProofs

The spinlock by itself, instantiated as `Guards` with any guards.  For any
finite set of threads (not empty) and any guards with `OneUser`, over all of
`SpinLock`'s operations, those the benchmark does not call included:

| Theorem | Statement |
|---|---|
| `Exclusion` | `Guards!Spec => []Guards!GuardsExclude` |
| `OwnUnlocks` | `Guards!Spec => Guards!UnlocksOnlyItsOwn` |

`GuardsExclude` says who has the lock, not which guard took it last.
`HolderLocked` joins the two: a guard that has the lock (between its exchange and
its store, or marked by `is_locked`) finds `lock_` set and itself in
`lockedBy`, so two that have it are the same.  That a store releases its own
guard's lock needs `CallsOwnGuard` (a thread is in a call of a guard of its own,
so nobody else changes `is_locked` between the test and the store) and `Dying`
(a destroyed guard is not alive while its destructor stores).

Then `TestRwlock`, for any finite set of tasks and any `test_time`:

| Theorem | Statement |
|---|---|
| `OwnersApart` | `Spec => []OwnersExclude` |
| `NothingLeftBehind` | `Spec => []LocksLeftFree` |
| `IterationsUnlockTheirOwn` | `Spec => UnlocksOnlyItsOwn` |

One set of program counters serves all five sections, so `IInv` says for each
lock what holds in its own section (`MutexUsed`, `SpinUsed`, `Held`) and that
outside it the lock is as nobody had used it (`MutexFree`, `SpinFree`).  That is
what a step of the wrong lock's calls would contradict (`GoOnKeeps`), and what
the next section starts from.  `Alone` (no task outside the mixed phase) and the
joined futures make all of it true at once when a section ends (`JoinedQuiet`,
`QuietSuits`).  The benchmark's readers never write, so
`MutexUsed` can speak of the main thread where `RwMutexProofs` counts writers.
The spinlock's `Holding` becomes `Has`: each iteration makes a guard of its own, alive
only while it has the lock.  The assumptions are `MainIsNoReader`,
`ReadersFinite` and `TimesPositive`.

### DemoProofs

For any processes, URLs, names, parts, slots and bounds, from the assumptions of
`Downloader` and `Demo` (one of them, `SizesHoldSuffix`, says that `size_t` can
count the letters of `"build/"`):

| Theorem | Statement |
|---|---|
| `PathsNameModels` | `DemoSpec => []PathNamesModel` |
| `FilesKept` | `DemoSpec => FilesStay` |
| `EmissionsReachSlots` | `DemoSpec => []EmissionReachesSlots` |
| `EndsAreExplained` | `DemoSpec => []EndsExplained` |

The file: `Whole` says of a file that is not broken and was sent one thing that
each part holds it, or is still to be written by a process that has not come
that far (`got[q] <= k`: the part in the buffer is not in the file yet).  The
steps that could disturb it are those of two processes writing one file, an
`Open` that empties it under another process included; `Receiving` says that
whatever is being written is among what the file was sent, `Opened` that what
a process has opened is a file, and `Present` that a path that was returned
is there.  With nobody writing, `Whole` is the model.

The emission: `Looping` relates the iterators to what has been received (one
less than `next`, and `end` within the vector although a slot may have grown
it), `InOrder` what has been received to the slots, and `Fresh` starts a process
without anything received.

The ends: `OnTheWay` says what has not happened to a process that has not ended
(`readlink` has not answered, no slot is bound before `TestSigSlot`, and whoever is at `fopen` has called `Download`), so
that each end can be told from its traces.  That a slot which threw was the
last one received comes from `Looping`; that `substr` throws just for a
directory name shorter than `"build/"` is `TailWraps`, about a difference
modulo `SizeMod`.

### QueueProofs

For any elements and priorities, any finite set of consumers, both containers,
with and without timeouts, from `ConsumerFinite` and the assumptions of
`TaskQueue`:

| Theorem | Statement |
|---|---|
| `QueueLosesNothing` | `Spec => []NothingLost` |
| `MoreUrgentLeavesFirst` | `Spec => []UrgentFirst` |
| `NoElementStranded` | `Spec => []NothingStranded` |

What removing and appending does to a sequence comes first (`RemoveAtIs`,
`RangeOfRest`; the pool's proofs need it too).  `Kept` is `NothingLost` without its types and is kept because an element goes
from the front of one sequence to the end of the other (`FirstMoves`), or from
one range to the other (`RangeOfRest`).  `UrgentFirst` speaks of what has left the queue
only; `Urgent` says the same of what is still in it: anything more urgent than
an element that has left was pushed behind all that had been pushed then.
`NothingStranded` is inductive once the types are known: a push
wakes one consumer per element (`PushStrandsNothing`), and a step that takes a
consumer from the woken ones takes an element with it or finds none
(`PopStrandsNothing`, `EmptyStrandsNothing`).

### PoolProofs

For any tasks, any finite set of clients, any number of threads and sizes, both
pools, with and without spurious wakeups, from the assumptions of `ThreadPool`
(one of them says that `size_t` can count the threads, `MaxThreads < SizeMod`):

| Theorem | Statement |
|---|---|
| `TypeCorrect` | `Spec => []TypeOK` |
| `NoTaskStranded` | `Spec => []NothingStranded` |
| `NobodyLeaves` | `Spec => []NobodyLeavesUntold` |
| `ShrinksFlagTheRest` | `Spec => []ShrinkFlagsTheRest` |
| `StopRunsReturnedPushes` | `Spec => []ReturnedPushesRun` |
| `Refinement` | `Spec => ImplementsExecutor` |

The inductive invariant has one part per question.  `Threads`: the threads
created so far are the first ones, and the vector holds different ones of them
(`Growth` computes what a growing `Resize` adds, `Cut` what a shrink leaves).
`Control`: while a shrink counts down, just the threads behind its index have
their flags set; this needs a first size above zero, for otherwise the index
wraps (`Down`).  `Leaving` and `Control` give `NobodyLeavesUntold`.
`NothingStranded` counts, as in the queue, but a client that has inserted its
task and not yet notified counts as well; that its notify may find nobody asleep
is harmless because it needs `mutex_`, which a worker between its look at the
queue and its sleep holds.  `Promised` is what `Stop(true)` owes: a worker that
found the queue empty holds `mutex_`, so whatever is in the queue now has a
`Push` that has not returned and is not owed; hence no thread of the vector
leaves while the queue has a task that is owed, and nothing that is owed is left
for the last `ClearQueue`.  A pool without threads keeps no such promise; `Bare`
is what is true of it: nothing was ever started, and the vector is empty.  `Once` (a task is in the queue once, or with one worker)
makes each step a step of `AbstractExecutor` or none; `QueueSteps` says which.

### BatcherProofs

For any threads, items and sizes, with setters between any two steps and
`std::async` failing at any time, from `SizesNatural`:

| Theorem | Statement |
|---|---|
| `BatchesAreFull` | `Spec => []FullBatches` |
| `ItemsInOrder` | `Spec => []InOrder` |

`Lengths` gives the length of the cache for each place a thread can be in with
`m_` locked, and `Alone` says that there is one such thread.  `InOrder` says by
positions (`Selected`) that what was delivered or is in the cache is what was
added without what was dropped; a filter of sequences would be recursive, which the prover
cannot reason about.  Two facts about sequences carry the proof:
`SelectedAppend` for an item that enters the cache, and `SelectedFront` for a
batch that is dropped, where the items that remain are the ones in front of it
because no item is there twice (`Distinct`).  Every other step leaves what is
sent or waiting as it is (`OrderKept`), the notifier's included: it is given
the batch while all of it is still in the cache (`Holding`).

### AnyProofs

For any places, values, types and heap, from `StackByType` (a type either needs
an allocation or does not) and `Apart` (an address, a type, a value and the
marks for their absence are different things):

| Theorem | Statement |
|---|---|
| `NothingIsMisused` | `Spec => []NothingMisused` |
| `EveryObjectHasOneOwner` | `Spec => []OneOwner` |
| `OperationsDoWhatTheySay` | `Spec => []DoesWhatItSays` |

An operation of `any` is up to four moves one after the other, with a memory in
between that no invariant of the program's states describes: temporaries hold
objects there.  So the invariant is about all storages (`Sound`: a storage or a
heap address has an object just if one `any` holds it, of the type it says), and
a memory has a `View`: the type and the object of each storage.  Every function
of the code keeps a memory sound and does one thing to its view, whichever vtable
it goes through: `MoveOfIs` moves an entry, `CopyOfIs` copies one, `ClearIs`
empties one, `SwappedIs` exchanges two.  What an assignment does is then
read off the views (`CopyAssignedIs` and the others, `p = q` included).  `Clean`, the invariant
between operations, adds that no temporary holds anything, which is why
nothing leaks through one.  What the casts return is the view (`ContentIs`).
`SwapSelf` is the reason for `MaySwap`.

### Only model-checked

Liveness everywhere (`ReadersNotStarved` and the others stated with `~>`, `<>` or
`[]<>`): fairness and ENABLED are out of the prover's reach.  Every safety invariant and
action property of the runs that are expected to pass is proved.
No module uses RECURSIVE operators; sequences and sums come from the
community modules.

## 5. Not modelled, and why

- Asynchronous slots: `Slot<SignalPolicy::ASYNC>` has a thread pool as a member,
  which has no default constructor, so no program can construct one.
- `IsNetFile`: a pure test of a prefix, whose result is printed.
- The outcomes of undefined behaviour: a null `FILE*`, dangling iterators, an
  index out of a vector, a null mutex.  The models take the step that leads
  there and go no further.
- Other programs that write into the directory of the models while the modelled
  processes run: what they may have left there before is in the initial states.
- `batcher.cpp` repeats a definition of `batcher.h` and is not compiled.
- Return codes of the pthread calls in `rwlock.h`: the wrapper ignores them.
- `Empty`, `Size`, `IdleNumber` and `IsLocked`: they read one field under its lock and change nothing.
- `thread_init_func_`, which a worker runs once before its loop and whose
  result is only logged, and the futures of the pool's tasks: that a task's result reaches its future is
  `std::packaged_task`'s doing.
- Memory orders weaker than sequential consistency: the orderings in
  `spinlock.h` (acquire on the exchange, release on the store) make the lock's
  steps behave as interleaved.
- The other demonstrations, `OneItem`, `benchmark_map.h`, `curl_demo.cpp`, the build: no
  state or concurrency of their own.

## 6. Plan

Order of the modules, the most important behaviour first; all are done.

1. `RwMutex` with `AbstractRwLock` and its proofs.
2. `ThreadSafeQueue` on `TaskQueue`, with its proofs.
3. `ThreadPool` on `TaskQueue` with `AbstractExecutor`, with its proofs.
4. `RwLockObjects` on `RwMutex`, with its proofs.
5. `SpinLock`, and `LockBenchmark` that composes it with `RwMutex`, with their proofs.
6. `Any`, with its proofs.
7. `Batcher`, with its proofs.
8. `Downloader` and `Signal`, composed in `Demo`, with their proofs.
