# Verification of magio-v3

TLA+ models of magio-v3 (`src/src/magio-v3`), the coroutine runtime of this
repository: an event loop per thread, io_uring or a completion port below it,
coroutines, files and sockets above it. The modules follow the code, not the
documents; every definition that stands for code is listed with its lines in
`PROJECT.json` under `map`.

* [Inventory](#inventory)
* [Modules](#modules)
* [Runs](#runs)
* [Fairness](#fairness)
* [Proofs](#proofs)
* [Where code and expectation disagree](#where-code-and-expectation-disagree)
* [Not modelled](#not-modelled)
* [Plan](#plan)

## Inventory

| Component | State | Operations | Used by / uses |
|---|---|---|---|
| `CoroContext` (`core/coro_context.*`) | `state_`, `pending_handles_` under `mutex_`, the swapped-out `handles`, the timers' batch | `start`, `stop`, `execute`, `dispatch`, `wake_in_context`, `queue_in_context`, `expires_after/until`, `get_service`, `spawn` | one per thread (`LocalContext`); owns a `TimerQueue` and an `IoServiceInterface` |
| `IoUring` (`net/io_uring.*`), `IoService`, `IoContext` | the two rings, `io_num_`, `wake_up_fd_`, `wake_up_ctx_`, `empty_ctx_` | eight submissions, `cancel`, `attach`, `poll`, `wake_up` | `CoroContext` polls; sockets and files submit; `resume_callback` resumes a coroutine |
| `IoCompletionPort` (`net/iocp.*`, Windows) | port, `io_num`, ten pending records | as `IoUring` | alternative back end; here `attach` matters |
| `TimerQueue`, `TimerHandle` (`core/timer_queue.h`) | heap of `TimerData` (deadline, `flag`, `task`) | `push`, `get_expired`, `next_duration`, `cancel` | `CoroContext` only, on its own thread |
| `ThreadPool` (`core/thread_pool.*`) | `state_`, `tasks_`, `wait_flag_` under `mutex_`; `cv_`, `wait_cv_`; `once_flag_` | `start`, `stop`, `wait`, `execute`, destructor, `async`, `spawn_blocking` | an `Executor`; hands results to the bound context |
| `CoroContextPool`, `WaitGroup` | `contexts_`, two wait groups, `next_idx_`, `state_` | `start_all`, `next_context`, `get`, destructor | owns contexts, one thread each |
| `Mutex`, `LockGuard`, `Condition` (`core/mutex.*`) | `flag_` and a queue of (context, handle) under a `std::mutex`; the condition's queue | `lock`, `unlock`, both `wait`, `notify_one`, `notify_all` | coroutines of several contexts; resumes through `queue_in_context` |
| `Coro`, `Awaitable`, `join`, `series`, `sleep_for` | the frame: launched, suspended, final, destroyed; `prev_h`, callbacks | `spawn`, `co_await`, `detach`, destructor | everything above the loop |
| `File`, `RandomAccessFile` | handle, read and write offsets, `attached_` | `open`, `read`, `write`, `sync`, `close`, moves | submit to the service of the current context |
| `Socket`, `Acceptor` | handle, address, attachment | `connect`, `accept`, `send`, `receive`, `close`, moves | as above |
| `AsyncLogger`, `LargeBuffer` | `current_`, `next_`, `ready_` under `mutex_`, two spare buffers, `stop_flag_` | `write`, the background loop, destructor | any thread |
| `Executor` (`core/execution.h`) | none | `execute`, `dispatch` | interface of the two schedulers |
| Pipes, `InetAddress`, `Generator`, `Functor`, `Logger`, `error` | values | | see [Not modelled](#not-modelled) |

What is hard in each, and what makes it correct:

* **CoroContext**: other threads push tasks at any point of the loop and wake it
  after the unlock; the loop decides under the mutex not to block and blocks
  later. Correct when no task is left behind by a blocked thread, tasks run once
  and in order, a loop that is always busy still looks at its timers and its
  completions, and `stop()` ends it.
* **IoUring**: `io_num_` decides whether `poll` enters the kernel at all; the
  wake-up read must be re-armed from its own completion; the submission queue is
  finite and nobody looks at the result of `io_uring_get_sqe`.
* **IoCompletionPort and the handle objects**: a handle belongs to the port of
  its first operation for ever, its object moves between threads, completions
  arrive where the handle belongs and are counted there; synchronous failures
  leave the count up. Correct when completions come home, the count never falls
  below what is outstanding, and a handle has one owner.
* **TimerQueue**: a cancelled timer remains queued, and an expired one may
  already be in the batch; a task must hear one verdict only, and must hear one.
* **ThreadPool**: notifications follow the unlock, tasks hand over tasks, `wait`,
  `stop` and the destructor race with the workers.
* **CoroContextPool**: threads build their contexts while the constructor waits,
  run only after `start_all()`, and are told to stop by closures in their queues;
  `next_idx_` is a plain integer that several threads use.
* **Mutex/Condition**: the lock is handed to a coroutine on another context while
  newcomers arrive; `Condition::wait` publishes its handle before it has
  suspended, which is harmless only as long as resumption goes through the queue
  of the waiter's own context.
* **Coroutine frames**: a launched frame destroys itself after it has resumed its
  awaiter, below it on the stack; `Coro` objects that refer to it read it in their
  destructor. Correct when a suspended frame has exactly one resumer and nobody
  touches a frame that is gone.
* **AsyncLogger**: four buffers go round between writers and background thread,
  which waits without a predicate and looks at the stop flag without the mutex.

The hazards at their lines, with the properties that cover them or the reason
why none does, are in `PROJECT.json` under `hazards`.

## Modules

    Executor  <--implements--  CoroContext  --extends-->  IoUring, TimerQueue
        ^------implements----  ThreadPool
    FairLock  <--implements--  CoMutex  (MCCoMutex: constants for TLC)
    Log       <--implements--  AsyncLog
    IoHandles --extends-->     Iocp
    ContextPool, CoroFrame
    *Proofs extend the module they name, CoroContextProofs is about IoUring and
    TimerQueue too.  QueueFacts: lemmas on queues for the proofs

**IoUring.** One request is a name with a place: `"free"`, in the submission
queue (`"sq"`), in the `"kernel"`, or completed (`"ok"`, `"err"`); the order
inside a queue is dropped, because the kernel completes in any order. `at` says
where the context's thread is with respect to `poll` (`"callback"`: inside a
callback called by `handle_cqe`). A submission is `Submit(o)` for all eight
kinds, `Cancel(k)` for `cancel`; `GetSqe` has two outcomes, and on a full queue
the process crashes as the null pointer is written through. `PollSkips` and
`PollEnters` are the two branches of the test of `io_num_`; `WaitEndsEmpty` the
error returns of `io_uring_wait_cqe_timeout`; `HandleOp`, `HandleCancel` and
`HandleWake` are `handle_cqe` for the three kinds of request. In poll's loop over
the completion queue, entries that arrive meanwhile may be seen or not; the model
leaves when none is ready. `arg` records what a callback received as user
pointer. The constructor calls `::eventfd(EFD_NONBLOCK, 0)` with the arguments
in swapped order: the counter starts above zero (hence `eventfd = TRUE`
initially) and the descriptor blocks, so a read stays pending until a write.

**TimerQueue.** Deadlines and the clock are kept as an order: `heap` is the queue
sorted by deadline, its first `nDue` entries are past theirs; `Tick` lets the
clock pass one more deadline, and `Push` chooses any place for a new one. `batch`
is the result vector that `start()` runs. `heard` records the arguments that each
task was called with. A name becomes free for a new timer when it is neither
queued nor in the batch; a `TimerHandle` reaches its timer only while it is
queued (`weak_ptr`).

**CoroContext** composes both with the loop of `start()`. The loop is cut where
other threads or user code can see a difference: the swap under the mutex
(`Swap`), each task (`RunHandle`), `get_expired` (`Expire`), each timer's task
(`RunTimer`), the choice of the wait under the mutex (`ChooseWait`), and the
sections of `poll`. User code is a stack of activations (`stack`): tasks, timers'
tasks, callbacks. While one is active, or outside `start()`, the thread may call
`execute`, `dispatch`, `stop`, submit, cancel or set timers. `dispatch` and
`TimerHandle::cancel` push an activation. Producers push (`RemoteExecute`) and
wake later (`RemoteWakeUp`).

**Iocp** has one completion port per context, so that a packet can arrive in the
wrong one: `packets[x]` is the queue of port `x`, `port[h]` the port that handle
`h` is associated with (the first one it was attached to; a second attachment
fails unnoticed), `req[o]` an operation with the context that submitted it, its
object, its handle, and the socket an `accept` opened for it. `poll` is cut at
each `GetQueuedCompletionStatus`: the first waits (`"wait"`) or not, the
following look without waiting (`"look"`), at most `Batch` in total. A submission
increments the count first and may fail at once (`SubmitFails`).

**IoHandles** adds the user's objects: `Open`, `Move` (every class's move
assignment), `Close`, `attach_context`, the operations (`Start`, `Accept`,
`Refused`), their callbacks. Objects are handed from thread to thread; any
context may use any object, one at a time. The use of an object attached to
another context is fatal (`Fatal`), as in the code. A `File` gives its operation the
offset that it has at submission (kept in `req[o].off`) and advances its offset at
completion, two steps between which it may change; `done[h]` is the set of bytes
really read through a handle. `read` stands for `write` too, which is the same code on
the other offset.

**CoroFrame** is the life of coroutine frames: `frame[f]` holds the promise
(launched, awaiter, completion handler of `join`), the `Coro` objects among its
variables and the temporary of its `co_await`; each context has a queue of
handles and a stack of activations, because a frame that resumes another in its
final suspension stays below it and destroys itself afterwards (`Destroy`).
Coroutines create others, move them into parameters, await, spawn, join, yield,
suspend for an operation, a timer or the thread pool, return a value or throw. A
thread of the pool queues the handle in the context of the pool, which need not be
the one that the coroutine came from (`Suspend`, `ComeBack`). `Assign` is
`Coro::operator=`, which forgets the object's frame, `DropVar` the destructor.
`fault` records what no code can go on from: the use of a frame that is gone
(`"touch"`), the resumption of one that is not suspended (`"resume"`), handlers of
one `join` on several threads (`"race"`), and an exception of an awaited coroutine,
which `await_resume() noexcept` turns into `std::terminate()` (`"terminate"`). `join`
queues its children in any order, since a parameter pack does not say who comes
first; a destroyed frame takes the unlaunched frames in its variables with it (`Doomed`).
`series` is `co_await` in a loop.

**ContextPool** is `CoroContextPool` with both wait groups: construction, threads
building their contexts, `start_all`, tasks given to contexts through `get()` and
`next_context()` (whose unsynchronised `next_idx_` is read in one step and stored in
another), and the destructor that queues a closure in each context and joins. A
context is the queue of tasks that CoroContext was shown to implement.

**ThreadPool.** A section under `mutex_` is one action, the notify that follows
the unlock another (`Notify`, `NotifyAll`), so that the other threads run in
between. Waiting on a condition variable is `"asleep"` (workers) or `"waiting"`
(`wait()`), and both may wake spuriously. The predicate of `cv_.wait` is three
actions by its outcome (`TestEmpty`, `TestHeld`, `Take`). `Nested` says whether
tasks hand over tasks. The destructor calls `wait()` first (`Destroy`), then sets
`PendingDestroy`, notifies and joins.

**CoMutex.** `queue` and `cqueue` are the two queues of entries, `out[c]` the
entries that coroutine `c` has popped and not yet passed to
`queue_in_context`, `ready[x]` the handles queued in context `x`, `busy[x]` the
coroutine it runs. `Condition::wait` is modelled statement by statement, from
the push of the handle (`Enqueue`) over `unlock()` (`WaitUnlock`, `Deliver`) to
the return to the loop. `item` is the state that a caller's predicate looks at,
and `owes[c]` marks a coroutine that changed it and has not notified: callers
notify before they suspend or lock again. Coroutines suspend in critical
sections for other reasons too (`Suspend`, `Continue`).

**AsyncLog.** A message is its number, a buffer a sequence of messages with a
size; `held` says which of the four buffer pointers are not null. A writer's
`write_impl` and the locked part of a pass are one action each, each buffer that
is printed one more; the wait of the background thread has no predicate, so a
pass may begin at any time. The bytes of a message are not modelled, their number
is.

**Executor**, **FairLock** and **Log** are the abstract specifications: tasks are
started once, oldest first, or in place (`dispatch`); a lock has one holder and is
passed on in the order of the requests; a log file is at any moment a first part
of what was written.

Definitions marked `Mutant:` are the plausible bugs that `PROJECT.json` uses to
show that each property can fail; no specification uses them.

## Runs

| Run | Instance | Checks |
|---|---|---|
| `ctx_safe` | 2 tasks, 2 timers, 1 operation, 1 cancel, 1 producer, ring of 3 | `IoNumExact`, `NoLostWakeup`, `NeverBothVerdicts`, `NoneForgotten`, `ImplementsExecutor` |
| `ctx_live` | 1 task, 1 timer, 1 operation, 1 cancel, 1 producer, ring of 2 | `TaskRuns`, `CompletionDelivered`, `TimerAnswered`, `StopLeaves` |
| `io` | 2 contexts (one waits), 2 files, 1 socket, 1 acceptor, 2 handles, 1 operation | `IoNumCovers`, `CompletesAtHome`, `OwnedOnce`, `OffsetsTrue`, `OperationAnswered`, `WakeReturns` |
| `frames` | 4 frames on one context | `OneResumer`, `NoUseAfterDestroy`, `NoFrameLeaks`, `JoinComplete`, `SuspensionEnds` |
| `pool` | 2 workers, 2 callers, 3 nesting tasks | `NoSleepingOnWork`, `UsesAllWorkers`, `ImplementsExecutor`, `NoneDropped`, `TaskStarts`, `DrainedDestroyReturns` |
| `cpool` | 2 contexts, 3 tasks | `BuiltBeforeUse`, `QueuedTaskStarts`, `StartedDestroyReturns` |
| `log` | buffers of 4 units, messages of 1 to 3, 8 writes | `BuffersGoRound`, `QuietStopLosesNothing`, `ImplementsLog`, `MessagePrinted` |
| `mutex` | 3 coroutines on 2 contexts, one waits without predicate | `MutualExclusion`, `ResumesSuspended`, `NoMissedSignal`, `ImplementsFairLock`, `LockGranted` |
| `uring_msg_error`, `pool_wait_lost`, `pool_destroy_hangs`, `spawn_remote` | small instances of the modules above | one violated property each, see below |

Three more configurations accompany theorems. Two are about a use of the classes that
breaks properties of the runs above, the third about more operations than fit into
the time of a run. They are run by hand:

| Configuration | Instance | Checks |
|---|---|---|
| `io_loose.cfg` (`IoHandles`) | the objects of `io`, any use of them (`Careful = FALSE`) | `ClosedOnce`, `CompletesAtHome`, `IoNumCovers` |
| `io_two.cfg` (`IoHandles`) | the objects of `io`, two operations | `HandlesTypeOK`, `IoNumCovers`, `CompletesAtHome`, `OwnedOnce`, `OffsetsTrue` |
| `frames_loose.cfg` (`CoroFrame`) | 4 frames on two contexts, `Remote`, `Migrate` and `Outlive` | `OneResumer`, `NoFrameLeaks`, `JoinComplete`, `OnlyKnownFaults` |

Bounds and why they are enough:

* `Entries` is 3 in `ctx_safe`, an entry for each request that can be alive, so that
  no behaviour is cut short by a crash, and 2 in `ctx_live`, smaller than their
  number, so that the full queue and the crash occur, also from the callback of
  the wake-up read; the liveness properties except a process that crashed.
* Names of tasks, timers and operations are reused when they are free again, so
  runs are unbounded although the sets are small. Two tasks give one in the batch
  and one arriving behind it, two timers an expired and an earlier or later one.
* `MaxDepth = 2` bounds the nesting of user code: one activation started by the
  loop and one by `dispatch` or `cancel` inside it. Deeper nesting adds more
  activations of the same kinds.
* `io`: `Sleepers = {x1}` is the set of contexts whose loops wait and are woken,
  the other always has something to run, so both kinds of `poll` meet.
  `MaxHandles = 2` lets a handle be closed and given again while an operation on
  the old one is outstanding; `MaxBytes` and `MaxFailures` bound the offset and
  how far the count may drift; `Batch = 1` makes `poll` meet its limit of 1024.
  Two files are needed for moves, a socket and an acceptor for the hand-over.
* `Careful = TRUE` in `io` states what the classes expect of their user: no move
  of an object with an operation outstanding, no second operation on a `File` before
  the first is answered, no assignment over an open handle, no move of a
  `RandomAccessFile` after its first use. A `File` may be closed while its
  operation is outstanding, and another one opened with the same handle. In `io_loose` users do all of
  this, except that there is no `RandomAccessFile`; what fails with one is
  under [Where code and expectation disagree](#where-code-and-expectation-disagree).
  That configuration is about owners, ports and the count, so nothing is read
  (`MaxBytes = 0`) and no submission fails at once (`MaxFailures = 0`): the offset
  touches none of these, and a failed submission only raises the count. `io_two`
  has two operations outstanding, on two objects or on a socket and a file, with
  one byte to read and no failed submissions.
* `MaxFrames = 4` gives a parent with three children, or a chain of four, in every
  order; frames are not reused, so each run is finite. In `frames` there is one context
  and its users are well-behaved: nothing is spawned on another thread's context
  (`Remote`), no coroutine changes its thread through `spawn_blocking()` on a pool
  that is bound elsewhere (`Migrate`), none suspends while it keeps the object of one
  that it awaited (`Outlive`), no object with an unlaunched frame is assigned to
  (`Overwrite`), and `join()` has arguments (`JoinNothing`). Each of these constants
  lets in something the code allows and that goes wrong, see
  [Where code and expectation disagree](#where-code-and-expectation-disagree); in
  `frames_loose` the first three are `TRUE`, on two contexts. The model stops at the
  first fault: behaviour that is undefined, or the end of the process. So that
  configuration says what holds up to it, that step included.
* `Num = 2` contexts: the owner's and one thread's. The third task arrives while
  one runs and one is queued.
* `MaxWrites = 8` fills all four buffers of `Capacity = 4` and one more pass; the
  lengths include one that leaves exactly one unit and one that fills a buffer.
* Three coroutines give a holder, one that is handed the lock and a newcomer;
  two contexts, one of them with two coroutines, give hand-overs inside a
  context and between two.
* No run uses symmetry, since most check temporal formulas.
* `CHECK_DEADLOCK FALSE` is set because the systems really stop: after the
  destructor, after a crash or a fatal check, when every frame is gone, and when
  every coroutine waits on the condition and no one is left to notify. What must
  not stop is stated as a liveness property.

The type invariant of each module (`...TypeOK`) stands at the head of its
properties and is proved for all constants, that of TimerQueue as part of
CoroContext's, that of Iocp as part of IoHandles's. The theorem of IoHandles has a
premise (`Tame`, see [Proofs](#proofs)), without which `io_num` may fall below zero.

## Fairness

* *CoroContext*: weak fairness of the loop's own steps (the thread is
  scheduled), of the kernel's completion of the wake-up read, and of a producer
  on its way from the push to `wake_up()`; strong fairness of the return of user
  code at each depth (user code returns: without it nothing can be said of a
  loop, and a task may call `execute()` any number of times in between, which
  is why weak fairness is not enough). Nothing is assumed of the clock, of the
  completion of operations, or of `stop()` being called.
* *IoHandles*: weak fairness of each thread's progress: its loop polls again and
  again, perhaps always with a wait time of zero, takes what is in the port, and
  callbacks return; weak fairness of the kernel's completion of an operation (a
  closed handle completes with an error). A wait need not end by itself.
* *CoroFrame*: weak fairness of the contexts' threads and of what a coroutine
  waits for outside; strong fairness of the return of each coroutine, which may
  await and yield any number of times before. `SuspensionEnds` excepts a process
  that an exception has ended.
* *ContextPool*: weak fairness of every thread's steps, strong fairness of the
  return of a task and of a stopped loop's end, which tasks may delay by calls.
* *AsyncLog*: weak fairness of the background thread, whose wait ends after three
  seconds at the latest. None of writers or the destructor.
* *ThreadPool*: weak fairness of every thread's steps, strong fairness of the
  return of a task. No fairness of spurious wake-ups.
* *CoMutex*: `SF(RunReady)` (a context runs what is queued in it, which is what
  `TaskRuns` shows of CoroContext), weak fairness of the statements inside
  `wait`, `unlock` and notify. Of user code: it comes back from other suspensions
  and ends or gives the lock back, and one that changed the item notifies.

## Proofs

TLAPS checks the following for all values of the constants that meet the named
assumptions (`RingAssumption`, `MutexAssumption`, `PoolAssumption`,
`IocpAssumption`, `HandlesAssumption`, `LogAssumption`, `ContextAssumption`,
`ContextPoolAssumption`, `FrameAssumption`); TLC evaluates them in the runs. The sequences of the models
are queues, stacks and batches; `QueueFacts` has the lemmas on what appending,
popping, joining, cutting and inserting do to their elements and to their
distinctness, and each proof cites them.

* **CoroContextProofs** begins with the ring: `RingTypeCorrect`, `IoNumIsExact`,
  `AlwaysWakeable` from one invariant `RingInv`. That `io_num_` is a natural number
  is not inductive (a completion decrements it); it is together with
  `IoNumExact`: the request being handled is itself counted.
  The whole loop follows, from `ContextInv`, which has a part
  for each question. The loop and the user code it runs take only the ring's steps
  (`StepOfRing`), so that `RingInv` carries over: `ContextIoNumExact`.
  `CancelIsFinal` and
  `TimersAreKept`: what a timer's task has heard follows from where the timer is
  and from its flag (`Answered`); neither property is inductive, because they do
  not say that a cancelled timer that is still queued has its flag down, which is
  what keeps it out of the next batch. `GetExpired` is written with a bijection from
  the told positions, as the prover does not know `SelectSeq`. `WakeupIsNotLost`
  speaks of a blocked thread; what is inductive (`WakeInv`) begins when the wait is
  chosen under the mutex, before `poll()` is entered, and needs `ControlInv`: where
  the thread is in `start()`, where in `poll()`, and what is on its stack go
  together. It also needs that a read of the wake-up descriptor is there for the
  wake-up to complete (`WakeReadInv`): the read is in the submission
  queue, in the kernel or completed, and not in the submission queue when `poll()`
  waits. `ContextTypeCorrect` is
  its first part. `ContextImplementsExecutor`: the queue of `Executor` is the swapped-out
  batch followed by what is pending, and a task is in one place of the three
  (`TasksInv`).
* **ContextPoolProofs**: `PoolIsBuiltBeforeUse` and `ContextPoolTypeCorrect` from
  `CPoolInv`. The wait group's count is the number of threads that have not
  reported (`PhaseInv`), so at zero all contexts are built; and nothing runs, and
  so nobody can call the pool, before `start_all()` (`GateInv`).
* **IoHandlesProofs**: an operation completes at home because the handle of an
  object is associated with the context that the object knows, or with none
  (`AttachedInv`); this survives moves and the hand-over of accepted sockets only if
  no two owners share a handle (`OwnerInv`) and closed handles have no port
  (`PortInv`). The count stays above what is outstanding because a packet is that of
  one outstanding operation, in one port only (`PacketInv`), and that operation
  completed at home. The lemmas about packets say what taking and adding one
  preserves; one lemma per operation says who owns what after it. How much of this
  needs careful users is part of the result. `HandlesAreNotShared` (`ClosedOnce`) has
  no premise: no handle has two owners, whatever is moved, overwritten or closed.
  `OperationsCompleteAtHome`, `IoNumAlwaysCovers` and `HandlesTypeCorrect` need careful
  users or that there is no `RandomAccessFile` (`Tame`). `HandlesAreOwnedOnce` and
  `ReadOffsetsAreTrue` have the premise `Careful`: without it a handle leaks when its
  object is overwritten, and a `File` is written on behalf of another handle, or twice
  for the same bytes. `ReadOffsetsAreTrue` rests besides on this: the operation
  outstanding on a `File` is the only one, and if its handle was not closed meanwhile
  the `File` still has that handle and the offset that the operation was given
  (`OffsetInv`). `HandlesTypeCorrect` needs `IoNumCovers`, by which `io_num` is a
  natural number.
* **CoMutexProofs**: `MutexTypeCorrect`, `MutexExcludes`, `MutexNeverStranded`,
  `MutexResumesSuspended` from `MutexInv`. Exclusion alone is not inductive: a
  context that resumes a handle turns `"granted"` into a critical section, so
  one has to know that a handle is in one place only (the condition's queue, the
  hands of one notifier, the queue of one context, once), that its coroutine is
  in a state in which it may be resumed, and that a coroutine queued for the lock
  is blocked. `QueueInv`, `CondInv`, `HandsInv` and `ReadyInv` say so.
  `MutexIsFair` shows with it that `CoMutex` implements `FairLock`: every
  step is an acquisition, a request, a pass, a release, or a stutter.
  `MutexMissesNoSignal` (`NoMissedSignal`) rests on exclusion: between the test of
  the predicate and the push of its handle a waiter has the lock, so nobody makes
  the item there in between.
* **ThreadPoolProofs**: `PoolTypeCorrect` and `PoolNeverSleepsOnWork` from
  `PoolInv`. A `notify_one()` that finds nobody asleep must find a worker awake:
  in a running pool every worker was launched (`LaunchInv`) and none has left,
  since `PendingDestroy` is final (`DestroyInv`: once the destructor was entered,
  no caller is on its way to `state_ = Running`). `PoolUsesAllWorkers` strengthens
  the same argument to a count: each queued task has its own notification or a
  worker about to test. `PoolDropsNothing` (`EndInv`): a worker leaves only when
  it sees the queue empty, and whoever hands over a task is a worker that has not
  left or a caller that comes before the destructor, so a queue with tasks has a
  worker left for it. `PoolImplementsExecutor`: a worker's `Take` is the abstract start of the
  oldest task; every other step is an `execute()` or a stutter.
* **AsyncLogProofs**: `BuffersAlwaysGoRound`. That a pass finds a buffer for each
  spare it lent has to be known from the moment it lends one; `LoanInv` counts the
  loan against the buffers to print. `LoggerImplementsLog` and `QuietStopIsKept`: the
  file, the rest of the batch, `ready_` and `current_` follow one another without
  gap or overlap. `ChainInv` says so with borders: each buffer is the span of
  messages between two of them (`Span`), which avoids an induction over
  concatenated buffers; appending a message and printing the next buffer move one
  border each. What a destructor may count on lies before the border that the
  pass in progress reaches. `LogTypeCorrect` adds that a buffer is never full
  (`SizeInv`), so that a message fits into an empty one.
* **CoroFrameProofs**: each theorem has the premises that it needs and no others.
  `JoinWaitsForAllOrThrows`, `FrameTypeCorrect` and `OnlyKnownFaultsHappen` have none;
  `EachFrameHasOneResumer` needs `~JoinNothing`, `NoFrameIsLeft` that and `~Overwrite`.
  `NoFrameIsUsedAfterDestroy` needs `Premises` (`Remote` and `Outlive` are `FALSE`) and
  `~Migrate`: the run `spawn_remote` shows what happens with the first, the others are
  described below. None of the properties is inductive. `FrameInv`
  says in parts where a frame can be:
    * `LifeInv` (`Stage`): what the stage of a frame's life says of its promise, for
      instance that nobody awaits a frame that was not launched;
    * `StackInv`: a frame that runs or is in its final suspension is on one stack,
      once, and all below the last activation are in the final suspension, each
      about to destroy itself;
    * `OwnInv`: a `Coro` object has one owner, and refers to a frame that is gone
      only if the frame was launched. Without `Outlive` it never does: a launched
      one is still awaited by its owner or lies below it on the stack, so that its
      frame goes after the owner's object;
    * `ResumeInv`: a frame is suspended exactly if it is in one queue, outside,
      awaiting one child or joining, and only one of these;
    * `ArgInv`: the frame in the parameter of `spawn()` was launched, so that
      `~Coro()` destroys nothing, and on one's own thread it is still queued when the
      parameter is destroyed;
    * `FaultInv`: no frame is ever resumed that is not suspended, and under
      `Premises` none is touched that is gone.

  That all parties which resume hold the handle of a suspended frame
  (`ResumeInv`) does not depend on the premises. What is left to go wrong is named by
  `OnlyKnownFaultsHappen`: destructors that read `is_launched`, of the parameter of
  `spawn()` on the context of another thread and of an object that was awaited and
  outlived its `co_await`; the exception of an awaited coroutine; and two handlers of
  one `join` on different threads, which takes a coroutine that migrated.

  The lemma of each operation also says how it changes who waits for whom
  (`Quiet`, `Awaited`, `Gathered`, `Returned`). From these four kinds of step follow
  `KidsInv`, by which the count of a `join` is the number of its children that
  have not returned, in whatever order they end and also when one has thrown and
  the others go on, and `NoCycle`: in any set of frames there is one that waits for
  none of them. With nothing queued, running or outstanding, the frames that are
  left wait for each other or were never launched. `NoCycle` excludes the former;
  of the latter the one created last would have no owner, since a frame that did
  not run owns only older ones (`LastOfFrames`).

Every safety property, action property and refinement that a passing run checks is a
theorem. Only model-checked are the liveness properties, since liveness under
fairness and `ENABLED` are outside the prover; the four findings are TLC's
counterexamples. `Careful` and `Tame` (IoHandles), `Premises`, `~Migrate`, `~Overwrite`
and `~JoinNothing` (CoroFrame) are premises of theorems and not assumptions on the
constants: the specifications can be run without them.

## Where code and expectation disagree

Checked by runs that expect the violation:

1. `uring_msg_error` (`net/io_uring.cpp:169`): `handle_cqe` restores the user's
   pointer of a `SendTo`/`ReceiveFrom` in the success branch only. On failure
   the callback gets the `ResumeWithMsg` as its pointer, and the record is never
   deleted; the UDP example in the repository's README expects an exception there.
2. `pool_wait_lost` (`core/thread_pool.cpp:57`): `wait_flag_` is set once, before
   a wait whose predicate may fail again. A worker that finds the queue empty
   uses the flag up; if a running task refills the queue before the caller looks,
   the caller sleeps although the queue becomes and stays empty.
3. `pool_destroy_hangs` (`core/thread_pool.cpp:86`): in `PendingDestroy` with
   queued tasks the workers' predicate is false, and `join()` waits for ever.
   `DrainedDestroyReturns` shows that an empty queue is the condition for the
   destructor to return.
4. `spawn_remote` (`core/coro.h:142`): `spawn()` queues the handle of its parameter
   and then destroys the parameter, which reads `is_launched` in the frame. When
   the context is another thread's, as in the repository's server example, the
   frame may be gone by then.

Behind constants that `io` and `frames` fix, because the code asks its user to
keep away from them without saying so; changing the constants shows them:

* `Careful = FALSE` (`io`): a `RandomAccessFile` does not carry `attached_` when
  moved (`core/file.cpp:154`; its move constructor leaves it uninitialised): used
  on another context afterwards, it completes in the first one's port
  (`CompletesAtHome`) and the count there falls below zero (`IoNumCovers`). A move
  over an open object, and a `File`'s move to itself, lose the handle (`OwnedOnce`),
  but never make two owners of one (`ClosedOnce`, in `io_loose`).
  A `File` moved or destroyed with an operation outstanding is written through
  `pfile` afterwards, and two reads of one `File` that overlap are given the same
  offset, read the same bytes and advance it twice (`core/file.cpp:353`, `383`), also
  beyond what there is to read (`OffsetsTrue`; `io_two` violates it when the guard of
  `Start` is taken out).
* `Outlive = TRUE` (`frames`): a `Coro` that is awaited as a variable and kept
  over a further suspension is destroyed after its frame (`NoUseAfterDestroy`);
  `series()` of two or more children does this. `frames_loose` runs with it, and
  shows that this destructor and that of `spawn_remote` are the only ones.
* `Migrate = TRUE`: `spawn_blocking()` continues in the context that the pool is bound
  to (`core/thread_pool.h:106`). Children of one `join()` may then end on different
  threads, where they count, store the exception and resume the parent without
  synchronisation.
* `Overwrite = TRUE`: `Coro::operator=` (`core/coro.h:154`) forgets a frame that was
  not launched, which is never destroyed (`NoFrameLeaks`).
* `JoinNothing = TRUE`: `join()` without arguments (`core/impl/coro.hpp:32`) spawns
  nobody who could resume it: it and its awaiters wait for ever (`OneResumer`,
  `NoFrameLeaks`, `SuspensionEnds`).

In the model as in the code, without a constant and without a run of its own:

* `await_resume()` is `noexcept` and throws what the awaited coroutine has thrown
  (`core/coro.h:54`), so an exception that leaves a coroutine or a `join()` that is
  awaited ends the process. Exceptions only reach the handlers of `spawn()`.
* A submission queue that is full crashes the process (`net/io_uring.cpp:61`), as in
  `ctx_live`. Cancels are not counted in `io_num_`, and a `poll(0)` with `io_num_` at
  zero is skipped and submits nothing, so that they can pile up.

Met while reading, and not checked: the destructor of a `CoroContextPool` that was
never started joins threads that wait for `start_wg_`; `select()` does not compile,
as it copies `Noncopyable` objects; `io_service.cpp:66` gives a `receive` the
operation kind `Send`; `sleep_for()` ignores the verdict `false`, so a coroutine
whose context is destroyed is neither resumed nor destroyed.

## Not modelled

* Pipes: a pipe is a handle with the submissions of IoUring at offset 0 and moves
  like those of `File`; it has neither attachment nor offset, and on Windows
  `make_pipe()` is not written. `InetAddress` and protocol names are formatting and
  parsing; `Generator` runs inside one caller; `Functor`, `Logger`, `CurrentThread`,
  `error` and `Result` are sequential value types.
* Exceptions that leave user code (they would leave `poll()` before
  `io_uring_cq_advance`); the library's own callbacks resume coroutines whose
  promise catches everything.
* Data: buffers, addresses, error codes beyond success and failure, formatting.
  Fatal checks of misuse (`M_FATAL`) are preconditions, except the one of
  `attach_context`, which is the action `Fatal`.
* The destructor of a context while producers still use it, and the use of a
  pool by others during its destruction: both are misuse by C++ rules.
* Calls made by the timers' tasks that a context's destructor runs, and the depth
  of the machine stack (a coroutine that gets a free lock is resumed in place).
* In `ThreadPool`, the worker keeps the closure it ran until it pops the next
  one, and destroys it then under `mutex_`; the model frees it at its return.
* In `CoMutex` and `CoroFrame`, contexts are queues that always run; a lock or a
  handle that is given to a context that was stopped is not modelled, nor is
  locking from a thread without context.
* In `IoHandles`, the offset of a file opened to append, `bind`, `listen` and
  `shutdown`, which change no state of the objects; in `AsyncLog`, the files, their
  names and the change of file at midnight, writes that are cut short, whose result
  `async_logger.h:123` ignores, and messages longer than a buffer, which `buffer.h:24`
  cuts off.

## Plan

Every component with state of its own is modelled, and the safety properties,
type invariants and refinements are proved. What is left:

1. Handles given to a context that stopped (`CoMutex`, `CoroFrame`), which would
   join the models of coroutines with the loop of `CoroContext`.
2. The destructor's last timers (`~TimerQueue` calls tasks that may set timers).
