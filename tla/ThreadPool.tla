------------------------------ MODULE ThreadPool ------------------------------
(***************************************************************************)
(* core/thread_pool.{h,cpp}.  A critical section of mutex_ is one action;  *)
(* the notify call that follows an unlock is an action of its own, so that *)
(* other threads run in between.  A thread blocked on a condition variable *)
(* may wake without being notified.                                        *)
(***************************************************************************)
EXTENDS Integers, Sequences, SequencesExt

CONSTANTS
    Workers,            \* threads_
    Callers,            \* threads that use the pool from outside
    Owner,              \* the caller that destroys it
    Tasks,
    NoTask,
    Nested              \* whether tasks hand over tasks

ASSUME PoolAssumption ==
    /\ Workers # {} /\ IsFiniteSet(Workers)
    /\ Owner \in Callers /\ IsFiniteSet(Callers)
    /\ Workers \cap Callers = {}
    /\ NoTask \notin Tasks
    /\ Nested \in BOOLEAN

VARIABLES
    state,              \* state_
    started,            \* once_flag_ is used up
    waitFlag,           \* wait_flag_
    tasks,              \* tasks_
    pc,                 \* where each thread is
    job,                \* the task a worker is running
    destroying          \* the destructor was entered

poolVars == <<state, started, waitFlag, tasks, pc, job, destroying>>

PoolInit ==
    /\ state = "Stopping"
    /\ started = FALSE
    /\ waitFlag = FALSE
    /\ tasks = <<>>
    /\ pc = [a \in Workers \cup Callers |-> IF a \in Workers THEN "none" ELSE "idle"]
    /\ job = [w \in Workers |-> NoTask]
    /\ destroying = FALSE

At(a, step) == pc[a] = step
Goto(a, step) == pc' = [pc EXCEPT ![a] = step]

\* A thread outside the pool makes no call once the destructor is running.
Free(c) == At(c, "idle") /\ ~destroying

\* Every thread of a set blocked at "from" goes on to "to".
WakeAll(from, to, threads) == [a \in DOMAIN threads |-> IF threads[a] = from THEN to ELSE threads[a]]

Fresh(t) == t \notin ToSet(tasks) /\ \A w \in Workers : job[w] # t

(***************************************************************************)
(* start(), stop(), execute().                                             *)
(***************************************************************************)
StartThreads(c) ==
    /\ Free(c)
    /\ started' = TRUE
    /\ pc' = [WakeAll("none", "test", pc) EXCEPT ![c] = "starting"]
    /\ UNCHANGED <<state, waitFlag, tasks, job, destroying>>

\* Mutant: start() notifies nobody.
SetRunningSilently(c) ==
    /\ At(c, "starting")
    /\ state' = "Running"
    /\ Goto(c, "idle")
    /\ UNCHANGED <<started, waitFlag, tasks, job, destroying>>

SetRunning(c) ==
    /\ At(c, "starting")
    /\ state' = "Running"
    /\ Goto(c, "notifyAll")
    /\ UNCHANGED <<started, waitFlag, tasks, job, destroying>>

NotifyAll(c) ==
    /\ At(c, "notifyAll")
    /\ pc' = [WakeAll("asleep", "test", pc) EXCEPT ![c] = IF destroying THEN "join" ELSE "idle"]
    /\ UNCHANGED <<state, started, waitFlag, tasks, job, destroying>>

\* stop() notifies nobody.
Stop(c) ==
    /\ Free(c)
    /\ state' = "Stopping"
    /\ UNCHANGED <<started, waitFlag, tasks, pc, job, destroying>>

\* A caller, or the task that a worker is running, hands over another task.
MayExecute(a) == IF a \in Workers THEN Nested /\ At(a, "run") ELSE Free(a)

\* Mutant: execute() notifies nobody.
ExecuteSilently(a, t) ==
    /\ MayExecute(a) /\ Fresh(t)
    /\ tasks' = Append(tasks, t)
    /\ UNCHANGED <<state, started, waitFlag, pc, job, destroying>>

Execute(a, t) ==
    /\ MayExecute(a) /\ Fresh(t)
    /\ tasks' = Append(tasks, t)
    /\ Goto(a, "notify")
    /\ UNCHANGED <<state, started, waitFlag, job, destroying>>

\* notify_one() wakes some sleeping worker, if there is one.
Notify(a) ==
    /\ At(a, "notify")
    /\ LET back == IF a \in Workers THEN "run" ELSE "idle"
           sleeping == {w \in Workers : At(w, "asleep")}
       IN  \/ sleeping = {} /\ Goto(a, back)
           \/ \E w \in sleeping : pc' = [pc EXCEPT ![w] = "test", ![a] = back]
    /\ UNCHANGED <<state, started, waitFlag, tasks, job, destroying>>

(***************************************************************************)
(* run_in_background(): the predicate of cv_.wait, then the task.          *)
(***************************************************************************)
\* Nothing to do: a waiter is told, and the worker leaves or sleeps.
TestEmpty(w) ==
    /\ At(w, "test") /\ tasks = <<>>
    /\ LET told == IF waitFlag THEN WakeAll("waiting", "rewait", pc) ELSE pc
       IN  pc' = [told EXCEPT ![w] = IF state = "PendingDestroy" THEN "exited" ELSE "asleep"]
    /\ waitFlag' = FALSE
    /\ UNCHANGED <<state, started, tasks, job, destroying>>

\* Mutant: PendingDestroy is tested before the queue.
TestHeldLeaves(w) ==
    /\ At(w, "test") /\ tasks # <<>> /\ state # "Running"
    /\ Goto(w, IF state = "PendingDestroy" THEN "exited" ELSE "asleep")
    /\ UNCHANGED <<state, started, waitFlag, tasks, job, destroying>>

\* Something to do, and the pool is not running.
TestHeld(w) ==
    /\ At(w, "test") /\ tasks # <<>> /\ state # "Running"
    /\ Goto(w, "asleep")
    /\ UNCHANGED <<state, started, waitFlag, tasks, job, destroying>>

\* Mutant: the youngest task is taken.
TakeYoungest(w) ==
    /\ At(w, "test") /\ tasks # <<>> /\ state = "Running"
    /\ job' = [job EXCEPT ![w] = Last(tasks)]
    /\ tasks' = Front(tasks)
    /\ Goto(w, "run")
    /\ UNCHANGED <<state, started, waitFlag, destroying>>

Take(w) ==
    /\ At(w, "test") /\ tasks # <<>> /\ state = "Running"
    /\ job' = [job EXCEPT ![w] = Head(tasks)]
    /\ tasks' = Tail(tasks)
    /\ Goto(w, "run")
    /\ UNCHANGED <<state, started, waitFlag, destroying>>

Return(w) ==
    /\ At(w, "run")
    /\ job' = [job EXCEPT ![w] = NoTask]
    /\ Goto(w, "test")
    /\ UNCHANGED <<state, started, waitFlag, tasks, destroying>>

(***************************************************************************)
(* wait() and the destructor.                                              *)
(***************************************************************************)
\* The caller returns from wait(): the destructor goes on, others are done.
AfterWait(entered) == IF entered THEN "destroy" ELSE "idle"

Wait(c) ==
    /\ Free(c) /\ state = "Running"
    /\ waitFlag' = TRUE
    /\ Goto(c, IF tasks = <<>> THEN "idle" ELSE "waiting")
    /\ UNCHANGED <<state, started, tasks, job, destroying>>

\* The predicate of wait_cv_.wait, after a notification.
Rewait(c) ==
    /\ At(c, "rewait")
    /\ Goto(c, IF tasks = <<>> THEN AfterWait(destroying) ELSE "waiting")
    /\ UNCHANGED <<state, started, waitFlag, tasks, job, destroying>>

\* The destructor calls wait() first, which returns at once unless Running.
Destroy ==
    /\ Free(Owner)
    /\ \A c \in Callers \ {Owner} : At(c, "idle")
    /\ destroying' = TRUE
    /\ waitFlag' = (waitFlag \/ state = "Running")
    /\ Goto(Owner, IF state = "Running" /\ tasks # <<>> THEN "waiting" ELSE "destroy")
    /\ UNCHANGED <<state, started, tasks, job>>

\* Mutant: the destructor joins workers that it did not wake.
SetPendingDestroySilently ==
    /\ At(Owner, "destroy")
    /\ state' = "PendingDestroy"
    /\ Goto(Owner, "join")
    /\ UNCHANGED <<started, waitFlag, tasks, job, destroying>>

SetPendingDestroy ==
    /\ At(Owner, "destroy")
    /\ state' = "PendingDestroy"
    /\ Goto(Owner, "notifyAll")
    /\ UNCHANGED <<started, waitFlag, tasks, job, destroying>>

Join ==
    /\ At(Owner, "join")
    /\ \A w \in Workers : pc[w] \in {"none", "exited"}
    /\ tasks' = <<>>
    /\ Goto(Owner, "done")
    /\ UNCHANGED <<state, started, waitFlag, job, destroying>>

SpuriousWake(a) ==
    /\ \/ At(a, "asleep") /\ Goto(a, "test")
       \/ At(a, "waiting") /\ Goto(a, "rewait")
    /\ UNCHANGED <<state, started, waitFlag, tasks, job, destroying>>

(***************************************************************************)
(* The specification.  Threads are scheduled and tasks return; whether a   *)
(* task or a caller hands over more work, stops or waits is up to it.      *)
(***************************************************************************)
CallerStep(c) == SetRunning(c) \/ NotifyAll(c) \/ Notify(c) \/ Rewait(c)
WorkerStep(w) == Notify(w) \/ TestEmpty(w) \/ TestHeld(w) \/ Take(w)
OwnerStep == SetPendingDestroy \/ Join

PoolNext ==
    \/ \E c \in Callers : CallerStep(c) \/ StartThreads(c) \/ Stop(c) \/ Wait(c)
    \/ \E w \in Workers : WorkerStep(w) \/ Return(w)
    \/ \E a \in Workers \cup Callers :
          SpuriousWake(a) \/ \E t \in Tasks : Execute(a, t)
    \/ OwnerStep \/ Destroy

PoolSpec == PoolInit /\ [][PoolNext]_poolVars

PoolFairness ==
    /\ \A c \in Callers : WF_poolVars(CallerStep(c))
    /\ \A w \in Workers : WF_poolVars(WorkerStep(w)) /\ SF_poolVars(Return(w))
    /\ WF_poolVars(OwnerStep)

FairPoolSpec == PoolSpec /\ PoolFairness

(***************************************************************************)
(* Properties.                                                             *)
(***************************************************************************)
PoolTypeOK ==
    /\ state \in {"Stopping", "Running", "PendingDestroy"}
    /\ started \in BOOLEAN /\ waitFlag \in BOOLEAN /\ destroying \in BOOLEAN
    /\ tasks \in Seq(Tasks)
    /\ pc \in [Workers \cup Callers -> {"none", "test", "asleep", "run", "notify", "exited",
                 "idle", "starting", "notifyAll", "waiting", "rewait", "destroy", "join", "done"}]
    /\ job \in [Workers -> Tasks \cup {NoTask}]
    /\ \A w \in Workers : job[w] # NoTask <=> pc[w] \in {"run", "notify"}

Busy(w) == pc[w] \in {"test", "run", "notify"}
Notifying(c) == pc[c] \in {"notify", "notifyAll"}

\* The pool never sleeps on its work: while it runs and tasks are queued, some
\* worker is awake or some thread is about to notify.
NoSleepingOnWork ==
    state = "Running" /\ tasks # <<>> =>
        (\E w \in Workers : Busy(w)) \/ (\E c \in Callers : Notifying(c))

\* Nor does it run on fewer workers than it could: while one sleeps, every
\* queued task has a worker on its way to it or a notification of its own.
UsesAllWorkers ==
    state = "Running" /\ (\A c \in Callers : ~At(c, "notifyAll")) /\ (\E w \in Workers : At(w, "asleep"))
        => Len(tasks) <= Cardinality({a \in Workers \cup Callers : pc[a] \in {"test", "notify"}})

\* execute() hands each task to one worker, in the order of the calls.
Exec == INSTANCE Executor WITH
    queue <- tasks,
    running <- {job[w] : w \in Workers} \ {NoTask},
    open <- pc[Owner] # "done"
ImplementsExecutor == Exec!ExecutorSpec

\* A queued task is started as long as the pool keeps running.
TaskStarts ==
    \A t \in Tasks : t \in ToSet(tasks) ~> t \notin ToSet(tasks) \/ state # "Running"

\* When the destructor of a started pool returns, no task was dropped, those
\* handed over while it was waiting and joining included.
NoneDropped == [][started /\ pc'[Owner] = "done" => tasks = <<>>]_poolVars

\* wait() is wait_cv_.wait(lk, [this] { return tasks_.empty(); }): a caller does
\* not stay blocked once the queue has become and remains empty.
WaitReturns ==
    <>[](tasks = <<>>) => \A c \in Callers : []<>(pc[c] \notin {"waiting", "rewait"})

\* "One thread exits" once the state is PendingDestroy: join() returns for
\* every worker, and so does the destructor.
DestroyReturns == At(Owner, "join") ~> At(Owner, "done")

\* The same of a destructor that comes to join an empty queue and workers that
\* run nothing any more, however the tasks before handed over others.
DrainedDestroyReturns ==
    At(Owner, "join") /\ tasks = <<>> /\ (\A w \in Workers : job[w] = NoTask) ~> At(Owner, "done")
=============================================================================
