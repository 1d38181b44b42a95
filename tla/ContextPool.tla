----------------------------- MODULE ContextPool -----------------------------
(***************************************************************************)
(* core/coro_context_pool.{h,cpp} with utils/wait_group.h: one thread per  *)
(* context.  Context 0 belongs to the thread that owns the pool, so a      *)
(* context and its thread have one name.  A context is what CoroContext    *)
(* was shown to implement: a queue of tasks, run in order while its loop   *)
(* is not stopped.  WaitGroup notifies under its mutex, so a wait is a     *)
(* guard on its counter.                                                   *)
(***************************************************************************)
EXTENDS Integers, Sequences, SequencesExt, FiniteSets

CONSTANTS
    Num,            \* how many contexts
    Tasks,
    StopTask,       \* the closure of the destructor
    NoTask

ASSUME ContextPoolAssumption ==
    /\ Num \in Nat \ {0}
    /\ StopTask \notin Tasks /\ NoTask \notin Tasks \cup {StopTask}

Contexts == 0 .. Num - 1
Workers == 1 .. Num - 1

VARIABLES
    poolState,      \* state_
    buildLeft,      \* build_ctx_wg_
    startLeft,      \* start_wg_
    nextIdx,        \* next_idx_
    built,          \* the elements of contexts_ that are not null
    pc,             \* where each thread is
    queue,          \* the tasks queued in each context
    ctxState,       \* state_ of each context
    busy,           \* the task each context is running
    reg,            \* what a call of next_context() has read of next_idx_
    told            \* the contexts the destructor has sent its closure to

contextPoolVars == <<poolState, buildLeft, startLeft, nextIdx, built, pc, queue, ctxState, busy, reg, told>>

ContextPoolInit ==
    /\ poolState = "Stopping"
    /\ buildLeft = Num - 1 /\ startLeft = 1
    /\ nextIdx = 0
    /\ built = {}
    /\ pc = [x \in Contexts |-> IF x = 0 THEN "construct" ELSE "none"]
    /\ queue = [x \in Contexts |-> <<>>]
    /\ ctxState = [x \in Contexts |-> "Stopping"]
    /\ busy = [x \in Contexts |-> NoTask]
    /\ reg = [x \in Contexts |-> <<>>]
    /\ told = {}

Goto(x, step) == pc' = [pc EXCEPT ![x] = step]

\* WaitGroup::done()
Done(n) == IF n = 0 THEN 0 ELSE n - 1

(***************************************************************************)
(* The constructor, the threads and start_all().                           *)
(***************************************************************************)
SpawnThreads ==
    /\ pc[0] = "construct"
    /\ built' = {0}
    /\ pc' = [x \in Contexts |-> IF x = 0 THEN "building" ELSE "build"]
    /\ UNCHANGED <<poolState, buildLeft, startLeft, nextIdx, queue, ctxState, busy, reg, told>>

\* Mutant: a thread reports before its context is there.
BuildAfterDone(i) ==
    /\ \/ pc[i] = "build" /\ Goto(i, "report") /\ UNCHANGED built /\ buildLeft' = Done(buildLeft)
       \/ pc[i] = "report" /\ Goto(i, "start") /\ built' = built \cup {i} /\ UNCHANGED buildLeft
    /\ UNCHANGED <<poolState, startLeft, nextIdx, queue, ctxState, busy, reg, told>>

Build(i) ==
    /\ \/ pc[i] = "build" /\ Goto(i, "report") /\ built' = built \cup {i} /\ UNCHANGED buildLeft
       \/ pc[i] = "report" /\ Goto(i, "start") /\ buildLeft' = Done(buildLeft) /\ UNCHANGED built
    /\ UNCHANGED <<poolState, startLeft, nextIdx, queue, ctxState, busy, reg, told>>

Constructed ==
    /\ pc[0] = "building" /\ buildLeft = 0
    /\ Goto(0, "idle")
    /\ UNCHANGED <<poolState, buildLeft, startLeft, nextIdx, built, queue, ctxState, busy, reg, told>>

\* A second call, or one after the destructor began, is fatal.
StartAll ==
    /\ pc[0] = "idle" /\ poolState = "Stopping" /\ reg[0] = <<>>
    /\ poolState' = "Running"
    /\ startLeft' = Done(startLeft)
    /\ Goto(0, "start")
    /\ UNCHANGED <<buildLeft, nextIdx, built, queue, ctxState, busy, reg, told>>

\* contexts_[x]->start()
Start(x) ==
    /\ pc[x] = "start" /\ startLeft = 0
    /\ ctxState' = [ctxState EXCEPT ![x] = "Running"]
    /\ Goto(x, "loop")
    /\ UNCHANGED <<poolState, buildLeft, startLeft, nextIdx, built, queue, busy, reg, told>>

(***************************************************************************)
(* A context's loop.  The tasks of the batch that is being run are run     *)
(* also after stop().                                                      *)
(***************************************************************************)
\* Mutant: the youngest task goes first.
TakeYoungest(x) ==
    /\ pc[x] = "loop" /\ busy[x] = NoTask /\ queue[x] # <<>>
    /\ busy' = [busy EXCEPT ![x] = Last(queue[x])]
    /\ queue' = [queue EXCEPT ![x] = Front(@)]
    /\ UNCHANGED <<poolState, buildLeft, startLeft, nextIdx, built, pc, ctxState, reg, told>>

Take(x) ==
    /\ pc[x] = "loop" /\ busy[x] = NoTask /\ queue[x] # <<>>
    /\ busy' = [busy EXCEPT ![x] = Head(queue[x])]
    /\ queue' = [queue EXCEPT ![x] = Tail(@)]
    /\ UNCHANGED <<poolState, buildLeft, startLeft, nextIdx, built, pc, ctxState, reg, told>>

\* contexts_[i]->stop() by the destructor's closure; any task may stop the
\* context that runs it.
Stop(x) ==
    /\ busy[x] # NoTask /\ ctxState[x] = "Running"
    /\ ctxState' = [ctxState EXCEPT ![x] = "Stopping"]
    /\ UNCHANGED <<poolState, buildLeft, startLeft, nextIdx, built, pc, queue, busy, reg, told>>

Return(x) ==
    /\ busy[x] # NoTask /\ reg[x] = <<>>
    /\ busy[x] = StopTask => ctxState[x] = "Stopping"
    /\ busy' = [busy EXCEPT ![x] = NoTask]
    /\ UNCHANGED <<poolState, buildLeft, startLeft, nextIdx, built, pc, queue, ctxState, reg, told>>

Leave(x) ==
    /\ pc[x] = "loop" /\ busy[x] = NoTask /\ ctxState[x] = "Stopping"
    /\ Goto(x, IF x = 0 THEN "idle" ELSE "exited")
    /\ UNCHANGED <<poolState, buildLeft, startLeft, nextIdx, built, queue, ctxState, busy, reg, told>>

(***************************************************************************)
(* next_context() and get(), by a task or by the owner outside its loop.   *)
(***************************************************************************)
MayCall(a) == busy[a] \in Tasks \/ (a = 0 /\ pc[0] = "idle")
Fresh(t) == \A x \in Contexts : t \notin ToSet(queue[x]) /\ busy[x] # t
Push(x, t) == queue' = [queue EXCEPT ![x] = Append(@, t)]

\* get(x).execute(t)
Execute(a, x, t) ==
    /\ MayCall(a) /\ reg[a] = <<>> /\ Fresh(t)
    /\ Push(x, t)
    /\ UNCHANGED <<poolState, buildLeft, startLeft, nextIdx, built, pc, ctxState, busy, reg, told>>

\* next_idx_ is read for the result, and again for the increment.
ReadNext(a) ==
    /\ MayCall(a) /\ Len(reg[a]) < 2
    /\ reg' = [reg EXCEPT ![a] = Append(@, nextIdx)]
    /\ UNCHANGED <<poolState, buildLeft, startLeft, nextIdx, built, pc, queue, ctxState, busy, told>>

Succ(n) == (n + 1) % Num

\* Another thread may have stored in between; the caller uses the context that
\* the result was read for, or does not.
StoreNext(a) ==
    /\ Len(reg[a]) = 2
    /\ nextIdx' = Succ(reg[a][2])
    /\ UNCHANGED queue \/ \E t \in Tasks : Fresh(t) /\ Push(reg[a][1], t)
    /\ reg' = [reg EXCEPT ![a] = <<>>]
    /\ UNCHANGED <<poolState, buildLeft, startLeft, built, pc, ctxState, busy, told>>

(***************************************************************************)
(* The destructor, on the owner's thread.                                  *)
(***************************************************************************)
Destroy ==
    /\ pc[0] = "idle" /\ reg[0] = <<>>
    /\ poolState' = "PendingDestroy"
    /\ Goto(0, "destroy")
    /\ UNCHANGED <<buildLeft, startLeft, nextIdx, built, queue, ctxState, busy, reg, told>>

\* Mutant: the destructor stops the contexts itself.
StopDirectly(i) ==
    /\ pc[0] = "destroy" /\ i \notin told
    /\ ctxState' = [ctxState EXCEPT ![i] = "Stopping"]
    /\ told' = told \cup {i}
    /\ UNCHANGED <<poolState, buildLeft, startLeft, nextIdx, built, pc, queue, busy, reg>>

SendStop(i) ==
    /\ pc[0] = "destroy" /\ i \notin told
    /\ Push(i, StopTask)
    /\ told' = told \cup {i}
    /\ UNCHANGED <<poolState, buildLeft, startLeft, nextIdx, built, pc, ctxState, busy, reg>>

Join ==
    /\ pc[0] = "destroy" /\ told = Workers
    /\ \A i \in Workers : pc[i] = "exited"
    /\ Goto(0, "done")
    /\ built' = {}
    /\ queue' = [x \in Contexts |-> <<>>]
    /\ UNCHANGED <<poolState, buildLeft, startLeft, nextIdx, ctxState, busy, reg, told>>

(***************************************************************************)
(* The specification.  Threads are scheduled, tasks return, a batch has an *)
(* end; whether tasks hand over others, or stop a context, is up to them.  *)
(***************************************************************************)
OwnerStep == SpawnThreads \/ Constructed \/ Join \/ \E i \in Workers : SendStop(i)

ContextPoolNext ==
    \/ OwnerStep \/ StartAll \/ Destroy
    \/ \E i \in Workers : Build(i)
    \/ \E a \in Contexts :
          \/ Start(a) \/ Take(a) \/ Stop(a) \/ Return(a) \/ Leave(a)
          \/ ReadNext(a) \/ StoreNext(a)
          \/ \E t \in Tasks, x \in Contexts : Execute(a, x, t)

ContextPoolSpec == ContextPoolInit /\ [][ContextPoolNext]_contextPoolVars

ContextPoolFairness ==
    /\ WF_contextPoolVars(OwnerStep)
    /\ \A i \in Workers : WF_contextPoolVars(Build(i))
    /\ \A x \in Contexts :
          /\ WF_contextPoolVars(Start(x)) /\ WF_contextPoolVars(Take(x))
          /\ SF_contextPoolVars(Leave(x)) /\ SF_contextPoolVars(Return(x))
          /\ WF_contextPoolVars(busy[x] = StopTask /\ Stop(x))
          /\ WF_contextPoolVars(ReadNext(x) /\ reg[x] # <<>>) /\ WF_contextPoolVars(StoreNext(x))

FairContextPoolSpec == ContextPoolSpec /\ ContextPoolFairness

(***************************************************************************)
(* Properties.                                                             *)
(***************************************************************************)
ContextPoolTypeOK ==
    /\ poolState \in {"Stopping", "Running", "PendingDestroy"}
    /\ buildLeft \in 0 .. Num - 1 /\ startLeft \in {0, 1}
    /\ nextIdx \in Contexts
    /\ built \subseteq Contexts /\ told \subseteq Workers
    /\ pc \in [Contexts -> {"construct", "building", "idle", "none", "build", "report",
                            "start", "loop", "exited", "destroy", "done"}]
    /\ queue \in [Contexts -> Seq(Tasks \cup {StopTask})]
    /\ ctxState \in [Contexts -> {"Running", "Stopping"}]
    /\ busy \in [Contexts -> Tasks \cup {StopTask, NoTask}]
    /\ reg \in [Contexts -> Seq(Contexts)]

\* Once the constructor has returned no call of the pool, from whatever thread,
\* reaches a context that its thread has not built yet or that is gone.
BuiltBeforeUse ==
    /\ pc[0] \notin {"construct", "building", "done"} => built = Contexts
    /\ \A x \in Contexts : queue[x] # <<>> \/ busy[x] # NoTask => x \in built

\* Tasks queued in a context before start_all(), or by calls of next_context()
\* that raced with others, are started like any, unless their context stops.
QueuedTaskStarts ==
    \A x \in Contexts, t \in Tasks :
        t \in ToSet(queue[x]) /\ startLeft = 0
            ~> t \notin ToSet(queue[x]) \/ pc[x] \in {"exited", "idle", "destroy", "done"}

\* The destructor of a pool that was started returns, also when a thread has
\* not reached its loop yet, or left it before: the closure is not lost.
StartedDestroyReturns == pc[0] = "destroy" /\ startLeft = 0 ~> pc[0] = "done"
=============================================================================
