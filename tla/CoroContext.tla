----------------------------- MODULE CoroContext -----------------------------
(***************************************************************************)
(* core/coro_context.{h,cpp}: the event loop of one thread, composed of    *)
(* the timer queue and the ring.  A task, a timer's task and the callback  *)
(* of an operation are user code: while one of them is on the stack, and   *)
(* outside start(), the thread may call any member function.  Other        *)
(* threads (producers) only call execute().                                *)
(***************************************************************************)
EXTENDS IoUring, TimerQueue

CONSTANTS
    Tasks,          \* closures given to execute() or dispatch()
    Producers,      \* the other threads
    MaxDepth        \* bound: how deep user code nests (dispatch, cancel)

ASSUME ContextAssumption ==
    /\ Ops \cap Tasks = {} /\ Ops \cap Timers = {} /\ Tasks \cap Timers = {}
    /\ MaxDepth \in Nat \ {0}

VARIABLES
    pc,             \* where start() is; "idle" outside of it
    state,          \* state_
    pending,        \* pending_handles_
    handles,        \* the vector swapped out, without what already ran
    stack,          \* the user code in progress, innermost last
    zero,           \* next_duration is zero
    prod            \* "wake": pushed its task, has not called wake_up() yet

loopVars == <<pc, state, pending, handles, stack, zero, prod>>
contextVars == <<ringVars, timerVars, loopVars>>

ContextInit ==
    /\ RingInit
    /\ TimerInit
    /\ pc = "idle"
    /\ state = "Stopping"
    /\ pending = <<>>
    /\ handles = <<>>
    /\ stack = <<>>
    /\ zero = FALSE
    /\ prod = [p \in Producers |-> "idle"]

Enter(u) ==
    /\ Len(stack) < MaxDepth
    /\ stack' = Append(stack, u)

Fresh(t) == t \notin ToSet(pending) \cup ToSet(handles) \cup ToSet(stack)

UserCode == pc = "idle" \/ stack # <<>>
Looping(step) == pc = step /\ stack = <<>>

(***************************************************************************)
(* Calls of user code on the context's thread.                             *)
(***************************************************************************)
LocalExecute(t) ==
    /\ UserCode /\ Fresh(t)
    /\ pending' = Append(pending, t)
    /\ UNCHANGED <<ringVars, timerVars, pc, state, handles, stack, zero, prod>>

\* dispatch() and wake_in_context() run in place.
Dispatch(t) ==
    /\ UserCode /\ Fresh(t)
    /\ Enter(t)
    /\ UNCHANGED <<ringVars, timerVars, pc, state, pending, handles, zero, prod>>

Stop ==
    /\ UserCode
    /\ state' = "Stopping"
    /\ UNCHANGED <<ringVars, timerVars, pc, pending, handles, stack, zero, prod>>

SubmitOp(o) ==
    /\ UserCode /\ o \notin ToSet(stack)
    /\ Submit(o)
    /\ UNCHANGED <<timerVars, loopVars>>

CancelOps(k) ==
    /\ UserCode
    /\ Cancel(k)
    /\ UNCHANGED <<timerVars, loopVars>>

\* expires_after() and expires_until()
ExpiresAfter(t) ==
    /\ UserCode /\ t \notin ToSet(stack)
    /\ Push(t)
    /\ UNCHANGED <<ringVars, loopVars>>

CancelExpiry(t) ==
    /\ UserCode
    /\ CancelTimer(t)
    /\ Enter(t)
    /\ UNCHANGED <<ringVars, pc, state, pending, handles, zero, prod>>

\* A closure, a timer's task or a callback returns.
Return ==
    /\ stack # <<>>
    /\ stack' = Front(stack)
    /\ IF Last(stack) \in Ops THEN CallbackReturns ELSE UNCHANGED ringVars
    /\ UNCHANGED <<timerVars, pc, state, pending, handles, zero, prod>>

(***************************************************************************)
(* start(), one action per section between two looks at shared state.      *)
(***************************************************************************)
Start ==
    /\ Looping("idle")
    /\ state' = "Running"
    /\ pc' = "head"
    /\ UNCHANGED <<ringVars, timerVars, pending, handles, stack, zero, prod>>

Leave ==
    /\ Looping("head") /\ state = "Stopping"
    /\ pc' = "idle"
    /\ UNCHANGED <<ringVars, timerVars, state, pending, handles, stack, zero, prod>>

\* Mutant: the tasks are copied out and stay pending.
SwapCopies ==
    /\ Looping("head") /\ state # "Stopping"
    /\ handles' = pending
    /\ pc' = "handles"
    /\ UNCHANGED <<ringVars, timerVars, state, pending, stack, zero, prod>>

Swap ==
    /\ Looping("head") /\ state # "Stopping"
    /\ handles' = pending
    /\ pending' = handles
    /\ pc' = "handles"
    /\ UNCHANGED <<ringVars, timerVars, state, stack, zero, prod>>

RunHandle ==
    /\ Looping("handles") /\ handles # <<>>
    /\ handles' = Tail(handles)
    /\ Enter(Head(handles))
    /\ UNCHANGED <<ringVars, timerVars, pc, state, pending, zero, prod>>

Expire ==
    /\ Looping("handles") /\ handles = <<>>
    /\ GetExpired
    /\ pc' = "timers"
    /\ UNCHANGED <<ringVars, state, pending, handles, stack, zero, prod>>

RunTimer ==
    /\ Looping("timers")
    /\ FireNext
    /\ Enter(Head(batch))
    /\ UNCHANGED <<ringVars, pc, state, pending, handles, zero, prod>>

\* Mutant: the wait is chosen without a second look at pending_handles_.
DontWaitNoRecheck == nDue > 0 \/ state = "Stopping"
\* Mutant: the second look forgets that stop() may have been called.
DontWaitNoStop == nDue > 0 \/ pending # <<>>
\* next_duration() is zero, or made zero under the mutex.
DontWait == nDue > 0 \/ pending # <<>> \/ state = "Stopping"

ChooseWait ==
    /\ Looping("timers") /\ batch = <<>>
    /\ zero' = DontWait
    /\ pc' = "poll"
    /\ UNCHANGED <<ringVars, timerVars, state, pending, handles, stack, prod>>

SkipWait ==
    /\ Looping("poll") /\ PollSkips(zero)
    /\ pc' = "head"
    /\ UNCHANGED <<timerVars, state, pending, handles, stack, zero, prod>>

EnterWait ==
    /\ Looping("poll") /\ PollEnters(zero)
    /\ UNCHANGED <<timerVars, loopVars>>

\* Back to the loop without a completion.  An interrupted wait and the default
\* wait of one day may end it at any time.
WaitInterrupted ==
    /\ WaitEndsEmpty
    /\ pc' = "head"
    /\ UNCHANGED <<timerVars, state, pending, handles, stack, zero, prod>>

\* Mutant: poll() is always given the default wait or none.
WaitTimesOutIfZero == zero /\ WaitInterrupted

WaitTimesOut == (zero \/ nDue > 0) /\ WaitInterrupted

\* poll() returns -1: the loop stops its own context.
WaitFails ==
    /\ WaitEndsEmpty
    /\ pc' = "head"
    /\ state' = "Stopping"
    /\ UNCHANGED <<timerVars, pending, handles, stack, zero, prod>>

Completions ==
    /\ WaitEndsReady
    /\ UNCHANGED <<timerVars, loopVars>>

RunCallback(o) ==
    /\ HandleOp(o)
    /\ Enter(o)
    /\ UNCHANGED <<timerVars, pc, state, pending, handles, zero, prod>>

NextInternal ==
    /\ HandleWake \/ \E k \in Cancels : HandleCancel(k)
    /\ UNCHANGED <<timerVars, loopVars>>

EndPoll ==
    /\ PollReturns
    /\ pc' = "head"
    /\ UNCHANGED <<timerVars, state, pending, handles, stack, zero, prod>>

\* ~CoroContext() outside start(): the timers' tasks hear false, what is still
\* pending is dropped.
Destroy ==
    /\ Looping("idle") /\ \A p \in Producers : prod[p] = "idle"
    /\ IF heap # <<>> THEN DestroyTimers ELSE UNCHANGED timerVars
    /\ pending' = <<>>
    /\ pc' = "destroyed"
    /\ UNCHANGED <<ringVars, state, handles, stack, zero, prod>>

(***************************************************************************)
(* Other threads, the kernel and the clock.                                *)
(***************************************************************************)
\* Mutant: execute() relies on the next poll and does not wake.
RemoteExecuteNoWake(p, t) ==
    /\ prod[p] = "idle" /\ Fresh(t)
    /\ pending' = Append(pending, t)
    /\ UNCHANGED <<ringVars, timerVars, pc, state, handles, stack, zero, prod>>

RemoteExecute(p, t) ==
    /\ prod[p] = "idle" /\ Fresh(t)
    /\ pending' = Append(pending, t)
    /\ prod' = [prod EXCEPT ![p] = "wake"]
    /\ UNCHANGED <<ringVars, timerVars, pc, state, handles, stack, zero>>

RemoteWakeUp(p) ==
    /\ prod[p] = "wake"
    /\ WakeUp
    /\ prod' = [prod EXCEPT ![p] = "idle"]
    /\ UNCHANGED <<timerVars, pc, state, pending, handles, stack, zero>>

Kernel ==
    /\ CompleteWake \/ \E r \in Requests : Complete(r)
    /\ UNCHANGED <<timerVars, loopVars>>

Clock == Tick /\ UNCHANGED <<ringVars, loopVars>>

(***************************************************************************)
(* The specification.  The thread is scheduled, the kernel completes the   *)
(* wake-up read when the counter is set, a producer that pushed goes on to *)
(* wake_up(), and user code returns.  Nothing is assumed of the clock, of  *)
(* other operations, or of how often user code submits more work.          *)
(***************************************************************************)
UserCalls ==
    \/ \E t \in Tasks : LocalExecute(t) \/ Dispatch(t)
    \/ \E t \in Timers : ExpiresAfter(t) \/ CancelExpiry(t)
    \/ \E o \in Ops : SubmitOp(o)
    \/ \E k \in Cancels : CancelOps(k)
    \/ Stop \/ Return

LoopStep ==
    \/ Leave \/ Swap \/ RunHandle \/ Expire \/ RunTimer \/ ChooseWait
    \/ SkipWait \/ EnterWait \/ WaitTimesOut \/ Completions
    \/ NextInternal \/ EndPoll
    \/ \E o \in Ops : RunCallback(o)

Environment ==
    \/ \E p \in Producers : RemoteWakeUp(p) \/ \E t \in Tasks : RemoteExecute(p, t)
    \/ Kernel \/ Clock

ContextNext ==
    /\ at # "crashed" /\ pc # "destroyed"
    /\ \/ UserCalls \/ LoopStep \/ Environment
       \/ Start \/ Destroy \/ WaitInterrupted \/ WaitFails

ContextSpec == ContextInit /\ [][ContextNext]_contextVars

Alive(A) == at # "crashed" /\ pc # "destroyed" /\ A

ContextFairness ==
    /\ WF_contextVars(Alive(LoopStep))
    /\ \A d \in 1 .. MaxDepth : SF_contextVars(Alive(Len(stack) = d /\ Return))
    /\ WF_contextVars(Alive(CompleteWake /\ UNCHANGED <<timerVars, loopVars>>))
    /\ \A p \in Producers : WF_contextVars(Alive(RemoteWakeUp(p)))

FairContextSpec == ContextSpec /\ ContextFairness

(***************************************************************************)
(* Properties.                                                             *)
(***************************************************************************)
ContextTypeOK ==
    /\ RingTypeOK /\ TimerTypeOK
    /\ pc \in {"idle", "head", "handles", "timers", "poll", "destroyed"}
    /\ state \in {"Running", "Stopping"}
    /\ pending \in Seq(Tasks) /\ handles \in Seq(Tasks)
    /\ stack \in Seq(Tasks \cup Timers \cup Ops)
    /\ zero \in BOOLEAN
    /\ prod \in [Producers -> {"idle", "wake"}]

\* execute() pushes under the mutex and wakes later, start() looks at
\* pending_handles_ before it waits, and the callback of the wake-up read submits
\* the next one: a thread that blocks while a task is pending has a read of
\* wake_up_fd_ in the kernel and a write on its way, or the read has completed.
NoLostWakeup ==
    at = "wait" /\ ~zero /\ pending # <<>> =>
        \/ loc[Wake] = "ok"
        \/ loc[Wake] = "kernel" /\ (eventfd \/ \E p \in Producers : prod[p] = "wake")

\* execute() runs each task once, in the order of the calls; dispatch() on the
\* context's thread may overtake.
Exec == INSTANCE Executor WITH
    queue <- handles \o pending,
    running <- ToSet(stack) \cap Tasks,
    open <- pc # "destroyed"
ImplementsExecutor == Exec!ExecutorSpec

Out == pc \in {"idle", "destroyed"} \/ at = "crashed"

\* A task that was handed over starts, unless the loop ends: it is neither
\* left behind by a blocked thread nor starved by operations and timers.
TaskRuns == \A t \in Tasks : t \in ToSet(pending) ~> t \in ToSet(stack) \/ Out

\* An operation that the kernel completed has its callback run, however busy
\* tasks and timers keep the loop: poll() is not skipped for ever.
CompletionDelivered == \A o \in Ops : loc[o] \in {"ok", "err"} ~> loc[o] = "free" \/ Out

\* A timer whose deadline passed is answered, however busy the loop is, also
\* when the thread was waiting for completions.
TimerAnswered ==
    \A t \in Timers : t \in ToSet(SubSeq(heap, 1, nDue)) ~> heard[t] # {} \/ Out

\* stop() ends the loop although operations, timers or tasks are outstanding.
StopLeaves == state = "Stopping" ~> Out
=============================================================================
