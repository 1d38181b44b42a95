----------------------------- MODULE TimerQueue -----------------------------
(***************************************************************************)
(* core/timer_queue.h: TimerQueue, TimerHandle, and the vector of expired  *)
(* tasks that CoroContext::start runs.  Deadlines and the clock are kept   *)
(* as an order: the queue is sorted by deadline, and the first nDue timers *)
(* of it have a deadline that passed.  Every call comes from one thread.   *)
(***************************************************************************)
EXTENDS Integers, FiniteSets, Sequences, SequencesExt

CONSTANT Timers         \* TimerData objects; a name is reused when it is gone

VARIABLES
    heap,               \* timers_, by deadline
    nDue,               \* how many of them are due
    flag,               \* TimerData::flag
    batch,              \* the result vector of get_expired, not yet run
    heard               \* history: what each timer's task was called with

timerVars == <<heap, nDue, flag, batch, heard>>

TimerInit ==
    /\ heap = <<>>
    /\ nDue = 0
    /\ flag = [t \in Timers |-> FALSE]
    /\ batch = <<>>
    /\ heard = [t \in Timers |-> {FALSE}]       \* an unused name is owed nothing

Queued(t) == t \in ToSet(heap)

\* Whether a timer put after i others is due: it is when a later one is, it is
\* not when an earlier one is not, and at the border it may be either.
DueAt(i) == {due \in BOOLEAN : (i < nDue => due) /\ (i > nDue => ~due)}

\* push()
Push(t) ==
    /\ ~Queued(t)
    /\ t \notin ToSet(batch)
    /\ \E i \in 0 .. Len(heap) :
          /\ heap' = InsertAt(heap, i + 1, t)
          /\ \E due \in DueAt(i) : nDue' = IF due THEN nDue + 1 ELSE nDue
    /\ flag' = [flag EXCEPT ![t] = TRUE]
    /\ heard' = [heard EXCEPT ![t] = {}]
    /\ UNCHANGED batch

Tick ==
    /\ nDue < Len(heap)
    /\ nDue' = nDue + 1
    /\ UNCHANGED <<heap, flag, batch, heard>>

\* Mutant: get_expired forgets to look at flag.
ExpiresAll(t) == TRUE
\* A cancelled timer is popped at its deadline without being run.
Expires(t) == flag[t]

\* get_expired(): the tasks of the timers that expire are moved out in the
\* order of their deadlines, and with the last shared_ptr the TimerData goes,
\* so that no handle can reach the timer any more.
GetExpired ==
    /\ LET told == {i \in 1 .. nDue : Expires(heap[i])}
       IN  \E index \in Bijection(1 .. Cardinality(told), told) :
              /\ \A j, k \in DOMAIN index : j < k => index[j] < index[k]
              /\ batch' = [k \in 1 .. Cardinality(told) |-> heap[index[k]]]
    /\ heap' = SubSeq(heap, nDue + 1, Len(heap))
    /\ nDue' = 0
    /\ UNCHANGED <<flag, heard>>

\* task(true) on the next timer of the batch
FireNext ==
    /\ batch # <<>>
    /\ heard' = [heard EXCEPT ![Head(batch)] = @ \cup {TRUE}]
    /\ batch' = Tail(batch)
    /\ UNCHANGED <<heap, nDue, flag>>

\* Mutant: a cancelled timer is taken out of the queue and never told.
CancelSilently(t) ==
    /\ Queued(t)
    /\ flag' = [flag EXCEPT ![t] = FALSE]
    /\ UNCHANGED <<heap, nDue, batch, heard>>

\* TimerHandle::cancel() as long as the weak_ptr locks; it has no effect later.
CancelTimer(t) ==
    /\ Queued(t)
    /\ flag' = [flag EXCEPT ![t] = FALSE]
    /\ heard' = [heard EXCEPT ![t] = @ \cup {FALSE}]
    /\ UNCHANGED <<heap, nDue, batch>>

\* ~TimerQueue(): every task still queued hears false, cancelled or not.
DestroyTimers ==
    /\ heap # <<>>
    /\ batch = <<>>
    /\ heard' = [t \in Timers |-> IF Queued(t) THEN heard[t] \cup {FALSE} ELSE heard[t]]
    /\ heap' = <<>>
    /\ nDue' = 0
    /\ UNCHANGED <<flag, batch>>

TimerNext ==
    \/ \E t \in Timers : Push(t) \/ CancelTimer(t)
    \/ Tick
    \/ batch = <<>> /\ GetExpired
    \/ FireNext
    \/ DestroyTimers

TimerSpec == TimerInit /\ [][TimerNext]_timerVars

(***************************************************************************)
(* Properties.                                                             *)
(***************************************************************************)
TimerTypeOK ==
    /\ heap \in Seq(Timers)
    /\ nDue \in 0 .. Len(heap)
    /\ flag \in [Timers -> BOOLEAN]
    /\ batch \in Seq(Timers)
    /\ heard \in [Timers -> SUBSET BOOLEAN]

\* cancel() returning true is a promise: the task that heard false is never
\* run with true, wherever the timer is when cancel() is called.
NeverBothVerdicts == \A t \in Timers : heard[t] # BOOLEAN

\* No task is dropped: one that heard nothing is still queued, or in the batch
\* that the loop is running.
NoneForgotten ==
    \A t \in Timers : heard[t] = {} => Queued(t) \/ t \in ToSet(batch)
=============================================================================
