------------------------------- MODULE CoMutex -------------------------------
(***************************************************************************)
(* core/mutex.{h,cpp}: Mutex, LockGuard and Condition, used by coroutines  *)
(* of several contexts.  A section under Mutex::mutex_ or Condition::m_ is *)
(* one action; what is done with the popped entries after the unlock is an *)
(* action of its own.  Each context is a thread with a queue of handles    *)
(* (the Executor of the module of that name) and runs one coroutine at a   *)
(* time.  "item" is the state that the callers guard with the mutex.       *)
(***************************************************************************)
EXTENDS Integers, Sequences

CONSTANTS
    Coros,
    Contexts,
    Home,           \* the context each coroutine runs on
    PlainWaiters,   \* the coroutines that call wait(guard) without a predicate
    Nobody

ASSUME MutexAssumption ==
    /\ Home \in [Coros -> Contexts]
    /\ PlainWaiters \subseteq Coros
    /\ Nobody \notin Coros

VARIABLES
    flag,           \* Mutex::flag_, TRUE when free
    queue,          \* Mutex::queue_
    cqueue,         \* Condition::queue_
    pc,             \* where each coroutine is
    inWait,         \* it is inside Condition::wait
    out,            \* entries it popped and has not queued in their context yet
    ready,          \* handles queued in each context
    busy,           \* the coroutine a context is running
    item,           \* what the predicate of wait() looks at
    owes            \* it left the item for others and has not notified yet

mutexVars == <<flag, queue, cqueue, pc, inWait, out, ready, busy, item, owes>>

MutexInit ==
    /\ flag = TRUE
    /\ queue = <<>>
    /\ cqueue = <<>>
    /\ pc = [c \in Coros |-> "idle"]
    /\ inWait = [c \in Coros |-> FALSE]
    /\ out = [c \in Coros |-> <<>>]
    /\ ready = [x \in Contexts |-> <<>>]
    /\ busy = [x \in Contexts |-> Nobody]
    /\ item = FALSE
    /\ owes = [c \in Coros |-> FALSE]

Goto(c, step) == pc' = [pc EXCEPT ![c] = step]
LeaveThread(c) == busy' = [busy EXCEPT ![Home[c]] = Nobody]
EnterThread(c) == busy[Home[c]] = Nobody /\ busy' = [busy EXCEPT ![Home[c]] = c]

(***************************************************************************)
(* The coroutine's own life: it comes from and goes to other suspensions   *)
(* (I/O, timers), also while it holds the lock.                            *)
(***************************************************************************)
Begin(c) ==
    /\ pc[c] = "idle"
    /\ EnterThread(c) /\ Goto(c, "running")
    /\ UNCHANGED <<flag, queue, cqueue, inWait, out, ready, item, owes>>

End(c) ==
    /\ pc[c] = "running" /\ ~owes[c]
    /\ LeaveThread(c) /\ Goto(c, "idle")
    /\ UNCHANGED <<flag, queue, cqueue, inWait, out, ready, item, owes>>

Suspend(c) ==
    /\ pc[c] = "critical"
    /\ LeaveThread(c) /\ Goto(c, "away")
    /\ UNCHANGED <<flag, queue, cqueue, inWait, out, ready, item, owes>>

Continue(c) ==
    /\ pc[c] = "away"
    /\ EnterThread(c) /\ Goto(c, "critical")
    /\ UNCHANGED <<flag, queue, cqueue, inWait, out, ready, item, owes>>

Produce(c) ==
    /\ pc[c] = "critical" /\ ~item
    /\ item' = TRUE
    /\ owes' = [owes EXCEPT ![c] = TRUE]
    /\ UNCHANGED <<flag, queue, cqueue, pc, inWait, out, ready, busy>>

(***************************************************************************)
(* Mutex.                                                                  *)
(***************************************************************************)
\* Where a coroutine goes on that got the lock.
Acquired(c) == IF inWait[c] THEN "testing" ELSE "critical"

\* LockAwaitable and GuardAwaitable: await_suspend resumes in place or queues.
\* Mutant: flag_ is looked at and not cleared.
LockFreeKeepsFlag(c) ==
    /\ pc[c] \in {"running", "relock"} /\ ~owes[c]
    /\ flag
    /\ Goto(c, Acquired(c))
    /\ UNCHANGED <<flag, queue, cqueue, inWait, out, ready, busy, item, owes>>

LockFree(c) ==
    /\ pc[c] \in {"running", "relock"} /\ ~owes[c]
    /\ flag
    /\ flag' = FALSE
    /\ Goto(c, Acquired(c))
    /\ UNCHANGED <<queue, cqueue, inWait, out, ready, busy, item, owes>>

LockTaken(c) ==
    /\ pc[c] \in {"running", "relock"} /\ ~owes[c]
    /\ ~flag
    /\ queue' = Append(queue, c)
    /\ LeaveThread(c) /\ Goto(c, "blocked")
    /\ UNCHANGED <<flag, cqueue, inWait, out, ready, item, owes>>

\* Mutant: unlock() passes the lock to the youngest entry.
PassOnYoungest(c, to) ==
    /\ queue # <<>>
    /\ queue' = SubSeq(queue, 1, Len(queue) - 1)
    /\ out' = [out EXCEPT ![c] = <<queue[Len(queue)]>>]
    /\ pc' = [pc EXCEPT ![queue[Len(queue)]] = "granted", ![c] = to]
    /\ UNCHANGED flag

\* Mutex::unlock() under mutex_: the front entry gets the lock, flag_ stays
\* FALSE; "to" is where c goes with an entry in hand.
PassOn(c, to) ==
    /\ queue # <<>>
    /\ queue' = Tail(queue)
    /\ out' = [out EXCEPT ![c] = <<Head(queue)>>]
    /\ pc' = [pc EXCEPT ![Head(queue)] = "granted", ![c] = to]
    /\ UNCHANGED flag

\* Mutant: unlock() with nobody queued leaves flag_ alone.
SetFreeForgets(c, to) ==
    /\ queue = <<>>
    /\ Goto(c, to)
    /\ UNCHANGED <<flag, queue, out>>

SetFree(c, to) ==
    /\ queue = <<>>
    /\ flag' = TRUE
    /\ Goto(c, to)
    /\ UNCHANGED <<queue, out>>

Unlock(c) ==
    /\ pc[c] = "critical"
    /\ PassOn(c, "release") \/ SetFree(c, "running")
    /\ UNCHANGED <<cqueue, inWait, ready, busy, item, owes>>

(***************************************************************************)
(* Condition.                                                              *)
(***************************************************************************)
CallWait(c) ==
    /\ pc[c] = "critical" /\ ~owes[c]
    /\ inWait' = [inWait EXCEPT ![c] = TRUE]
    /\ Goto(c, IF c \in PlainWaiters THEN "enqueue" ELSE "testing")
    /\ UNCHANGED <<flag, queue, cqueue, out, ready, busy, item, owes>>

\* while (!pred()); the section that waited for the item takes it.
PredTrue(c) ==
    /\ pc[c] = "testing" /\ c \notin PlainWaiters /\ item
    /\ item' = FALSE
    /\ inWait' = [inWait EXCEPT ![c] = FALSE]
    /\ Goto(c, "critical")
    /\ UNCHANGED <<flag, queue, cqueue, out, ready, busy, owes>>

\* Mutant: the mutex is unlocked before the coroutine is in the queue.
PredFalseUnlocks(c) ==
    /\ pc[c] = "testing" /\ c \notin PlainWaiters /\ ~item
    /\ queue = <<>>
    /\ flag' = TRUE
    /\ Goto(c, "enqueue")
    /\ UNCHANGED <<queue, cqueue, inWait, out, ready, busy, item, owes>>

PredFalse(c) ==
    /\ pc[c] = "testing" /\ c \notin PlainWaiters /\ ~item
    /\ Goto(c, "enqueue")
    /\ UNCHANGED <<flag, queue, cqueue, inWait, out, ready, busy, item, owes>>

\* wait(guard) returns whatever the item is; a caller that does not take what
\* is there passes the notification on.
PlainReturn(c) ==
    /\ pc[c] = "testing" /\ c \in PlainWaiters
    /\ inWait' = [inWait EXCEPT ![c] = FALSE]
    /\ owes' = [owes EXCEPT ![c] = item]
    /\ Goto(c, "critical")
    /\ UNCHANGED <<flag, queue, cqueue, out, ready, busy, item>>

\* push_back under m_, the coroutine being suspended already
Enqueue(c) ==
    /\ pc[c] = "enqueue"
    /\ cqueue' = Append(cqueue, c)
    /\ Goto(c, "enqueued")
    /\ UNCHANGED <<flag, queue, inWait, out, ready, busy, item, owes>>

\* then guard.mutex_.unlock(); await_suspend returns to the context's loop
WaitUnlock(c) ==
    /\ pc[c] = "enqueued"
    /\ \/ PassOn(c, "releaseWait") /\ UNCHANGED busy
       \/ SetFree(c, "waiting") /\ LeaveThread(c)
    /\ UNCHANGED <<cqueue, inWait, ready, item, owes>>

\* Mutant: notify hands out the entries and leaves them in the queue.
NotifySomeKeeps(c, n) ==
    /\ pc[c] \in {"running", "critical"}
    /\ owes' = [owes EXCEPT ![c] = FALSE]
    /\ out' = [out EXCEPT ![c] = SubSeq(cqueue, 1, n)]
    /\ Goto(c, IF n = 0 THEN pc[c] ELSE IF pc[c] = "critical" THEN "notifyIn" ELSE "notifyOut")
    /\ UNCHANGED <<flag, queue, cqueue, inWait, ready, busy, item>>

\* notify_one(), notify_all() under m_, by a coroutine with or without the lock
NotifySome(c, n) ==
    /\ pc[c] \in {"running", "critical"}
    /\ owes' = [owes EXCEPT ![c] = FALSE]
    /\ out' = [out EXCEPT ![c] = SubSeq(cqueue, 1, n)]
    /\ cqueue' = SubSeq(cqueue, n + 1, Len(cqueue))
    /\ Goto(c, IF n = 0 THEN pc[c] ELSE IF pc[c] = "critical" THEN "notifyIn" ELSE "notifyOut")
    /\ UNCHANGED <<flag, queue, inWait, ready, busy, item>>

NotifyOne(c) == NotifySome(c, IF cqueue = <<>> THEN 0 ELSE 1)
NotifyAll(c) == NotifySome(c, Len(cqueue))

(***************************************************************************)
(* entry.ctx->queue_in_context(entry.h), and the contexts.                 *)
(***************************************************************************)
Resumption == [release |-> "running", releaseWait |-> "waiting",
               notifyIn |-> "critical", notifyOut |-> "running"]

Deliver(c) ==
    /\ out[c] # <<>>
    /\ ready' = [ready EXCEPT ![Home[Head(out[c])]] = Append(@, Head(out[c]))]
    /\ out' = [out EXCEPT ![c] = Tail(@)]
    /\ IF Len(out[c]) = 1 THEN Goto(c, Resumption[pc[c]]) ELSE UNCHANGED pc
    /\ IF Len(out[c]) = 1 /\ pc[c] = "releaseWait" THEN LeaveThread(c) ELSE UNCHANGED busy
    /\ UNCHANGED <<flag, queue, cqueue, inWait, item, owes>>

\* h.resume(): await_resume of lock(), or what follows the wait in the queue.
RunReady(x) ==
    /\ ready[x] # <<>>
    /\ LET c == Head(ready[x])
       IN  /\ EnterThread(c)
           /\ Goto(c, IF pc[c] = "granted" THEN Acquired(c) ELSE "relock")
    /\ ready' = [ready EXCEPT ![x] = Tail(@)]
    /\ UNCHANGED <<flag, queue, cqueue, inWait, out, item, owes>>

MutexNext ==
    \/ \E c \in Coros :
          \/ Begin(c) \/ End(c) \/ Suspend(c) \/ Continue(c) \/ Produce(c)
          \/ LockFree(c) \/ LockTaken(c) \/ Unlock(c)
          \/ CallWait(c) \/ PredTrue(c) \/ PredFalse(c) \/ PlainReturn(c)
          \/ Enqueue(c) \/ WaitUnlock(c) \/ NotifyOne(c) \/ NotifyAll(c)
          \/ Deliver(c)
    \/ \E x \in Contexts : RunReady(x)

MutexSpec == MutexInit /\ [][MutexNext]_mutexVars

(***************************************************************************)
(* Fairness: contexts run what is queued (CoroContext shows it), a         *)
(* coroutine that keeps taking a free lock, which never suspends it, gets  *)
(* to some other suspension in the end, one that holds the lock gives it   *)
(* back, one that changed the item notifies.                               *)
(***************************************************************************)
LockStep(c) == LockFree(c) \/ LockTaken(c)
WaitStep(c) == PredTrue(c) \/ PredFalse(c) \/ PlainReturn(c) \/ Enqueue(c) \/ WaitUnlock(c)
OwedNotify(c) == owes[c] /\ (NotifyOne(c) \/ NotifyAll(c))

MutexFairness ==
    /\ \A x \in Contexts : SF_mutexVars(RunReady(x))
    /\ \A c \in Coros :
          /\ WF_mutexVars(Deliver(c)) /\ WF_mutexVars(WaitStep(c))
          /\ WF_mutexVars(pc[c] = "relock" /\ LockStep(c))
          /\ SF_mutexVars(Continue(c) \/ End(c))
          /\ SF_mutexVars(Unlock(c)) /\ WF_mutexVars(OwedNotify(c))

FairMutexSpec == MutexSpec /\ MutexFairness

(***************************************************************************)
(* Properties.                                                             *)
(***************************************************************************)
Steps == {"idle", "running", "relock", "blocked", "granted", "critical", "away", "testing",
          "enqueue", "enqueued", "waiting", "release", "releaseWait", "notifyIn", "notifyOut"}

Suspended == {"idle", "blocked", "granted", "away", "waiting"}

Elements(s) == {s[i] : i \in DOMAIN s}

MutexTypeOK ==
    /\ flag \in BOOLEAN /\ item \in BOOLEAN
    /\ queue \in Seq(Coros) /\ cqueue \in Seq(Coros)
    /\ pc \in [Coros -> Steps]
    /\ inWait \in [Coros -> BOOLEAN] /\ owes \in [Coros -> BOOLEAN]
    /\ out \in [Coros -> Seq(Coros)]
    /\ ready \in [Contexts -> Seq(Coros)]
    /\ busy \in [Contexts -> Coros \cup {Nobody}]
    /\ \A c \in Coros : busy[Home[c]] = c <=> pc[c] \notin Suspended

\* c has the lock: it is in the section, or an entry popped by unlock() says so.
Holds(c) == pc[c] \in {"granted", "critical", "away", "testing", "enqueue", "enqueued", "notifyIn"}

\* At most one coroutine has the lock, one that it was handed to and that its
\* context has not resumed yet included; and then nobody finds the flag up.
MutualExclusion ==
    /\ \A c, d \in Coros : Holds(c) /\ Holds(d) => c = d
    /\ flag => \A c \in Coros : ~Holds(c)

\* A lock that nobody has is free: none is lost on its way between contexts.
NeverStranded == ~flag => \E c \in Coros : Holds(c)

\* A handle is resumed on its own context's thread, once, and only when its
\* coroutine is suspended there, although Condition::wait makes it known to
\* other threads while it is still running.
ResumesSuspended ==
    \A x \in Contexts : busy[x] = Nobody /\ ready[x] # <<>> =>
        /\ Home[Head(ready[x])] = x
        /\ pc[Head(ready[x])] \in {"granted", "waiting"}
        /\ \A i \in 2 .. Len(ready[x]) : ready[x][i] # Head(ready[x])

Holder == IF flag THEN Nobody ELSE CHOOSE c \in Coros : Holds(c)

\* The mutex implements a lock that is passed on in the order of the requests.
Lock == INSTANCE FairLock WITH holder <- Holder, waiters <- queue
ImplementsFairLock == Lock!LockSpec

\* Some coroutine in the queue waits for the item with the predicate.
Asked == Elements(cqueue) \ PlainWaiters # {}

\* No wake-up is missed between the test of the predicate and the suspension,
\* nor swallowed by a waiter without a predicate that passes it on: while the
\* item is there and someone waits for it, a coroutine still has to notify, or
\* one that was notified is on its way to test the predicate.
NoMissedSignal ==
    item /\ Asked => \E c \in Coros : owes[c] \/ (inWait[c] /\ c \notin Elements(cqueue))

\* Who asks for the lock gets it, on whatever context it waits.
LockGranted == \A c \in Coros : pc[c] = "blocked" ~> pc[c] \in {"critical", "testing"}
=============================================================================
