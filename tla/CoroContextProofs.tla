-------------------------- MODULE CoroContextProofs --------------------------
(***************************************************************************)
(* What holds of the event loop for every set of tasks, timers, operations *)
(* and producers: of its timer queue, of its use of the ring, of the       *)
(* wake-up protocol, and that it implements Executor.                      *)
(***************************************************************************)
EXTENDS CoroContext, QueueFacts, FiniteSetTheorems, TLAPS

(***************************************************************************)
(* The ring, by itself: for every set of requests and every queue size.    *)
(***************************************************************************)

\* User operations between their submission and their callback.
Outstanding == {o \in Ops : loc[o] # "free"}

\* ioNum \in Nat is not inductive: a completion decrements it.  That it counts
\* the outstanding operations is what keeps it above zero there.
RingInv == RingTypeOK /\ IoNumExact /\ WakeReadOutstanding

LEMMA OutstandingFinite == IsFiniteSet(Outstanding) /\ Cardinality(Outstanding) \in Nat
<1>1. Outstanding \in SUBSET Ops  BY DEF Outstanding
<1>2. IsFiniteSet(Outstanding)    BY <1>1, RingAssumption, FS_Subset
<1> QED  BY <1>2, FS_CardinalityType

\* A step that changes where no operation is, nor how many are counted.
LEMMA SameOperations ==
  ASSUME RingInv, ioNum' = ioNum, \A o \in Ops : (loc'[o] # "free") = (loc[o] # "free"),
         at' # "crashed" => at # "crashed"
  PROVE  IoNumExact'
<1>1. Outstanding' = Outstanding  BY DEF Outstanding
<1> QED  BY <1>1 DEF RingInv, IoNumExact, Outstanding

\* GetSqe keeps the shape of the variables, and puts the request in the queue
\* or ends the process.
LEMMA GetSqeType ==
  ASSUME RingInv, NEW r \in Requests, GetSqe(r)
  PROVE  /\ loc' \in [Requests -> Places]
         /\ at' \in {"out", "wait", "reap", "callback", "crashed"}
         /\ \/ loc' = [loc EXCEPT ![r] = "sq"] /\ at' = at
            \/ loc' = loc /\ at' = "crashed"
  BY DEF GetSqe, RingInv, RingTypeOK, Places

LEMMA InitRingInv == RingInit => RingInv
<1> SUFFICES ASSUME RingInit PROVE RingInv
  OBVIOUS
<1>1. Outstanding = {}  BY RingAssumption DEF RingInit, Outstanding, Requests
<1>2. IoNumExact        BY <1>1, FS_EmptySet DEF RingInit, IoNumExact, Outstanding
<1> QED  BY <1>2 DEF RingInit, RingInv, RingTypeOK, WakeReadOutstanding, Requests, Places

LEMMA NextRingInv == RingInv /\ [RingNext]_ringVars => RingInv'
<1> SUFFICES ASSUME RingInv, [RingNext]_ringVars PROVE RingInv'
  OBVIOUS
<1> USE RingAssumption DEF Requests, Places
<1>1. ASSUME NEW o \in Ops, Submit(o), at # "crashed" PROVE RingInv'
  <2>1. GetSqe(o) /\ loc[o] = "free" /\ ioNum' = ioNum + 1 /\ UNCHANGED eventfd
    BY <1>1 DEF Submit
  <2>2. RingTypeOK' /\ WakeReadOutstanding'
    BY <1>1, <2>1, GetSqeType DEF Submit, RingInv, RingTypeOK, WakeReadOutstanding
  <2>3. ASSUME at' # "crashed" PROVE ioNum' = Cardinality(Outstanding')
    <3>1. loc' = [loc EXCEPT ![o] = "sq"]  BY <2>1, <2>3, GetSqeType
    <3>2. Outstanding' = Outstanding \cup {o}
      BY <3>1 DEF Outstanding, RingInv, RingTypeOK
    <3>3. o \notin Outstanding  BY <2>1 DEF Outstanding
    <3>4. ioNum = Cardinality(Outstanding)
      BY <1>1 DEF RingInv, IoNumExact, Outstanding
    <3> QED  BY <2>1, <3>2, <3>3, <3>4, OutstandingFinite, FS_AddElement
  <2> QED  BY <2>2, <2>3 DEF RingInv, IoNumExact, Outstanding
<1>2. ASSUME NEW o \in Ops, HandleOp(o) PROVE RingInv'
  <2>1. o \in Outstanding  BY <1>2 DEF HandleOp, Outstanding
  <2>2. Outstanding' = Outstanding \ {o}
    BY <1>2 DEF HandleOp, Outstanding, RingInv, RingTypeOK
  <2>3. Cardinality(Outstanding) # 0  BY <2>1, OutstandingFinite, FS_EmptySet
  <2>4. ioNum = Cardinality(Outstanding)
    BY <1>2 DEF HandleOp, RingInv, IoNumExact, Outstanding
  <2>5. Cardinality(Outstanding \ {o}) = Cardinality(Outstanding) - 1
    BY <2>1, OutstandingFinite, FS_RemoveElement
  <2>6. ioNum' = Cardinality(Outstanding') /\ ioNum' \in Nat
    BY <1>2, <2>2, <2>3, <2>4, <2>5, OutstandingFinite DEF HandleOp
  <2>7. RingTypeOK' /\ WakeReadOutstanding'
    BY <1>2, <2>6 DEF HandleOp, CallbackArg, RingInv, RingTypeOK, WakeReadOutstanding
  <2> QED  BY <2>6, <2>7 DEF RingInv, IoNumExact, Outstanding
<1>3. ASSUME NEW k \in Cancels, Cancel(k) PROVE RingInv'
  <2>1. RingTypeOK' /\ WakeReadOutstanding'
    BY <1>3, GetSqeType DEF Cancel, RingInv, RingTypeOK, WakeReadOutstanding
  <2>2. IoNumExact'
    BY <1>3, GetSqeType, SameOperations DEF Cancel, RingInv, RingTypeOK
  <2> QED  BY <2>1, <2>2 DEF RingInv
<1>4. ASSUME NEW k \in Cancels, HandleCancel(k) PROVE RingInv'
  <2>1. RingTypeOK' /\ WakeReadOutstanding'
    BY <1>4 DEF HandleCancel, RingInv, RingTypeOK, WakeReadOutstanding
  <2>2. IoNumExact'
    BY <1>4, SameOperations DEF HandleCancel, RingInv, RingTypeOK
  <2> QED  BY <2>1, <2>2 DEF RingInv
<1>5. ASSUME HandleWake PROVE RingInv'
  <2>1. RingTypeOK' /\ WakeReadOutstanding'
    BY <1>5, GetSqeType DEF HandleWake, RingInv, RingTypeOK, WakeReadOutstanding
  <2>2. IoNumExact'
    BY <1>5, GetSqeType, SameOperations DEF HandleWake, RingInv, RingTypeOK
  <2> QED  BY <2>1, <2>2 DEF RingInv
<1>6. ASSUME NEW nowait \in BOOLEAN, PollEnters(nowait) PROVE RingInv'
  <2>1. RingTypeOK' /\ WakeReadOutstanding'
    BY <1>6 DEF PollEnters, RingInv, RingTypeOK, WakeReadOutstanding
  <2>2. IoNumExact'
    BY <1>6, SameOperations DEF PollEnters, RingInv, RingTypeOK
  <2> QED  BY <2>1, <2>2 DEF RingInv
<1>7. ASSUME NEW r \in Requests, Complete(r) PROVE RingInv'
  <2>1. RingTypeOK' /\ WakeReadOutstanding'
    BY <1>7 DEF Complete, RingInv, RingTypeOK, WakeReadOutstanding
  <2>2. \A o \in Ops : (loc'[o] # "free") = (loc[o] # "free")
    BY <1>7 DEF Complete, RingInv, RingTypeOK
  <2>3. IoNumExact'
    BY <1>7, <2>2, SameOperations DEF Complete
  <2> QED  BY <2>1, <2>3 DEF RingInv
<1>8. ASSUME CompleteWake PROVE RingInv'
  <2>1. RingTypeOK' /\ WakeReadOutstanding'
    BY <1>8 DEF CompleteWake, RingInv, RingTypeOK, WakeReadOutstanding
  <2>2. IoNumExact'
    BY <1>8, SameOperations DEF CompleteWake, RingInv, RingTypeOK
  <2> QED  BY <2>1, <2>2 DEF RingInv
<1>9. ASSUME WaitEndsEmpty \/ WaitEndsReady \/ CallbackReturns \/ PollReturns \/ WakeUp
      PROVE RingInv'
  BY <1>9 DEF WaitEndsEmpty, WaitEndsReady, CallbackReturns, PollReturns, WakeUp,
              RingInv, RingTypeOK, IoNumExact, WakeReadOutstanding
<1>10. ASSUME UNCHANGED ringVars PROVE RingInv'
  BY <1>10 DEF ringVars, RingInv, RingTypeOK, IoNumExact, WakeReadOutstanding
<1> QED  BY <1>1, <1>2, <1>3, <1>4, <1>5, <1>6, <1>7, <1>8, <1>9, <1>10 DEF RingNext, PollSkips

\* The loop, and with it every other part, may rely on these for any number of
\* operations: the variables keep their shape, io_num_ is exact, and the
\* context can be woken.
THEOREM RingTypeCorrect == RingSpec => []RingTypeOK
<1>1. RingInv => RingTypeOK  BY DEF RingInv
<1> QED  BY <1>1, InitRingInv, NextRingInv, PTL DEF RingSpec

\* io_num_ is the number of user operations in flight, so poll(0) returns
\* without a system call only when there is none.
THEOREM IoNumIsExact == RingSpec => []IoNumExact
<1>1. RingInv => IoNumExact  BY DEF RingInv
<1> QED  BY <1>1, InitRingInv, NextRingInv, PTL DEF RingSpec

\* A read of wake_up_fd_ is outstanding in every state: prep_wake_up() follows
\* each completion of it.
THEOREM AlwaysWakeable == RingSpec => []WakeReadOutstanding
<1>1. RingInv => WakeReadOutstanding  BY DEF RingInv
<1> QED  BY <1>1, InitRingInv, NextRingInv, PTL DEF RingSpec

\* While the thread waits, the wake-up read is in the kernel or has completed:
\* poll() submits what the read's callback prepared.
WakeReadInv ==
    /\ loc[Wake] \in {"sq", "kernel", "ok"}
    /\ at = "wait" => loc[Wake] # "sq"

LEMMA NextWakeReadInv ==
  ASSUME RingTypeOK, WakeReadInv, [RingNext]_ringVars
  PROVE  WakeReadInv'
<1> USE RingAssumption DEF Requests, RingTypeOK, WakeReadInv
<1>1. ASSUME NEW o \in Ops, Submit(o) \/ HandleOp(o) PROVE WakeReadInv'
  BY <1>1 DEF Submit, GetSqe, HandleOp
<1>2. ASSUME NEW k \in Cancels, Cancel(k) \/ HandleCancel(k) PROVE WakeReadInv'
  BY <1>2 DEF Cancel, GetSqe, HandleCancel
<1>3. ASSUME NEW nowait \in BOOLEAN, PollSkips(nowait) \/ PollEnters(nowait) PROVE WakeReadInv'
  BY <1>3 DEF PollSkips, PollEnters, ringVars
<1>4. ASSUME HandleWake PROVE WakeReadInv'
  BY <1>4 DEF HandleWake, GetSqe
<1>5. ASSUME NEW r \in Requests, Complete(r) PROVE WakeReadInv'
  BY <1>5 DEF Complete
<1>6. ASSUME CompleteWake PROVE WakeReadInv'
  BY <1>6 DEF CompleteWake
<1>7. ASSUME WaitEndsEmpty \/ WaitEndsReady \/ CallbackReturns \/ PollReturns \/ WakeUp
      PROVE  WakeReadInv'
  BY <1>7 DEF WaitEndsEmpty, WaitEndsReady, CallbackReturns, PollReturns, WakeUp
<1>8. CASE UNCHANGED ringVars
  BY <1>8 DEF ringVars
<1> QED  BY <1>1, <1>2, <1>3, <1>4, <1>5, <1>6, <1>7, <1>8 DEF RingNext

-----------------------------------------------------------------------------

(***************************************************************************)
(* The timer queue.                                                        *)
(***************************************************************************)

\* What a timer's task was called with follows from where the timer is: only a
\* cancelled one was called while it is queued, and it then has its flag down,
\* which keeps it out of every later batch.
Answered(t) ==
    /\ Queued(t) => heard[t] = IF flag[t] THEN {} ELSE {FALSE}
    /\ t \in ToSet(batch) => heard[t] = {}
    /\ ~Queued(t) /\ t \notin ToSet(batch) => heard[t] \in {{TRUE}, {FALSE}}

TimerInv ==
    /\ TimerTypeOK
    /\ Distinct(heap) /\ Distinct(batch)
    /\ ToSet(heap) \cap ToSet(batch) = {}
    /\ \A t \in Timers : Answered(t)

LEMMA TimerVerdicts == TimerInv => NeverBothVerdicts /\ NoneForgotten
  BY DEF TimerInv, TimerTypeOK, Answered, NeverBothVerdicts, NoneForgotten

LEMMA InitTimerInv == TimerInit => TimerInv
<1> SUFFICES ASSUME TimerInit PROVE TimerInv
  OBVIOUS
<1>1. TimerTypeOK  BY EmptySeq DEF TimerInit, TimerTypeOK
<1>2. \A t \in Timers : Answered(t)
  BY EmptyQueue DEF TimerInit, Answered, Queued
<1> QED  BY <1>1, <1>2, EmptyQueue DEF TimerInit, TimerInv

LEMMA PushTimer == ASSUME TimerInv, NEW t \in Timers, Push(t) PROVE TimerInv'
<1> USE DEF TimerInv, TimerTypeOK
<1>1. PICK i \in 0 .. Len(heap) :
         /\ heap' = InsertAt(heap, i + 1, t)
         /\ \E due \in DueAt(i) : nDue' = IF due THEN nDue + 1 ELSE nDue
  BY DEF Push
<1>2. /\ heap' \in Seq(Timers) /\ Len(heap') = Len(heap) + 1
      /\ ToSet(heap') = ToSet(heap) \cup {t} /\ Distinct(heap')
  <2>1. heap \in Seq(Timers) /\ Distinct(heap) /\ t \notin ToSet(heap)  BY DEF Push, Queued
  <2> HIDE DEF TimerInv, TimerTypeOK
  <2>0. i \in 0 .. Len(heap)  BY <1>1
  <2>2. /\ InsertAt(heap, i + 1, t) \in Seq(Timers)
        /\ Len(InsertAt(heap, i + 1, t)) = Len(heap) + 1
        /\ ToSet(InsertAt(heap, i + 1, t)) = ToSet(heap) \cup {t}
        /\ Distinct(InsertAt(heap, i + 1, t))
    <3>1. InsertAt(heap, i + 1, t) \in Seq(Timers)  BY <2>0, <2>1, InsertQueue
    <3>2. Len(InsertAt(heap, i + 1, t)) = Len(heap) + 1  BY <2>0, <2>1, InsertQueue
    <3>3. ToSet(InsertAt(heap, i + 1, t)) = ToSet(heap) \cup {t}  BY <2>0, <2>1, InsertQueue
    <3>4. Distinct(InsertAt(heap, i + 1, t))  BY <2>0, <2>1, InsertQueue
    <3> QED  BY <3>1, <3>2, <3>3, <3>4
  <2> QED  BY <1>1, <2>2
<1>3. nDue' \in 0 .. Len(heap')
  BY <1>1, <1>2, LenProperties
<1>4. TimerTypeOK'
  BY <1>2, <1>3 DEF Push
<1>5. \A u \in Timers : Answered(u)'
  BY <1>2 DEF Push, Answered, Queued
<1> QED  BY <1>2, <1>4, <1>5 DEF Push, Queued

LEMMA CancelOneTimer == ASSUME TimerInv, NEW t \in Timers, CancelTimer(t) PROVE TimerInv'
<1> USE DEF TimerInv, TimerTypeOK
<1>1. TimerTypeOK'  BY DEF CancelTimer
<1>2. \A u \in Timers : Answered(u)'
  BY DEF CancelTimer, Answered, Queued
<1> QED  BY <1>1, <1>2 DEF CancelTimer

\* The batch holds the timers that expire, each once.
LEMMA ExpiredBatch ==
  ASSUME TimerInv, GetExpired
  PROVE  /\ batch' \in Seq(Timers) /\ Distinct(batch')
         /\ ToSet(batch') = {heap[i] : i \in {j \in 1 .. nDue : Expires(heap[j])}}
<1> DEFINE told == {i \in 1 .. nDue : Expires(heap[i])}
           n == Cardinality(told)
<1>1. /\ heap \in Seq(Timers) /\ Len(heap) \in Nat /\ nDue \in 0 .. Len(heap)
      /\ DOMAIN heap = 1 .. Len(heap) /\ Distinct(heap)
  BY LenProperties DEF TimerInv, TimerTypeOK
<1>2. n \in Nat
  <2>1. IsFiniteSet(1 .. nDue)  BY <1>1, FS_Interval
  <2>2. told \in SUBSET (1 .. nDue)  OBVIOUS
  <2> QED  BY <2>1, <2>2, FS_Subset, FS_CardinalityType
<1>3. PICK index \in Bijection(1 .. n, told) : batch' = [k \in 1 .. n |-> heap[index[k]]]
  BY DEF GetExpired
<1>4. /\ index \in [1 .. n -> told]
      /\ \A j, k \in 1 .. n : index[j] = index[k] => j = k
      /\ \A i \in told : \E k \in 1 .. n : index[k] = i
  BY <1>3 DEF Bijection, Injection, Surjection, IsInjective
<1>5. \A i \in told : i \in DOMAIN heap /\ heap[i] \in Timers
  BY <1>1, ElementOfSeq
<1> HIDE DEF told, n
<1>6. batch' \in [1 .. n -> Timers]
  BY <1>3, <1>4, <1>5
<1>7. batch' \in Seq(Timers)
  BY <1>2, <1>6, SeqDef
<1>8. Distinct(batch')
  BY <1>1, <1>3, <1>4, <1>5 DEF Distinct
<1>9. ToSet(batch') = {heap[i] : i \in told}
  BY <1>3, <1>4 DEF ToSet
<1> QED  BY <1>7, <1>8, <1>9 DEF told

LEMMA ExpireTimers == ASSUME TimerInv, batch = <<>>, GetExpired PROVE TimerInv'
<1> DEFINE due == SubSeq(heap, 1, nDue)
           rest == SubSeq(heap, nDue + 1, Len(heap))
           told == {i \in 1 .. nDue : Expires(heap[i])}
<1>1. /\ heap \in Seq(Timers) /\ nDue \in 0 .. Len(heap) /\ Distinct(heap)
  BY DEF TimerInv, TimerTypeOK
<1>2. /\ due \in Seq(Timers) /\ rest \in Seq(Timers) /\ Len(due) = nDue
      /\ \A i \in 1 .. nDue : due[i] = heap[i]
      /\ ToSet(heap) = ToSet(due) \cup ToSet(rest)
      /\ Distinct(rest) /\ ToSet(due) \cap ToSet(rest) = {}
  BY <1>1, CutQueue
<1>3. /\ heap' = rest /\ nDue' = 0 /\ flag' = flag /\ heard' = heard
  BY DEF GetExpired
<1>4. /\ batch' \in Seq(Timers) /\ Distinct(batch')
      /\ ToSet(batch') = {heap[i] : i \in told}
  BY ExpiredBatch
<1> HIDE DEF due, rest
<1>5. ToSet(due) = {heap[i] : i \in 1 .. nDue}
  <2>1. DOMAIN due = 1 .. nDue  BY <1>2, LenProperties
  <2> QED  BY <1>2, <2>1 DEF ToSet
<1>6. ToSet(batch') = {t \in ToSet(due) : flag[t]}
  BY <1>4, <1>5 DEF Expires
<1>7. TimerTypeOK'
  <2>1. nDue' \in 0 .. Len(heap')  BY <1>2, <1>3, LenProperties
  <2> QED  BY <1>2, <1>3, <1>4, <2>1 DEF TimerInv, TimerTypeOK
<1>8. ASSUME NEW t \in Timers PROVE Answered(t)'
  <2>1. Answered(t) /\ ToSet(batch) = {}
    BY EmptyQueue DEF TimerInv
  <2> QED  BY <1>2, <1>3, <1>6, <2>1 DEF Answered, Queued
<1> QED  BY <1>2, <1>3, <1>4, <1>6, <1>7, <1>8 DEF TimerInv

LEMMA FireOneTimer == ASSUME TimerInv, FireNext PROVE TimerInv'
<1> USE DEF TimerInv, TimerTypeOK
<1>1. /\ batch' \in Seq(Timers) /\ Head(batch) \in Timers /\ Distinct(batch')
      /\ ToSet(batch) = ToSet(batch') \cup {Head(batch)} /\ Head(batch) \notin ToSet(batch')
  BY PopQueue DEF FireNext
<1>2. TimerTypeOK'  BY <1>1 DEF FireNext
<1>3. ASSUME NEW t \in Timers PROVE Answered(t)'
  <2>1. CASE t = Head(batch)
    <3>1. heard[t] = {} /\ ~Queued(t)  BY <1>1, <2>1 DEF Answered, Queued
    <3>2. heard'[t] = {TRUE}  BY <2>1, <3>1 DEF FireNext
    <3> QED  BY <1>1, <2>1, <3>1, <3>2 DEF FireNext, Answered, Queued
  <2>2. CASE t # Head(batch)
    BY <1>1, <2>2 DEF FireNext, Answered, Queued
  <2> QED  BY <2>1, <2>2
<1> QED  BY <1>1, <1>2, <1>3 DEF FireNext

LEMMA DestroyAllTimers == ASSUME TimerInv, DestroyTimers PROVE TimerInv'
<1> USE DEF TimerInv, TimerTypeOK
<1>1. TimerTypeOK'
  <2>1. heap' = <<>> /\ nDue' = 0 /\ flag' = flag /\ batch' = batch
    BY DEF DestroyTimers
  <2>2. heard' \in [Timers -> SUBSET BOOLEAN]
    BY DEF DestroyTimers
  <2>3. <<>> \in Seq(Timers) /\ Len(<<>>) = 0  BY EmptySeq
  <2>4. nDue' \in 0 .. Len(heap')  BY <2>1, <2>3
  <2> QED  BY <2>1, <2>2, <2>3, <2>4
<1>2. ASSUME NEW t \in Timers PROVE Answered(t)'
  BY EmptyQueue DEF DestroyTimers, Answered, Queued
<1> QED  BY <1>1, <1>2, EmptyQueue DEF DestroyTimers

LEMMA NextTimerInv == TimerInv /\ [TimerNext]_timerVars => TimerInv'
<1> SUFFICES ASSUME TimerInv, [TimerNext]_timerVars PROVE TimerInv'
  OBVIOUS
<1>1. ASSUME Tick PROVE TimerInv'
  <2>1. nDue' \in 0 .. Len(heap')
    BY <1>1, LenProperties DEF Tick, TimerInv, TimerTypeOK
  <2> QED  BY <1>1, <2>1 DEF Tick, TimerInv, TimerTypeOK, Answered, Queued
<1>2. ASSUME UNCHANGED timerVars PROVE TimerInv'
  BY <1>2 DEF timerVars, TimerInv, TimerTypeOK, Answered, Queued
<1> QED
  BY <1>1, <1>2, PushTimer, CancelOneTimer, ExpireTimers, FireOneTimer, DestroyAllTimers
  DEF TimerNext

(***************************************************************************)
(* The steps of the loop seen from the ring and from the timer queue.      *)
(***************************************************************************)
LoopTypeOK ==
    /\ pc \in {"idle", "head", "handles", "timers", "poll", "destroyed"}
    /\ state \in {"Running", "Stopping"}
    /\ pending \in Seq(Tasks) /\ handles \in Seq(Tasks)
    /\ stack \in Seq(Tasks \cup Timers \cup Ops)
    /\ zero \in BOOLEAN
    /\ prod \in [Producers -> {"idle", "wake"}]

\* The callback of an operation is at the bottom of the stack, since it is
\* called from poll().
CallbacksAt(s) == {i \in DOMAIN s : s[i] \in Ops}

\* Where the thread is in poll(), where it is in start() and what is on its
\* stack go together; the two vectors that start() works off are empty
\* everywhere else.
ControlInv ==
    /\ at = "callback" => pc = "poll" /\ CallbacksAt(stack) = {1}
    /\ at \in {"wait", "reap"} => pc = "poll" /\ stack = <<>>
    /\ at = "out" => CallbacksAt(stack) = {} /\ (pc = "poll" => stack = <<>>)
    /\ batch # <<>> => pc = "timers"
    /\ handles # <<>> => pc = "handles"

\* Every step of the composition is a step of the ring, or none of its.
LEMMA StepOfRing ==
  ASSUME zero \in BOOLEAN, ContextNext
  PROVE  [RingNext]_ringVars
<1> DEFINE R == [RingNext]_ringVars
<1>0. at # "crashed"  BY DEF ContextNext
<1>1. ASSUME UserCalls PROVE R
  <2>1. ASSUME NEW t \in Tasks, LocalExecute(t) \/ Dispatch(t) PROVE R
    BY <2>1 DEF LocalExecute, Dispatch
  <2>2. ASSUME NEW t \in Timers, ExpiresAfter(t) \/ CancelExpiry(t) PROVE R
    BY <2>2 DEF ExpiresAfter, CancelExpiry
  <2>3. ASSUME NEW o \in Ops, SubmitOp(o) PROVE R
    BY <1>0, <2>3 DEF SubmitOp, RingNext
  <2>4. ASSUME NEW k \in Cancels, CancelOps(k) PROVE R
    BY <1>0, <2>4 DEF CancelOps, RingNext
  <2>5. ASSUME Stop \/ Return PROVE R
    BY <1>0, <2>5 DEF Stop, Return, RingNext
  <2> QED  BY <1>1, <2>1, <2>2, <2>3, <2>4, <2>5 DEF UserCalls
<1>2. ASSUME LoopStep PROVE R
  <2>1. ASSUME Leave \/ Swap \/ RunHandle \/ Expire \/ RunTimer \/ ChooseWait PROVE R
    BY <2>1 DEF Leave, Swap, RunHandle, Expire, RunTimer, ChooseWait
  <2>2. ASSUME SkipWait \/ EnterWait PROVE R
    BY <1>0, <2>2 DEF SkipWait, EnterWait, RingNext
  <2>3. ASSUME WaitTimesOut \/ Completions \/ EndPoll PROVE R
    BY <1>0, <2>3 DEF WaitTimesOut, WaitInterrupted, Completions, EndPoll, RingNext
  <2>4. ASSUME NextInternal PROVE R
    BY <1>0, <2>4 DEF NextInternal, RingNext
  <2>5. ASSUME NEW o \in Ops, RunCallback(o) PROVE R
    BY <1>0, <2>5 DEF RunCallback, RingNext
  <2> QED  BY <1>2, <2>1, <2>2, <2>3, <2>4, <2>5 DEF LoopStep
<1>3. ASSUME Environment PROVE R
  <2>1. ASSUME NEW p \in Producers, NEW t \in Tasks, RemoteExecute(p, t) PROVE R
    BY <2>1 DEF RemoteExecute
  <2>2. ASSUME NEW p \in Producers, RemoteWakeUp(p) PROVE R
    BY <1>0, <2>2 DEF RemoteWakeUp, RingNext
  <2>3. ASSUME Kernel \/ Clock PROVE R
    BY <1>0, <2>3 DEF Kernel, Clock, RingNext
  <2> QED  BY <1>3, <2>1, <2>2, <2>3 DEF Environment
<1>4. ASSUME Start \/ Destroy \/ WaitInterrupted \/ WaitFails PROVE R
  BY <1>0, <1>4 DEF Start, Destroy, WaitInterrupted, WaitFails, RingNext
<1> QED  BY <1>1, <1>2, <1>3, <1>4 DEF ContextNext

\* And a step of the timer queue, or none of its: get_expired() is called only
\* when the batch before it was worked off.
LEMMA StepOfTimers ==
  ASSUME ControlInv, ContextNext
  PROVE  [TimerNext]_timerVars
<1> DEFINE T == [TimerNext]_timerVars
<1>1. ASSUME UserCalls PROVE T
  <2>1. ASSUME NEW t \in Tasks, LocalExecute(t) \/ Dispatch(t) PROVE T
    BY <2>1 DEF LocalExecute, Dispatch
  <2>2. ASSUME NEW t \in Timers, ExpiresAfter(t) \/ CancelExpiry(t) PROVE T
    BY <2>2 DEF ExpiresAfter, CancelExpiry, TimerNext
  <2>3. ASSUME NEW o \in Ops, SubmitOp(o) PROVE T
    BY <2>3 DEF SubmitOp
  <2>4. ASSUME NEW k \in Cancels, CancelOps(k) PROVE T
    BY <2>4 DEF CancelOps
  <2>5. ASSUME Stop \/ Return PROVE T
    BY <2>5 DEF Stop, Return
  <2> QED  BY <1>1, <2>1, <2>2, <2>3, <2>4, <2>5 DEF UserCalls
<1>2. ASSUME LoopStep PROVE T
  <2>1. ASSUME Leave \/ Swap \/ RunHandle \/ ChooseWait PROVE T
    BY <2>1 DEF Leave, Swap, RunHandle, ChooseWait
  <2>2. ASSUME Expire PROVE T
    BY <2>2 DEF Expire, Looping, ControlInv, TimerNext
  <2>3. ASSUME RunTimer PROVE T
    BY <2>3 DEF RunTimer, TimerNext
  <2>4. ASSUME SkipWait \/ EnterWait \/ WaitTimesOut \/ Completions \/ NextInternal \/ EndPoll
        PROVE  T
    BY <2>4 DEF SkipWait, EnterWait, WaitTimesOut, WaitInterrupted, Completions,
                NextInternal, EndPoll
  <2>5. ASSUME NEW o \in Ops, RunCallback(o) PROVE T
    BY <2>5 DEF RunCallback
  <2> QED  BY <1>2, <2>1, <2>2, <2>3, <2>4, <2>5 DEF LoopStep
<1>3. ASSUME Environment PROVE T
  <2>1. ASSUME NEW p \in Producers, NEW t \in Tasks, RemoteExecute(p, t) PROVE T
    BY <2>1 DEF RemoteExecute
  <2>2. ASSUME NEW p \in Producers, RemoteWakeUp(p) PROVE T
    BY <2>2 DEF RemoteWakeUp
  <2>3. ASSUME Kernel \/ Clock PROVE T
    BY <2>3 DEF Kernel, Clock, TimerNext
  <2> QED  BY <1>3, <2>1, <2>2, <2>3 DEF Environment
<1>4. ASSUME Start \/ Destroy \/ WaitInterrupted \/ WaitFails PROVE T
  BY <1>4 DEF Start, Destroy, WaitInterrupted, WaitFails, TimerNext
<1> QED  BY <1>1, <1>2, <1>3, <1>4 DEF ContextNext

(***************************************************************************)
(* The loop's own variables.                                               *)
(***************************************************************************)
Code == Tasks \cup Timers \cup Ops

\* User code is called: nothing but a callback changes where callbacks are.
LEMMA EnterCode ==
  ASSUME LoopTypeOK, NEW u \in Code, Enter(u)
  PROVE  /\ stack' \in Seq(Code) /\ stack' # <<>>
         /\ ToSet(stack') = ToSet(stack) \cup {u}
         /\ u \notin Ops => CallbacksAt(stack') = CallbacksAt(stack)
         /\ u \in Ops /\ stack = <<>> => CallbacksAt(stack') = {1}
<1>1. stack \in Seq(Code) /\ stack' = Append(stack, u)
  BY DEF LoopTypeOK, Code, Enter
<1>2. /\ stack' \in Seq(Code) /\ stack' # <<>> /\ ToSet(stack') = ToSet(stack) \cup {u}
  BY <1>1, AppendQueue
<1>3. /\ Len(stack) \in Nat /\ DOMAIN stack = 1 .. Len(stack)
      /\ DOMAIN stack' = 1 .. Len(stack) + 1
      /\ \A i \in 1 .. Len(stack) : stack'[i] = stack[i]
      /\ stack'[Len(stack) + 1] = u
  BY <1>1, AppendProperties, LenProperties
<1>4. ASSUME u \notin Ops PROVE CallbacksAt(stack') = CallbacksAt(stack)
  BY <1>3, <1>4 DEF CallbacksAt
<1>5. ASSUME u \in Ops, stack = <<>> PROVE CallbacksAt(stack') = {1}
  <2>1. Len(stack) = 0  BY <1>5, EmptySeq
  <2> QED  BY <1>3, <1>5, <2>1 DEF CallbacksAt
<1> QED  BY <1>2, <1>4, <1>5

\* It returns, and no callback below it does.
LEMMA LeaveCode ==
  ASSUME LoopTypeOK, stack # <<>>, stack' = Front(stack)
  PROVE  /\ stack' \in Seq(Code) /\ Last(stack) \in Code
         /\ ToSet(stack) = ToSet(stack') \cup {Last(stack)}
         /\ Last(stack) \notin Ops => CallbacksAt(stack') = CallbacksAt(stack)
         /\ Last(stack) \in Ops /\ CallbacksAt(stack) = {1} => stack' = <<>>
         /\ Last(stack) \in Ops => CallbacksAt(stack) # {}
<1>0. stack \in Seq(Code)  BY DEF LoopTypeOK, Code
<1>1. /\ stack' \in Seq(Code) /\ Last(stack) \in Code
      /\ Len(stack) \in Nat \ {0} /\ Len(stack') = Len(stack) - 1
      /\ Last(stack) = stack[Len(stack)]
      /\ \A i \in 1 .. Len(stack) - 1 : stack'[i] = stack[i]
      /\ ToSet(stack) = ToSet(stack') \cup {Last(stack)}
  BY <1>0, FrontQueue
<1>2. DOMAIN stack = 1 .. Len(stack) /\ DOMAIN stack' = 1 .. Len(stack) - 1
  BY <1>0, <1>1, LenProperties
<1>3. ASSUME Last(stack) \notin Ops PROVE CallbacksAt(stack') = CallbacksAt(stack)
  BY <1>1, <1>2, <1>3 DEF CallbacksAt
<1>4. ASSUME Last(stack) \in Ops PROVE Len(stack) \in CallbacksAt(stack)
  BY <1>1, <1>2, <1>4 DEF CallbacksAt
<1>5. ASSUME Last(stack) \in Ops, CallbacksAt(stack) = {1} PROVE stack' = <<>>
  <2>1. Len(stack') = 0  BY <1>1, <1>4, <1>5
  <2> QED  BY <1>1, <2>1, EmptySeq
<1> QED  BY <1>1, <1>3, <1>4, <1>5

LEMMA NoCallbacks == CallbacksAt(<<>>) = {}
  BY DEF CallbacksAt

LoopInv == LoopTypeOK /\ ControlInv

LEMMA NextLoopInv ==
  ASSUME RingTypeOK, TimerTypeOK, LoopInv, ContextNext
  PROVE  LoopInv'
<1> USE DEF LoopInv
<1>1. ASSUME UserCalls PROVE LoopInv'
  <2>1. ASSUME NEW t \in Tasks, LocalExecute(t) PROVE LoopInv'
    BY <2>1, AppendQueue
    DEF LocalExecute, LoopTypeOK, ControlInv, ringVars, timerVars
  <2>2. ASSUME NEW t \in Tasks, Dispatch(t) PROVE LoopInv'
    <3>1. /\ stack' \in Seq(Code) /\ CallbacksAt(stack') = CallbacksAt(stack)
      BY <2>2, EnterCode, ContextAssumption DEF Dispatch, Code
    <3> QED  BY <2>2, <3>1
             DEF Dispatch, UserCode, LoopTypeOK, ControlInv, Code, ringVars, timerVars
  <2>3. ASSUME NEW t \in Timers, CancelExpiry(t) PROVE LoopInv'
    <3>1. /\ stack' \in Seq(Code) /\ CallbacksAt(stack') = CallbacksAt(stack)
      BY <2>3, EnterCode, ContextAssumption DEF CancelExpiry, Code
    <3> QED  BY <2>3, <3>1
             DEF CancelExpiry, CancelTimer, UserCode, LoopTypeOK, ControlInv, Code, ringVars
  <2>4. ASSUME NEW t \in Timers, ExpiresAfter(t) PROVE LoopInv'
    BY <2>4 DEF ExpiresAfter, Push, LoopTypeOK, ControlInv, ringVars, loopVars
  <2>5. ASSUME NEW o \in Ops, SubmitOp(o) PROVE LoopInv'
    BY <2>5 DEF SubmitOp, Submit, GetSqe, LoopTypeOK, ControlInv, timerVars, loopVars
  <2>6. ASSUME NEW k \in Cancels, CancelOps(k) PROVE LoopInv'
    BY <2>6 DEF CancelOps, Cancel, GetSqe, LoopTypeOK, ControlInv, timerVars, loopVars
  <2>7. ASSUME Stop PROVE LoopInv'
    BY <2>7 DEF Stop, LoopTypeOK, ControlInv, ringVars, timerVars
  <2>8. ASSUME Return PROVE LoopInv'
    <3>1. /\ stack' \in Seq(Code)
          /\ Last(stack) \notin Ops => CallbacksAt(stack') = CallbacksAt(stack)
          /\ Last(stack) \in Ops /\ CallbacksAt(stack) = {1} => stack' = <<>>
          /\ Last(stack) \in Ops => CallbacksAt(stack) # {}
      BY <2>8, LeaveCode DEF Return
    <3>2. LoopTypeOK'  BY <2>8, <3>1 DEF Return, LoopTypeOK, Code
    <3>3. CASE Last(stack) \in Ops
      BY <2>8, <3>1, <3>2, <3>3 DEF Return, CallbackReturns, ControlInv, timerVars
    <3>4. CASE Last(stack) \notin Ops
      BY <2>8, <3>1, <3>2, <3>4 DEF Return, ControlInv, ringVars, timerVars
    <3> QED  BY <3>3, <3>4
  <2> QED  BY <1>1, <2>1, <2>2, <2>3, <2>4, <2>5, <2>6, <2>7, <2>8 DEF UserCalls
<1>2. ASSUME LoopStep PROVE LoopInv'
  <2>1. ASSUME Leave \/ Swap \/ ChooseWait PROVE LoopInv'
    BY <2>1 DEF Leave, Swap, ChooseWait, DontWait, Looping, LoopTypeOK, ControlInv,
                RingTypeOK, ringVars, timerVars
  <2>2. ASSUME RunHandle PROVE LoopInv'
    <3>1. Head(handles) \in Tasks /\ handles' \in Seq(Tasks)
      BY <2>2, PopQueue DEF RunHandle, LoopTypeOK
    <3>2. /\ stack' \in Seq(Code) /\ CallbacksAt(stack') = CallbacksAt(stack)
      BY <2>2, <3>1, EnterCode, ContextAssumption DEF RunHandle, Code
    <3> QED  BY <2>2, <3>1, <3>2
             DEF RunHandle, Looping, LoopTypeOK, ControlInv, Code, ringVars, timerVars
  <2>3. ASSUME Expire PROVE LoopInv'
    BY <2>3 DEF Expire, Looping, LoopTypeOK, ControlInv, RingTypeOK, ringVars
  <2>4. ASSUME RunTimer PROVE LoopInv'
    <3>1. Head(batch) \in Timers
      BY <2>4, PopQueue DEF RunTimer, FireNext, TimerTypeOK
    <3>2. /\ stack' \in Seq(Code) /\ CallbacksAt(stack') = CallbacksAt(stack)
      BY <2>4, <3>1, EnterCode, ContextAssumption DEF RunTimer, Code
    <3> QED  BY <2>4, <3>1, <3>2
             DEF RunTimer, Looping, LoopTypeOK, ControlInv, Code, ringVars
  <2>5. ASSUME SkipWait \/ EnterWait PROVE LoopInv'
    BY <2>5 DEF SkipWait, PollSkips, EnterWait, PollEnters, Looping, LoopTypeOK, ControlInv,
                ringVars, timerVars, loopVars
  <2>6. ASSUME WaitTimesOut \/ Completions \/ EndPoll PROVE LoopInv'
    BY <2>6, NoCallbacks
    DEF WaitTimesOut, WaitInterrupted, WaitEndsEmpty, Completions, WaitEndsReady, EndPoll,
        PollReturns, LoopTypeOK, ControlInv, timerVars, loopVars
  <2>7. ASSUME NextInternal PROVE LoopInv'
    BY <2>7 DEF NextInternal, HandleWake, HandleCancel, GetSqe, LoopTypeOK, ControlInv,
                timerVars, loopVars
  <2>8. ASSUME NEW o \in Ops, RunCallback(o) PROVE LoopInv'
    <3>1. stack' \in Seq(Code) /\ CallbacksAt(stack') = {1}
      BY <2>8, EnterCode DEF RunCallback, HandleOp, ControlInv, Code
    <3> QED  BY <2>8, <3>1 DEF RunCallback, HandleOp, LoopTypeOK, ControlInv, Code, timerVars
  <2> QED  BY <1>2, <2>1, <2>2, <2>3, <2>4, <2>5, <2>6, <2>7, <2>8 DEF LoopStep
<1>3. ASSUME Environment PROVE LoopInv'
  <2>1. ASSUME NEW p \in Producers, NEW t \in Tasks, RemoteExecute(p, t) PROVE LoopInv'
    BY <2>1, AppendQueue DEF RemoteExecute, LoopTypeOK, ControlInv, ringVars, timerVars
  <2>2. ASSUME NEW p \in Producers, RemoteWakeUp(p) PROVE LoopInv'
    BY <2>2 DEF RemoteWakeUp, WakeUp, LoopTypeOK, ControlInv, timerVars
  <2>3. ASSUME Kernel \/ Clock PROVE LoopInv'
    BY <2>3 DEF Kernel, CompleteWake, Complete, Clock, Tick, LoopTypeOK, ControlInv,
                ringVars, timerVars, loopVars
  <2> QED  BY <1>3, <2>1, <2>2, <2>3 DEF Environment
<1>4. ASSUME Start \/ WaitInterrupted \/ WaitFails PROVE LoopInv'
  BY <1>4, NoCallbacks
  DEF Start, Looping, WaitInterrupted, WaitFails, WaitEndsEmpty, LoopTypeOK, ControlInv,
      RingTypeOK, ringVars, timerVars
<1>5. ASSUME Destroy PROVE LoopInv'
  <2>1. batch' = batch  BY <1>5 DEF Destroy, DestroyTimers, timerVars
  <2> QED  BY <1>5, <2>1, EmptySeq
           DEF Destroy, Looping, LoopTypeOK, ControlInv, RingTypeOK, ringVars
<1> QED  BY <1>1, <1>2, <1>3, <1>4, <1>5 DEF ContextNext

(***************************************************************************)
(* The wake-up protocol.                                                   *)
(***************************************************************************)
WakeUpComing == eventfd \/ loc[Wake] = "ok" \/ \E p \in Producers : prod[p] = "wake"

\* NoLostWakeup speaks of the blocked thread.  What is inductive speaks of the
\* moment in between too: the wait was chosen under the mutex, and poll() has
\* not been entered yet.
WakeInv ==
    pc = "poll" /\ at \in {"out", "wait"} /\ ~zero /\ pending # <<>> => WakeUpComing

\* A wake-up on its way stays on its way until poll() takes the completion of
\* the read.
LEMMA WakeUpStays ==
  ASSUME RingTypeOK, LoopInv, ContextNext, at # "reap", WakeUpComing
  PROVE  WakeUpComing'
<1> USE RingAssumption DEF LoopInv, LoopTypeOK, RingTypeOK, Requests
<1>1. ASSUME eventfd' = eventfd, loc'[Wake] = loc[Wake] \/ loc[Wake] # "ok", prod' = prod
      PROVE  WakeUpComing'
  BY <1>1 DEF WakeUpComing
<1>2. ASSUME UserCalls PROVE WakeUpComing'
  <2>1. ASSUME NEW t \in Tasks, LocalExecute(t) \/ Dispatch(t) PROVE WakeUpComing'
    BY <1>1, <2>1 DEF LocalExecute, Dispatch, ringVars
  <2>2. ASSUME NEW t \in Timers, ExpiresAfter(t) \/ CancelExpiry(t) PROVE WakeUpComing'
    BY <1>1, <2>2 DEF ExpiresAfter, CancelExpiry, ringVars, loopVars
  <2>3. ASSUME NEW o \in Ops, SubmitOp(o) PROVE WakeUpComing'
    BY <1>1, <2>3 DEF SubmitOp, Submit, GetSqe, loopVars
  <2>4. ASSUME NEW k \in Cancels, CancelOps(k) PROVE WakeUpComing'
    BY <1>1, <2>4 DEF CancelOps, Cancel, GetSqe, loopVars
  <2>5. ASSUME Stop \/ Return PROVE WakeUpComing'
    BY <1>1, <2>5 DEF Stop, Return, CallbackReturns, ringVars
  <2> QED  BY <1>2, <2>1, <2>2, <2>3, <2>4, <2>5 DEF UserCalls
<1>3. ASSUME LoopStep PROVE WakeUpComing'
  <2>1. ASSUME Leave \/ Swap \/ RunHandle \/ Expire \/ RunTimer \/ ChooseWait
        PROVE  WakeUpComing'
    BY <1>1, <2>1 DEF Leave, Swap, RunHandle, Expire, RunTimer, ChooseWait, ringVars
  <2>2. ASSUME SkipWait PROVE WakeUpComing'
    BY <1>1, <2>2 DEF SkipWait, PollSkips, ringVars
  <2>3. ASSUME EnterWait PROVE WakeUpComing'
    BY <1>1, <2>3 DEF EnterWait, PollEnters, loopVars
  <2>4. ASSUME WaitTimesOut \/ Completions \/ EndPoll PROVE WakeUpComing'
    BY <1>1, <2>4 DEF WaitTimesOut, WaitInterrupted, WaitEndsEmpty, Completions, WaitEndsReady,
                      EndPoll, PollReturns, loopVars
  <2>5. ASSUME NextInternal \/ \E o \in Ops : RunCallback(o) PROVE WakeUpComing'
    BY <2>5 DEF NextInternal, HandleWake, HandleCancel, RunCallback, HandleOp
  <2> QED  BY <1>3, <2>1, <2>2, <2>3, <2>4, <2>5 DEF LoopStep
<1>4. ASSUME Environment PROVE WakeUpComing'
  <2>1. ASSUME NEW p \in Producers, NEW t \in Tasks, RemoteExecute(p, t) PROVE WakeUpComing'
    BY <2>1 DEF RemoteExecute, ringVars, WakeUpComing
  <2>2. ASSUME NEW p \in Producers, RemoteWakeUp(p) PROVE WakeUpComing'
    BY <2>2 DEF RemoteWakeUp, WakeUp, WakeUpComing
  <2>3. ASSUME Kernel PROVE WakeUpComing'
    BY <2>3 DEF Kernel, CompleteWake, Complete, loopVars, WakeUpComing
  <2>4. ASSUME Clock PROVE WakeUpComing'
    BY <1>1, <2>4 DEF Clock, ringVars, loopVars
  <2> QED  BY <1>4, <2>1, <2>2, <2>3, <2>4 DEF Environment
<1>5. ASSUME Start \/ Destroy \/ WaitInterrupted \/ WaitFails PROVE WakeUpComing'
  BY <1>1, <1>5 DEF Start, Destroy, WaitInterrupted, WaitFails, WaitEndsEmpty, ringVars
<1> QED  BY <1>2, <1>3, <1>4, <1>5 DEF ContextNext

\* Nothing is pushed behind the back of a thread that goes to wait: its own
\* user code does not run there, and a producer announces its wake_up().
LEMMA NextWakeInv ==
  ASSUME RingTypeOK, LoopInv, WakeInv, ContextNext
  PROVE  WakeInv'
<1> DEFINE Blocks == pc = "poll" /\ at \in {"out", "wait"} /\ ~zero
<1>1. ASSUME Blocks', Blocks, pending' = pending PROVE WakeInv'
  BY <1>1, WakeUpStays DEF WakeInv
<1>2. ASSUME Blocks', ~Blocks PROVE pending' = <<>>
  BY <1>2
  DEF ContextNext, UserCalls, LoopStep, Environment, LocalExecute, Dispatch, ExpiresAfter,
      CancelExpiry, SubmitOp, Submit, GetSqe, CancelOps, Cancel, Stop, Return, CallbackReturns,
      Leave, Swap, RunHandle, Expire, RunTimer, ChooseWait, DontWait, SkipWait, EnterWait,
      PollEnters, WaitTimesOut, WaitInterrupted, WaitEndsEmpty, WaitFails, Completions,
      WaitEndsReady, NextInternal, HandleWake, HandleCancel, EndPoll, PollReturns, RunCallback,
      HandleOp, RemoteExecute, RemoteWakeUp, WakeUp, Kernel, CompleteWake, Complete, Clock,
      Start, Destroy, ringVars, loopVars, timerVars
<1>3. ASSUME Blocks', Blocks, pending' # pending PROVE WakeInv'
  <2>1. stack = <<>> /\ pc = "poll"  BY <1>3 DEF LoopInv, ControlInv
  <2>2. PICK p \in Producers, t \in Tasks : RemoteExecute(p, t)
    BY <1>3, <2>1
    DEF ContextNext, UserCalls, LoopStep, Environment, LocalExecute, Dispatch, ExpiresAfter,
        CancelExpiry, SubmitOp, CancelOps, Stop, Return, UserCode, Looping, Leave, Swap,
        RunHandle, Expire, RunTimer, ChooseWait, SkipWait, EnterWait, WaitTimesOut,
        WaitInterrupted, WaitFails, Completions, NextInternal, EndPoll, RunCallback,
        RemoteWakeUp, Kernel, Clock, Start, Destroy, loopVars
  <2>3. prod'[p] = "wake"  BY <2>2 DEF RemoteExecute, LoopInv, LoopTypeOK
  <2> QED  BY <2>3 DEF WakeInv, WakeUpComing
<1>4. ~Blocks' => WakeInv'  BY DEF WakeInv
<1> QED  BY <1>1, <1>2, <1>3, <1>4 DEF WakeInv

(***************************************************************************)
(* The order of the tasks.                                                 *)
(***************************************************************************)

\* A task is on the stack at most once (a timer's task may be there twice: a
\* timer can be cancelled again while it hears of the cancellation).
OneCopy(s) == \A i, j \in DOMAIN s : s[i] \in Tasks /\ s[i] = s[j] => i = j

\* A task is in one place: pending, swapped out or on the stack.
TasksInv ==
    /\ Distinct(pending) /\ Distinct(handles) /\ OneCopy(stack)
    /\ ToSet(pending) \cap ToSet(handles) = {}
    /\ ToSet(stack) \cap (ToSet(pending) \cup ToSet(handles)) = {}

\* The steps that hand over, start or end something, and all the others.
LEMMA TaskSteps ==
  ASSUME ContextNext
  PROVE  \/ \E t \in Tasks : LocalExecute(t) \/ Dispatch(t)
         \/ \E t \in Timers : CancelExpiry(t)
         \/ Return \/ Swap \/ RunHandle \/ RunTimer \/ Destroy
         \/ \E o \in Ops : RunCallback(o)
         \/ \E p \in Producers, t \in Tasks : RemoteExecute(p, t)
         \/ UNCHANGED <<pending, handles, stack>> /\ (pc' = "destroyed" <=> pc = "destroyed")
  BY DEF ContextNext, UserCalls, LoopStep, Environment, ExpiresAfter, SubmitOp, CancelOps, Stop,
         Leave, Expire, ChooseWait, SkipWait, EnterWait, WaitTimesOut, WaitInterrupted, WaitFails,
         Completions, NextInternal, EndPoll, RemoteWakeUp, Kernel, Clock, Start, loopVars

LEMMA EnterOnce ==
  ASSUME LoopTypeOK, OneCopy(stack), NEW u \in Code, Enter(u),
         u \in Tasks => u \notin ToSet(stack)
  PROVE  OneCopy(stack')
<1>1. stack \in Seq(Code) /\ stack' = Append(stack, u)
  BY DEF LoopTypeOK, Code, Enter
<1>2. /\ Len(stack) \in Nat /\ DOMAIN stack = 1 .. Len(stack)
      /\ DOMAIN stack' = 1 .. Len(stack) + 1
      /\ \A i \in 1 .. Len(stack) : stack'[i] = stack[i]
      /\ stack'[Len(stack) + 1] = u
  BY <1>1, AppendProperties, LenProperties
<1>3. ASSUME NEW i \in DOMAIN stack', NEW j \in DOMAIN stack',
             stack'[i] \in Tasks, stack'[i] = stack'[j]
      PROVE  i = j
  <2>1. CASE u \in Tasks
    <3>1. \A k \in 1 .. Len(stack) : stack[k] # u  BY <1>2, <2>1 DEF ToSet
    <3> QED  BY <1>2, <1>3, <3>1 DEF OneCopy
  <2>2. CASE u \notin Tasks
    BY <1>2, <1>3, <2>2 DEF OneCopy
  <2> QED  BY <2>1, <2>2
<1> QED  BY <1>3 DEF OneCopy

LEMMA LeaveOnce ==
  ASSUME LoopTypeOK, OneCopy(stack), stack # <<>>, stack' = Front(stack)
  PROVE  /\ OneCopy(stack')
         /\ Last(stack) \in Tasks => Last(stack) \notin ToSet(stack')
<1>0. stack \in Seq(Code)  BY DEF LoopTypeOK, Code
<1>1. /\ stack' \in Seq(Code) /\ Len(stack) \in Nat \ {0} /\ Len(stack') = Len(stack) - 1
      /\ Last(stack) = stack[Len(stack)]
      /\ \A i \in 1 .. Len(stack) - 1 : stack'[i] = stack[i]
  BY <1>0, FrontQueue
<1>2. DOMAIN stack = 1 .. Len(stack) /\ DOMAIN stack' = 1 .. Len(stack) - 1
  BY <1>0, <1>1, LenProperties
<1>3. OneCopy(stack')  BY <1>1, <1>2 DEF OneCopy
<1>4. ASSUME Last(stack) \in Tasks, NEW i \in DOMAIN stack' PROVE stack'[i] # Last(stack)
  <2>1. i \in DOMAIN stack /\ Len(stack) \in DOMAIN stack /\ i # Len(stack)
        /\ stack'[i] = stack[i]
    BY <1>1, <1>2
  <2> QED  BY <1>1, <1>4, <2>1 DEF OneCopy
<1> QED  BY <1>3, <1>4 DEF ToSet

LEMMA NextTasksInv ==
  ASSUME RingTypeOK, TimerTypeOK, LoopInv, TasksInv, ContextNext
  PROVE  TasksInv'
<1> USE DEF LoopInv
<1>0. /\ pending \in Seq(Tasks) /\ handles \in Seq(Tasks)
      /\ ToSet(pending) \subseteq Tasks /\ ToSet(handles) \subseteq Tasks
  BY QueueType DEF LoopTypeOK
<1>1. ASSUME NEW t \in Tasks, Fresh(t), pending' = Append(pending, t),
             UNCHANGED <<handles, stack>>
      PROVE  TasksInv'
  BY <1>0, <1>1, AppendQueue DEF Fresh, TasksInv
<1>2. ASSUME NEW u \in Timers \cup Ops, Enter(u), UNCHANGED <<pending, handles>> PROVE TasksInv'
  <2>1. u \in Code /\ u \notin Tasks  BY ContextAssumption DEF Code
  <2> QED  BY <1>0, <1>2, <2>1, EnterCode, EnterOnce DEF TasksInv
<1>3. ASSUME NEW t \in Tasks, Dispatch(t) PROVE TasksInv'
  <2>1. t \in Code  BY DEF Code
  <2> QED  BY <1>0, <1>3, <2>1, EnterCode, EnterOnce DEF Dispatch, Fresh, TasksInv
<1>4. ASSUME Return PROVE TasksInv'
  BY <1>4, LeaveCode, LeaveOnce DEF Return, TasksInv
<1>5. ASSUME Swap PROVE TasksInv'
  BY <1>5 DEF Swap, TasksInv
<1>6. ASSUME RunHandle PROVE TasksInv'
  <2>1. /\ Head(handles) \in Tasks /\ Distinct(handles')
        /\ ToSet(handles) = ToSet(handles') \cup {Head(handles)}
        /\ Head(handles) \notin ToSet(handles')
    BY <1>0, <1>6, PopQueue DEF RunHandle, TasksInv
  <2>2. Head(handles) \in Code  BY <2>1 DEF Code
  <2>3. OneCopy(stack') /\ ToSet(stack') = ToSet(stack) \cup {Head(handles)}
    BY <1>6, <2>1, <2>2, EnterCode, EnterOnce DEF RunHandle, TasksInv
  <2> QED  BY <1>6, <2>1, <2>3 DEF RunHandle, TasksInv
<1>7. ASSUME Destroy PROVE TasksInv'
  BY <1>7, EmptyQueue DEF Destroy, TasksInv
<1>8. ASSUME RunTimer PROVE TasksInv'
  <2>1. Head(batch) \in Timers
    BY <1>8, PopQueue DEF RunTimer, FireNext, TimerTypeOK
  <2> QED  BY <1>2, <1>8, <2>1 DEF RunTimer
<1>9. ASSUME UNCHANGED <<pending, handles, stack>> PROVE TasksInv'
  BY <1>9 DEF TasksInv
<1>10. ASSUME NEW t \in Timers, CancelExpiry(t) PROVE TasksInv'
  BY <1>2, <1>10 DEF CancelExpiry
<1>11. ASSUME NEW o \in Ops, RunCallback(o) PROVE TasksInv'
  BY <1>2, <1>11 DEF RunCallback
<1>12. ASSUME NEW t \in Tasks, NEW p \in Producers, RemoteExecute(p, t) PROVE TasksInv'
  BY <1>1, <1>12 DEF RemoteExecute
<1>13. ASSUME NEW t \in Tasks, LocalExecute(t) PROVE TasksInv'
  BY <1>1, <1>13 DEF LocalExecute
<1> QED
  BY <1>3, <1>4, <1>5, <1>6, <1>7, <1>8, <1>9, <1>10, <1>11, <1>12, <1>13, TaskSteps

\* The abstract executor's queue is what start() has swapped out and not run,
\* then what is pending; Swap moves the border and is a stutter.
LEMMA ContextStepIsExecutorStep ==
  ASSUME TimerTypeOK, LoopInv, TasksInv, at # "crashed", ContextNext
  PROVE  [Exec!ExecutorNext]_(Exec!executorVars)
<1> SUFFICES Exec!ExecutorNext \/ UNCHANGED Exec!executorVars
  OBVIOUS
<1> USE DEF LoopInv
<1> DEFINE Q == handles \o pending
           R == ToSet(stack) \cap Tasks
<1>0. /\ pending \in Seq(Tasks) /\ handles \in Seq(Tasks) /\ Q \in Seq(Tasks)
      /\ ToSet(Q) = ToSet(handles) \cup ToSet(pending)
      /\ pc # "destroyed" /\ at # "crashed"
  BY JoinQueues DEF LoopTypeOK, ContextNext
<1>1. ASSUME NEW t \in Tasks, Fresh(t), pending' = Append(pending, t),
             UNCHANGED <<handles, stack, pc>>
      PROVE  Exec!ExecutorNext
  <2>1. Q' = Append(Q, t)
    <3>1. /\ Append(pending, t) = pending \o <<t>> /\ Append(Q, t) = Q \o <<t>>
          /\ <<t>> \in Seq(Tasks)
      BY <1>0, AppendIsConcat
    <3>2. (handles \o pending) \o <<t>> = handles \o (pending \o <<t>>)
      BY <1>0, <3>1, ConcatAssociative
    <3> QED  BY <1>1, <3>1, <3>2
  <2>2. R' = R /\ (pc # "destroyed")' = (pc # "destroyed")  BY <1>1
  <2>3. Exec!Fresh(t)  BY <1>0, <1>1 DEF Fresh, Exec!Fresh, Exec!ToSet, ToSet
  <2>4. Exec!Execute(t)  BY <2>1, <2>2, <2>3 DEF Exec!Execute
  <2> QED  BY <1>0, <2>4 DEF Exec!ExecutorNext
<1>2. ASSUME NEW t \in Tasks, Dispatch(t) PROVE Exec!ExecutorNext
  <2>1. t \in Code  BY DEF Code
  <2>2. R' = R \cup {t}  BY <1>2, <2>1, EnterCode DEF Dispatch
  <2>3. Q' = Q /\ (pc # "destroyed")' = (pc # "destroyed")  BY <1>2 DEF Dispatch
  <2>4. Exec!Fresh(t)  BY <1>0, <1>2 DEF Dispatch, Fresh, Exec!Fresh, Exec!ToSet, ToSet
  <2>5. Exec!RunInPlace(t)  BY <2>2, <2>3, <2>4 DEF Exec!RunInPlace
  <2> QED  BY <1>0, <2>5 DEF Exec!ExecutorNext
<1>3. ASSUME NEW u \in Timers \cup Ops, Enter(u), UNCHANGED <<pending, handles, pc>>
      PROVE  UNCHANGED Exec!executorVars
  <2>1. u \in Code /\ u \notin Tasks  BY ContextAssumption DEF Code
  <2>2. R' = R  BY <1>3, <2>1, EnterCode
  <2> QED  BY <1>3, <2>2 DEF Exec!executorVars
<1>4. ASSUME Return PROVE Exec!ExecutorNext \/ UNCHANGED Exec!executorVars
  <2>1. Q' = Q /\ (pc # "destroyed")' = (pc # "destroyed")  BY <1>4 DEF Return
  <2>2. ToSet(stack) = ToSet(stack') \cup {Last(stack)}
    BY <1>4, LeaveCode DEF Return
  <2>3. CASE Last(stack) \in Tasks
    <3>1. Last(stack) \notin ToSet(stack')
      BY <1>4, <2>3, LeaveOnce DEF Return, TasksInv
    <3>2. R' = R \ {Last(stack)} /\ Last(stack) \in R  BY <2>2, <2>3, <3>1
    <3>3. PICK t \in Tasks : t = Last(stack)  BY <2>3
    <3>4. Exec!Finish(t)  BY <2>1, <3>2, <3>3 DEF Exec!Finish
    <3> QED  BY <1>0, <3>4 DEF Exec!ExecutorNext
  <2>4. CASE Last(stack) \notin Tasks
    <3>1. R' = R  BY <2>2, <2>4
    <3> QED  BY <2>1, <3>1 DEF Exec!executorVars
  <2> QED  BY <2>3, <2>4
<1>5. ASSUME Swap PROVE UNCHANGED Exec!executorVars
  <2>1. handles = <<>>  BY <1>5 DEF Swap, Looping, ControlInv
  <2>2. Q' = Q  BY <1>0, <1>5, <2>1, ConcatEmptySeq DEF Swap
  <2>3. R' = R /\ (pc # "destroyed")' = (pc # "destroyed")  BY <1>0, <1>5 DEF Swap
  <2> QED  BY <2>2, <2>3 DEF Exec!executorVars
<1>6. ASSUME RunHandle PROVE Exec!ExecutorNext
  <2>1. /\ Q # <<>> /\ Head(Q) = Head(handles) /\ Tail(Q) = Tail(handles) \o pending
        /\ Head(handles) \in Tasks
    BY <1>0, <1>6, HeadOfJoin, PopQueue DEF RunHandle
  <2>2. Head(handles) \in Code  BY <2>1 DEF Code
  <2>3. R' = R \cup {Head(Q)}  BY <1>6, <2>1, <2>2, EnterCode DEF RunHandle
  <2>4. Q' = Tail(Q) /\ (pc # "destroyed")' = (pc # "destroyed")  BY <1>6, <2>1 DEF RunHandle
  <2>5. Exec!StartOldest  BY <2>1, <2>3, <2>4 DEF Exec!StartOldest
  <2> QED  BY <1>0, <2>5 DEF Exec!ExecutorNext
<1>7. ASSUME RunTimer PROVE UNCHANGED Exec!executorVars
  <2>1. Head(batch) \in Timers
    BY <1>7, PopQueue DEF RunTimer, FireNext, TimerTypeOK
  <2> QED  BY <1>3, <1>7, <2>1 DEF RunTimer
<1>8. ASSUME Destroy PROVE Exec!ExecutorNext
  <2>1. handles = <<>>  BY <1>8 DEF Destroy, Looping, ControlInv
  <2>2. Q' = <<>> /\ R' = R /\ ((pc # "destroyed")' = FALSE)
    BY <1>8, <2>1, ConcatEmptySeq, EmptySeq DEF Destroy
  <2>3. Exec!Close  BY <2>2 DEF Exec!Close
  <2> QED  BY <1>0, <2>3 DEF Exec!ExecutorNext
<1>9. ASSUME UNCHANGED <<pending, handles, stack>>, pc' = "destroyed" <=> pc = "destroyed"
      PROVE  UNCHANGED Exec!executorVars
  <2>1. Q' = Q /\ R' = R /\ (pc # "destroyed")' = (pc # "destroyed")  BY <1>9
  <2> QED  BY <2>1 DEF Exec!executorVars
<1>10. ASSUME NEW t \in Timers, CancelExpiry(t) PROVE UNCHANGED Exec!executorVars
  BY <1>3, <1>10 DEF CancelExpiry
<1>11. ASSUME NEW o \in Ops, RunCallback(o) PROVE UNCHANGED Exec!executorVars
  BY <1>3, <1>11 DEF RunCallback
<1>12. ASSUME NEW t \in Tasks, LocalExecute(t) PROVE Exec!ExecutorNext
  BY <1>1, <1>12 DEF LocalExecute
<1>13. ASSUME NEW t \in Tasks, NEW p \in Producers, RemoteExecute(p, t) PROVE Exec!ExecutorNext
  BY <1>1, <1>13 DEF RemoteExecute
<1> QED
  BY <1>2, <1>4, <1>5, <1>6, <1>7, <1>8, <1>9, <1>10, <1>11, <1>12, <1>13, TaskSteps

(***************************************************************************)
(* The theorems.                                                           *)
(***************************************************************************)
ContextInv == RingInv /\ WakeReadInv /\ TimerInv /\ LoopInv /\ WakeInv /\ TasksInv

LEMMA InitContextInv == ContextInit => ContextInv /\ Exec!ExecutorInit
<1> SUFFICES ASSUME ContextInit PROVE ContextInv /\ Exec!ExecutorInit
  OBVIOUS
<1>1. RingInv /\ TimerInv  BY InitRingInv, InitTimerInv DEF ContextInit
<1>2. LoopInv /\ WakeInv
  BY EmptySeq, NoCallbacks
  DEF ContextInit, RingInit, TimerInit, LoopInv, LoopTypeOK, ControlInv, WakeInv
<1>3. TasksInv
  BY EmptyQueue DEF ContextInit, TasksInv, OneCopy
<1>4. Exec!ExecutorInit
  <2>1. handles \o pending = <<>>  BY EmptySeq, ConcatEmptySeq DEF ContextInit
  <2>2. ToSet(stack) \cap Tasks = {} /\ (pc # "destroyed") = TRUE
    BY EmptyQueue DEF ContextInit
  <2> QED  BY <2>1, <2>2 DEF Exec!ExecutorInit
<1>5. WakeReadInv
  BY RingAssumption DEF ContextInit, RingInit, WakeReadInv, Requests
<1> QED  BY <1>1, <1>2, <1>3, <1>4, <1>5 DEF ContextInv

LEMMA NextContextInv == ContextInv /\ [ContextNext]_contextVars => ContextInv'
<1> SUFFICES ASSUME ContextInv, [ContextNext]_contextVars PROVE ContextInv'
  OBVIOUS
<1>1. CASE ContextNext
  <2>1. RingTypeOK /\ TimerTypeOK /\ LoopInv /\ WakeInv /\ TasksInv
    BY DEF ContextInv, RingInv, TimerInv
  <2>2. RingInv' /\ WakeReadInv'
    BY <1>1, <2>1, StepOfRing, NextRingInv, NextWakeReadInv DEF ContextInv, LoopInv, LoopTypeOK
  <2>3. TimerInv'
    BY <1>1, <2>1, StepOfTimers, NextTimerInv DEF ContextInv, LoopInv
  <2>4. LoopInv' /\ WakeInv' /\ TasksInv'
    BY <1>1, <2>1, NextLoopInv, NextWakeInv, NextTasksInv
  <2> QED  BY <2>2, <2>3, <2>4 DEF ContextInv
<1>2. CASE UNCHANGED contextVars
  <2>1. UNCHANGED ringVars /\ UNCHANGED timerVars /\ UNCHANGED loopVars
    BY <1>2 DEF contextVars
  <2>2. RingInv' /\ WakeReadInv' /\ TimerInv'
    BY <2>1, NextRingInv, NextWakeReadInv, NextTimerInv DEF ContextInv, RingInv
  <2>3. LoopInv' /\ WakeInv' /\ TasksInv'
    BY <2>1 DEF ContextInv, LoopInv, LoopTypeOK, ControlInv, WakeInv, WakeUpComing, TasksInv,
                ringVars, timerVars, loopVars
  <2> QED  BY <2>2, <2>3 DEF ContextInv
<1> QED  BY <1>1, <1>2

LEMMA ContextInvHolds == ContextSpec => []ContextInv
  BY InitContextInv, NextContextInv, PTL DEF ContextSpec

\* io_num_ counts exactly the operations in flight in every context.
THEOREM ContextIoNumExact == ContextSpec => []IoNumExact
<1>1. ContextInv => IoNumExact  BY DEF ContextInv, RingInv
<1> QED  BY <1>1, ContextInvHolds, PTL

\* A thread that blocks in poll() while a task is pending is going to be woken:
\* its wake-up read is with the kernel and somebody has written or will write,
\* whatever the number of producers and the point at which each is interrupted
\* between its push and its wake_up().
THEOREM WakeupIsNotLost == ContextSpec => []NoLostWakeup
<1>1. ContextInv => NoLostWakeup
  BY DEF ContextInv, WakeReadInv, LoopInv, ControlInv, WakeInv, WakeUpComing, NoLostWakeup
<1> QED  BY <1>1, ContextInvHolds, PTL

\* cancel() returning true is a promise: no timer's task that heard false is
\* run with true, for every number of timers and wherever user code cancels.
THEOREM CancelIsFinal == ContextSpec => []NeverBothVerdicts
<1>1. ContextInv => NeverBothVerdicts  BY TimerVerdicts DEF ContextInv
<1> QED  BY <1>1, ContextInvHolds, PTL

\* No timer's task is dropped: one that heard nothing is still queued or about
\* to run.
THEOREM TimersAreKept == ContextSpec => []NoneForgotten
<1>1. ContextInv => NoneForgotten  BY TimerVerdicts DEF ContextInv
<1> QED  BY <1>1, ContextInvHolds, PTL

\* The event loop implements Executor: each closure starts once, those that
\* were handed over by execute() in the order of the calls, for every number of
\* producers and however user code nests.
THEOREM ContextImplementsExecutor == ContextSpec => ImplementsExecutor
<1>1. ContextInv /\ [ContextNext]_contextVars => [Exec!ExecutorNext]_(Exec!executorVars)
  <2> SUFFICES ASSUME ContextInv, [ContextNext]_contextVars
               PROVE  [Exec!ExecutorNext]_(Exec!executorVars)
    OBVIOUS
  <2>1. CASE ContextNext
    BY <2>1, ContextStepIsExecutorStep DEF ContextInv, TimerInv, ContextNext
  <2>2. CASE UNCHANGED contextVars
    BY <2>2 DEF contextVars, loopVars, Exec!executorVars
  <2> QED  BY <2>1, <2>2
<1> QED
  BY <1>1, InitContextInv, ContextInvHolds, PTL
  DEF ContextSpec, ImplementsExecutor, Exec!ExecutorSpec

\* The loop's variables keep their types, and with them those of the ring and
\* of the timers, on which its steps work: io_num_ is a natural number, nobody
\* waits for more timers than are queued.
THEOREM ContextTypeCorrect == ContextSpec => []ContextTypeOK
<1>1. ContextInv => ContextTypeOK
  BY DEF ContextInv, RingInv, TimerInv, LoopInv, LoopTypeOK, ContextTypeOK
<1> QED  BY <1>1, ContextInvHolds, PTL
=============================================================================
