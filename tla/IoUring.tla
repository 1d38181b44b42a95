------------------------------- MODULE IoUring -------------------------------
(***************************************************************************)
(* net/io_uring.cpp: the ring behind one CoroContext.  The submission and  *)
(* completion queues are kept as the place where each request is; the      *)
(* order inside a queue is dropped, since the kernel completes requests in *)
(* any order.  All calls but WakeUp come from the context's own thread.    *)
(***************************************************************************)
EXTENDS Integers, FiniteSets

CONSTANTS
    Ops,        \* user operations (an IoContext with op other than Noop)
    MsgOps,     \* those of kind SendTo or ReceiveFrom
    Cancels,    \* cancel requests (they carry empty_ctx_, op Noop)
    Wake,       \* the read of wake_up_fd_ (wake_up_ctx_, op Noop)
    Entries     \* the size of the submission queue

Requests == Ops \cup Cancels \cup {Wake}

ASSUME RingAssumption ==
    /\ IsFiniteSet(Ops) /\ IsFiniteSet(Cancels)
    /\ MsgOps \subseteq Ops
    /\ Ops \cap Cancels = {}
    /\ Wake \notin Ops \cup Cancels
    /\ Entries \in Nat \ {0}

VARIABLES
    at,         \* where the context's thread is with respect to poll()
    loc,        \* where each request is
    ioNum,      \* io_num_
    eventfd,    \* TRUE when the counter behind wake_up_fd_ is not zero
    arg         \* what the callback of each operation got as its user pointer

ringVars == <<at, loc, ioNum, eventfd, arg>>

Places == {"free", "sq", "kernel", "ok", "err"}
Ready  == {r \in Requests : loc[r] \in {"ok", "err"}}
SqFull == Cardinality({r \in Requests : loc[r] = "sq"}) >= Entries

\* ::eventfd(EFD_NONBLOCK, 0) passes the flag as the initial value: the
\* counter starts above zero, and the descriptor blocks.
RingInit ==
    /\ at = "out"
    /\ loc = [r \in Requests |-> IF r = Wake THEN "sq" ELSE "free"]
    /\ ioNum = 0
    /\ eventfd = TRUE
    /\ arg = [o \in Ops |-> "none"]

(***************************************************************************)
(* Calls of the context's thread.                                          *)
(***************************************************************************)

\* io_uring_get_sqe returns NULL on a full queue and no caller looks: the
\* prep call that follows writes through it and the process is gone.
GetSqe(r) ==
    \/ /\ ~SqFull
       /\ loc' = [loc EXCEPT ![r] = "sq"]
       /\ UNCHANGED at
    \/ /\ SqFull
       /\ at' = "crashed"
       /\ UNCHANGED loc

Submit(o) ==
    /\ at \in {"out", "callback"}
    /\ loc[o] = "free"
    /\ ioNum' = ioNum + 1
    /\ GetSqe(o)
    /\ arg' = [arg EXCEPT ![o] = "none"]
    /\ UNCHANGED eventfd

\* Which operation the kernel then fails is left to Complete, which may
\* fail any operation at any time.
Cancel(k) ==
    /\ at \in {"out", "callback"}
    /\ loc[k] = "free"
    /\ GetSqe(k)
    /\ UNCHANGED <<ioNum, eventfd, arg>>

\* Mutant: poll(0) returns at once whatever is outstanding.
SkipEveryPoll(zero) == zero
SkipPoll(zero) == zero /\ ioNum = 0

PollSkips(zero) ==
    /\ at = "out"
    /\ SkipPoll(zero)
    /\ UNCHANGED ringVars

PollEnters(zero) ==
    /\ at = "out"
    /\ ~SkipPoll(zero)
    /\ at' = "wait"
    /\ loc' = [r \in Requests |-> IF loc[r] = "sq" THEN "kernel" ELSE loc[r]]
    /\ UNCHANGED <<ioNum, eventfd, arg>>

\* -ETIME, -EAGAIN, -EINTR or another error: no completion is looked at.
WaitEndsEmpty ==
    /\ at = "wait"
    /\ Ready = {}
    /\ at' = "out"
    /\ UNCHANGED <<loc, ioNum, eventfd, arg>>

WaitEndsReady ==
    /\ at = "wait"
    /\ Ready # {}
    /\ at' = "reap"
    /\ UNCHANGED <<loc, ioNum, eventfd, arg>>

\* handle_cqe for a user operation.  Only the success branch puts the user
\* pointer of a SendTo or ReceiveFrom back in place of its ResumeWithMsg.
CallbackArg(o) == IF o \in MsgOps /\ loc[o] = "err" THEN "msg" ELSE "user"

\* Mutant: io_num_ is decremented in the success branch only.
HandleOpCountsOk(o) ==
    /\ at = "reap"
    /\ loc[o] \in {"ok", "err"}
    /\ ioNum' = IF loc[o] = "ok" THEN ioNum - 1 ELSE ioNum
    /\ arg' = [arg EXCEPT ![o] = CallbackArg(o)]
    /\ loc' = [loc EXCEPT ![o] = "free"]
    /\ at' = "callback"
    /\ UNCHANGED eventfd

HandleOp(o) ==
    /\ at = "reap"
    /\ loc[o] \in {"ok", "err"}
    /\ ioNum' = ioNum - 1
    /\ arg' = [arg EXCEPT ![o] = CallbackArg(o)]
    /\ loc' = [loc EXCEPT ![o] = "free"]
    /\ at' = "callback"
    /\ UNCHANGED eventfd

HandleCancel(k) ==
    /\ at = "reap"
    /\ loc[k] \in {"ok", "err"}
    /\ loc' = [loc EXCEPT ![k] = "free"]
    /\ UNCHANGED <<at, ioNum, eventfd, arg>>

\* Mutant: the next read is not prepared.
HandleWakeOnce ==
    /\ at = "reap"
    /\ loc[Wake] \in {"ok", "err"}
    /\ loc' = [loc EXCEPT ![Wake] = "free"]
    /\ UNCHANGED <<at, ioNum, eventfd, arg>>

\* The callback of wake_up_ctx_ prepares the next read, whatever the result.
HandleWake ==
    /\ at = "reap"
    /\ loc[Wake] \in {"ok", "err"}
    /\ GetSqe(Wake)
    /\ UNCHANGED <<ioNum, eventfd, arg>>

CallbackReturns ==
    /\ at = "callback"
    /\ at' = "reap"
    /\ UNCHANGED <<loc, ioNum, eventfd, arg>>

\* io_uring_cq_advance and return 1.
PollReturns ==
    /\ at = "reap"
    /\ Ready = {}
    /\ at' = "out"
    /\ UNCHANGED <<loc, ioNum, eventfd, arg>>

(***************************************************************************)
(* Any thread, and the kernel.                                             *)
(***************************************************************************)
WakeUp ==
    /\ eventfd' = TRUE
    /\ UNCHANGED <<at, loc, ioNum, arg>>

Complete(r) ==
    /\ r # Wake
    /\ loc[r] = "kernel"
    /\ \E result \in {"ok", "err"} : loc' = [loc EXCEPT ![r] = result]
    /\ UNCHANGED <<at, ioNum, eventfd, arg>>

\* The descriptor blocks, so the read stays pending until a write.
CompleteWake ==
    /\ loc[Wake] = "kernel"
    /\ eventfd
    /\ loc' = [loc EXCEPT ![Wake] = "ok"]
    /\ eventfd' = FALSE
    /\ UNCHANGED <<at, ioNum, arg>>

RingNext ==
    /\ at # "crashed"
    /\ \/ \E o \in Ops : Submit(o) \/ HandleOp(o)
       \/ \E k \in Cancels : Cancel(k) \/ HandleCancel(k)
       \/ \E zero \in BOOLEAN : PollSkips(zero) \/ PollEnters(zero)
       \/ WaitEndsEmpty \/ WaitEndsReady
       \/ HandleWake \/ CallbackReturns \/ PollReturns
       \/ WakeUp \/ CompleteWake
       \/ \E r \in Requests : Complete(r)

RingSpec == RingInit /\ [][RingNext]_ringVars

(***************************************************************************)
(* Properties.                                                             *)
(***************************************************************************)
RingTypeOK ==
    /\ at \in {"out", "wait", "reap", "callback", "crashed"}
    /\ loc \in [Requests -> Places]
    /\ ioNum \in Nat
    /\ eventfd \in BOOLEAN
    /\ arg \in [Ops -> {"none", "user", "msg"}]

\* io_num_ counts exactly the user operations between their submission and
\* their callback; poll() relies on it when it returns without a system call.
IoNumExact ==
    at # "crashed" => ioNum = Cardinality({o \in Ops : loc[o] # "free"})

\* The read of wake_up_fd_ is outstanding at every moment, also while the
\* thread is inside poll(): it is never forgotten after it completed.
WakeReadOutstanding == loc[Wake] # "free"

\* README.md's UDP server throws and catches the error of receive_from: the
\* callback must find its user pointer, on failure too.
CallbackGetsUserPtr == \A o \in Ops : arg[o] # "msg"
=============================================================================
