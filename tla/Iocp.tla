--------------------------------- MODULE Iocp ---------------------------------
(***************************************************************************)
(* net/iocp.cpp: the completion ports of the contexts on Windows, each     *)
(* polled by its own thread.  A handle is associated with one port, which  *)
(* gets the completions of its operations whoever submitted them.          *)
(***************************************************************************)
EXTENDS Integers, Sequences, SequencesExt, FiniteSets

CONSTANTS
    Contexts,
    Sleepers,       \* bound: the contexts whose loops wait and are woken up, the
                    \* others always have something to run
    MaxHandles,     \* bound: files and sockets open at a time
    Ops,            \* operations in flight at a time, with their IoContext
    Wake,           \* the packet that wake_up() posts
    None,           \* no handle, no context
    Batch           \* the packets that one poll() takes at most (1024)

Handles == 1 .. MaxHandles

ASSUME IocpAssumption ==
    /\ IsFiniteSet(Ops) /\ Wake \notin Ops
    /\ Sleepers \subseteq Contexts /\ None \notin Contexts \cup Handles
    /\ MaxHandles \in Nat
    /\ Batch \in Nat \ {0}

VARIABLES
    at,             \* where each thread is with respect to poll()
    left,           \* how many packets its poll() may still take
    ioNum,          \* io_num
    packets,        \* what is queued in each port
    port,           \* which port each handle is associated with
    req             \* the operations

iocpVars == <<at, left, ioNum, packets, port, req>>

\* ctx: who submitted it; obj, h: through which object, on which handle; off:
\* the offset it was given; new: the socket that accept() opened; port: where
\* its completion goes
Free == [st |-> "free", ctx |-> None, obj |-> None, h |-> None, off |-> 0,
         new |-> None, port |-> None]

Each(value) == [x \in Contexts |-> value]

IocpInit ==
    /\ at = Each("user") /\ left = Each(0) /\ ioNum = Each(0) /\ packets = Each(<<>>)
    /\ port = [h \in Handles |-> None]
    /\ req = [o \in Ops |-> Free]

\* The process has ended, nothing of it is left.
Ended ==
    /\ at' = Each("user") /\ left' = Each(0) /\ ioNum' = Each(0) /\ packets' = Each(<<>>)
    /\ port' = [h \in Handles |-> None]
    /\ req' = [o \in Ops |-> Free]

InFlight == {o \in Ops : req[o].st # "free"}
UserCode(x) == at[x] \in {"user", "callback"}

(***************************************************************************)
(* Submission: io_num is incremented first; a call that fails at once      *)
(* calls the callback, and io_num stays up.                                *)
(***************************************************************************)
Submit(x, o, f, h, off, new, ports) ==
    /\ UserCode(x) /\ req[o].st = "free" /\ h # None
    /\ req' = [req EXCEPT ![o] = [st |-> "kernel", ctx |-> x, obj |-> f, h |-> h, off |-> off,
                                  new |-> new, port |-> ports[h]]]
    /\ ioNum' = [ioNum EXCEPT ![x] = @ + 1]
    /\ port' = ports
    /\ UNCHANGED <<at, left, packets>>

SubmitFails(x, ports) ==
    /\ UserCode(x)
    /\ ioNum' = [ioNum EXCEPT ![x] = @ + 1]
    /\ port' = ports
    /\ UNCHANGED <<at, left, packets, req>>

\* attach(): CreateIoCompletionPort fails for a handle that has a port, and
\* nobody looks at the error.
Attached(h, x) == IF port[h] = None THEN [port EXCEPT ![h] = x] ELSE port

(***************************************************************************)
(* poll()                                                                  *)
(***************************************************************************)
\* Mutant: poll(0) returns at once whatever is outstanding.
SkipEveryPoll(x, zero) == zero
SkipPoll(x, zero) == zero /\ ioNum[x] = 0

PollEnters(x, zero) ==
    /\ at[x] = "user" /\ ~SkipPoll(x, zero)
    /\ zero \/ x \in Sleepers
    /\ at' = [at EXCEPT ![x] = IF zero THEN "look" ELSE "wait"]
    /\ left' = [left EXCEPT ![x] = Batch]
    /\ UNCHANGED <<ioNum, packets, port, req>>

Taken(x) ==
    /\ at[x] \in {"wait", "look"} /\ left[x] > 0 /\ packets[x] # <<>>
    /\ packets' = [packets EXCEPT ![x] = Tail(@)]
    /\ left' = [left EXCEPT ![x] = @ - 1]

\* Mutant: the wait time is not set to zero after the first packet.
HandleWakeWaits(x) ==
    /\ Taken(x) /\ Head(packets[x]) = Wake
    /\ UNCHANGED <<at, ioNum, port, req>>

\* Mutant: io_num is decremented for wake-ups too.
HandleWakeCounts(x) ==
    /\ Taken(x) /\ Head(packets[x]) = Wake
    /\ at' = [at EXCEPT ![x] = "look"]
    /\ ioNum' = [ioNum EXCEPT ![x] = @ - 1]
    /\ UNCHANGED <<port, req>>

HandleWake(x) ==
    /\ Taken(x) /\ Head(packets[x]) = Wake
    /\ at' = [at EXCEPT ![x] = "look"]
    /\ UNCHANGED <<ioNum, port, req>>

\* Mutant: a failed operation is taken for a failure of the port.
HandleOpIfOk(x, o) ==
    /\ Taken(x) /\ Head(packets[x]) = o
    /\ at' = [at EXCEPT ![x] = IF req[o].st = "ok" THEN "callback" ELSE "user"]
    /\ ioNum' = [ioNum EXCEPT ![x] = IF req[o].st = "ok" THEN @ - 1 ELSE @]
    /\ req' = [req EXCEPT ![o] = IF req[o].st = "ok" THEN Free ELSE @]
    /\ UNCHANGED port

HandleOp(x, o) ==
    /\ Taken(x) /\ Head(packets[x]) = o
    /\ at' = [at EXCEPT ![x] = "callback"]
    /\ ioNum' = [ioNum EXCEPT ![x] = @ - 1]
    /\ req' = [req EXCEPT ![o] = Free]
    /\ UNCHANGED port

CallbackReturns(x) ==
    /\ at[x] = "callback"
    /\ at' = [at EXCEPT ![x] = "look"]
    /\ UNCHANGED <<left, ioNum, packets, port, req>>

\* Only the first call waits.  It may end without a packet; the loop stops when
\* that was an error of the port (see CoroContext).
WaitEnds(x) ==
    /\ at[x] = "wait" /\ packets[x] = <<>>
    /\ at' = [at EXCEPT ![x] = "user"]
    /\ left' = [left EXCEPT ![x] = 0]
    /\ UNCHANGED <<ioNum, packets, port, req>>

LookEnds(x) ==
    /\ at[x] = "look" /\ (packets[x] = <<>> \/ left[x] = 0)
    /\ at' = [at EXCEPT ![x] = "user"]
    /\ left' = [left EXCEPT ![x] = 0]
    /\ UNCHANGED <<ioNum, packets, port, req>>

(***************************************************************************)
(* Other threads, and the kernel.                                          *)
(***************************************************************************)
\* Model bound: one wake-up at a time.
WakeUp(x) ==
    /\ x \in Sleepers /\ ~Contains(packets[x], Wake)
    /\ packets' = [packets EXCEPT ![x] = Append(@, Wake)]
    /\ UNCHANGED <<at, left, ioNum, port, req>>

\* An operation whose handle was closed does not succeed any more.
Complete(o) ==
    /\ req[o].st = "kernel" /\ req[o].port # None
    /\ \E result \in {"ok", "err"} :
          /\ result = "ok" => req[o].h # None
          /\ req' = [req EXCEPT ![o].st = result]
    /\ packets' = [packets EXCEPT ![req[o].port] = Append(@, o)]
    /\ UNCHANGED <<at, left, ioNum, port>>

\* CloseHandle
Closed(h) ==
    /\ port' = [port EXCEPT ![h] = None]
    /\ req' = [o \in Ops |-> IF req[o].h = h THEN [req[o] EXCEPT !.h = None] ELSE req[o]]

PollStep(x) ==
    \/ \E zero \in BOOLEAN : PollEnters(x, zero)
    \/ HandleWake(x) \/ CallbackReturns(x) \/ WaitEnds(x) \/ LookEnds(x)

\* What each thread does in the end: its loop polls again and again, perhaps
\* always with a wait time of zero, and callbacks return.
Progress(x) ==
    PollEnters(x, TRUE) \/ HandleWake(x) \/ CallbackReturns(x) \/ LookEnds(x)

(***************************************************************************)
(* Properties.                                                             *)
(***************************************************************************)
IocpTypeOK ==
    /\ at \in [Contexts -> {"user", "wait", "look", "callback"}]
    /\ left \in [Contexts -> 0 .. Batch]
    /\ ioNum \in [Contexts -> Nat]
    /\ packets \in [Contexts -> Seq(Ops \cup {Wake})]
    /\ port \in [Handles -> Contexts \cup {None}]
    /\ \A o \in Ops : req[o].st \in {"free", "kernel", "ok", "err"}

\* io_num never falls below what a context has submitted and not been told of,
\* so that poll(0) never returns without a look while something is outstanding.
IoNumCovers ==
    \A x \in Contexts : ioNum[x] >= Cardinality({o \in InFlight : req[o].ctx = x})
=============================================================================
