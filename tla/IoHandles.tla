------------------------------ MODULE IoHandles ------------------------------
(***************************************************************************)
(* core/file.cpp, net/socket.cpp and net/acceptor.cpp: the objects through *)
(* which user code owns handles, on top of the completion ports.  Objects  *)
(* are handed from thread to thread, one thread uses one at a time.        *)
(***************************************************************************)
EXTENDS Iocp, Functions

CONSTANTS
    Files, RandomFiles, Sockets, Acceptors,     \* the user's variables
    MaxBytes,       \* bound: the size of the files
    MaxFailures,    \* bound: how far io_num may drift
    Careful         \* the user neither moves an object on which an operation is
                    \* outstanding nor starts a second one on a File, nor assigns
                    \* to an object that has an open handle, nor moves a
                    \* RandomAccessFile into a new one, or after its first use

Objects == Files \cup RandomFiles \cup Sockets \cup Acceptors

ASSUME HandlesAssumption ==
    /\ MaxBytes \in Nat /\ MaxFailures \in Nat /\ Careful \in BOOLEAN
    /\ RandomFiles \cap (Files \cup Sockets \cup Acceptors) = {}
    /\ Acceptors \cap (Files \cup Sockets) = {}
    /\ Files \cap Sockets = {}

VARIABLES
    obj,            \* the objects: handle_, attached_, read_offset_
    open,           \* the handles that are open
    done,           \* which bytes were read through each
    dead            \* M_FATAL

objectVars == <<obj, open, done, dead>>
handleVars == <<iocpVars, objectVars>>

\* reset()
Empty == [handle |-> None, attached |-> None, offset |-> 0]

HandlesInit ==
    /\ IocpInit
    /\ obj = [f \in Objects |-> Empty] /\ open = {} /\ done = [h \in Handles |-> {}]
    /\ dead = FALSE

Busy(f) == \E o \in InFlight : req[o].obj = f
MayMove(f) == Careful => ~Busy(f) /\ (f \in RandomFiles => obj[f].attached = None)
MayAssign(f) == Careful => ~Busy(f) /\ obj[f].handle = None

(***************************************************************************)
(* open() and moves.  None of the classes closes what the object had.      *)
(* File does not look whether both are the same object and ends up empty;  *)
(* Socket does.  RandomAccessFile's operator= does not assign attached_,   *)
(* and its constructor leaves it uninitialised.                            *)
(***************************************************************************)
\* Mutant: the offsets stay behind.
ValuesRewound(f, new) == {[new EXCEPT !.offset = 0]}
\* Mutant: attached_ stays behind everywhere.
ValuesUnattached(f, new) == {[new EXCEPT !.attached = obj[f].attached]}
Values(f, new) ==
    IF f \notin RandomFiles THEN {new}
    ELSE {[new EXCEPT !.attached = a] :
             a \in IF Careful THEN {obj[f].attached} ELSE Contexts \cup {None}}

\* Which of the closed handles the kernel gives makes no difference.
Fresh(h) == h \notin open /\ \A g \in Handles \ open : h <= g

Open(x, f, h) ==
    /\ UserCode(x) /\ MayAssign(f) /\ Fresh(h)
    /\ \E v \in Values(f, [Empty EXCEPT !.handle = h]) : obj' = [obj EXCEPT ![f] = v]
    /\ open' = open \cup {h}
    /\ done' = [done EXCEPT ![h] = {}]
    /\ UNCHANGED <<iocpVars, dead>>

\* Mutant: the source keeps its handle.
MoveCopies(x, f, g) ==
    /\ UserCode(x) /\ MayMove(f) /\ MayAssign(g)
    /\ \E v \in Values(g, obj[f]) : obj' = [obj EXCEPT ![g] = v]
    /\ UNCHANGED <<iocpVars, open, done, dead>>

Move(x, f, g) ==
    /\ UserCode(x) /\ MayMove(f) /\ MayAssign(g)
    /\ g \in Sockets \cup Acceptors => obj[f].handle # obj[g].handle
    /\ \E v \in Values(g, obj[f]) : obj' = [obj EXCEPT ![g] = v, ![f] = Empty]
    /\ UNCHANGED <<iocpVars, open, done, dead>>

\* close(), and the destructors; operations may be outstanding.
Close(x, f) ==
    /\ UserCode(x) /\ obj[f].handle # None
    /\ Closed(obj[f].handle)
    /\ open' = open \ {obj[f].handle}
    /\ obj' = [obj EXCEPT ![f] = Empty]
    /\ done' = [done EXCEPT ![obj[f].handle] = {}]
    /\ UNCHANGED <<at, left, ioNum, packets, dead>>

(***************************************************************************)
(* Operations.  attach_context() ties a handle to the context of its first *)
(* operation; the use in another one is fatal.                             *)
(***************************************************************************)
Valid(f) == obj[f].handle # None
MayUse(x, f) == Valid(f) => obj[f].attached \in {None, x}

AttachContext(x, f) ==
    obj' = IF Valid(f) THEN [obj EXCEPT ![f].attached = x] ELSE obj
Ports(x, f) ==
    IF Valid(f) /\ obj[f].attached = None THEN Attached(obj[f].handle, x) ELSE port

Start(x, f, o) ==
    /\ f \notin Acceptors /\ MayUse(x, f)
    /\ Careful => f \notin Files \/ ~Busy(f)
    /\ Submit(x, o, f, obj[f].handle, obj[f].offset, None, Ports(x, f))
    /\ AttachContext(x, f)
    /\ UNCHANGED <<open, done, dead>>

Accept(x, f, o, new) ==
    /\ f \in Acceptors /\ MayUse(x, f)
    /\ Fresh(new)
    /\ Submit(x, o, f, obj[f].handle, 0, new, Ports(x, f))
    /\ AttachContext(x, f)
    /\ open' = open \cup {new}
    /\ UNCHANGED <<done, dead>>

\* How often io_num was left up, in all contexts.
Drift == FoldFunction(+, 0, ioNum) - Cardinality(InFlight)

\* The system call fails at once, or open_socket() does in accept(); a socket
\* that was opened is closed before the callback.
Refused(x, f) ==
    /\ MayUse(x, f)
    /\ Drift < MaxFailures /\ x \in Sleepers      \* model bounds
    /\ SubmitFails(x, Ports(x, f))
    /\ AttachContext(x, f)
    /\ UNCHANGED <<open, done, dead>>

\* std::terminate()
Fatal(x, f) ==
    /\ UserCode(x) /\ ~MayUse(x, f)
    /\ dead' = TRUE
    /\ Ended
    /\ obj' = [g \in Objects |-> Empty] /\ open' = {} /\ done' = [h \in Handles |-> {}]

(***************************************************************************)
(* Callbacks.  A File advances its offset by what was transferred from the *)
(* offset that the operation was given; the socket of an accept() is       *)
(* closed when it failed, and otherwise assigned to an object by the user, *)
(* or closed with the callback's parameter.                                *)
(***************************************************************************)
\* How much the kernel may read there
Readable(off) == {n \in 0 .. MaxBytes : n = 0 \/ off + n <= MaxBytes}

Advance(f, h, off, n) ==
    /\ obj' = [obj EXCEPT ![f].offset = @ + n]
    /\ done' = IF h = None THEN done ELSE [done EXCEPT ![h] = @ \cup (off .. off + n - 1)]
    /\ UNCHANGED <<open, dead>>

\* Mutant: the socket stays open.
DropLeaks(new) == UNCHANGED objectVars
Drop(new) ==
    /\ open' = open \ {new}
    /\ UNCHANGED <<obj, done, dead>>

Give(new, s) ==
    /\ MayAssign(s)
    /\ obj' = [obj EXCEPT ![s] = [Empty EXCEPT !.handle = new]]
    /\ UNCHANGED <<open, done, dead>>

Callback(x, o) ==
    /\ HandleOp(x, o)
    /\ LET f == req[o].obj
           ok == req[o].st = "ok"
       IN  \/ /\ f \in Files
              /\ \E n \in Readable(req[o].off) :
                    (ok \/ n = 0) /\ Advance(f, req[o].h, req[o].off, n)
           \/ f \in Acceptors /\ Drop(req[o].new)
           \/ f \in Acceptors /\ ok /\ \E s \in Sockets : Give(req[o].new, s)
           \/ f \in RandomFiles \cup Sockets /\ UNCHANGED objectVars

Kinds == {Files, RandomFiles, Sockets, Acceptors}

UserStep(x) ==
    \/ \E f \in Objects, h \in Handles : Open(x, f, h)
    \/ \E kind \in Kinds : \E f, g \in kind : Move(x, f, g)
    \/ \E f \in Objects : Close(x, f) \/ Refused(x, f) \/ Fatal(x, f)
    \/ \E f \in Objects, o \in Ops : Start(x, f, o)
    \/ \E f \in Objects, o \in Ops, new \in Handles : Accept(x, f, o, new)

HandlesNext ==
    /\ ~dead
    /\ \/ \E x \in Contexts : UserStep(x) \/ \E o \in Ops : Callback(x, o)
       \/ /\ \/ \E x \in Contexts : PollStep(x) \/ WakeUp(x)
             \/ \E o \in Ops : Complete(o)
          /\ UNCHANGED objectVars

HandlesSpec == HandlesInit /\ [][HandlesNext]_handleVars

HandlesFairness ==
    /\ \A x \in Contexts :
          /\ WF_handleVars(~dead /\ Progress(x) /\ UNCHANGED objectVars)
          /\ WF_handleVars(~dead /\ \E o \in Ops : Callback(x, o))
    /\ \A o \in Ops : WF_handleVars(~dead /\ Complete(o) /\ UNCHANGED objectVars)

FairHandlesSpec == HandlesSpec /\ HandlesFairness

(***************************************************************************)
(* Properties.                                                             *)
(***************************************************************************)
HandlesTypeOK ==
    /\ IocpTypeOK
    /\ \A f \in Objects :
          /\ obj[f].handle \in Handles \cup {None}
          /\ obj[f].attached \in Contexts \cup {None}
          /\ obj[f].offset \in Nat
    /\ open \subseteq Handles
    /\ done \in [Handles -> SUBSET (0 .. MaxBytes - 1)]
    /\ dead \in BOOLEAN

\* Every operation completes in the port of the context that submitted it,
\* wherever the object was moved: this is what "cannot be attached to
\* different context" guards.
CompletesAtHome == \A o \in InFlight : req[o].port = req[o].ctx

Owners(h) ==
    {f \in Objects : obj[f].handle = h} \cup {o \in InFlight : req[o].new = h}

\* An open handle has exactly one owner, an object or the accept() that opened
\* it, and a closed one has none: no handle leaks and none is closed twice.
OwnedOnce ==
    \A h \in Handles : Cardinality(Owners(h)) = IF h \in open THEN 1 ELSE 0

\* Of this remains without Careful: handles may leak, but what is closed is
\* one's own.  No object closes a handle that another one has, or that the
\* kernel has given to somebody else since.
ClosedOnce ==
    \A h \in Handles : Cardinality(Owners(h)) <= IF h \in open THEN 1 ELSE 0

\* What was read through a file are the bytes below read_offset_, each of them
\* once and none left out, across moves of the object.
OffsetsTrue ==
    \A f \in Files : Valid(f) => done[obj[f].handle] = 0 .. obj[f].offset - 1

\* Every operation is answered, failed and cancelled ones too, in a loop that
\* only ever polls without waiting.
OperationAnswered == \A o \in Ops : o \in InFlight ~> o \notin InFlight \/ dead

\* A context that waits returns from poll() after a wake-up.
WakeReturns ==
    \A x \in Contexts :
        at[x] = "wait" /\ Contains(packets[x], Wake) ~> at[x] = "user" \/ dead
=============================================================================
