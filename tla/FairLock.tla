------------------------------ MODULE FairLock ------------------------------
(***************************************************************************)
(* What magio::Mutex promises: one holder at a time, and the lock is       *)
(* passed on in the order in which it was asked for; nobody takes it past  *)
(* a coroutine that already waits.                                         *)
(***************************************************************************)
EXTENDS Sequences

CONSTANTS Coros, Nobody

VARIABLES holder, waiters

lockVars == <<holder, waiters>>

LockInit == holder = Nobody /\ waiters = <<>>

AcquireFree(c) ==
    /\ holder = Nobody
    /\ holder' = c
    /\ UNCHANGED waiters

AskAndWait(c) ==
    /\ holder # Nobody
    /\ waiters' = Append(waiters, c)
    /\ UNCHANGED holder

Pass ==
    /\ waiters # <<>>
    /\ holder' = Head(waiters)
    /\ waiters' = Tail(waiters)

Release ==
    /\ holder # Nobody /\ waiters = <<>>
    /\ holder' = Nobody
    /\ UNCHANGED waiters

LockNext == Pass \/ Release \/ \E c \in Coros : AcquireFree(c) \/ AskAndWait(c)

LockSpec == LockInit /\ [][LockNext]_lockVars
=============================================================================
