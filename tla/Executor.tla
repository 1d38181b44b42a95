------------------------------ MODULE Executor ------------------------------
(***************************************************************************)
(* What class Executor (core/execution.h) promises for execute(): a task   *)
(* that was handed over is started once, and tasks are started in the      *)
(* order they were handed over.  CoroContext and ThreadPool both implement *)
(* this interface; their modules are shown to implement this one.          *)
(***************************************************************************)
EXTENDS Sequences, SequencesExt

CONSTANT Tasks          \* the closures that are handed over

VARIABLES
    queue,              \* handed over and not yet started, oldest first
    running,            \* the tasks whose code is being executed
    open                \* FALSE after the destructor

executorVars == <<queue, running, open>>

ExecutorInit == queue = <<>> /\ running = {} /\ open = TRUE

\* A closure is handed over once; its name is free again when it returned.
Fresh(t) == t \notin ToSet(queue) \cup running

Execute(t) ==
    /\ Fresh(t)
    /\ queue' = Append(queue, t)
    /\ UNCHANGED <<running, open>>

StartOldest ==
    /\ queue # <<>>
    /\ running' = running \cup {Head(queue)}
    /\ queue' = Tail(queue)
    /\ UNCHANGED open

\* dispatch() on the executor's own thread: the task runs in place.
RunInPlace(t) ==
    /\ Fresh(t)
    /\ running' = running \cup {t}
    /\ UNCHANGED <<queue, open>>

Finish(t) ==
    /\ t \in running
    /\ running' = running \ {t}
    /\ UNCHANGED <<queue, open>>

\* The destructor: what was not started never is.
Close ==
    /\ queue' = <<>>
    /\ open' = FALSE
    /\ UNCHANGED running

ExecutorNext ==
    /\ open
    /\ \/ StartOldest \/ Close
       \/ \E t \in Tasks : Execute(t) \/ RunInPlace(t) \/ Finish(t)

ExecutorSpec == ExecutorInit /\ [][ExecutorNext]_executorVars
=============================================================================
