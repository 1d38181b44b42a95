------------------------------ MODULE CoroFrame ------------------------------
(***************************************************************************)
(* core/coro.h and core/impl/coro.hpp: the life of coroutine frames, who   *)
(* may resume them and who destroys them.  A Coro object is the one handle *)
(* that owns a frame that was not launched; a launched frame destroys      *)
(* itself in FinalSuspend, below whatever it resumed there.  Each context  *)
(* is a thread with a queue of handles and a stack of activations.         *)
(***************************************************************************)
EXTENDS Integers, Sequences, SequencesExt, FiniteSets

CONSTANTS
    Contexts,
    MaxFrames,      \* bound: how many frames are ever created
    \* What coroutines do:
    Remote,         \* spawn on another thread's context
    Migrate,        \* spawn_blocking() on a pool bound to another context
    Outlive,        \* suspend with the Coro object of one that was awaited
    Overwrite,      \* assign to a Coro object whose frame was not launched
    JoinNothing     \* join() without arguments

ASSUME FrameAssumption ==
    /\ MaxFrames \in Nat
    /\ {Remote, Migrate, Outlive, Overwrite, JoinNothing} \subseteq BOOLEAN

Frames == 1 .. MaxFrames
NoFrame == 0

VARIABLES
    born,           \* how many frames were created
    frame,          \* the frames: promise, parameters and local variables
    queue,          \* handles queued in each context
    stack,          \* the activations on each thread, innermost last
    away,           \* handles given to the kernel, a timer or a thread pool
    pooled,         \* those given to a pool, whose threads queue them
    arg,            \* the parameter of spawn() that a thread has yet to destroy
    fault           \* undefined behaviour, or the end of the process

frameVars == <<born, frame, queue, stack, away, pooled, arg, fault>>

\* vars: the Coro objects among its parameters and variables; temp: the one in
\* the co_await expression it is suspended in; home: the context that got its
\* handle last or will get it; parent, count, kids: join(), threads: those that
\* have counted down
Blank == [life |-> "none", launched |-> FALSE, prev |-> NoFrame, outcome |-> "none",
          vars |-> {}, temp |-> NoFrame, home |-> NoFrame,
          parent |-> NoFrame, count |-> 0, kids |-> {}, threads |-> {}]

FrameInit ==
    /\ born = 0
    /\ frame = [f \in Frames |-> Blank]
    /\ queue = [x \in Contexts |-> <<>>]
    /\ stack = [x \in Contexts |-> <<>>]
    /\ away = {} /\ pooled = {}
    /\ arg = [x \in Contexts |-> NoFrame]
    /\ fault = "none"

Is(f, life) == frame[f].life = life
Unlaunched(objects) == {g \in objects : ~frame[g].launched /\ ~Is(g, "gone")}

\* f is the coroutine that runs on the thread of x.
Runs(x, f) == stack[x] # <<>> /\ arg[x] = NoFrame /\ f = Last(stack[x]) /\ Is(f, "running")
Idle(x) == stack[x] = <<>> /\ arg[x] = NoFrame

Push(s, x, f) == [s EXCEPT ![x] = Append(@, f)]
Pop(x) == stack' = [stack EXCEPT ![x] = Front(@)]

(***************************************************************************)
(* ~Coro() of some objects: each reads is_launched in the frame, and       *)
(* destroys a frame that was not launched, with the objects in it.         *)
(***************************************************************************)
Closed(D, objects) ==
    Unlaunched(objects) \subseteq D /\ \A g \in D : Unlaunched(frame[g].vars) \subseteq D
Doomed(objects) == {f \in Frames : \A D \in SUBSET Frames : Closed(D, objects) => f \in D}

\* What is kept of a frame that is gone: the count of join() outlives it, the
\* rest is for the properties.
Gone(f) == [Blank EXCEPT !.life = "gone", !.launched = frame[f].launched,
                         !.outcome = frame[f].outcome, !.threads = frame[f].threads]

\* Mutant: ~Coro() leaves frames that were not launched alone.
DroppedLeaks(F, objects) == F
Dropped(F, objects) ==
    LET doomed == Doomed(objects)
    IN  [f \in Frames |-> IF f \in doomed THEN Gone(f) ELSE F[f]]

Touch(objects) == IF \E g \in objects : Is(g, "gone") THEN "touch" ELSE fault

(***************************************************************************)
(* resume(): the frame must be suspended.  What follows in a resumed       *)
(* co_await is await_resume(), which is noexcept but throws what the       *)
(* awaited coroutine has thrown, and the destructor of the temporary.      *)
(***************************************************************************)
Resume(F, x, f, awaited) ==
    LET temp == {frame[f].temp} \ {NoFrame}
    IN  /\ frame' = [Dropped(F, temp) EXCEPT ![f].life = "running", ![f].temp = NoFrame]
        /\ stack' = Push(stack, x, f)
        /\ fault' = CASE ~Is(f, "suspended") -> "resume"
                      [] Is(f, "suspended") /\ awaited = "error" -> "terminate"
                      [] OTHER -> Touch(temp)

(***************************************************************************)
(* What a running coroutine does.                                          *)
(***************************************************************************)
\* It calls a coroutine function and moves some of its own Coro objects into
\* the parameters.
Create(x, f, params) ==
    /\ Runs(x, f) /\ born < MaxFrames
    /\ params \subseteq Unlaunched(frame[f].vars)
    /\ born' = born + 1
    /\ frame' = [frame EXCEPT ![f].vars = (@ \ params) \cup {born'},
                              ![born'] = [Blank EXCEPT !.life = "created", !.vars = params]]
    /\ UNCHANGED <<queue, stack, away, pooled, arg, fault>>

DropVar(x, f, g) ==
    /\ Runs(x, f) /\ g \in frame[f].vars
    /\ frame' = [Dropped(frame, {g}) EXCEPT ![f].vars = @ \ {g}]
    /\ fault' = Touch({g})
    /\ UNCHANGED <<born, queue, stack, away, pooled, arg>>

\* Coro::operator=: the handle that the object had is forgotten, nothing is read
\* or destroyed; so is an object's own handle that is moved to itself.
Assign(x, f, g) ==
    /\ Runs(x, f) /\ g \in frame[f].vars
    /\ g \in Unlaunched(frame[f].vars) => Overwrite
    /\ frame' = [frame EXCEPT ![f].vars = @ \ {g}]
    /\ UNCHANGED <<born, queue, stack, away, pooled, arg, fault>>

\* Library discipline, see Outlive.
MaySuspend(f) == Outlive \/ frame[f].vars = Unlaunched(frame[f].vars)

\* Mutant: the frame is queued and does not know that it was launched.
LaunchForgotten(F, g, x) == [F EXCEPT ![g].life = "suspended", ![g].home = x]
\* What launch() and queue_in_context(h) do to a frame.
Launched(F, g, x) == [F EXCEPT ![g].launched = TRUE, ![g].life = "suspended", ![g].home = x]

\* co_await of a temporary, or of an object that lives on
Await(x, f, g, temporary) ==
    /\ Runs(x, f) /\ MaySuspend(f)
    /\ g \in Unlaunched(frame[f].vars)
    /\ frame' = [Launched(frame, g, x) EXCEPT
                    ![g].prev = f,
                    ![f].life = "suspended",
                    ![f].temp = IF temporary THEN g ELSE NoFrame,
                    ![f].vars = IF temporary THEN @ \ {g} ELSE @]
    /\ queue' = Push(queue, x, g)
    /\ Pop(x)
    /\ UNCHANGED <<born, away, pooled, arg, fault>>

\* CoroContext::spawn(): the handle is queued, then the parameter is destroyed.
Spawn(x, f, g, y) ==
    /\ Runs(x, f) /\ g \in Unlaunched(frame[f].vars)
    /\ y = x \/ Remote
    /\ frame' = [Launched(frame, g, y) EXCEPT ![f].vars = @ \ {g}]
    /\ queue' = Push(queue, y, g)
    /\ arg' = [arg EXCEPT ![x] = g]
    /\ UNCHANGED <<born, stack, away, pooled, fault>>

\* The same by the thread itself, outside coroutines.
SpawnRoot(x) ==
    /\ Idle(x) /\ born < MaxFrames
    /\ born' = born + 1
    /\ frame' = Launched(frame, born', x)
    /\ queue' = Push(queue, x, born')
    /\ arg' = [arg EXCEPT ![x] = born']
    /\ UNCHANGED <<stack, away, pooled, fault>>

DropArg(x) ==
    /\ arg[x] # NoFrame
    /\ frame' = Dropped(frame, {arg[x]})
    /\ fault' = Touch({arg[x]})
    /\ arg' = [arg EXCEPT ![x] = NoFrame]
    /\ UNCHANGED <<born, queue, stack, away, pooled>>

\* The coroutine of a join(): its parameters are moved into spawn() one by one,
\* in their order, each with a completion handler that counts down.
Join(x, f) ==
    /\ Runs(x, f)
    /\ LET kids == Unlaunched(frame[f].vars)
       IN  /\ kids = frame[f].vars /\ (kids = {} => JoinNothing)
           /\ frame' = [g \in Frames |->
                  CASE g \in kids -> [frame[g] EXCEPT !.launched = TRUE, !.life = "suspended",
                                                      !.home = x, !.parent = f]
                    [] g = f -> [frame[f] EXCEPT !.life = "suspended", !.vars = {},
                                                 !.kids = kids, !.count = Cardinality(kids)]
                    [] OTHER -> frame[g]]
           /\ \E order \in SetToSeqs(kids) : queue' = [queue EXCEPT ![x] = @ \o order]
    /\ Pop(x)
    /\ UNCHANGED <<born, away, pooled, arg, fault>>

\* this_coro::yield
Yield(x, f) ==
    /\ Runs(x, f) /\ MaySuspend(f)
    /\ frame' = [frame EXCEPT ![f].life = "suspended", ![f].home = x]
    /\ queue' = Push(queue, x, f)
    /\ Pop(x)
    /\ UNCHANGED <<born, away, pooled, arg, fault>>

\* An operation, sleep_for() or sleep_until(), whose callback resumes it on this
\* thread; or spawn_blocking(), which queues it in the context of the pool.
Suspend(x, f, y, blocking) ==
    /\ Runs(x, f) /\ MaySuspend(f)
    /\ y # x => blocking /\ Migrate
    /\ frame' = [frame EXCEPT ![f].life = "suspended", ![f].home = y]
    /\ away' = away \cup {f}
    /\ pooled' = IF blocking THEN pooled \cup {f} ELSE pooled
    /\ Pop(x)
    /\ UNCHANGED <<born, queue, arg, fault>>

(***************************************************************************)
(* co_return or an exception, and FinalSuspend::await_suspend().           *)
(***************************************************************************)
Listening(count) == count # 0

\* Mutant: the others still count after an exception.
CountAfterValue(count, outcome) == count - 1
CountAfter(count, outcome) == IF outcome = "error" THEN 0 ELSE count - 1

\* Mutant: join goes on with the first that returns.
FirstEnds(count, outcome) == TRUE
\* Mutant: and only with the last one.
LastEnds(count, outcome) == count = 1
JoinEnds(count, outcome) == outcome = "error" \/ count = 1

\* join() throws what ended it.
JoinOutcome(f, outcome) ==
    frame[f].kids # {} => (outcome = "error" <=> \E g \in frame[f].kids : frame[g].outcome = "error")

\* The handlers of one join() use its count without synchronisation: what they
\* do on several threads is undefined.
Races(x, parent) == parent # NoFrame /\ ~(frame[parent].threads \subseteq {x})

Return(x, f, outcome) ==
    /\ Runs(x, f) /\ JoinOutcome(f, outcome)
    /\ LET F == [frame EXCEPT ![f].life = "final", ![f].outcome = outcome]
           prev == frame[f].prev
           parent == frame[f].parent
           count == frame[parent].count
           joins == prev = NoFrame /\ parent # NoFrame /\ Listening(count)
           G == [F EXCEPT ![parent].count = CountAfter(count, outcome),
                          ![parent].threads = @ \cup {x}]
       IN  \/ prev # NoFrame /\ Resume(F, x, prev, outcome)
           \/ prev = NoFrame /\ Races(x, parent) /\ fault' = "race" /\ UNCHANGED <<frame, stack>>
           \/ joins /\ JoinEnds(count, outcome) /\ Resume(G, x, parent, "none")
           \/ joins /\ ~JoinEnds(count, outcome) /\ frame' = G /\ UNCHANGED <<stack, fault>>
           \/ prev = NoFrame /\ ~joins /\ frame' = F /\ UNCHANGED <<stack, fault>>
    /\ UNCHANGED <<born, queue, away, pooled, arg>>

\* self_h.destroy(), when what was resumed there has returned
Destroy(x) ==
    /\ stack[x] # <<>> /\ arg[x] = NoFrame
    /\ LET f == Last(stack[x])
       IN  /\ Is(f, "final")
           /\ frame' = [Dropped(frame, frame[f].vars) EXCEPT ![f] = Gone(f)]
           /\ fault' = Touch(frame[f].vars)
    /\ Pop(x)
    /\ UNCHANGED <<born, queue, away, pooled, arg>>

(***************************************************************************)
(* The contexts: a queued handle, the callback of an operation or a timer, *)
(* a handle queued by a thread of the pool.                                *)
(***************************************************************************)
RunHandle(x) ==
    /\ Idle(x) /\ queue[x] # <<>>
    /\ Resume(frame, x, Head(queue[x]), "none")
    /\ queue' = [queue EXCEPT ![x] = Tail(@)]
    /\ UNCHANGED <<born, away, pooled, arg>>

ComeBack(f) ==
    /\ f \in away
    /\ away' = away \ {f} /\ pooled' = pooled \ {f}
    /\ LET x == frame[f].home
       IN  \/ f \notin pooled /\ Idle(x) /\ Resume(frame, x, f, "none") /\ UNCHANGED queue
           \/ f \in pooled /\ queue' = Push(queue, x, f) /\ UNCHANGED <<frame, stack, fault>>
    /\ UNCHANGED <<born, arg>>

(***************************************************************************)
(* The specification: contexts run and call back between the handles they  *)
(* run, operations and blocking calls end, a coroutine that keeps being    *)
(* resumed returns in the end.  After its co_await, join() only returns.   *)
(***************************************************************************)
ThreadStep(x) == DropArg(x) \/ Destroy(x) \/ RunHandle(x)
Returns(f) == \E x \in Contexts, o \in {"value", "error"} : Return(x, f, o)

CoroutineStep(x, f) ==
    /\ frame[f].kids = {}
    /\ \/ \E params \in SUBSET frame[f].vars : Create(x, f, params)
       \/ \E g \in frame[f].vars :
             \/ DropVar(x, f, g) \/ Assign(x, f, g)
             \/ \E temporary \in BOOLEAN : Await(x, f, g, temporary)
             \/ \E y \in Contexts : Spawn(x, f, g, y)
       \/ \E y \in Contexts, blocking \in BOOLEAN : Suspend(x, f, y, blocking)
       \/ Join(x, f) \/ Yield(x, f)

FrameNext ==
    /\ fault = "none"
    /\ \/ \E x \in Contexts :
             ThreadStep(x) \/ SpawnRoot(x) \/ \E f \in Frames : CoroutineStep(x, f)
       \/ \E f \in Frames : Returns(f) \/ ComeBack(f)

FrameSpec == FrameInit /\ [][FrameNext]_frameVars

FrameFairness ==
    /\ \A x \in Contexts : WF_frameVars(ThreadStep(x))
    /\ \A f \in Frames : SF_frameVars(Returns(f)) /\ WF_frameVars(ComeBack(f))

FairFrameSpec == FrameSpec /\ FrameFairness

(***************************************************************************)
(* Properties.                                                             *)
(***************************************************************************)
FrameTypeOK ==
    /\ born \in 0 .. MaxFrames
    /\ \A f \in Frames :
          /\ Is(f, "none") <=> f > born
          /\ frame[f].life \in {"none", "created", "suspended", "running", "final", "gone"}
          /\ frame[f].vars \subseteq Frames /\ frame[f].count \in 0 .. MaxFrames
    /\ queue \in [Contexts -> Seq(Frames)] /\ stack \in [Contexts -> Seq(Frames)]
    /\ away \subseteq Frames /\ pooled \subseteq away
    /\ fault \in {"none", "touch", "resume", "race", "terminate"}

\* Those who may resume f: a context that has its handle, the kernel or a pool,
\* a coroutine that it awaits, the last of the coroutines that it joins.
Resumers(f) ==
    {p \in Contexts \X (1 .. MaxFrames) : p[2] \in DOMAIN queue[p[1]] /\ queue[p[1]][p[2]] = f}
    \cup (IF f \in away THEN {<<"away", f>>} ELSE {})
    \cup {<<"child", g>> : g \in {h \in Frames : frame[h].prev = f /\ ~Is(h, "final") /\ ~Is(h, "gone")}}
    \cup (IF frame[f].count > 0 THEN {<<"kids", f>>} ELSE {})

\* A suspended coroutine has exactly one party that will resume it, any other
\* has none: no handle is resumed twice, none is forgotten.
OneResumer ==
    \A f \in Frames : Cardinality(Resumers(f)) = IF Is(f, "suspended") THEN 1 ELSE 0

\* Nobody reads, resumes or destroys a frame that is gone, although a frame
\* destroys itself while Coro objects that refer to it are still there.
NoUseAfterDestroy == fault \in {"none", "terminate"}

\* When nothing is left to run and nothing is outstanding, every frame is gone:
\* also those that were created and never launched.
NoFrameLeaks ==
    away = {} /\ (\A x \in Contexts : Idle(x) /\ queue[x] = <<>>)
        => \A f \in Frames : frame[f].life \in {"none", "gone"}

\* join() goes on when all have returned a value or as soon as one has thrown,
\* and not before.
JoinComplete ==
    [][\A f \in Frames : frame[f].kids # {} /\ Is(f, "suspended") /\ frame'[f].life = "running"
           => \/ frame[f].count = 0
              \/ \A g \in frame[f].kids : frame'[g].outcome = "value"
              \/ \E g \in frame[f].kids : frame'[g].outcome = "error"]_frameVars

\* What can go wrong at all, whatever is spawned, kept and moved between threads:
\* ~Coro() comes late of an object whose frame was launched, the parameter of a
\* spawn() on the context of another thread or a variable that outlives its
\* co_await; an awaited coroutine throws; handlers of one join() run on several
\* threads, after some coroutine has migrated.  No handle is resumed that is not
\* suspended, and nothing else reads or destroys a frame that is gone.
OnlyKnownFaults ==
    [][fault' # fault =>
          \/ /\ fault' = "touch"
             /\ \E g \in Frames :
                   /\ Is(g, "gone") /\ frame[g].launched
                   /\ \/ Remote /\ \E x \in Contexts : arg[x] = g /\ arg'[x] = NoFrame
                      \/ Outlive /\ \E f \in Frames : g \in frame[f].vars \ frame'[f].vars
          \/ /\ fault' = "terminate"
             /\ \E g \in Frames : frame[g].prev # NoFrame /\ frame'[g].outcome = "error"
          \/ /\ fault' = "race" /\ Migrate
             /\ \E x, y \in Contexts, f, g \in Frames :
                   x # y /\ Runs(x, g) /\ frame[g].parent = f /\ y \in frame[f].threads]_frameVars

\* Whoever awaits, joins, yields or waits for an operation is resumed.
SuspensionEnds ==
    \A f \in Frames : Is(f, "suspended") ~> ~Is(f, "suspended") \/ fault = "terminate"
=============================================================================
