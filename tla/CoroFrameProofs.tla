--------------------------- MODULE CoroFrameProofs ---------------------------
(***************************************************************************)
(* What holds of coroutine frames for every number of frames and contexts, *)
(* whatever is spawned on which context, kept over which suspension and    *)
(* moved to which thread.  A theorem that needs less freedom than this     *)
(* names it: ASSUME ~Remote, ~Migrate, ~Outlive, ~Overwrite, ~JoinNothing. *)
(***************************************************************************)
EXTENDS CoroFrame, QueueFacts, FiniteSetTheorems, WellFoundedInduction

Handles == Frames \cup {NoFrame}
Lives == {"none", "created", "suspended", "running", "final", "gone"}
Outcomes == {"none", "value", "error"}

Promises ==
    [life : Lives, launched : BOOLEAN, prev : Handles, outcome : Outcomes,
     vars : SUBSET Frames, temp : Handles, home : Contexts \cup {NoFrame},
     parent : Handles, count : Nat, kids : SUBSET Frames, threads : SUBSET Contexts]

TypeInv ==
    /\ born \in 0 .. MaxFrames
    /\ frame \in [Frames -> Promises]
    /\ queue \in [Contexts -> Seq(Frames)] /\ stack \in [Contexts -> Seq(Frames)]
    /\ away \subseteq Frames /\ arg \in [Contexts -> Handles]

Started(f) == frame[f].life \in {"suspended", "running"}
OnStack(f) == frame[f].life \in {"running", "final"}

\* What the stage of its life says of a frame.
Stage(f) ==
    /\ Is(f, "none") <=> f > born
    /\ Is(f, "none") \/ Is(f, "created") \/ Is(f, "gone") =>
          /\ frame[f].prev = NoFrame /\ frame[f].parent = NoFrame /\ frame[f].count = 0
          /\ frame[f].kids = {} /\ frame[f].temp = NoFrame
    /\ Is(f, "none") \/ Is(f, "gone") => frame[f].vars = {}
    /\ Is(f, "none") \/ Is(f, "created") => ~frame[f].launched /\ frame[f].outcome = "none"
    /\ Started(f) \/ Is(f, "final") => frame[f].launched /\ frame[f].home \in Contexts
    /\ Started(f) => frame[f].outcome = "none"
    /\ frame[f].launched /\ (Is(f, "final") \/ Is(f, "gone")) => frame[f].outcome # "none"
    /\ frame[f].temp # NoFrame =>
          /\ Is(f, "suspended") /\ Started(frame[f].temp) /\ frame[frame[f].temp].prev = f

LifeInv == \A f \in Frames : Stage(f)

(***************************************************************************)
(* Queues and stacks of the contexts hold a frame once.                    *)
(***************************************************************************)
In(q, f) == \E x \in Contexts : f \in ToSet(q[x])

Apart(q) ==
    /\ \A x \in Contexts : Distinct(q[x])
    /\ \A x, y \in Contexts : x # y => ToSet(q[x]) \cap ToSet(q[y]) = {}

\* The head is taken from a queue, the last activation from a stack.
Taken(q, x) == [q EXCEPT ![x] = Tail(@)]
Popped(s, x) == [s EXCEPT ![x] = Front(@)]

Below(s, g, f) ==
    \E x \in Contexts : \E i, j \in DOMAIN s[x] : i < j /\ s[x][i] = g /\ s[x][j] = f

\* On each thread whatever is below the last activation waits to destroy itself.
StackInv ==
    /\ Apart(stack)
    /\ \A x \in Contexts : \A i \in DOMAIN stack[x] :
          /\ OnStack(stack[x][i])
          /\ i # Len(stack[x]) => Is(stack[x][i], "final")
    /\ \A f \in Frames : OnStack(f) => In(stack, f)

\* A Coro object has one owner and refers to a frame that is there: one that
\* was not launched, or one that was awaited, which is either still awaited or
\* below its owner on the stack, so that it is destroyed later.
OwnInv ==
    /\ \A f \in Frames : \A g \in frame[f].vars :
          /\ ~Is(g, "none") /\ (~Outlive => ~Is(g, "gone"))
          /\ Is(g, "gone") => frame[g].launched
          /\ Is(f, "created") => Is(g, "created") /\ g < f
          /\ ~Outlive /\ frame[g].launched /\ Is(f, "suspended") => Started(g) /\ frame[g].prev = f
          /\ ~Outlive /\ frame[g].launched /\ OnStack(f) => Below(stack, g, f)
    /\ \A f, h \in Frames : \A g \in frame[f].vars : g \in frame[h].vars => f = h
    /\ ~Overwrite => \A g \in Frames : Is(g, "created") => \E f \in Frames : g \in frame[f].vars

\* A suspended frame is in one place, from which it will be resumed.
Awaits(f, g) == frame[g].prev = f /\ Started(g)
Awaiting(f) == \E g \in Frames : Awaits(f, g)
Joining(f) == frame[f].count # 0

ResumeInv ==
    /\ Apart(queue)
    /\ \A f \in Frames :
          /\ In(queue, f) \/ f \in away \/ Awaiting(f) \/ Joining(f) => Is(f, "suspended")
          /\ ~JoinNothing /\ Is(f, "suspended") =>
                In(queue, f) \/ f \in away \/ Awaiting(f) \/ Joining(f)
          /\ In(queue, f) => f \notin away /\ ~Awaiting(f) /\ ~Joining(f)
          /\ f \in away => ~Awaiting(f) /\ ~Joining(f)
          /\ Awaiting(f) => ~Joining(f)
    /\ \A f, g, h \in Frames : Awaits(f, g) /\ Awaits(f, h) => g = h

\* The parameter of spawn() refers to a launched frame; on one's own thread it
\* outlives nobody: the frame is still queued.
ArgInv ==
    \A x \in Contexts : arg[x] # NoFrame =>
        frame[arg[x]].launched /\ (~Remote => arg[x] \in ToSet(queue[x]))

Premises == ~Remote /\ ~Outlive

FaultInv ==
    /\ fault \in {"none", "touch", "terminate", "race"}
    /\ Premises => fault # "touch"

(***************************************************************************)
(* What a step leaves alone of what a frame knows of join() and co_await.  *)
(***************************************************************************)
Kept(f) ==
    /\ frame'[f].parent = frame[f].parent /\ frame'[f].kids = frame[f].kids
    /\ frame'[f].count = frame[f].count /\ frame'[f].outcome = frame[f].outcome
    /\ frame[f].launched => frame'[f].launched
    /\ Is(f, "gone") => Is(f, "gone")'
    /\ Started(f)' => Started(f) \/ Is(f, "created") \/ Is(f, "none")
    /\ Joining(f) => Is(f, "suspended")'

Cleared(f) ==
    /\ Is(f, "gone")' /\ ~Joining(f)
    /\ frame'[f].parent = NoFrame /\ frame'[f].kids = {} /\ frame'[f].count = 0
    /\ frame'[f].prev = NoFrame
    /\ frame'[f].outcome = frame[f].outcome /\ frame'[f].launched = frame[f].launched

\* Nobody awaits or joins anything new, and nothing returns.
Quiet ==
    \A f \in Frames :
       \/ Cleared(f)
       \/ Kept(f) /\ frame'[f].prev = frame[f].prev

\* f awaits g, f joins K, f returns.
Awaited(f, g) ==
    /\ g \in Frames /\ Is(g, "created") /\ Is(f, "running")
    /\ frame'[g].prev = f
    /\ \A h \in Frames : Kept(h) /\ (h # g => frame'[h].prev = frame[h].prev)
                           /\ (h # g => (Started(h)' => Started(h)))

Gathered(f, K) ==
    /\ K \in SUBSET Frames /\ Is(f, "running") /\ frame[f].kids = {}
    /\ frame'[f].kids = K /\ frame'[f].count = Cardinality(K)
    /\ \A g \in K : Is(g, "created") /\ frame'[g].parent = f /\ frame'[g].launched
    /\ \A h \in Frames :
          /\ frame'[h].outcome = frame[h].outcome /\ frame'[h].prev = frame[h].prev
          /\ Is(h, "gone") => Is(h, "gone")'
          /\ Joining(h) => Is(h, "suspended")'
          /\ frame[h].launched => frame'[h].launched
          /\ h \notin K => frame'[h].parent = frame[h].parent /\ (Started(h)' => Started(h))
          /\ h # f => frame'[h].kids = frame[h].kids /\ frame'[h].count = frame[h].count

Counts(f, h) == frame[f].prev = NoFrame /\ frame[f].parent = h /\ Joining(h)

Returned(f, outcome) ==
    /\ Is(f, "running") /\ frame'[f].outcome = outcome
    /\ \A h \in Frames :
          /\ h # f => frame'[h].outcome = frame[h].outcome
          /\ frame'[h].parent = frame[h].parent /\ frame'[h].kids = frame[h].kids
          /\ frame'[h].prev = frame[h].prev /\ frame'[h].launched = frame[h].launched
          /\ frame'[h].count = IF Counts(f, h) THEN CountAfter(frame[h].count, outcome)
                                ELSE frame[h].count
          /\ Is(h, "gone") => Is(h, "gone")'
          /\ Started(h)' => Started(h)
          /\ Joining(h) => \/ Is(h, "suspended")'
                           \/ Counts(f, h) /\ JoinEnds(frame[h].count, outcome)

FrameInv == TypeInv /\ LifeInv /\ StackInv /\ OwnInv /\ ResumeInv /\ ArgInv /\ FaultInv

-----------------------------------------------------------------------------
(***************************************************************************)
(* Pushing and popping.                                                    *)
(***************************************************************************)
LEMMA PushFacts ==
  ASSUME NEW q \in [Contexts -> Seq(Frames)], NEW x \in Contexts, NEW f \in Frames
  PROVE  /\ Push(q, x, f) \in [Contexts -> Seq(Frames)]
         /\ Push(q, x, f)[x] = Append(q[x], f)
         /\ \A y \in Contexts : y # x => Push(q, x, f)[y] = q[y]
         /\ ToSet(Push(q, x, f)[x]) = ToSet(q[x]) \cup {f}
         /\ \A g \in Frames : In(Push(q, x, f), g) <=> In(q, g) \/ g = f
         /\ Apart(q) /\ ~In(q, f) => Apart(Push(q, x, f))
<1> DEFINE p == Push(q, x, f)
<1>1. /\ p \in [Contexts -> Seq(Frames)] /\ p[x] = Append(q[x], f)
      /\ \A y \in Contexts : y # x => p[y] = q[y]
  BY DEF Push
<1>2. q[x] \in Seq(Frames)  OBVIOUS
<1>3. /\ ToSet(Append(q[x], f)) = ToSet(q[x]) \cup {f}
      /\ Distinct(q[x]) /\ f \notin ToSet(q[x]) => Distinct(Append(q[x], f))
  BY <1>2, AppendQueue
<1> HIDE DEF p
<1>4. \A y \in Contexts : ToSet(p[y]) = IF y = x THEN ToSet(q[y]) \cup {f} ELSE ToSet(q[y])
  BY <1>1, <1>3
<1>5. \A g \in Frames : In(p, g) <=> In(q, g) \/ g = f
  BY <1>4 DEF In
<1>6. ASSUME Apart(q), ~In(q, f) PROVE Apart(p)
  BY <1>1, <1>3, <1>4, <1>6 DEF Apart, In
<1> QED  BY <1>1, <1>4, <1>5, <1>6 DEF p

\* The head of a context's queue is taken.
LEMMA HeadFacts ==
  ASSUME NEW q \in [Contexts -> Seq(Frames)], NEW x \in Contexts, q[x] # <<>>
  PROVE  /\ Taken(q, x) \in [Contexts -> Seq(Frames)] /\ Head(q[x]) \in Frames
         /\ Head(q[x]) \in ToSet(q[x])
         /\ \A y \in Contexts : y # x => Taken(q, x)[y] = q[y]
         /\ Apart(q) => /\ Apart(Taken(q, x))
                        /\ \A g \in Frames : In(Taken(q, x), g) <=> In(q, g) /\ g # Head(q[x])
<1> DEFINE p == Taken(q, x)
<1>1. /\ p \in [Contexts -> Seq(Frames)] /\ p[x] = Tail(q[x])
      /\ \A y \in Contexts : y # x => p[y] = q[y]
  BY DEF Taken
<1> HIDE DEF p
<1>2. q[x] \in Seq(Frames)  OBVIOUS
<1>3. /\ Head(q[x]) \in Frames
      /\ ToSet(q[x]) = ToSet(Tail(q[x])) \cup {Head(q[x])}
      /\ Distinct(q[x]) => Distinct(Tail(q[x])) /\ Head(q[x]) \notin ToSet(Tail(q[x]))
  BY <1>2, PopQueue
<1>4. ASSUME Apart(q) PROVE Apart(p)
  BY <1>1, <1>3, <1>4 DEF Apart
<1>5. ASSUME Apart(q), NEW g \in Frames PROVE In(p, g) <=> In(q, g) /\ g # Head(q[x])
  <2>1. Head(q[x]) \notin ToSet(p[x]) /\ ToSet(q[x]) = ToSet(p[x]) \cup {Head(q[x])}
    BY <1>1, <1>3, <1>5 DEF Apart
  <2>2. \A y \in Contexts : y # x => Head(q[x]) \notin ToSet(p[y]) /\ ToSet(p[y]) = ToSet(q[y])
    BY <1>1, <1>3, <1>5 DEF Apart
  <2> QED  BY <2>1, <2>2 DEF In
<1> QED  BY <1>1, <1>3, <1>4, <1>5 DEF p

\* The last activation returns.
LEMMA PopFacts ==
  ASSUME NEW s \in [Contexts -> Seq(Frames)], NEW x \in Contexts, s[x] # <<>>,
         Apart(s)
  PROVE  /\ Popped(s, x) \in [Contexts -> Seq(Frames)] /\ Apart(Popped(s, x)) /\ Last(s[x]) \in Frames
         /\ In(s, Last(s[x]))
         /\ \A g \in Frames : In(Popped(s, x), g) <=> In(s, g) /\ g # Last(s[x])
         /\ \A y \in Contexts : \A i \in DOMAIN Popped(s, x)[y] :
              i \in DOMAIN s[y] /\ Popped(s, x)[y][i] = s[y][i] /\ (y = x => i # Len(s[y]))
              /\ (y # x => Popped(s, x)[y] = s[y])
         /\ \A g, f \in Frames : Below(s, g, f) /\ f # Last(s[x]) => Below(Popped(s, x), g, f)
<1> DEFINE p == Popped(s, x)  f == Last(s[x])  n == Len(s[x])
<1>1. /\ p \in [Contexts -> Seq(Frames)] /\ p[x] = Front(s[x])
      /\ \A y \in Contexts : y # x => p[y] = s[y]
      /\ s[x] \in Seq(Frames) /\ p[x] \in Seq(Frames)
  <2>1. s[x] \in Seq(Frames)  OBVIOUS
  <2>2. Front(s[x]) \in Seq(Frames)  BY <2>1, FrontQueue
  <2> QED  BY <2>1, <2>2 DEF Popped
<1> HIDE DEF p
<1>2. /\ f \in Frames /\ n \in Nat \ {0} /\ Len(p[x]) = n - 1 /\ f = s[x][n]
      /\ \A i \in 1 .. n - 1 : p[x][i] = s[x][i]
      /\ ToSet(s[x]) = ToSet(p[x]) \cup {f}
  <2> DEFINE t == s[x]
  <2>1. t \in Seq(Frames) /\ t # <<>>  BY <1>1
  <2> HIDE DEF t
  <2>2. /\ Last(t) \in Frames /\ Len(t) \in Nat \ {0} /\ Len(Front(t)) = Len(t) - 1
        /\ Last(t) = t[Len(t)] /\ \A i \in 1 .. Len(t) - 1 : Front(t)[i] = t[i]
        /\ ToSet(t) = ToSet(Front(t)) \cup {Last(t)}
    BY <2>1, FrontQueue
  <2> QED  BY <1>1, <2>2 DEF t
<1>3. DOMAIN s[x] = 1 .. n /\ DOMAIN p[x] = 1 .. n - 1
  BY <1>1, <1>2, LenProperties
<1>4. Distinct(s[x])  BY DEF Apart
<1> HIDE DEF f, n
<1>5. Distinct(p[x]) /\ f \notin ToSet(p[x])
  BY <1>2, <1>3, <1>4 DEF Distinct, ToSet
<1>6. Apart(p)
  BY <1>1, <1>2, <1>5 DEF Apart
<1>7. ASSUME NEW g \in Frames PROVE In(p, g) <=> In(s, g) /\ g # f
  <2>1. \A y \in Contexts : y # x => f \notin ToSet(p[y]) /\ ToSet(p[y]) = ToSet(s[y])
    BY <1>1, <1>2 DEF Apart
  <2> QED  BY <1>2, <1>5, <2>1 DEF In
<1>8. In(s, f)  BY <1>2 DEF In
<1>9. ASSUME NEW y \in Contexts, NEW i \in DOMAIN p[y]
      PROVE  /\ i \in DOMAIN s[y] /\ p[y][i] = s[y][i] /\ (y = x => i # Len(s[y]))
             /\ (y # x => p[y] = s[y])
  BY <1>1, <1>2, <1>3, <1>9 DEF n
<1>10. ASSUME NEW g \in Frames, NEW h \in Frames, Below(s, g, h), h # f PROVE Below(p, g, h)
  <2>0. PICK y \in Contexts : \E i, j \in DOMAIN s[y] : i < j /\ s[y][i] = g /\ s[y][j] = h
    BY <1>10 DEF Below
  <2>1. PICK i \in DOMAIN s[y], j \in DOMAIN s[y] : i < j /\ s[y][i] = g /\ s[y][j] = h
    BY <2>0
  <2>2. CASE y # x
    BY <1>1, <2>1, <2>2 DEF Below
  <2>3. CASE y = x
    <3>1. j # n  BY <1>2, <1>10, <2>1, <2>3
    <3>2. i \in DOMAIN p[x] /\ j \in DOMAIN p[x]  BY <1>2, <1>3, <2>1, <2>3, <3>1
    <3> QED  BY <1>2, <1>3, <2>1, <2>3, <3>2 DEF Below
  <2> QED  BY <2>2, <2>3
<1> QED  BY <1>1, <1>2, <1>6, <1>7, <1>8, <1>9, <1>10 DEF p, f, n

\* A coroutine is resumed on a thread.
LEMMA PushBelow ==
  ASSUME NEW s \in [Contexts -> Seq(Frames)], NEW x \in Contexts, NEW f \in Frames
  PROVE  /\ \A g, h \in Frames : Below(s, g, h) => Below(Push(s, x, f), g, h)
         /\ \A g \in ToSet(s[x]) : Below(Push(s, x, f), g, f)
         /\ \A i \in DOMAIN Push(s, x, f)[x] :
              \/ i \in DOMAIN s[x] /\ Push(s, x, f)[x][i] = s[x][i]
              \/ i = Len(Push(s, x, f)[x]) /\ Push(s, x, f)[x][i] = f
<1> DEFINE p == Push(s, x, f)  n == Len(s[x])
<1>1. /\ p[x] = Append(s[x], f) /\ \A y \in Contexts : y # x => p[y] = s[y]
  BY DEF Push
<1>2. s[x] \in Seq(Frames)  OBVIOUS
<1>3. /\ n \in Nat /\ DOMAIN s[x] = 1 .. n /\ DOMAIN p[x] = 1 .. n + 1 /\ Len(p[x]) = n + 1
      /\ \A i \in 1 .. n : p[x][i] = s[x][i]
      /\ p[x][n + 1] = f
  BY <1>1, <1>2, AppendProperties, LenProperties
<1> HIDE DEF p, n
<1>4. ASSUME NEW g \in Frames, NEW h \in Frames, Below(s, g, h) PROVE Below(p, g, h)
  <2>0. PICK y \in Contexts : \E i, j \in DOMAIN s[y] : i < j /\ s[y][i] = g /\ s[y][j] = h
    BY <1>4 DEF Below
  <2>1. PICK i \in DOMAIN s[y], j \in DOMAIN s[y] : i < j /\ s[y][i] = g /\ s[y][j] = h
    BY <2>0
  <2>2. i \in DOMAIN p[y] /\ j \in DOMAIN p[y] /\ p[y][i] = g /\ p[y][j] = h
    <3>1. CASE y = x
      <4>1. i \in 1 .. n /\ j \in 1 .. n  BY <1>3, <3>1
      <4>2. i \in 1 .. n + 1 /\ j \in 1 .. n + 1  BY <1>3, <4>1
      <4> QED  BY <1>3, <2>1, <3>1, <4>1, <4>2
    <3>2. CASE y # x  BY <1>1, <2>1, <3>2
    <3> QED  BY <3>1, <3>2
  <2> QED  BY <2>1, <2>2 DEF Below
<1>5. ASSUME NEW g \in ToSet(s[x]) PROVE Below(p, g, f)
  <2>1. PICK i \in DOMAIN s[x] : s[x][i] = g  BY <1>5 DEF ToSet
  <2>2. i \in DOMAIN p[x] /\ n + 1 \in DOMAIN p[x] /\ i < n + 1 /\ p[x][i] = g
    BY <1>3, <2>1
  <2> QED  BY <1>3, <2>2 DEF Below
<1>6. \A i \in DOMAIN p[x] :
         \/ i \in DOMAIN s[x] /\ p[x][i] = s[x][i]
         \/ i = Len(p[x]) /\ p[x][i] = f
  BY <1>3
<1> QED  BY <1>4, <1>5, <1>6 DEF p

-----------------------------------------------------------------------------
(***************************************************************************)
(* The stack of activations when nothing is pushed or popped, when the     *)
(* last activation returns, and when a coroutine is resumed.               *)
(***************************************************************************)
StillFinal(F) == \A f \in F : Is(f, "final") => Is(f, "final")'

LEMMA StackKept ==
  ASSUME TypeInv, StackInv, stack' = stack, \A f \in Frames : OnStack(f)' <=> OnStack(f),
         StillFinal(Frames)
  PROVE  StackInv'
<1>1. \A x \in Contexts : \A i \in DOMAIN stack[x] : stack[x][i] \in Frames
  BY ElementOfSeq, LenProperties DEF TypeInv
<1> QED  BY <1>1 DEF StackInv, StillFinal

LEMMA StackPopped ==
  ASSUME TypeInv, StackInv, NEW x \in Contexts, stack[x] # <<>>, Pop(x),
         \A f \in Frames : OnStack(f)' <=> OnStack(f) /\ f # Last(stack[x]),
         StillFinal(Frames \ {Last(stack[x])})
  PROVE  /\ StackInv' /\ OnStack(Last(stack[x])) /\ Last(stack[x]) \in Frames
         /\ \A f, g \in Frames : Below(stack, g, f) /\ OnStack(f)' => Below(stack', g, f)
<1> DEFINE f == Last(stack[x])
<1>1. /\ stack \in [Contexts -> Seq(Frames)] /\ Apart(stack)
      /\ stack' = [stack EXCEPT ![x] = Front(@)]
      /\ \A y \in Contexts : \A i \in DOMAIN stack[y] :
            stack[y][i] \in Frames /\ stack[y][i] \in ToSet(stack[y])
  BY ElementOfSeq, LenProperties DEF TypeInv, StackInv, Pop, ToSet
<1>2. /\ stack' \in [Contexts -> Seq(Frames)] /\ Apart(stack') /\ f \in Frames
      /\ In(stack, f)
      /\ \A g \in Frames : In(stack', g) <=> In(stack, g) /\ g # f
      /\ \A y \in Contexts : \A i \in DOMAIN stack'[y] :
              i \in DOMAIN stack[y] /\ stack'[y][i] = stack[y][i] /\ (y = x => i # Len(stack[y]))
              /\ (y # x => stack'[y] = stack[y])
      /\ \A g, h \in Frames : Below(stack, g, h) /\ h # f => Below(stack', g, h)
  <2> DEFINE p == stack'
  <2>1. p = Popped(stack, x) /\ stack \in [Contexts -> Seq(Frames)]
        /\ Apart(stack) /\ stack[x] # <<>>
    BY <1>1 DEF Popped
  <2> HIDE DEF p
  <2> QED  BY <2>1, PopFacts DEF p
<1>3. OnStack(f)
  BY <1>2 DEF StackInv, In, ToSet
<1> HIDE DEF f
<1>4. ASSUME NEW y \in Contexts, NEW i \in DOMAIN stack'[y]
      PROVE  (OnStack(stack[y][i]) /\ (i # Len(stack[y]) => Is(stack[y][i], "final")))'
  <2>1. /\ i \in DOMAIN stack[y] /\ stack'[y][i] = stack[y][i] /\ stack[y][i] \in Frames
        /\ i # Len(stack'[y]) \/ y = x => i # Len(stack[y])
        /\ i \in DOMAIN stack'[y]
    BY <1>1, <1>2
  <2> PICK g \in Frames : g = stack[y][i]  BY <2>1
  <2>2. In(stack', g)  BY <2>1 DEF In, ToSet
  <2>3. g # f  BY <1>2, <2>2
  <2>4. OnStack(g) /\ (i # Len(stack'[y]) => Is(g, "final"))
    BY <2>1 DEF StackInv
  <2> QED  BY <2>1, <2>3, <2>4 DEF f, StillFinal
<1>5. ASSUME NEW g \in Frames, OnStack(g)' PROVE In(stack', g)
  BY <1>2, <1>5 DEF StackInv, f
<1> QED  BY <1>2, <1>3, <1>4, <1>5 DEF StackInv, f

LEMMA StackPushed ==
  ASSUME TypeInv, StackInv, NEW x \in Contexts, NEW f \in Frames, stack' = Push(stack, x, f),
         \A g \in Frames : OnStack(g)' <=> OnStack(g) \/ g = f,
         ~OnStack(f), StillFinal(Frames),
         stack[x] # <<>> => frame'[Last(stack[x])].life = "final"
  PROVE  StackInv'
<1>1. /\ stack \in [Contexts -> Seq(Frames)] /\ Apart(stack)
      /\ \A y \in Contexts : \A i \in DOMAIN stack[y] : stack[y][i] \in Frames
  BY ElementOfSeq, LenProperties DEF TypeInv, StackInv
<1>2. ~In(stack, f)
  BY DEF StackInv, In, ToSet
<1>3. /\ stack'[x] = Append(stack[x], f) /\ Apart(stack')
      /\ \A y \in Contexts : y # x => stack'[y] = stack[y]
      /\ \A g \in Frames : In(stack', g) <=> In(stack, g) \/ g = f
  BY <1>1, <1>2, PushFacts
<1>4. \A i \in DOMAIN stack'[x] :
              \/ i \in DOMAIN stack[x] /\ stack'[x][i] = stack[x][i]
              \/ i = Len(stack'[x]) /\ stack'[x][i] = f
  BY <1>1, PushBelow
<1>5. ASSUME NEW y \in Contexts, NEW i \in DOMAIN stack'[y]
      PROVE  (OnStack(stack[y][i]) /\ (i # Len(stack[y]) => Is(stack[y][i], "final")))'
  <2>1. CASE y # x
    BY <1>1, <1>3, <2>1 DEF StackInv, StillFinal
  <2>2. CASE y = x /\ stack'[x][i] = f /\ i = Len(stack'[x])
    BY <2>2
  <2>3. CASE y = x /\ i \in DOMAIN stack[x] /\ stack'[x][i] = stack[x][i]
    <3>1. OnStack(stack[x][i]) /\ (i # Len(stack[x]) => Is(stack[x][i], "final"))
      BY <2>3 DEF StackInv
    <3>2. i = Len(stack[x]) => stack[x] # <<>> /\ stack[x][i] = Last(stack[x])
      BY <1>1, <2>3 DEF Last
    <3> PICK g \in Frames : g = stack[x][i]  BY <1>1, <2>3
    <3>3. OnStack(g)' /\ (i # Len(stack[x]) => Is(g, "final")')
      BY <3>1 DEF StillFinal
    <3>4. i = Len(stack[x]) => Is(g, "final")'
      BY <3>2 DEF Is
    <3> QED  BY <2>3, <3>3, <3>4
  <2> QED  BY <1>4, <2>1, <2>2, <2>3
<1>6. ASSUME NEW g \in Frames, OnStack(g)' PROVE In(stack', g)
  BY <1>3, <1>6 DEF StackInv
<1> QED  BY <1>3, <1>5, <1>6 DEF StackInv

(***************************************************************************)
(* A frame stays sound when only others change.                            *)
(***************************************************************************)
LEMMA StageKept ==
  ASSUME NEW f \in Frames, Stage(f), f > born' <=> f > born,
         frame'[f].life = frame[f].life, frame'[f].launched = frame[f].launched,
         frame'[f].outcome = frame[f].outcome, frame'[f].home = frame[f].home,
         frame'[f].prev = frame[f].prev, frame'[f].temp = frame[f].temp,
         frame'[f].parent = frame[f].parent, frame'[f].count = frame[f].count,
         frame'[f].kids = frame[f].kids,
         Is(f, "none") \/ Is(f, "gone") => frame'[f].vars = frame[f].vars,
         frame[f].temp # NoFrame =>
            frame'[frame[f].temp].life \in {"suspended", "running"} /\ frame'[frame[f].temp].prev = f
  PROVE  Stage(f)'
  BY DEF Stage, Is, Started

(***************************************************************************)
(* Who owns whom when no object is made, moved or dropped.                 *)
(***************************************************************************)
LEMMA OwnKept ==
  ASSUME OwnInv,
         \A f \in Frames : /\ frame'[f].vars = frame[f].vars
                           /\ Is(f, "created")' <=> Is(f, "created"),
         \A f \in Frames : \A g \in frame[f].vars :
            /\ g \in Frames
            /\ frame'[g].launched = frame[g].launched /\ ~Is(g, "none")' /\ (~Outlive => ~Is(g, "gone")')
            /\ Is(g, "gone")' => frame'[g].launched
            /\ ~Outlive /\ frame[g].launched /\ Is(f, "suspended")' => Started(g)' /\ frame'[g].prev = f
            /\ ~Outlive /\ frame[g].launched /\ OnStack(f)' => Below(stack', g, f)
  PROVE  OwnInv'
  BY DEF OwnInv

(***************************************************************************)
(* Who will be resumed when nobody waits for anything new.                 *)
(***************************************************************************)
LEMMA ResumeKept ==
  ASSUME ResumeInv, queue' = queue, away' = away,
         \A f \in Frames : /\ Is(f, "suspended")' <=> Is(f, "suspended")
                           /\ Joining(f)' <=> Joining(f)
                           /\ \A g \in Frames : Awaits(f, g)' <=> Awaits(f, g)
  PROVE  ResumeInv'
<1>1. \A f \in Frames : Awaiting(f)' <=> Awaiting(f)
  BY DEF Awaiting
<1> QED  BY <1>1 DEF ResumeInv

(***************************************************************************)
(* ~Coro(): nothing happens to what was launched; what was not goes with   *)
(* the objects in it, and nothing else does.                               *)
(***************************************************************************)
LEMMA NothingDoomed ==
  ASSUME NEW objects, Unlaunched(objects) = {}, NEW F \in [Frames -> Promises]
  PROVE  Doomed(objects) = {} /\ Dropped(F, objects) = F
<1>1. Closed({}, objects)  BY DEF Closed
<1>2. Doomed(objects) = {}  BY <1>1 DEF Doomed
<1>3. Dropped(F, objects) = [f \in Frames |-> F[f]]  BY <1>2 DEF Dropped
<1> QED  BY <1>2, <1>3

\* A frame that is there and was not launched is only created.
LEMMA UnlaunchedCreated ==
  ASSUME TypeInv, LifeInv, OwnInv, NEW objects \in SUBSET Frames,
         \A g \in objects : ~Is(g, "none")
  PROVE  \A g \in objects : g \in Unlaunched(objects) <=> Is(g, "created")
  BY DEF TypeInv, Promises, Lives, LifeInv, Stage, Unlaunched, Is, Started

LEMMA DoomedFacts ==
  ASSUME TypeInv, LifeInv, OwnInv, NEW objects \in SUBSET Frames,
         \A g \in objects : ~Is(g, "none")
  PROVE  /\ \A g \in Doomed(objects) : g \in Frames /\ Is(g, "created")
         /\ \A g \in objects : Is(g, "created") => g \in Doomed(objects)
         /\ \A e \in Doomed(objects) : \A g \in frame[e].vars : g \in Doomed(objects)
         /\ \A g \in Doomed(objects) :
              g \in objects \/ \E e \in Doomed(objects) : g \in frame[e].vars
<1> DEFINE D == Doomed(objects)  C == {g \in Frames : Is(g, "created")}
<1>1. \A f \in Frames : frame[f].vars \in SUBSET Frames
  BY DEF TypeInv, Promises
<1>2. \A f \in Frames : \A g \in frame[f].vars :
        /\ g \in Unlaunched(frame[f].vars) <=> Is(g, "created")
        /\ Is(f, "created") => Is(g, "created")
  BY <1>1, UnlaunchedCreated DEF OwnInv
<1>3. \A g \in objects : g \in Unlaunched(objects) <=> Is(g, "created")
  BY UnlaunchedCreated
<1>4. Closed(C, objects)
  BY <1>1, <1>2, <1>3 DEF Closed, Unlaunched
<1>5. D \subseteq C
  BY <1>4 DEF Doomed
<1>6. \A g \in objects : Is(g, "created") => g \in D
  BY <1>3 DEF Doomed, Closed
<1>7. ASSUME NEW e \in D, NEW g \in frame[e].vars PROVE g \in D
  <2>1. g \in Unlaunched(frame[e].vars) /\ g \in Frames  BY <1>1, <1>2, <1>5
  <2> QED  BY <2>1 DEF Doomed, Closed
<1>8. ASSUME NEW g \in D, g \notin objects, \A e \in D : g \notin frame[e].vars PROVE FALSE
  <2>1. Unlaunched(objects) \subseteq D \ {g}
    BY <1>3, <1>6, <1>8 DEF Unlaunched
  <2>2. \A e \in D \ {g} : Unlaunched(frame[e].vars) \subseteq D \ {g}
    BY <1>7, <1>8 DEF Unlaunched
  <2>3. Closed(D \ {g}, objects) /\ D \ {g} \in SUBSET Frames
    BY <1>5, <2>1, <2>2 DEF Closed
  <2>4. g \in D \ {g}
    BY <2>3 DEF Doomed
  <2> QED  BY <2>4
<1> QED  BY <1>5, <1>6, <1>7, <1>8

(***************************************************************************)
(* The temporary of a co_await is the frame that resumes, and launched.    *)
(***************************************************************************)
LEMMA ResumeQuiet ==
  ASSUME TypeInv, LifeInv, NEW x \in Contexts, NEW f \in Frames, NEW F \in [Frames -> Promises],
         NEW awaited, Is(f, "suspended"), Resume(F, x, f, awaited)
  PROVE  /\ frame' = [F EXCEPT ![f].life = "running", ![f].temp = NoFrame]
         /\ stack' = Push(stack, x, f)
         /\ awaited # "error" => fault' = fault
         /\ awaited = "error" => fault' = "terminate"
<1> DEFINE temp == {frame[f].temp} \ {NoFrame}
<1>1. \A g \in temp : g \in Frames /\ Started(g) /\ frame[g].launched
  BY DEF LifeInv, Stage, TypeInv, Promises, Handles
<1>2. Unlaunched(temp) = {} /\ \A g \in temp : ~Is(g, "gone")
  BY <1>1 DEF Unlaunched, Started, Is
<1>3. Dropped(F, temp) = F /\ Touch(temp) = fault
  BY <1>2, NothingDoomed DEF Touch
<1> QED  BY <1>3 DEF Resume

-----------------------------------------------------------------------------
(***************************************************************************)
(* The steps of a running coroutine.                                       *)
(***************************************************************************)
\* Nothing is taken from the queue of a thread that has a parameter to destroy.
LEMMA ArgSame ==
  ASSUME TypeInv, ArgInv, arg' = arg,
         \A h \in Frames : frame[h].launched => frame'[h].launched,
         \A x \in Contexts : arg[x] # NoFrame => ToSet(queue[x]) \subseteq ToSet(queue'[x])
  PROVE  ArgInv'
<1>1. \A x \in Contexts : arg[x] # NoFrame => arg[x] \in Frames
  BY DEF TypeInv, Handles
<1> QED  BY <1>1 DEF ArgInv

\* A running coroutine is on the stack and nobody will resume it.
LEMMA RunsFacts ==
  ASSUME FrameInv, NEW x \in Contexts, NEW f \in Frames, Runs(x, f)
  PROVE  /\ stack[x] # <<>> /\ arg[x] = NoFrame /\ f = Last(stack[x])
         /\ Is(f, "running") /\ OnStack(f) /\ Started(f) /\ frame[f].launched
         /\ frame[f].outcome = "none" /\ frame[f].home \in Contexts /\ frame[f].temp = NoFrame
         /\ ~In(queue, f) /\ f \notin away /\ ~Awaiting(f) /\ ~Joining(f)
  BY DEF FrameInv, LifeInv, Stage, ResumeInv, Runs, Is, OnStack, Started

LEMMA CreateInv ==
  ASSUME FrameInv, NEW x \in Contexts, NEW f \in Frames, NEW params \in SUBSET frame[f].vars,
         Create(x, f, params)
  PROVE  FrameInv' /\ Quiet
<1> USE DEF Is
<1> PICK b \in Nat : b = born + 1
  BY DEF FrameInv, TypeInv
<1>1. /\ b \in Frames /\ born' = b /\ Is(b, "none") /\ Is(f, "running") /\ b # f
      /\ \A g \in params : g \in Frames /\ Is(g, "created")
  <2>1. b \in Frames /\ b > born /\ born' = b
    BY FrameAssumption DEF FrameInv, TypeInv, Create, Frames
  <2>2. Is(f, "running")  BY DEF Create, Runs
  <2>3. \A g \in frame[f].vars : g \in Frames /\ ~Is(g, "none")
    BY DEF FrameInv, TypeInv, Promises, OwnInv
  <2>4. \A g \in params : g \in Frames /\ Is(g, "created")
    BY <2>3 DEF Create, Unlaunched, FrameInv, LifeInv, Stage, TypeInv, Promises, Lives, Started
  <2> QED  BY <2>1, <2>2, <2>4 DEF FrameInv, LifeInv, Stage
<1>2. /\ frame' \in [Frames -> Promises]
      /\ \A h \in Frames :
           /\ frame'[h].life = IF h = b THEN "created" ELSE frame[h].life
           /\ frame'[h].vars = IF h = f THEN (frame[f].vars \ params) \cup {b}
                               ELSE IF h = b THEN params ELSE frame[h].vars
           /\ frame'[h].launched = frame[h].launched /\ frame'[h].outcome = frame[h].outcome
           /\ frame'[h].prev = frame[h].prev /\ frame'[h].temp = frame[h].temp
           /\ frame'[h].parent = frame[h].parent /\ frame'[h].count = frame[h].count
           /\ frame'[h].kids = frame[h].kids
           /\ h # b => frame'[h].home = frame[h].home
  <2>1. frame' = [frame EXCEPT ![f].vars = (@ \ params) \cup {b},
                               ![b] = [Blank EXCEPT !.life = "created", !.vars = params]]
    BY <1>1 DEF Create
  <2>2. frame \in [Frames -> Promises] /\ params \in SUBSET Frames
    BY <1>1 DEF FrameInv, TypeInv
  <2>3. /\ frame[b].prev = NoFrame /\ frame[b].parent = NoFrame /\ frame[b].count = 0
        /\ frame[b].kids = {} /\ frame[b].temp = NoFrame /\ frame[b].vars = {}
        /\ ~frame[b].launched /\ frame[b].launched \in BOOLEAN /\ frame[b].outcome = "none"
    BY <1>1, <2>2 DEF FrameInv, LifeInv, Stage, Promises
  <2>4. [Blank EXCEPT !.life = "created", !.vars = params] \in Promises
    BY <2>2 DEF Blank, Promises, Lives, Handles, Outcomes
  <2>5. [frame[f] EXCEPT !.vars = (@ \ params) \cup {b}] \in Promises
    BY <1>1, <2>2 DEF Promises
  <2> QED  BY <1>1, <2>1, <2>2, <2>3, <2>4, <2>5 DEF Blank, Promises
<1>3. UNCHANGED <<queue, stack, away, arg, fault>>  BY DEF Create
<1>11. \A h \in Frames : (Started(h)' <=> Started(h)) /\ (OnStack(h)' <=> OnStack(h))
  BY <1>1, <1>2 DEF Started, OnStack
<1>4. TypeInv'
  BY <1>1, <1>2, <1>3 DEF FrameInv, TypeInv, Frames
<1>5. LifeInv'
  <2>1. ASSUME NEW h \in Frames, h # b PROVE Stage(h)'
    <3>1. h \in Nat /\ born \in Nat  BY FrameAssumption DEF Frames, FrameInv, TypeInv
    <3>2. h > born' <=> h > born  BY <1>1, <2>1, <3>1
    <3>3. frame[h].temp # NoFrame =>
             frame[h].temp \in Frames /\ Started(frame[h].temp) /\ frame[frame[h].temp].prev = h
      BY DEF FrameInv, TypeInv, LifeInv, Stage, Promises, Handles
    <3>4. Stage(h)  BY DEF FrameInv, LifeInv
    <3>5. Is(h, "none") \/ Is(h, "gone") => frame'[h].vars = frame[h].vars
      BY <1>1, <1>2, <2>1
    <3>6. frame[h].temp # NoFrame =>
             /\ frame'[frame[h].temp].life \in {"suspended", "running"}
             /\ frame'[frame[h].temp].prev = h
      BY <1>1, <1>2, <3>3 DEF Started
    <3>7. /\ frame'[h].life = frame[h].life /\ frame'[h].launched = frame[h].launched
          /\ frame'[h].outcome = frame[h].outcome /\ frame'[h].home = frame[h].home
          /\ frame'[h].prev = frame[h].prev /\ frame'[h].temp = frame[h].temp
          /\ frame'[h].parent = frame[h].parent /\ frame'[h].count = frame[h].count
          /\ frame'[h].kids = frame[h].kids
      BY <1>2, <2>1
    <3> QED  BY <3>2, <3>4, <3>5, <3>6, <3>7, StageKept
  <2>2. Stage(b)'
    <3>1. Stage(b) /\ ~(b > born')
      BY <1>1 DEF FrameInv, LifeInv
    <3> QED  BY <1>1, <1>2, <3>1 DEF Stage, Started
  <2> QED  BY <2>1, <2>2 DEF LifeInv
<1>6. StackInv'
  BY <1>1, <1>2, <1>3, <1>11, StackKept DEF FrameInv, StillFinal
<1>7. OwnInv'
  <2>1. \A h \in Frames : b \notin frame[h].vars
    BY <1>1 DEF FrameInv, OwnInv
  <2>2. ASSUME NEW g \in params PROVE g < b /\ g # b
    <3>1. g \in Nat /\ born \in Nat
      BY <1>1, FrameAssumption DEF Frames, FrameInv, TypeInv
    <3>2. ~(g > born)
      BY <1>1 DEF FrameInv, LifeInv, Stage
    <3> QED  BY <3>1, <3>2
  <2>3. ASSUME NEW h \in Frames, NEW g \in frame'[h].vars
        PROVE  /\ frame'[g].life # "none" /\ (~Outlive => frame'[g].life # "gone")
               /\ frame'[g].life = "gone" => frame'[g].launched
               /\ frame'[h].life = "created" => frame'[g].life = "created" /\ g < h
               /\ ~Outlive /\ frame'[g].launched /\ Is(h, "suspended")' => Started(g)' /\ frame'[g].prev = h
               /\ ~Outlive /\ frame'[g].launched /\ OnStack(h)' => Below(stack', g, h)
    <3>1. CASE g = b
      <4>1. h = f  BY <1>1, <1>2, <2>1, <2>2, <2>3, <3>1
      <4> QED  BY <1>1, <1>2, <3>1, <4>1 DEF FrameInv, LifeInv, Stage
    <3>2. CASE g # b /\ h = b
      BY <1>1, <1>2, <2>2, <2>3, <3>2 DEF FrameInv, LifeInv, Stage, OnStack
    <3>3. CASE g # b /\ h # b
      <4>1. g \in frame[h].vars /\ g \in Frames
        BY <1>1, <1>2, <2>3, <3>3 DEF FrameInv, TypeInv, Promises
      <4>2. /\ frame[g].life # "none" /\ (~Outlive => frame[g].life # "gone")
            /\ frame[g].life = "gone" => frame[g].launched
            /\ frame[h].life = "created" => frame[g].life = "created" /\ g < h
            /\ ~Outlive /\ frame[g].launched /\ Is(h, "suspended") => Started(g) /\ frame[g].prev = h
            /\ ~Outlive /\ frame[g].launched /\ OnStack(h) => Below(stack, g, h)
        BY <4>1 DEF FrameInv, OwnInv
      <4> QED  BY <1>2, <1>3, <1>11, <3>3, <4>1, <4>2
    <3> QED  BY <3>1, <3>2, <3>3
  <2>4. ASSUME NEW h \in Frames, NEW k \in Frames, NEW g \in frame'[h].vars, g \in frame'[k].vars
        PROVE  h = k
    BY <1>1, <1>2, <2>1, <2>2, <2>4 DEF FrameInv, OwnInv
  <2>5. ASSUME ~Overwrite, NEW g \in Frames, frame'[g].life = "created"
        PROVE  \E h \in Frames : g \in frame'[h].vars
    <3>1. CASE g = b  BY <1>2, <3>1
    <3>2. CASE g # b
      <4>1. PICK h \in Frames : g \in frame[h].vars
        BY <1>2, <2>5, <3>2 DEF FrameInv, OwnInv
      <4>2. h # b  BY <1>1, <4>1 DEF FrameInv, LifeInv, Stage
      <4> QED  BY <1>1, <1>2, <4>1, <4>2
    <3> QED  BY <3>1, <3>2
  <2> QED  BY <2>3, <2>4, <2>5 DEF OwnInv
<1>8. ResumeInv'
  BY <1>1, <1>2, <1>3, ResumeKept DEF FrameInv, Joining, Awaits, Started
<1>9. ArgInv' /\ FaultInv'
  <2>1. \A h \in Frames : frame[h].launched => frame'[h].launched  BY <1>2
  <2>2. TypeInv /\ ArgInv /\ FaultInv  BY DEF FrameInv
  <2> QED  BY <1>3, <2>1, <2>2, ArgSame DEF FaultInv
<1>10. Quiet
  BY <1>1, <1>2 DEF Quiet, Kept, Started, Joining, FrameInv, ResumeInv
<1> QED  BY <1>4, <1>5, <1>6, <1>7, <1>8, <1>9, <1>10 DEF FrameInv

Emptied(new, old) ==
    /\ new.life = "gone" /\ new.vars = {} /\ new.launched = old.launched
    /\ new.outcome = old.outcome /\ new.prev = old.prev /\ new.temp = old.temp
    /\ new.parent = old.parent /\ new.count = old.count /\ new.kids = old.kids

LEMMA DroppedFields ==
  ASSUME TypeInv, LifeInv, OwnInv, NEW objects \in SUBSET Frames,
         \A g \in objects : ~Is(g, "none")
  PROVE  /\ Dropped(frame, objects) \in [Frames -> Promises]
         /\ \A h \in Frames : h \notin Doomed(objects) => Dropped(frame, objects)[h] = frame[h]
         /\ \A h \in Doomed(objects) : Emptied(Dropped(frame, objects)[h], frame[h])
<1> DEFINE D == Doomed(objects)
<1>1. \A h \in D : h \in Frames /\ Is(h, "created")
  BY DoomedFacts
<1> HIDE DEF D
<1>2. ASSUME NEW h \in Frames
      PROVE  /\ Gone(h) \in Promises /\ Gone(h).life = "gone" /\ Gone(h).vars = {}
             /\ Gone(h).launched = frame[h].launched /\ Gone(h).outcome = frame[h].outcome
             /\ Gone(h).prev = NoFrame /\ Gone(h).temp = NoFrame /\ Gone(h).parent = NoFrame
             /\ Gone(h).count = 0 /\ Gone(h).kids = {}
  BY DEF Gone, Blank, TypeInv, Promises, Lives, Handles, Outcomes
<1>3. \A h \in D : /\ frame[h].prev = NoFrame /\ frame[h].parent = NoFrame /\ frame[h].count = 0
                   /\ frame[h].kids = {} /\ frame[h].temp = NoFrame
  BY <1>1 DEF LifeInv, Stage
<1>4. Dropped(frame, objects) = [h \in Frames |-> IF h \in D THEN Gone(h) ELSE frame[h]]
  BY DEF Dropped, D
<1>5. Dropped(frame, objects) \in [Frames -> Promises]
  BY <1>2, <1>4 DEF TypeInv
<1>6. ASSUME NEW h \in D PROVE Emptied(Dropped(frame, objects)[h], frame[h])
  <2>1. Dropped(frame, objects)[h] = Gone(h) /\ h \in Frames  BY <1>1, <1>4
  <2> QED  BY <1>2, <1>3, <2>1 DEF Emptied
<1> QED  BY <1>4, <1>5, <1>6 DEF D

LEMMA DropVarInv ==
  ASSUME FrameInv, NEW x \in Contexts, NEW f \in Frames, NEW g \in frame[f].vars, DropVar(x, f, g)
  PROVE  FrameInv' /\ Quiet
<1> USE DEF Is
<1> PICK D : D = Doomed({g})  OBVIOUS
<1>1. /\ Is(f, "running") /\ g \in Frames /\ ~Is(g, "none")
      /\ fault' \in {fault, "touch"} /\ (~Outlive => fault' = fault)
      /\ UNCHANGED <<born, queue, stack, away, arg>>
      /\ frame' = [Dropped(frame, {g}) EXCEPT ![f].vars = @ \ {g}]
  BY DEF FrameInv, TypeInv, Promises, OwnInv, DropVar, Runs, Touch
<1>2. /\ \A h \in D : h \in Frames /\ Is(h, "created") /\ h # f
      /\ Is(g, "created") => g \in D
      /\ \A e \in D : \A h \in frame[e].vars : h \in D
      /\ \A h \in D : h = g \/ \E e \in D : h \in frame[e].vars
  <2> DEFINE objects == {g}
  <2>1. objects \in SUBSET Frames /\ \A h \in objects : ~Is(h, "none")  BY <1>1
  <2> HIDE DEF objects
  <2>2. /\ \A h \in Doomed(objects) : h \in Frames /\ Is(h, "created")
        /\ \A h \in objects : Is(h, "created") => h \in Doomed(objects)
        /\ \A e \in Doomed(objects) : \A h \in frame[e].vars : h \in Doomed(objects)
        /\ \A h \in Doomed(objects) :
              h \in objects \/ \E e \in Doomed(objects) : h \in frame[e].vars
    BY <2>1, DoomedFacts DEF FrameInv
  <2> QED  BY <1>1, <2>2 DEF objects
<1>3. /\ frame' \in [Frames -> Promises]
      /\ \A h \in Frames :
           /\ frame'[h].life = IF h \in D THEN "gone" ELSE frame[h].life
           /\ frame'[h].vars = IF h \in D THEN {}
                               ELSE IF h = f THEN frame[f].vars \ {g} ELSE frame[h].vars
           /\ frame'[h].launched = frame[h].launched /\ frame'[h].outcome = frame[h].outcome
           /\ frame'[h].prev = frame[h].prev /\ frame'[h].temp = frame[h].temp
           /\ frame'[h].parent = frame[h].parent /\ frame'[h].count = frame[h].count
           /\ frame'[h].kids = frame[h].kids
           /\ h \notin D => frame'[h].home = frame[h].home
  <2> DEFINE G == Dropped(frame, {g})
  <2>1. /\ G \in [Frames -> Promises]
        /\ \A h \in Frames : h \notin D => G[h] = frame[h]
        /\ \A h \in D : Emptied(G[h], frame[h])
    <3> DEFINE objects == {g}
    <3>1. objects \in SUBSET Frames /\ \A h \in objects : ~Is(h, "none")  BY <1>1
    <3> HIDE DEF objects
    <3>2. /\ Dropped(frame, objects) \in [Frames -> Promises]
          /\ \A h \in Frames : h \notin Doomed(objects) => Dropped(frame, objects)[h] = frame[h]
          /\ \A h \in Doomed(objects) : Emptied(Dropped(frame, objects)[h], frame[h])
      BY <3>1, DroppedFields DEF FrameInv
    <3> QED  BY <3>2 DEF objects
  <2>2. frame' = [G EXCEPT ![f].vars = @ \ {g}]  BY <1>1
  <2> HIDE DEF G
  <2>3. [G[f] EXCEPT !.vars = @ \ {g}] \in Promises
    BY <2>1 DEF Promises
  <2>4. f \notin D /\ G[f] = frame[f] /\ f \in Frames  BY <1>2, <2>1
  <2>5. /\ frame' \in [Frames -> Promises] /\ frame'[f] = [G[f] EXCEPT !.vars = @ \ {g}]
        /\ \A h \in Frames : h # f => frame'[h] = G[h]
    BY <2>1, <2>2, <2>3, <2>4
  <2>6. \A h \in D : Emptied(frame'[h], frame[h])
    BY <1>2, <2>1, <2>5
  <2>7. \A h \in Frames : h \notin D /\ h # f => frame'[h] = frame[h]
    BY <2>1, <2>5
  <2>8. /\ frame'[f].vars = frame[f].vars \ {g} /\ frame'[f].outcome = frame[f].outcome
        /\ frame'[f].prev = frame[f].prev /\ frame'[f].temp = frame[f].temp
        /\ frame'[f].parent = frame[f].parent /\ frame'[f].count = frame[f].count
        /\ frame'[f].kids = frame[f].kids /\ frame'[f].life = frame[f].life
        /\ frame'[f].launched = frame[f].launched /\ frame'[f].home = frame[f].home
    <3>1. frame[f] \in Promises /\ frame'[f] = [frame[f] EXCEPT !.vars = @ \ {g}]
      BY <2>1, <2>4, <2>5
    <3> QED  BY <3>1 DEF Promises
  <2>9. ASSUME NEW h \in D
        PROVE  frame'[h].life = "gone" /\ frame'[h].vars = {} /\ Emptied(frame'[h], frame[h])
    BY <2>6 DEF Emptied
  <2>10. frame' \in [Frames -> Promises]  BY <2>5
  <2>11. ASSUME NEW h \in D PROVE frame[h].life = "created" /\ h # f  BY <1>2
  <2> SUFFICES ASSUME NEW h \in Frames
               PROVE  /\ frame'[h].life = IF h \in D THEN "gone" ELSE frame[h].life
                      /\ frame'[h].vars = IF h \in D THEN {}
                                          ELSE IF h = f THEN frame[f].vars \ {g} ELSE frame[h].vars
                      /\ frame'[h].launched = frame[h].launched
                      /\ frame'[h].outcome = frame[h].outcome
                      /\ frame'[h].prev = frame[h].prev /\ frame'[h].temp = frame[h].temp
                      /\ frame'[h].parent = frame[h].parent /\ frame'[h].count = frame[h].count
                      /\ frame'[h].kids = frame[h].kids
                      /\ h \notin D => frame'[h].home = frame[h].home
    BY <2>10
  <2>12. CASE h \in D      BY <2>9, <2>12 DEF Emptied
  <2>13. CASE h = f        BY <2>4, <2>8, <2>13
  <2>14. CASE h \notin D /\ h # f  BY <2>7, <2>14
  <2> QED  BY <2>12, <2>13, <2>14
<1>4. TypeInv'
  BY <1>1, <1>3 DEF FrameInv, TypeInv
<1>5. \A h \in Frames : (Started(h)' <=> Started(h)) /\ (OnStack(h)' <=> OnStack(h))
  BY <1>2, <1>3 DEF Started, OnStack
<1>6. LifeInv'
  <2>1. ASSUME NEW h \in Frames, h \notin D PROVE Stage(h)'
    <3>1. frame[h].temp # NoFrame =>
             frame[h].temp \in Frames /\ Started(frame[h].temp) /\ frame[frame[h].temp].prev = h
      BY DEF FrameInv, TypeInv, LifeInv, Stage, Promises, Handles
    <3>2. frame[h].temp # NoFrame => frame[h].temp \notin D
      BY <1>2, <3>1 DEF Started
    <3>3. Stage(h) /\ (h > born' <=> h > born)  BY <1>1 DEF FrameInv, LifeInv
    <3>4. /\ frame'[h].life = frame[h].life /\ frame'[h].launched = frame[h].launched
          /\ frame'[h].outcome = frame[h].outcome /\ frame'[h].home = frame[h].home
          /\ frame'[h].prev = frame[h].prev /\ frame'[h].temp = frame[h].temp
          /\ frame'[h].parent = frame[h].parent /\ frame'[h].count = frame[h].count
          /\ frame'[h].kids = frame[h].kids
      BY <1>3, <2>1
    <3>5. Is(h, "none") \/ Is(h, "gone") => frame'[h].vars = frame[h].vars
      BY <1>1, <1>3, <2>1
    <3>6. frame[h].temp # NoFrame =>
             /\ frame'[frame[h].temp].life \in {"suspended", "running"}
             /\ frame'[frame[h].temp].prev = h
      BY <1>3, <3>1, <3>2 DEF Started
    <3> QED  BY <3>3, <3>4, <3>5, <3>6, StageKept
  <2>2. ASSUME NEW h \in D PROVE Stage(h)'
    <3>1. Stage(h) /\ Is(h, "created") /\ h \in Frames  BY <1>2 DEF FrameInv, LifeInv
    <3> QED  BY <1>1, <1>3, <3>1 DEF Stage, Started
  <2> QED  BY <2>1, <2>2 DEF LifeInv
<1>7. StackInv'
  <2>1. StillFinal(Frames)  BY <1>2, <1>3 DEF StillFinal
  <2> QED  BY <1>1, <1>5, <2>1, StackKept DEF FrameInv
<1>8. OwnInv'
  <2>1. ASSUME NEW h \in Frames, NEW k \in frame'[h].vars
        PROVE  /\ frame'[k].life # "none" /\ (~Outlive => frame'[k].life # "gone")
               /\ frame'[k].life = "gone" => frame'[k].launched
               /\ frame'[h].life = "created" => frame'[k].life = "created" /\ k < h
               /\ ~Outlive /\ frame'[k].launched /\ Is(h, "suspended")' => Started(k)' /\ frame'[k].prev = h
               /\ ~Outlive /\ frame'[k].launched /\ OnStack(h)' => Below(stack', k, h)
    <3>1. h \notin D /\ k \in frame[h].vars /\ k \in Frames /\ k # g
      <4>1. h \notin D /\ k \in frame[h].vars /\ k \in Frames  BY <1>3, <2>1 DEF FrameInv, TypeInv, Promises
      <4> QED  BY <1>3, <2>1, <4>1 DEF FrameInv, OwnInv
    <3>2. k \notin D
      <4>1. \A e \in Frames : k \in frame[e].vars => e = h
        BY <3>1 DEF FrameInv, OwnInv
      <4> QED  BY <1>2, <3>1, <4>1
    <3>3. /\ frame[k].life # "none" /\ (~Outlive => frame[k].life # "gone")
          /\ frame[k].life = "gone" => frame[k].launched
          /\ frame[h].life = "created" => frame[k].life = "created" /\ k < h
          /\ ~Outlive /\ frame[k].launched /\ Is(h, "suspended") => Started(k) /\ frame[k].prev = h
          /\ ~Outlive /\ frame[k].launched /\ OnStack(h) => Below(stack, k, h)
      BY <3>1 DEF FrameInv, OwnInv
    <3>4. /\ frame'[k].life = frame[k].life /\ frame'[k].launched = frame[k].launched
          /\ frame'[k].prev = frame[k].prev /\ frame'[h].life = frame[h].life
      BY <1>3, <3>1, <3>2
    <3>5. stack' = stack /\ (Started(k)' <=> Started(k)) /\ (OnStack(h)' <=> OnStack(h))
      BY <1>1, <1>5, <3>1
    <3> QED  BY <3>3, <3>4, <3>5
  <2>2. ASSUME NEW h \in Frames, NEW i \in Frames, NEW k \in frame'[h].vars, k \in frame'[i].vars
        PROVE  h = i
    BY <1>3, <2>2 DEF FrameInv, OwnInv
  <2>3. ASSUME ~Overwrite, NEW k \in Frames, frame'[k].life = "created"
        PROVE  \E h \in Frames : k \in frame'[h].vars
    <3>1. PICK h \in Frames : k \in frame[h].vars
      BY <1>3, <2>3 DEF FrameInv, OwnInv
    <3>2. k \notin D /\ frame[k].life = "created"
      BY <1>3, <2>3
    <3>3. h \notin D /\ k # g
      BY <1>2, <3>1, <3>2
    <3> QED  BY <1>3, <3>1, <3>3
  <2> QED  BY <2>1, <2>2, <2>3 DEF OwnInv
<1>9. ResumeInv'
  <2>1. \A h \in Frames : /\ Is(h, "suspended")' <=> Is(h, "suspended")
                          /\ Joining(h)' <=> Joining(h)
                          /\ \A k \in Frames : Awaits(h, k)' <=> Awaits(h, k)
    BY <1>2, <1>3, <1>5 DEF Joining, Awaits
  <2> QED  BY <1>1, <2>1, ResumeKept DEF FrameInv
<1>10. ArgInv' /\ FaultInv'
  <2>1. \A h \in Frames : frame[h].launched => frame'[h].launched  BY <1>3
  <2>2. TypeInv /\ ArgInv /\ FaultInv  BY DEF FrameInv
  <2>3. ArgInv'  BY <1>1, <2>1, <2>2, ArgSame
  <2> QED  BY <1>1, <2>2, <2>3 DEF FaultInv, Premises
<1>11. Quiet
  <2> SUFFICES ASSUME NEW h \in Frames PROVE Kept(h) /\ frame'[h].prev = frame[h].prev
    BY DEF Quiet
  <2>1. Joining(h) => Is(h, "suspended")  BY DEF FrameInv, ResumeInv
  <2>2. Joining(h) => Is(h, "suspended")'  BY <1>2, <1>3, <2>1
  <2>3. Is(h, "gone") => Is(h, "gone")'  BY <1>3
  <2>4. /\ frame'[h].launched = frame[h].launched /\ frame'[h].outcome = frame[h].outcome
        /\ frame'[h].prev = frame[h].prev /\ frame'[h].parent = frame[h].parent
        /\ frame'[h].count = frame[h].count /\ frame'[h].kids = frame[h].kids
    BY <1>3
  <2> QED  BY <1>5, <2>2, <2>3, <2>4 DEF Kept
<1> QED  BY <1>4, <1>6, <1>7, <1>8, <1>9, <1>10, <1>11 DEF FrameInv

\* Without Overwrite no frame loses its owner that was not launched.
LEMMA AssignInv ==
  ASSUME FrameInv, NEW x \in Contexts, NEW f \in Frames, NEW g \in frame[f].vars, Assign(x, f, g)
  PROVE  FrameInv' /\ Quiet
<1> USE DEF Is
<1>1. /\ Is(f, "running") /\ g \in Frames
      /\ g \in Unlaunched(frame[f].vars) => Overwrite
      /\ UNCHANGED <<born, queue, stack, away, arg, fault>>
      /\ frame' = [frame EXCEPT ![f].vars = @ \ {g}]
  BY DEF FrameInv, TypeInv, Promises, Assign, Runs
<1>2. ~Overwrite => ~Is(g, "created")
  BY <1>1 DEF Unlaunched, FrameInv, LifeInv, Stage
<1>3. /\ frame' \in [Frames -> Promises]
      /\ \A h \in Frames :
           /\ frame'[h].vars = IF h = f THEN frame[f].vars \ {g} ELSE frame[h].vars
           /\ frame'[h].life = frame[h].life /\ frame'[h].home = frame[h].home
           /\ frame'[h].launched = frame[h].launched /\ frame'[h].outcome = frame[h].outcome
           /\ frame'[h].prev = frame[h].prev /\ frame'[h].temp = frame[h].temp
           /\ frame'[h].parent = frame[h].parent /\ frame'[h].count = frame[h].count
           /\ frame'[h].kids = frame[h].kids /\ frame'[h].threads = frame[h].threads
  <2>1. frame \in [Frames -> Promises] /\ frame[f] \in Promises  BY DEF FrameInv, TypeInv
  <2>2. [frame[f] EXCEPT !.vars = @ \ {g}] \in Promises
    BY <2>1 DEF Promises
  <2> QED  BY <1>1, <2>1, <2>2 DEF Promises
<1>4. TypeInv'
  BY <1>1, <1>3 DEF FrameInv, TypeInv
<1>5. \A h \in Frames : (Started(h)' <=> Started(h)) /\ (OnStack(h)' <=> OnStack(h))
  BY <1>3 DEF Started, OnStack
<1>6. LifeInv'
  <2> SUFFICES ASSUME NEW h \in Frames PROVE Stage(h)'
    BY DEF LifeInv
  <2>1. frame[h].temp # NoFrame =>
           frame[h].temp \in Frames /\ Started(frame[h].temp) /\ frame[frame[h].temp].prev = h
    BY DEF FrameInv, TypeInv, LifeInv, Stage, Promises, Handles
  <2>2. Stage(h) /\ (h > born' <=> h > born)  BY <1>1 DEF FrameInv, LifeInv
  <2>3. Is(h, "none") \/ Is(h, "gone") => frame'[h].vars = frame[h].vars
    BY <1>1, <1>3
  <2> QED  BY <1>3, <1>5, <2>1, <2>2, <2>3, StageKept DEF Started
<1>7. StackInv'
  <2>1. StillFinal(Frames)  BY <1>3 DEF StillFinal
  <2> QED  BY <1>1, <1>5, <2>1, StackKept DEF FrameInv
<1>8. OwnInv'
  <2>1. \A h \in Frames : frame'[h].vars \subseteq frame[h].vars  BY <1>3
  <2>2. ASSUME NEW h \in Frames, NEW k \in frame'[h].vars
        PROVE  /\ frame'[k].life # "none" /\ (~Outlive => frame'[k].life # "gone")
               /\ frame'[k].life = "gone" => frame'[k].launched
               /\ frame'[h].life = "created" => frame'[k].life = "created" /\ k < h
               /\ ~Outlive /\ frame'[k].launched /\ Is(h, "suspended")' => Started(k)' /\ frame'[k].prev = h
               /\ ~Outlive /\ frame'[k].launched /\ OnStack(h)' => Below(stack', k, h)
    <3>1. k \in frame[h].vars /\ k \in Frames
      BY <2>1, <2>2 DEF FrameInv, TypeInv, Promises
    <3>2. /\ frame[k].life # "none" /\ (~Outlive => frame[k].life # "gone")
          /\ frame[k].life = "gone" => frame[k].launched
          /\ frame[h].life = "created" => frame[k].life = "created" /\ k < h
          /\ ~Outlive /\ frame[k].launched /\ Is(h, "suspended") => Started(k) /\ frame[k].prev = h
          /\ ~Outlive /\ frame[k].launched /\ OnStack(h) => Below(stack, k, h)
      BY <3>1 DEF FrameInv, OwnInv
    <3> QED  BY <1>1, <1>3, <1>5, <3>1, <3>2
  <2>3. ASSUME NEW h \in Frames, NEW i \in Frames, NEW k \in frame'[h].vars, k \in frame'[i].vars
        PROVE  h = i
    <3>1. k \in frame[h].vars /\ k \in frame[i].vars  BY <2>1, <2>3
    <3> QED  BY <3>1 DEF FrameInv, OwnInv
  <2>4. ASSUME ~Overwrite, NEW k \in Frames, frame'[k].life = "created"
        PROVE  \E h \in Frames : k \in frame'[h].vars
    <3>1. frame[k].life = "created" /\ k # g  BY <1>2, <1>3, <2>4
    <3>2. PICK h \in Frames : k \in frame[h].vars
      BY <2>4, <3>1 DEF FrameInv, OwnInv
    <3> QED  BY <1>3, <3>1, <3>2
  <2> QED  BY <2>2, <2>3, <2>4 DEF OwnInv
<1>9. ResumeInv'
  <2>1. \A h \in Frames : /\ Is(h, "suspended")' <=> Is(h, "suspended")
                          /\ Joining(h)' <=> Joining(h)
                          /\ \A k \in Frames : Awaits(h, k)' <=> Awaits(h, k)
    BY <1>3, <1>5 DEF Joining, Awaits
  <2> QED  BY <1>1, <2>1, ResumeKept DEF FrameInv
<1>10. ArgInv' /\ FaultInv'
  <2>1. \A h \in Frames : frame[h].launched => frame'[h].launched  BY <1>3
  <2> QED  BY <1>1, <2>1, ArgSame DEF FrameInv, FaultInv
<1>11. Quiet
  BY <1>3, <1>5 DEF Quiet, Kept, Joining, FrameInv, ResumeInv
<1> QED  BY <1>4, <1>6, <1>7, <1>8, <1>9, <1>10, <1>11 DEF FrameInv

LEMMA LastNotBelow ==
  ASSUME NEW s \in [Contexts -> Seq(Frames)], NEW x \in Contexts, s[x] # <<>>, Apart(s),
         NEW h \in Frames
  PROVE  ~Below(s, Last(s[x]), h)
<1> SUFFICES ASSUME Below(s, Last(s[x]), h) PROVE FALSE
  OBVIOUS
<1>0. PICK y \in Contexts : \E i, j \in DOMAIN s[y] : i < j /\ s[y][i] = Last(s[x]) /\ s[y][j] = h
  BY DEF Below
<1>1. PICK i \in DOMAIN s[y], j \in DOMAIN s[y] : i < j /\ s[y][i] = Last(s[x]) /\ s[y][j] = h
  BY <1>0
<1>2. s[x] \in Seq(Frames) /\ s[y] \in Seq(Frames)
  OBVIOUS
<1>3. /\ Len(s[x]) \in Nat \ {0} /\ DOMAIN s[x] = 1 .. Len(s[x]) /\ Last(s[x]) = s[x][Len(s[x])]
      /\ Last(s[x]) \in ToSet(s[x])
  BY <1>2, FrontQueue, LenProperties
<1>4. Last(s[x]) \in ToSet(s[y])
  BY <1>1 DEF ToSet
<1>5. y = x
  BY <1>3, <1>4 DEF Apart
<1>6. i = Len(s[x])
  BY <1>1, <1>3, <1>5 DEF Apart, Distinct
<1> QED  BY <1>1, <1>3, <1>5, <1>6

\* What is left of a frame.
LEMMA GoneRecord ==
  ASSUME NEW f \in Frames, frame[f] \in Promises
  PROVE  /\ Gone(f) \in Promises /\ Gone(f).life = "gone" /\ Gone(f).vars = {}
         /\ Gone(f).launched = frame[f].launched /\ Gone(f).outcome = frame[f].outcome
         /\ Gone(f).prev = NoFrame /\ Gone(f).temp = NoFrame /\ Gone(f).parent = NoFrame
         /\ Gone(f).count = 0 /\ Gone(f).kids = {}
<1>1. Gone(f) \in Promises
  BY DEF Gone, Blank, Promises, Lives, Handles, Outcomes
<1> QED  BY <1>1 DEF Gone, Blank

LEMMA DestroyInv ==
  ASSUME FrameInv, NEW x \in Contexts, Destroy(x)
  PROVE  FrameInv' /\ Quiet
<1> USE DEF Is
<1> PICK f : f = Last(stack[x])  OBVIOUS
<1>1. /\ stack[x] # <<>> /\ f \in Frames /\ Is(f, "final") /\ Pop(x)
      /\ UNCHANGED <<born, queue, away, arg>>
      /\ frame' = [Dropped(frame, frame[f].vars) EXCEPT ![f] = Gone(f)]
      /\ fault' = Touch(frame[f].vars)
  BY FrontQueue DEF FrameInv, TypeInv, Destroy
<1>2. /\ frame[f].vars \in SUBSET Frames
      /\ \A g \in frame[f].vars : ~Is(g, "none") /\ (~Outlive => ~Is(g, "gone"))
  BY <1>1 DEF FrameInv, TypeInv, Promises, OwnInv
<1> PICK D : D = Doomed(frame[f].vars)  OBVIOUS
<1>3. /\ \A h \in D : h \in Frames /\ Is(h, "created") /\ h # f
      /\ \A h \in frame[f].vars : Is(h, "created") => h \in D
      /\ \A e \in D : \A h \in frame[e].vars : h \in D
      /\ \A h \in D : h \in frame[f].vars \/ \E e \in D : h \in frame[e].vars
  BY <1>1, <1>2, DoomedFacts DEF FrameInv
<1>4. /\ frame' \in [Frames -> Promises]
      /\ \A h \in Frames :
           /\ frame'[h].life = IF h \in D \/ h = f THEN "gone" ELSE frame[h].life
           /\ frame'[h].vars = IF h \in D \/ h = f THEN {} ELSE frame[h].vars
           /\ frame'[h].launched = frame[h].launched /\ frame'[h].outcome = frame[h].outcome
           /\ h # f =>
                /\ frame'[h].prev = frame[h].prev /\ frame'[h].temp = frame[h].temp
                /\ frame'[h].parent = frame[h].parent /\ frame'[h].count = frame[h].count
                /\ frame'[h].kids = frame[h].kids
           /\ h \notin D /\ h # f => frame'[h] = frame[h]
      /\ frame'[f].prev = NoFrame /\ frame'[f].temp = NoFrame /\ frame'[f].parent = NoFrame
      /\ frame'[f].count = 0 /\ frame'[f].kids = {}
  <2> DEFINE G == Dropped(frame, frame[f].vars)
  <2>1. /\ G \in [Frames -> Promises]
        /\ \A h \in Frames : h \notin D => G[h] = frame[h]
        /\ \A h \in D : Emptied(G[h], frame[h])
    BY <1>2, DroppedFields DEF FrameInv
  <2>2. frame' = [G EXCEPT ![f] = Gone(f)]  BY <1>1
  <2> HIDE DEF G
  <2>3. /\ Gone(f) \in Promises /\ Gone(f).life = "gone" /\ Gone(f).vars = {}
        /\ Gone(f).launched = frame[f].launched /\ Gone(f).outcome = frame[f].outcome
        /\ Gone(f).prev = NoFrame /\ Gone(f).temp = NoFrame /\ Gone(f).parent = NoFrame
        /\ Gone(f).count = 0 /\ Gone(f).kids = {}
    BY <1>1, GoneRecord DEF FrameInv, TypeInv
  <2>4. f \notin D  BY <1>3
  <2>5. frame' \in [Frames -> Promises] /\ frame'[f] = Gone(f)
        /\ \A h \in Frames : h # f => frame'[h] = G[h]
    BY <1>1, <2>1, <2>2, <2>3
  <2>6. \A h \in D : Emptied(frame'[h], frame[h])
    BY <1>3, <2>1, <2>5
  <2>7. \A h \in Frames : h \notin D /\ h # f => frame'[h] = frame[h]
    BY <2>1, <2>5
  <2>8. ASSUME NEW h \in Frames, h \notin D, h # f PROVE frame'[h] = frame[h]
    BY <2>7, <2>8
  <2>9. ASSUME NEW h \in D PROVE h \in Frames /\ h # f /\ Emptied(frame'[h], frame[h])
    BY <1>3, <2>6, <2>9
  <2>10. \A h \in D : /\ h \in Frames /\ h # f
                      /\ frame'[h].life = "gone" /\ frame'[h].vars = {}
                      /\ frame'[h].launched = frame[h].launched
                      /\ frame'[h].outcome = frame[h].outcome
                      /\ frame'[h].prev = frame[h].prev /\ frame'[h].temp = frame[h].temp
                      /\ frame'[h].parent = frame[h].parent /\ frame'[h].count = frame[h].count
                      /\ frame'[h].kids = frame[h].kids
    BY <2>9 DEF Emptied
  <2> QED  BY <2>3, <2>4, <2>5, <2>8, <2>10
<1>5. TypeInv'
  <2>1. stack' \in [Contexts -> Seq(Frames)]
    BY <1>1, FrontQueue DEF Pop, FrameInv, TypeInv
  <2> QED  BY <1>1, <1>4, <2>1 DEF FrameInv, TypeInv
<1>6. \A h \in Frames : (Started(h)' <=> Started(h)) /\ (OnStack(h)' <=> OnStack(h) /\ h # f)
  <2> SUFFICES ASSUME NEW h \in Frames
               PROVE  (Started(h)' <=> Started(h)) /\ (OnStack(h)' <=> OnStack(h) /\ h # f)
    OBVIOUS
  <2>1. frame'[h].life = IF h \in D \/ h = f THEN "gone" ELSE frame[h].life  BY <1>4
  <2>2. h \in D => frame[h].life = "created"  BY <1>3
  <2>3. h = f => frame[h].life = "final"  BY <1>1
  <2> QED  BY <2>1, <2>2, <2>3 DEF Started, OnStack
<1>7. LifeInv'
  <2>1. ASSUME NEW h \in Frames, h \notin D, h # f PROVE Stage(h)'
    <3>1. frame[h].temp # NoFrame =>
             frame[h].temp \in Frames /\ Started(frame[h].temp) /\ frame[frame[h].temp].prev = h
      BY DEF FrameInv, TypeInv, LifeInv, Stage, Promises, Handles
    <3>2. frame[h].temp # NoFrame => frame[h].temp \notin D /\ frame[h].temp # f
      BY <1>1, <1>3, <3>1 DEF Started
    <3>3. Stage(h) /\ (h > born' <=> h > born)  BY <1>1 DEF FrameInv, LifeInv
    <3>4. frame'[h] = frame[h]  BY <1>4, <2>1
    <3>5. frame[h].temp # NoFrame =>
             /\ frame'[frame[h].temp].life \in {"suspended", "running"}
             /\ frame'[frame[h].temp].prev = h
      BY <1>4, <3>1, <3>2 DEF Started
    <3> QED  BY <3>3, <3>4, <3>5, StageKept
  <2>2. ASSUME NEW h \in D PROVE Stage(h)'
    <3>1. Stage(h) /\ Is(h, "created") /\ h \in Frames /\ h # f
      BY <1>3 DEF FrameInv, LifeInv
    <3> QED  BY <1>1, <1>4, <3>1 DEF Stage, Started
  <2>3. Stage(f)'
    <3>1. Stage(f)  BY <1>1 DEF FrameInv, LifeInv
    <3> QED  BY <1>1, <1>4, <3>1 DEF Stage, Started
  <2> QED  BY <2>1, <2>2, <2>3 DEF LifeInv
<1>8. StackInv' /\ \A h, g \in Frames : Below(stack, g, h) /\ OnStack(h)' => Below(stack', g, h)
  <2>1. StillFinal(Frames \ {Last(stack[x])})  BY <1>3, <1>4 DEF StillFinal
  <2>2. \A h \in Frames : OnStack(h)' <=> OnStack(h) /\ h # Last(stack[x])  BY <1>6
  <2>3. TypeInv /\ StackInv /\ stack[x] # <<>> /\ Pop(x)  BY <1>1 DEF FrameInv
  <2> QED  BY <2>1, <2>2, <2>3, StackPopped
<1>9. OwnInv'
  <2>1. ASSUME NEW h \in Frames, NEW k \in frame'[h].vars
        PROVE  /\ frame'[k].life # "none" /\ (~Outlive => frame'[k].life # "gone")
               /\ frame'[k].life = "gone" => frame'[k].launched
               /\ frame'[h].life = "created" => frame'[k].life = "created" /\ k < h
               /\ ~Outlive /\ frame'[k].launched /\ Is(h, "suspended")' => Started(k)' /\ frame'[k].prev = h
               /\ ~Outlive /\ frame'[k].launched /\ OnStack(h)' => Below(stack', k, h)
    <3>1. h \notin D /\ h # f /\ k \in frame[h].vars /\ k \in Frames
      BY <1>4, <2>1 DEF FrameInv, TypeInv, Promises
    <3>2. /\ frame[k].life # "none" /\ (~Outlive => frame[k].life # "gone")
          /\ frame[k].life = "gone" => frame[k].launched
          /\ frame[h].life = "created" => frame[k].life = "created" /\ k < h
          /\ ~Outlive /\ frame[k].launched /\ Is(h, "suspended") => Started(k) /\ frame[k].prev = h
          /\ ~Outlive /\ frame[k].launched /\ OnStack(h) => Below(stack, k, h)
          /\ \A e \in Frames : k \in frame[e].vars => e = h
      BY <3>1 DEF FrameInv, OwnInv
    <3>3. k \notin D
      BY <1>1, <1>3, <3>1, <3>2
    <3>4. ~Outlive => k # f
      <4>1. SUFFICES ASSUME ~Outlive, k = f PROVE FALSE  OBVIOUS
      <4>2. frame[f].launched  BY <1>1 DEF FrameInv, LifeInv, Stage
      <4>3. ~Started(f)  BY <1>1 DEF Started
      <4>4. ~Below(stack, f, h)
        BY <1>1, LastNotBelow DEF FrameInv, TypeInv, StackInv
      <4>5. frame[h].vars # {} => ~Is(h, "none") /\ ~Is(h, "gone")
        BY DEF FrameInv, LifeInv, Stage
      <4>6. frame[h].life \in Lives  BY DEF FrameInv, TypeInv, Promises
      <4> QED  BY <1>1, <3>1, <3>2, <4>1, <4>2, <4>3, <4>4, <4>5, <4>6 DEF OnStack, Lives
    <3>5. frame'[h].life = frame[h].life /\ (frame[k].life = "created" => k # f)
      BY <1>1, <1>4, <3>1
    <3>6. frame'[k].life # "none" /\ (k # f => frame'[k] = frame[k])
      BY <1>4, <3>1, <3>2, <3>3
    <3>7. frame'[k].life = "gone" => frame'[k].launched
      <4>1. frame[f].launched  BY <1>1 DEF FrameInv, LifeInv, Stage
      <4>2. frame'[k].launched = frame[k].launched  BY <1>4, <3>1
      <4> QED  BY <3>2, <3>6, <4>1, <4>2
    <3> QED  BY <1>6, <1>8, <3>1, <3>2, <3>4, <3>5, <3>6, <3>7
  <2>2. ASSUME NEW h \in Frames, NEW i \in Frames, NEW k \in frame'[h].vars, k \in frame'[i].vars
        PROVE  h = i
    BY <1>4, <2>2 DEF FrameInv, OwnInv
  <2>3. ASSUME ~Overwrite, NEW k \in Frames, frame'[k].life = "created"
        PROVE  \E h \in Frames : k \in frame'[h].vars
    <3>1. k \notin D /\ frame[k].life = "created"
      BY <1>4, <2>3
    <3>2. PICK h \in Frames : k \in frame[h].vars
      BY <2>3, <3>1 DEF FrameInv, OwnInv
    <3>3. h \notin D /\ h # f
      BY <1>3, <3>1, <3>2
    <3> QED  BY <1>4, <3>2, <3>3
  <2> QED  BY <2>1, <2>2, <2>3 DEF OwnInv
<1>10. ResumeInv'
  <2>1. \A h \in Frames : /\ Is(h, "suspended")' <=> Is(h, "suspended")
                          /\ Joining(h)' <=> Joining(h)
                          /\ \A k \in Frames : Awaits(h, k)' <=> Awaits(h, k)
    <3>1. ~Joining(f) /\ ~Started(f)
      BY <1>1 DEF FrameInv, ResumeInv, Started
    <3>2. ASSUME NEW h \in Frames PROVE Is(h, "suspended")' <=> Is(h, "suspended")
      <4>1. frame'[h].life = IF h \in D \/ h = f THEN "gone" ELSE frame[h].life  BY <1>4
      <4>2. h \in D => frame[h].life = "created"  BY <1>3
      <4>3. h = f => frame[h].life = "final"  BY <1>1
      <4> QED  BY <4>1, <4>2, <4>3
    <3>3. \A h \in Frames : Joining(h)' <=> Joining(h)
      BY <1>4, <3>1 DEF Joining
    <3>4. \A h, k \in Frames : Awaits(h, k)' <=> Awaits(h, k)
      BY <1>4, <1>6, <3>1 DEF Awaits
    <3> QED  BY <3>2, <3>3, <3>4
  <2> QED  BY <1>1, <2>1, ResumeKept DEF FrameInv
<1>11. ArgInv' /\ FaultInv'
  <2>1. \A h \in Frames : frame[h].launched => frame'[h].launched  BY <1>4
  <2>2. TypeInv /\ ArgInv /\ FaultInv  BY DEF FrameInv
  <2>3. ArgInv'  BY <1>1, <2>1, <2>2, ArgSame
  <2>4. fault' \in {fault, "touch"} /\ (~Outlive => fault' = fault)
    BY <1>1, <1>2 DEF Touch
  <2> QED  BY <2>2, <2>3, <2>4 DEF FaultInv, Premises
<1>12. Quiet
  <2>1. Cleared(f)
    BY <1>1, <1>4 DEF Cleared, Joining, FrameInv, ResumeInv
  <2>2. ASSUME NEW h \in Frames, h # f PROVE Kept(h) /\ frame'[h].prev = frame[h].prev
    BY <1>3, <1>4, <1>6, <2>2 DEF Kept, Joining, FrameInv, ResumeInv
  <2> QED  BY <2>1, <2>2 DEF Quiet
<1> QED  BY <1>5, <1>7, <1>8, <1>9, <1>10, <1>11, <1>12 DEF FrameInv

(***************************************************************************)
(* A frame that becomes suspended is in one place.                         *)
(***************************************************************************)
LEMMA ResumeQueued ==
  ASSUME TypeInv, ResumeInv, NEW x \in Contexts, NEW f \in Frames, ~Is(f, "suspended"),
         queue' = Push(queue, x, f), away' = away,
         \A h \in Frames : /\ Is(h, "suspended")' <=> Is(h, "suspended") \/ h = f
                           /\ Joining(h)' <=> Joining(h)
                           /\ \A k \in Frames : Awaits(h, k)' <=> Awaits(h, k)
  PROVE  ResumeInv'
<1>1. /\ \A g \in Frames : In(queue', g) <=> In(queue, g) \/ g = f
      /\ Apart(queue) /\ ~In(queue, f) => Apart(queue')
  BY PushFacts DEF TypeInv
<1>2. ~In(queue, f) /\ f \notin away /\ ~Awaiting(f) /\ ~Joining(f) /\ Apart(queue)
  BY DEF ResumeInv
<1>3. \A h \in Frames : Awaiting(h)' <=> Awaiting(h)
  BY DEF Awaiting
<1> QED  BY <1>1, <1>2, <1>3 DEF ResumeInv

LEMMA ResumeAway ==
  ASSUME TypeInv, ResumeInv, NEW f \in Frames, ~Is(f, "suspended"),
         queue' = queue, away' = away \cup {f},
         \A h \in Frames : /\ Is(h, "suspended")' <=> Is(h, "suspended") \/ h = f
                           /\ Joining(h)' <=> Joining(h)
                           /\ \A k \in Frames : Awaits(h, k)' <=> Awaits(h, k)
  PROVE  ResumeInv'
<1>1. ~In(queue, f) /\ f \notin away /\ ~Awaiting(f) /\ ~Joining(f)
  BY DEF ResumeInv
<1>2. \A h \in Frames : Awaiting(h)' <=> Awaiting(h)
  BY DEF Awaiting
<1> QED  BY <1>1, <1>2 DEF ResumeInv

\* More is queued.
LEMMA ArgKept ==
  ASSUME TypeInv, ArgInv, NEW x \in Contexts, NEW f \in Frames, queue' = Push(queue, x, f),
         \A h \in Frames : frame[h].launched => frame'[h].launched,
         \A y \in Contexts :
            \/ arg'[y] \in {arg[y], NoFrame}
            \/ arg'[y] = f /\ frame'[f].launched /\ (~Remote => y = x)
  PROVE  ArgInv'
<1>1. /\ ToSet(queue'[x]) = ToSet(queue[x]) \cup {f}
      /\ \A y \in Contexts : y # x => queue'[y] = queue[y]
  <2>1. queue \in [Contexts -> Seq(Frames)]  BY DEF TypeInv
  <2>2. ToSet(Push(queue, x, f)[x]) = ToSet(queue[x]) \cup {f}
    <3>1. Push(queue, x, f)[x] = Append(queue[x], f) /\ queue[x] \in Seq(Frames)
      BY <2>1, PushFacts
    <3> QED  BY <3>1, AppendQueue
  <2>3. \A y \in Contexts : y # x => Push(queue, x, f)[y] = queue[y]
    BY <2>1, PushFacts
  <2> QED  BY <2>2, <2>3
<1> SUFFICES ASSUME NEW y \in Contexts, arg'[y] # NoFrame
             PROVE  frame'[arg'[y]].launched /\ (~Remote => arg'[y] \in ToSet(queue'[y]))
  BY DEF ArgInv
<1>2. CASE arg'[y] = arg[y]
  <2>1. arg[y] \in Frames  BY <1>2 DEF TypeInv, Handles
  <2>2. frame[arg[y]].launched /\ (~Remote => arg[y] \in ToSet(queue[y]))
    BY <1>2 DEF ArgInv
  <2> QED  BY <1>1, <1>2, <2>1, <2>2
<1>3. CASE arg'[y] = f /\ frame'[f].launched /\ (~Remote => y = x)
  BY <1>1, <1>3
<1> QED  BY <1>2, <1>3

(***************************************************************************)
(* A coroutine that suspends by itself.                                    *)
(***************************************************************************)
LEMMA SuspendsFrame ==
  ASSUME FrameInv, NEW x \in Contexts, NEW y \in Contexts, NEW f \in Frames, Runs(x, f), MaySuspend(f),
         frame' = [frame EXCEPT ![f].life = "suspended", ![f].home = y], Pop(x), born' = born
  PROVE  /\ frame' \in [Frames -> Promises] /\ stack' \in [Contexts -> Seq(Frames)]
         /\ LifeInv' /\ StackInv' /\ OwnInv' /\ ~Is(f, "suspended") /\ Quiet
         /\ \A h \in Frames : frame[h].launched => frame'[h].launched
         /\ \A h \in Frames : /\ Is(h, "suspended")' <=> Is(h, "suspended") \/ h = f
                              /\ Joining(h)' <=> Joining(h)
                              /\ \A k \in Frames : Awaits(h, k)' <=> Awaits(h, k)
<1> USE DEF Is
<1>1. /\ stack[x] # <<>> /\ f = Last(stack[x]) /\ Is(f, "running") /\ frame[f].launched
      /\ frame[f].outcome = "none" /\ frame[f].home \in Contexts /\ frame[f].temp = NoFrame
  BY RunsFacts
<1>2. /\ frame' \in [Frames -> Promises]
      /\ \A h \in Frames :
           /\ frame'[h].life = IF h = f THEN "suspended" ELSE frame[h].life
           /\ frame'[h].vars = frame[h].vars /\ frame'[h].launched = frame[h].launched
           /\ frame'[h].outcome = frame[h].outcome
           /\ frame'[h].home = IF h = f THEN y ELSE frame[h].home
           /\ frame'[h].prev = frame[h].prev /\ frame'[h].temp = frame[h].temp
           /\ frame'[h].parent = frame[h].parent /\ frame'[h].count = frame[h].count
           /\ frame'[h].kids = frame[h].kids /\ frame'[h].threads = frame[h].threads
  <2>1. [frame[f] EXCEPT !.life = "suspended", !.home = y] \in Promises
    <3>1. frame[f] \in Promises /\ "suspended" \in Lives  BY DEF FrameInv, TypeInv, Lives
    <3> QED  BY <3>1 DEF Promises
  <2> QED  BY <2>1 DEF FrameInv, TypeInv, Promises
<1>3. \A h \in Frames : (Started(h)' <=> Started(h)) /\ (OnStack(h)' <=> OnStack(h) /\ h # f)
  BY <1>1, <1>2 DEF Started, OnStack
<1>4. LifeInv'
  <2>1. ASSUME NEW h \in Frames, h # f PROVE Stage(h)'
    <3>1. frame[h].temp # NoFrame =>
             frame[h].temp \in Frames /\ Started(frame[h].temp) /\ frame[frame[h].temp].prev = h
      BY DEF FrameInv, TypeInv, LifeInv, Stage, Promises, Handles
    <3>2. Stage(h)  BY DEF FrameInv, LifeInv
    <3> QED  BY <1>2, <1>3, <2>1, <3>1, <3>2, StageKept DEF Started
  <2>2. Stage(f)'
    <3>1. Stage(f)  BY DEF FrameInv, LifeInv
    <3> QED  BY <1>1, <1>2, <3>1 DEF Stage, Started
  <2> QED  BY <2>1, <2>2 DEF LifeInv
<1>5. StackInv' /\ \A h, g \in Frames : Below(stack, g, h) /\ OnStack(h)' => Below(stack', g, h)
  <2>1. StillFinal(Frames \ {Last(stack[x])})  BY <1>1, <1>2 DEF StillFinal
  <2>2. \A h \in Frames : OnStack(h)' <=> OnStack(h) /\ h # Last(stack[x])  BY <1>1, <1>3
  <2>3. TypeInv /\ StackInv  BY DEF FrameInv
  <2> QED  BY <1>1, <2>1, <2>2, <2>3, StackPopped
<1>6. stack' \in [Contexts -> Seq(Frames)]
  BY <1>1, FrontQueue DEF Pop, FrameInv, TypeInv
<1>7. OwnInv'
  <2>1. \A g \in frame[f].vars : ~Outlive => ~frame[g].launched
    BY DEF MaySuspend, Unlaunched
  <2>2. ASSUME NEW h \in Frames, NEW g \in frame[h].vars
        PROVE  /\ g \in Frames
               /\ frame'[g].launched = frame[g].launched /\ ~Is(g, "none")' /\ (~Outlive => ~Is(g, "gone")')
               /\ Is(g, "gone")' => frame'[g].launched
               /\ ~Outlive /\ frame[g].launched /\ Is(h, "suspended")' => Started(g)' /\ frame'[g].prev = h
               /\ ~Outlive /\ frame[g].launched /\ OnStack(h)' => Below(stack', g, h)
    <3>1. /\ g \in Frames /\ ~Is(g, "none") /\ (~Outlive => ~Is(g, "gone"))
          /\ Is(g, "gone") => frame[g].launched
          /\ ~Outlive /\ frame[g].launched /\ Is(h, "suspended") => Started(g) /\ frame[g].prev = h
          /\ ~Outlive /\ frame[g].launched /\ OnStack(h) => Below(stack, g, h)
      BY DEF FrameInv, TypeInv, Promises, OwnInv
    <3> QED  BY <1>2, <1>3, <1>5, <2>1, <3>1
  <2>3. \A h \in Frames : frame'[h].vars = frame[h].vars /\ (Is(h, "created")' <=> Is(h, "created"))
    BY <1>1, <1>2
  <2>4. OwnInv  BY DEF FrameInv
  <2> QED  BY <2>2, <2>3, <2>4, OwnKept
<1>8. Quiet
  BY <1>1, <1>2, <1>3 DEF Quiet, Kept, Joining, FrameInv, ResumeInv
<1> QED  BY <1>1, <1>2, <1>3, <1>4, <1>5, <1>6, <1>7, <1>8 DEF Joining, Awaits

LEMMA YieldInv ==
  ASSUME FrameInv, NEW x \in Contexts, NEW f \in Frames, Yield(x, f)
  PROVE  FrameInv' /\ Quiet
<1>1. /\ Runs(x, f) /\ MaySuspend(f)
      /\ frame' = [frame EXCEPT ![f].life = "suspended", ![f].home = x]
      /\ queue' = Push(queue, x, f) /\ Pop(x) /\ UNCHANGED <<born, away, arg, fault>>
  BY DEF Yield
<1>2. /\ frame' \in [Frames -> Promises] /\ stack' \in [Contexts -> Seq(Frames)]
      /\ LifeInv' /\ StackInv' /\ OwnInv' /\ ~Is(f, "suspended") /\ Quiet
      /\ \A h \in Frames : /\ Is(h, "suspended")' <=> Is(h, "suspended") \/ h = f
                           /\ Joining(h)' <=> Joining(h)
                           /\ \A k \in Frames : Awaits(h, k)' <=> Awaits(h, k)
  BY <1>1, SuspendsFrame
<1>3. TypeInv'
  BY <1>1, <1>2, PushFacts DEF FrameInv, TypeInv
<1>4. ResumeInv'
  BY <1>1, <1>2, ResumeQueued DEF FrameInv
<1>5. ArgInv'
  BY <1>1, <1>2, ArgKept DEF FrameInv
<1> QED  BY <1>1, <1>2, <1>3, <1>4, <1>5 DEF FrameInv, FaultInv

LEMMA SuspendInv ==
  ASSUME FrameInv, NEW x \in Contexts, NEW f \in Frames, NEW y \in Contexts,
         NEW blocking \in BOOLEAN, Suspend(x, f, y, blocking)
  PROVE  FrameInv' /\ Quiet
<1>1. /\ Runs(x, f) /\ MaySuspend(f)
      /\ frame' = [frame EXCEPT ![f].life = "suspended", ![f].home = y]
      /\ away' = away \cup {f} /\ Pop(x) /\ UNCHANGED <<born, queue, arg, fault>>
  BY DEF Suspend
<1>2. /\ frame' \in [Frames -> Promises] /\ stack' \in [Contexts -> Seq(Frames)]
      /\ LifeInv' /\ StackInv' /\ OwnInv' /\ ~Is(f, "suspended") /\ Quiet
      /\ \A h \in Frames : /\ Is(h, "suspended")' <=> Is(h, "suspended") \/ h = f
                           /\ Joining(h)' <=> Joining(h)
                           /\ \A k \in Frames : Awaits(h, k)' <=> Awaits(h, k)
  BY <1>1, SuspendsFrame
<1>3. TypeInv'
  BY <1>1, <1>2 DEF FrameInv, TypeInv
<1>4. ResumeInv'
  BY <1>1, <1>2, ResumeAway DEF FrameInv
<1>5. ArgInv'
  BY <1>1, <1>2, ArgSame DEF FrameInv
<1> QED  BY <1>1, <1>2, <1>3, <1>4, <1>5 DEF FrameInv, FaultInv

(***************************************************************************)
(* A frame is launched by spawn(): nobody owns it any more.                *)
(***************************************************************************)
Launches(g, x) ==
    /\ frame'[g].life = "suspended" /\ frame'[g].launched /\ frame'[g].home = x
    /\ \A h \in Frames :
          /\ h # g => /\ frame'[h].life = frame[h].life /\ frame'[h].launched = frame[h].launched
                      /\ frame'[h].home = frame[h].home
          /\ frame'[h].vars = frame[h].vars \ {g} /\ frame'[h].outcome = frame[h].outcome
          /\ frame'[h].prev = frame[h].prev /\ frame'[h].temp = frame[h].temp
          /\ frame'[h].parent = frame[h].parent /\ frame'[h].count = frame[h].count
          /\ frame'[h].kids = frame[h].kids

LEMMA LaunchInv ==
  ASSUME FrameInv, NEW x \in Contexts, NEW y \in Contexts, y = x \/ Remote, NEW g \in Frames,
         \/ Is(g, "created") /\ born' = born
         \/ Is(g, "none") /\ g = born + 1 /\ born' = g,
         frame' \in [Frames -> Promises], Launches(g, y),
         queue' = Push(queue, y, g), arg' = [arg EXCEPT ![x] = g], UNCHANGED <<stack, away, fault>>
  PROVE  FrameInv' /\ Quiet
<1> USE DEF Is, Launches
<1>1. /\ Stage(g) /\ ~Started(g) /\ ~OnStack(g) /\ ~Is(g, "final") /\ ~Is(g, "suspended")
      /\ frame[g].prev = NoFrame /\ frame[g].parent = NoFrame /\ frame[g].count = 0
      /\ frame[g].kids = {} /\ frame[g].temp = NoFrame /\ frame[g].outcome = "none"
      /\ \/ Is(g, "created")
         \/ frame[g].vars = {} /\ \A h \in Frames : g \notin frame[h].vars
  BY DEF FrameInv, LifeInv, Stage, OwnInv, Started, OnStack
<1>2. TypeInv'
  <2>1. born' \in 0 .. MaxFrames
    BY FrameAssumption DEF FrameInv, TypeInv, Frames
  <2>2. queue' \in [Contexts -> Seq(Frames)]  BY PushFacts DEF FrameInv, TypeInv
  <2> QED  BY <2>1, <2>2 DEF FrameInv, TypeInv, Handles
<1>3. \A h \in Frames : /\ Started(h)' <=> Started(h) \/ h = g
                        /\ OnStack(h)' <=> OnStack(h)
                        /\ Is(h, "suspended")' <=> Is(h, "suspended") \/ h = g
  BY <1>1 DEF Started, OnStack
<1>4. LifeInv'
  <2>1. ASSUME NEW h \in Frames, h # g PROVE Stage(h)'
    <3>1. frame[h].temp # NoFrame =>
             frame[h].temp \in Frames /\ Started(frame[h].temp) /\ frame[frame[h].temp].prev = h
      BY DEF FrameInv, TypeInv, LifeInv, Stage, Promises, Handles
    <3>2. Stage(h)  BY DEF FrameInv, LifeInv
    <3>3. h > born' <=> h > born
      <4>1. h \in Nat /\ born \in Nat  BY FrameAssumption DEF Frames, FrameInv, TypeInv
      <4> QED  BY <2>1, <4>1
    <3>4. Is(h, "none") \/ Is(h, "gone") => frame'[h].vars = frame[h].vars
      BY <3>2 DEF Stage
    <3>5. frame[h].temp # NoFrame => Started(frame[h].temp)'
      BY <1>3, <3>1
    <3> QED  BY <2>1, <3>1, <3>2, <3>3, <3>4, <3>5, StageKept DEF Started
  <2>2. Stage(g)'
    <3>1. ~(g > born')
      <4>1. g \in Nat /\ born \in Nat  BY FrameAssumption DEF Frames, FrameInv, TypeInv
      <4> QED  BY <1>1, <4>1 DEF Stage
    <3> QED  BY <1>1, <3>1 DEF Stage, Started
  <2> QED  BY <2>1, <2>2 DEF LifeInv
<1>5. StackInv'
  <2>1. StillFinal(Frames)  BY <1>1 DEF StillFinal
  <2> QED  BY <1>3, <2>1, StackKept DEF FrameInv
<1>6. OwnInv'
  <2>1. ASSUME NEW h \in Frames, NEW k \in frame'[h].vars
        PROVE  /\ frame'[k].life # "none" /\ (~Outlive => frame'[k].life # "gone")
               /\ frame'[k].life = "gone" => frame'[k].launched
               /\ frame'[h].life = "created" => frame'[k].life = "created" /\ k < h
               /\ ~Outlive /\ frame'[k].launched /\ Is(h, "suspended")' => Started(k)' /\ frame'[k].prev = h
               /\ ~Outlive /\ frame'[k].launched /\ OnStack(h)' => Below(stack', k, h)
    <3>1. k \in frame[h].vars /\ k \in Frames /\ k # g
      BY <2>1 DEF FrameInv, TypeInv, Promises
    <3>2. /\ frame[k].life # "none" /\ (~Outlive => frame[k].life # "gone")
          /\ frame[k].life = "gone" => frame[k].launched
          /\ frame[h].life = "created" => frame[k].life = "created" /\ k < h
          /\ ~Outlive /\ frame[k].launched /\ Is(h, "suspended") => Started(k) /\ frame[k].prev = h
          /\ ~Outlive /\ frame[k].launched /\ OnStack(h) => Below(stack, k, h)
      BY <3>1 DEF FrameInv, OwnInv
    <3>3. h = g => ~frame[k].launched
      <4>1. h = g => Is(h, "created")  BY <1>1, <3>1
      <4> QED  BY <3>1, <3>2, <4>1 DEF FrameInv, LifeInv, Stage
    <3> QED  BY <1>3, <3>1, <3>2, <3>3
  <2>2. ASSUME NEW h \in Frames, NEW i \in Frames, NEW k \in frame'[h].vars, k \in frame'[i].vars
        PROVE  h = i
    BY <2>2 DEF FrameInv, OwnInv
  <2>3. ASSUME ~Overwrite, NEW k \in Frames, frame'[k].life = "created"
        PROVE  \E h \in Frames : k \in frame'[h].vars
    <3>1. k # g /\ frame[k].life = "created"  BY <2>3
    <3>2. PICK h \in Frames : k \in frame[h].vars
      BY <2>3, <3>1 DEF FrameInv, OwnInv
    <3> QED  BY <3>1, <3>2
  <2> QED  BY <2>1, <2>2, <2>3 DEF OwnInv
<1>7. ResumeInv'
  <2>1. \A h, k \in Frames : Awaits(h, k)' <=> Awaits(h, k)
    <3>1. \A h \in Frames : h # NoFrame  BY FrameAssumption DEF Frames, NoFrame
    <3> QED  BY <1>1, <1>3, <3>1 DEF Awaits
  <2>2. \A h \in Frames : Joining(h)' <=> Joining(h)  BY DEF Joining
  <2>3. TypeInv /\ ResumeInv /\ away' = away  BY DEF FrameInv
  <2> QED  BY <1>1, <1>3, <2>1, <2>2, <2>3, ResumeQueued
<1>8. ArgInv'
  <2>1. \A z \in Contexts :
           \/ arg'[z] \in {arg[z], NoFrame}
           \/ arg'[z] = g /\ frame'[g].launched /\ (~Remote => z = y)
    BY DEF FrameInv, TypeInv
  <2>2. \A h \in Frames : frame[h].launched => frame'[h].launched  OBVIOUS
  <2> QED  BY <2>1, <2>2, ArgKept DEF FrameInv
<1>9. Quiet
  BY <1>1 DEF Quiet, Kept, Launches, Joining, Started, Is, FrameInv, ResumeInv
<1> QED  BY <1>2, <1>4, <1>5, <1>6, <1>7, <1>8, <1>9 DEF FrameInv, FaultInv

LEMMA SpawnInv ==
  ASSUME FrameInv, NEW x \in Contexts, NEW f \in Frames, NEW g \in frame[f].vars,
         NEW y \in Contexts, Spawn(x, f, g, y)
  PROVE  FrameInv' /\ Quiet
<1>1. /\ g \in Unlaunched(frame[f].vars) /\ (y = x \/ Remote) /\ Is(f, "running") /\ g \in Frames
      /\ frame' = [Launched(frame, g, y) EXCEPT ![f].vars = @ \ {g}]
      /\ queue' = Push(queue, y, g) /\ arg' = [arg EXCEPT ![x] = g]
      /\ UNCHANGED <<born, stack, away, fault>>
  BY DEF Spawn, Runs, FrameInv, TypeInv, Promises
<1>2. Is(g, "created") /\ g # f
  <2>1. frame[f].vars \in SUBSET Frames /\ \A k \in frame[f].vars : ~Is(k, "none")
    BY DEF FrameInv, TypeInv, Promises, OwnInv
  <2>2. Is(g, "created")  BY <1>1, <2>1, UnlaunchedCreated DEF FrameInv
  <2> QED  BY <1>1, <2>2 DEF Is
<1>3. \A h \in Frames : h # f => g \notin frame[h].vars
  BY <1>1 DEF FrameInv, OwnInv
<1>4. /\ frame' \in [Frames -> Promises]
      /\ frame'[g] = [frame[g] EXCEPT !.launched = TRUE, !.life = "suspended", !.home = y]
      /\ frame'[f] = [frame[f] EXCEPT !.vars = @ \ {g}]
      /\ \A h \in Frames : h # f /\ h # g => frame'[h] = frame[h]
  <2>1. frame \in [Frames -> Promises] /\ frame[f] \in Promises /\ frame[g] \in Promises
    BY <1>1 DEF FrameInv, TypeInv
  <2>2. /\ [frame[g] EXCEPT !.launched = TRUE, !.life = "suspended", !.home = y] \in Promises
        /\ [frame[f] EXCEPT !.vars = @ \ {g}] \in Promises
    BY <2>1 DEF Promises, Lives
  <2> QED  BY <1>1, <1>2, <2>1, <2>2 DEF Launched
<1>5. Launches(g, y)
  <2>1. \A h \in Frames : frame[h] \in Promises  BY DEF FrameInv, TypeInv
  <2>2. /\ frame'[g].life = "suspended" /\ frame'[g].launched /\ frame'[g].home = y
        /\ frame'[g].vars = frame[g].vars /\ frame'[g].outcome = frame[g].outcome
        /\ frame'[g].prev = frame[g].prev /\ frame'[g].temp = frame[g].temp
        /\ frame'[g].parent = frame[g].parent /\ frame'[g].count = frame[g].count
        /\ frame'[g].kids = frame[g].kids
    <3>1. frame[g] \in Promises  BY <1>1, <2>1
    <3>2. frame'[g] = [frame[g] EXCEPT !.launched = TRUE, !.life = "suspended", !.home = y]
      BY <1>4
    <3> QED  BY <3>1, <3>2 DEF Promises
  <2>3. /\ frame'[f].vars = frame[f].vars \ {g} /\ frame'[f].outcome = frame[f].outcome
        /\ frame'[f].prev = frame[f].prev /\ frame'[f].temp = frame[f].temp
        /\ frame'[f].parent = frame[f].parent /\ frame'[f].count = frame[f].count
        /\ frame'[f].kids = frame[f].kids /\ frame'[f].life = frame[f].life
        /\ frame'[f].launched = frame[f].launched /\ frame'[f].home = frame[f].home
    <3>1. frame[f] \in Promises /\ frame'[f] = [frame[f] EXCEPT !.vars = @ \ {g}]
      BY <1>4, <2>1
    <3> QED  BY <3>1 DEF Promises
  <2>4. ASSUME NEW h \in Frames, h # f, h # g PROVE frame'[h] = frame[h] /\ frame[h].vars \ {g} = frame[h].vars
    BY <1>3, <1>4, <2>4
  <2>5. frame[g].vars \ {g} = frame[g].vars
    BY <1>1, <1>2, <1>3
  <2>6. f # g  BY <1>2
  <2> QED  BY <2>2, <2>3, <2>4, <2>5, <2>6 DEF Launches
<1>6. /\ g \in Frames /\ Is(g, "created") /\ born' = born /\ frame' \in [Frames -> Promises]
      /\ queue' = Push(queue, y, g) /\ arg' = [arg EXCEPT ![x] = g] /\ UNCHANGED <<stack, away, fault>>
  BY <1>1, <1>2, <1>4
<1> QED  BY <1>1, <1>5, <1>6, LaunchInv

LEMMA SpawnRootInv ==
  ASSUME FrameInv, NEW x \in Contexts, SpawnRoot(x)
  PROVE  FrameInv' /\ Quiet
<1> PICK g \in Nat : g = born + 1
  BY DEF FrameInv, TypeInv
<1>1. /\ g \in Frames /\ born' = g /\ Is(g, "none")
      /\ frame' = Launched(frame, g, x)
      /\ queue' = Push(queue, x, g) /\ arg' = [arg EXCEPT ![x] = g]
      /\ UNCHANGED <<stack, away, fault>>
  <2>1. born' = g /\ born < MaxFrames  BY DEF SpawnRoot
  <2>2. g \in Frames /\ g > born  BY <2>1, FrameAssumption DEF FrameInv, TypeInv, Frames
  <2> QED  BY <2>1, <2>2 DEF SpawnRoot, FrameInv, LifeInv, Stage
<1>2. \A h \in Frames : g \notin frame[h].vars
  BY <1>1 DEF FrameInv, OwnInv
<1>3. /\ frame' \in [Frames -> Promises]
      /\ frame'[g] = [frame[g] EXCEPT !.launched = TRUE, !.life = "suspended", !.home = x]
      /\ \A h \in Frames : h # g => frame'[h] = frame[h]
  <2>1. frame \in [Frames -> Promises] /\ frame[g] \in Promises
    BY <1>1 DEF FrameInv, TypeInv
  <2>2. [frame[g] EXCEPT !.launched = TRUE, !.life = "suspended", !.home = x] \in Promises
    BY <2>1 DEF Promises, Lives
  <2> QED  BY <1>1, <2>1, <2>2 DEF Launched
<1>4. Launches(g, x)
  <2>1. \A h \in Frames : frame[h] \in Promises  BY DEF FrameInv, TypeInv
  <2>2. /\ frame'[g].life = "suspended" /\ frame'[g].launched /\ frame'[g].home = x
        /\ frame'[g].vars = frame[g].vars /\ frame'[g].outcome = frame[g].outcome
        /\ frame'[g].prev = frame[g].prev /\ frame'[g].temp = frame[g].temp
        /\ frame'[g].parent = frame[g].parent /\ frame'[g].count = frame[g].count
        /\ frame'[g].kids = frame[g].kids
    <3>1. frame[g] \in Promises  BY <1>1, <2>1
    <3>2. frame'[g] = [frame[g] EXCEPT !.launched = TRUE, !.life = "suspended", !.home = x]
      BY <1>3
    <3> QED  BY <3>1, <3>2 DEF Promises
  <2> QED  BY <1>1, <1>2, <1>3, <2>2 DEF Launches
<1> QED  BY <1>1, <1>3, <1>4, LaunchInv

\* The parameter of spawn() dies: its frame was launched, so nothing is destroyed.
LEMMA DropArgInv ==
  ASSUME FrameInv, NEW x \in Contexts, DropArg(x)
  PROVE  FrameInv' /\ Quiet
<1> PICK objects : objects = {arg[x]}  OBVIOUS
<1>1. /\ arg[x] \in Frames /\ frame' = Dropped(frame, objects) /\ fault' = Touch(objects)
      /\ arg' = [arg EXCEPT ![x] = NoFrame] /\ UNCHANGED <<born, queue, stack, away>>
  BY DEF DropArg, FrameInv, TypeInv, Handles
<1>2. frame[arg[x]].launched /\ (~Remote => Is(arg[x], "suspended"))
  <2>1. /\ frame[arg[x]].launched
        /\ ~Remote => In(queue, arg[x])
    BY <1>1 DEF DropArg, FrameInv, ArgInv, In
  <2> QED  BY <1>1, <2>1 DEF FrameInv, ResumeInv
<1>3. /\ Unlaunched(objects) = {} /\ Touch(objects) \in {fault, "touch"}
      /\ ~Remote => Touch(objects) = fault
  BY <1>2 DEF Unlaunched, Touch, Is
<1>4. frame' = frame /\ fault' \in {fault, "touch"} /\ (~Remote => fault' = fault)
  BY <1>1, <1>3, NothingDoomed DEF FrameInv, TypeInv
<1>5. TypeInv' /\ ArgInv'
  BY <1>1, <1>4 DEF FrameInv, TypeInv, ArgInv, Handles
<1>6. FaultInv'
  BY <1>4 DEF FrameInv, FaultInv, Premises
<1>7. UNCHANGED <<frame, born, queue, stack, away>>
  BY <1>1, <1>4
<1>8. /\ LifeInv' /\ StackInv' /\ OwnInv' /\ ResumeInv'
  BY <1>7 DEF FrameInv, LifeInv, Stage, Started, OnStack, StackInv, OwnInv, ResumeInv, Awaits,
              Awaiting, Joining, Is
<1>9. Quiet
  BY <1>4 DEF Quiet, Kept, Joining, Started, Is, FrameInv, ResumeInv
<1> QED  BY <1>5, <1>6, <1>8, <1>9 DEF FrameInv

(***************************************************************************)
(* f is resumed on the thread of x, by r, which has returned, or by the    *)
(* context itself.                                                         *)
(***************************************************************************)
Resumes(f, r) ==
    /\ frame'[f].temp = NoFrame /\ frame'[f].count = 0
    /\ r # NoFrame => frame'[r].outcome \in {"value", "error"}
    /\ \A h \in Frames :
          /\ frame'[h].life = IF h = f THEN "running" ELSE IF h = r THEN "final" ELSE frame[h].life
          /\ h # f => frame'[h].temp = frame[h].temp /\ frame'[h].count = frame[h].count
          /\ h # r => frame'[h].outcome = frame[h].outcome
          /\ frame'[h].vars = frame[h].vars /\ frame'[h].launched = frame[h].launched
          /\ frame'[h].home = frame[h].home /\ frame'[h].prev = frame[h].prev
          /\ frame'[h].parent = frame[h].parent /\ frame'[h].kids = frame[h].kids

LEMMA ResumesInv ==
  ASSUME FrameInv, NEW x \in Contexts, NEW f \in Frames, NEW r \in Handles, Is(f, "suspended"),
         r # NoFrame => Runs(x, r) /\ frame[r].prev \in {f, NoFrame},
         r = NoFrame => stack[x] = <<>>,
         \A k \in Frames : Awaits(f, k) => k = r,
         frame' \in [Frames -> Promises], Resumes(f, r), stack' = Push(stack, x, f),
         queue' \in [Contexts -> Seq(Frames)], Apart(queue'), away' = away \ {f},
         \A h \in Frames : In(queue', h) <=> In(queue, h) /\ h # f,
         UNCHANGED <<born, arg>>, fault' \in {fault, "terminate"}, ArgInv'
  PROVE  FrameInv'
<1> USE DEF Is
<1>1. r # NoFrame => /\ r \in Frames /\ r # f /\ stack[x] # <<>> /\ r = Last(stack[x])
                     /\ Is(r, "running") /\ frame[r].temp = NoFrame /\ frame[r].launched
                     /\ frame[r].home \in Contexts
  BY RunsFacts DEF Handles
<1>2. /\ \A h \in Frames : h # NoFrame
      /\ f # r /\ NoFrame \notin Frames
  BY <1>1, FrameAssumption DEF Frames, NoFrame
<1>3. /\ \A h \in Frames :
           /\ frame'[h].life = IF h = f THEN "running" ELSE IF h = r THEN "final" ELSE frame[h].life
           /\ h # f => frame'[h].temp = frame[h].temp /\ frame'[h].count = frame[h].count
           /\ h # r => frame'[h].outcome = frame[h].outcome
           /\ frame'[h].vars = frame[h].vars /\ frame'[h].launched = frame[h].launched
           /\ frame'[h].home = frame[h].home /\ frame'[h].prev = frame[h].prev
           /\ frame'[h].parent = frame[h].parent /\ frame'[h].kids = frame[h].kids
      /\ frame'[f].temp = NoFrame /\ frame'[f].count = 0
      /\ r # NoFrame => frame'[r].outcome \in {"value", "error"}
  BY DEF Resumes
<1>4. \A h \in Frames : /\ Started(h)' <=> Started(h) /\ h # r
                        /\ OnStack(h)' <=> OnStack(h) \/ h = f
                        /\ Is(h, "suspended")' <=> Is(h, "suspended") /\ h # f
                        /\ Is(h, "created")' <=> Is(h, "created")
  BY <1>1, <1>2, <1>3 DEF Started, OnStack
<1>5. TypeInv'
  <2>1. stack' \in [Contexts -> Seq(Frames)]  BY PushFacts DEF FrameInv, TypeInv
  <2> QED  BY <2>1 DEF FrameInv, TypeInv
<1>6. LifeInv'
  <2>1. ASSUME NEW h \in Frames, h # f, h # r PROVE Stage(h)'
    <3>1. frame[h].temp # NoFrame =>
             frame[h].temp \in Frames /\ Started(frame[h].temp) /\ frame[frame[h].temp].prev = h
      BY DEF FrameInv, TypeInv, LifeInv, Stage, Promises, Handles
    <3>2. frame[h].temp # NoFrame => frame[h].temp # r
      BY <1>2, <2>1, <3>1
    <3>4. frame[h].temp # NoFrame => frame'[frame[h].temp].life \in {"suspended", "running"}
      BY <1>3, <2>1, <3>1, <3>2 DEF Started
    <3>5. Stage(h)  BY DEF FrameInv, LifeInv
    <3> QED  BY <1>3, <2>1, <3>1, <3>4, <3>5, StageKept
  <2>2. Stage(f)'
    <3>1. Stage(f)  BY DEF FrameInv, LifeInv
    <3> QED  BY <1>2, <1>3, <3>1 DEF Stage, Started
  <2>3. ASSUME r # NoFrame PROVE Stage(r)'
    <3>1. Stage(r)  BY <1>1, <2>3 DEF FrameInv, LifeInv
    <3> QED  BY <1>1, <1>2, <1>3, <2>3, <3>1 DEF Stage, Started
  <2> QED  BY <1>2, <2>1, <2>2, <2>3 DEF LifeInv
<1>7. StackInv'
  <2>1. StillFinal(Frames)  BY <1>1, <1>2, <1>3 DEF StillFinal
  <2>2. stack[x] # <<>> => frame'[Last(stack[x])].life = "final"
    BY <1>1, <1>2, <1>3
  <2>3. ~OnStack(f)  BY DEF OnStack
  <2>4. \A g \in Frames : OnStack(g)' <=> OnStack(g) \/ g = f  BY <1>4
  <2> QED  BY <2>1, <2>2, <2>3, <2>4, StackPushed DEF FrameInv
<1>8. OwnInv'
  <2>1. /\ \A g, h \in Frames : Below(stack, g, h) => Below(stack', g, h)
        /\ r # NoFrame => Below(stack', r, f)
    <3>1. /\ \A g, h \in Frames : Below(stack, g, h) => Below(stack', g, h)
          /\ \A g \in ToSet(stack[x]) : Below(stack', g, f)
      BY PushBelow DEF FrameInv, TypeInv
    <3>2. r # NoFrame => r \in ToSet(stack[x])
      <4>1. stack[x] \in Seq(Frames)  BY DEF FrameInv, TypeInv
      <4> QED  BY <1>1, <4>1, FrontQueue
    <3> QED  BY <3>1, <3>2
  <2>2. ASSUME NEW h \in Frames, NEW g \in frame[h].vars
        PROVE  /\ g \in Frames
               /\ frame'[g].launched = frame[g].launched /\ ~Is(g, "none")' /\ (~Outlive => ~Is(g, "gone")')
               /\ Is(g, "gone")' => frame'[g].launched
               /\ ~Outlive /\ frame[g].launched /\ Is(h, "suspended")' => Started(g)' /\ frame'[g].prev = h
               /\ ~Outlive /\ frame[g].launched /\ OnStack(h)' => Below(stack', g, h)
    <3>1. /\ g \in Frames /\ ~Is(g, "none") /\ (~Outlive => ~Is(g, "gone"))
          /\ Is(g, "gone") => frame[g].launched
          /\ ~Outlive /\ frame[g].launched /\ Is(h, "suspended") => Started(g) /\ frame[g].prev = h
          /\ ~Outlive /\ frame[g].launched /\ OnStack(h) => Below(stack, g, h)
      BY DEF FrameInv, TypeInv, Promises, OwnInv
    <3>2. ~Outlive /\ frame[g].launched /\ Is(h, "suspended") /\ h # f => g # r
      BY <1>1, <1>2, <3>1
    <3>3. ~Outlive /\ frame[g].launched /\ h = f => g = r /\ r # NoFrame
      BY <1>2, <3>1 DEF Awaits
    <3> QED  BY <1>3, <1>4, <2>1, <3>1, <3>2, <3>3
  <2>3. \A h \in Frames : frame'[h].vars = frame[h].vars /\ (Is(h, "created")' <=> Is(h, "created"))
    BY <1>3, <1>4
  <2>4. OwnInv  BY DEF FrameInv
  <2> QED  BY <2>2, <2>3, <2>4, OwnKept
<1>9. ResumeInv'
  <2>1. \A h, k \in Frames : Awaits(h, k)' <=> Awaits(h, k) /\ k # r
    BY <1>3, <1>4 DEF Awaits
  <2>2. \A h \in Frames : h # f /\ r # NoFrame => ~Awaits(h, r)
    BY <1>2 DEF Awaits
  <2>3. ASSUME NEW h \in Frames PROVE Awaiting(h)' <=> Awaiting(h) /\ h # f
    <3>1. CASE h = f  BY <2>1, <3>1 DEF Awaiting
    <3>2. CASE h # f
      <4>1. \A k \in Frames : Awaits(h, k)' <=> Awaits(h, k)
        BY <1>2, <2>1, <2>2, <3>2
      <4> QED  BY <3>2, <4>1 DEF Awaiting
    <3> QED  BY <3>1, <3>2
  <2>4. \A h \in Frames : Joining(h)' <=> Joining(h) /\ h # f
    BY <1>3 DEF Joining
  <2>5. ResumeInv  BY DEF FrameInv
  <2> QED  BY <1>4, <2>1, <2>3, <2>4, <2>5 DEF ResumeInv
<1>10. FaultInv'  BY DEF FrameInv, FaultInv
<1> QED  BY <1>5, <1>6, <1>7, <1>8, <1>9, <1>10 DEF FrameInv

LEMMA ResumesByItself ==
  ASSUME FrameInv, NEW x \in Contexts, NEW f \in Frames, Is(f, "suspended"), Resume(frame, x, f, "none"),
         ~Joining(f)
  PROVE  frame' \in [Frames -> Promises] /\ Resumes(f, NoFrame) /\ stack' = Push(stack, x, f)
         /\ fault' = fault
<1>1. /\ frame' = [frame EXCEPT ![f].life = "running", ![f].temp = NoFrame]
      /\ stack' = Push(stack, x, f) /\ fault' = fault
  <2>1. TypeInv /\ LifeInv /\ frame \in [Frames -> Promises]  BY DEF FrameInv, TypeInv
  <2> QED  BY <2>1, ResumeQuiet
<1>2. \A h \in Frames : frame[h] \in Promises /\ h # NoFrame
  BY FrameAssumption DEF FrameInv, TypeInv, Frames, NoFrame
<1>3. /\ frame' = [frame EXCEPT ![f] = [frame[f] EXCEPT !.life = "running", !.temp = NoFrame]]
      /\ [frame[f] EXCEPT !.life = "running", !.temp = NoFrame] \in Promises
  <2>1. "running" \in Lives /\ NoFrame \in Handles /\ frame[f] \in Promises
    BY <1>2 DEF Lives, Handles
  <2>2. [frame[f] EXCEPT !.life = "running", !.temp = NoFrame] \in Promises
    BY <2>1 DEF Promises
  <2>3. frame \in [Frames -> Promises]  BY DEF FrameInv, TypeInv
  <2> QED  BY <1>1, <2>2, <2>3
<1>4. frame' \in [Frames -> Promises] /\ \A h \in Frames : h # f => frame'[h] = frame[h]
  BY <1>3 DEF FrameInv, TypeInv
<1>5. /\ frame'[f].life = "running" /\ frame'[f].temp = NoFrame /\ frame'[f].count = 0
      /\ frame'[f].outcome = frame[f].outcome /\ frame'[f].vars = frame[f].vars
      /\ frame'[f].launched = frame[f].launched /\ frame'[f].home = frame[f].home
      /\ frame'[f].prev = frame[f].prev /\ frame'[f].parent = frame[f].parent
      /\ frame'[f].kids = frame[f].kids
  BY <1>2, <1>3 DEF Promises, Joining, FrameInv, TypeInv
<1> QED  BY <1>1, <1>2, <1>4, <1>5 DEF Resumes

LEMMA ResumesQuietly ==
  ASSUME FrameInv, NEW f \in Frames, Is(f, "suspended"), ~Joining(f), Resumes(f, NoFrame)
  PROVE  Quiet
<1>1. \A h \in Frames : h # NoFrame
  BY FrameAssumption DEF Frames, NoFrame
<1> QED  BY <1>1 DEF Quiet, Kept, Resumes, Joining, Started, Is, FrameInv, ResumeInv

LEMMA RunHandleInv ==
  ASSUME FrameInv, NEW x \in Contexts, RunHandle(x)
  PROVE  FrameInv' /\ Quiet /\ fault' = fault
<1> PICK f : f = Head(queue[x])  OBVIOUS
<1>1. /\ stack[x] = <<>> /\ arg[x] = NoFrame /\ queue[x] # <<>> /\ Resume(frame, x, f, "none")
      /\ queue' = Taken(queue, x) /\ UNCHANGED <<born, away, arg>>
  BY DEF RunHandle, Idle, Taken
<1>2. queue \in [Contexts -> Seq(Frames)] /\ Apart(queue)
  BY DEF FrameInv, TypeInv, ResumeInv
<1>3. /\ queue' \in [Contexts -> Seq(Frames)] /\ f \in Frames /\ f \in ToSet(queue[x])
      /\ \A y \in Contexts : y # x => queue'[y] = queue[y]
      /\ Apart(queue') /\ \A g \in Frames : In(queue', g) <=> In(queue, g) /\ g # f
  BY <1>1, <1>2, HeadFacts
<1>4. Is(f, "suspended") /\ f \notin away /\ ~Awaiting(f) /\ ~Joining(f)
  <2>1. In(queue, f)  BY <1>3 DEF In
  <2> QED  BY <1>3, <2>1 DEF FrameInv, ResumeInv
<1>5. /\ frame' \in [Frames -> Promises] /\ Resumes(f, NoFrame) /\ stack' = Push(stack, x, f)
      /\ fault' = fault
  BY <1>1, <1>3, <1>4, ResumesByItself
<1>6. ArgInv'
  <2>1. \A h \in Frames : frame[h].launched => frame'[h].launched  BY <1>5 DEF Resumes
  <2>2. \A y \in Contexts : arg[y] # NoFrame => queue'[y] = queue[y]  BY <1>1, <1>3
  <2> QED  BY <1>1, <2>1, <2>2, ArgSame DEF FrameInv
<1>7. \A k \in Frames : ~Awaits(f, k)
  BY <1>4 DEF Awaiting
<1>8. away' = away \ {f} /\ NoFrame \in Handles
  BY <1>1, <1>4 DEF Handles
<1>9. UNCHANGED <<born, arg, fault>>  BY <1>1, <1>5
<1>10. Quiet  BY <1>3, <1>4, <1>5, ResumesQuietly
<1> QED  BY <1>1, <1>3, <1>4, <1>5, <1>6, <1>7, <1>8, <1>9, <1>10, ResumesInv

LEMMA ComeBackInv ==
  ASSUME FrameInv, NEW f \in Frames, ComeBack(f)
  PROVE  FrameInv' /\ Quiet /\ fault' = fault
<1> PICK x : x = frame[f].home  OBVIOUS
<1>1. /\ f \in away /\ away' = away \ {f} /\ UNCHANGED <<born, arg>>
      /\ \/ Idle(x) /\ Resume(frame, x, f, "none") /\ queue' = queue
         \/ queue' = Push(queue, x, f) /\ UNCHANGED <<frame, stack, fault>>
  BY DEF ComeBack
<1>2. /\ Is(f, "suspended") /\ ~In(queue, f) /\ ~Awaiting(f) /\ ~Joining(f) /\ Apart(queue)
      /\ queue \in [Contexts -> Seq(Frames)]
  BY <1>1 DEF FrameInv, TypeInv, ResumeInv
<1>3. x \in Contexts
  BY <1>2 DEF FrameInv, LifeInv, Stage, Started, Is
<1>4. CASE Idle(x) /\ Resume(frame, x, f, "none") /\ queue' = queue
  <2>1. /\ frame' \in [Frames -> Promises] /\ Resumes(f, NoFrame) /\ stack' = Push(stack, x, f)
        /\ fault' = fault
    BY <1>2, <1>3, <1>4, ResumesByItself
  <2>2. ArgInv'
    <3>1. \A h \in Frames : frame[h].launched => frame'[h].launched  BY <2>1 DEF Resumes
    <3> QED  BY <1>1, <1>4, <3>1, ArgSame DEF FrameInv
  <2>3. \A k \in Frames : ~Awaits(f, k)  BY <1>2 DEF Awaiting
  <2>4. \A h \in Frames : In(queue', h) <=> In(queue, h) /\ h # f
    BY <1>2, <1>4
  <2>5. stack[x] = <<>> /\ NoFrame \in Handles  BY <1>4 DEF Idle, Handles
  <2>6. UNCHANGED <<born, arg, fault>>  BY <1>1, <2>1
  <2>7. queue' \in [Contexts -> Seq(Frames)] /\ Apart(queue')  BY <1>2, <1>4
  <2>8. Quiet  BY <1>2, <2>1, ResumesQuietly
  <2>9. FrameInv'
    BY <1>1, <1>2, <1>3, <2>1, <2>2, <2>3, <2>4, <2>5, <2>6, <2>7, ResumesInv
  <2> QED  BY <2>6, <2>8, <2>9
<1>5. CASE queue' = Push(queue, x, f) /\ UNCHANGED <<frame, stack, fault>>
  <2>1. /\ \A g \in Frames : In(queue', g) <=> In(queue, g) \/ g = f
        /\ Apart(queue') /\ queue' \in [Contexts -> Seq(Frames)]
    BY <1>2, <1>3, <1>5, PushFacts
  <2>2. TypeInv'  BY <1>1, <1>5, <2>1 DEF FrameInv, TypeInv
  <2>3. ResumeInv'
    <3>1. \A h \in Frames : /\ Is(h, "suspended")' <=> Is(h, "suspended")
                            /\ Awaiting(h)' <=> Awaiting(h)
                            /\ Joining(h)' <=> Joining(h)
                            /\ \A k \in Frames : Awaits(h, k)' <=> Awaits(h, k)
      BY <1>5 DEF Is, Awaiting, Awaits, Joining, Started
    <3>2. ResumeInv  BY DEF FrameInv
    <3> QED  BY <1>1, <1>2, <2>1, <3>1, <3>2 DEF ResumeInv
  <2>4. ArgInv'
    <3>1. \A y \in Contexts : arg'[y] \in {arg[y], NoFrame}  BY <1>1
    <3>2. \A h \in Frames : frame[h].launched => frame'[h].launched  BY <1>5
    <3> QED  BY <1>3, <1>5, <3>1, <3>2, ArgKept DEF FrameInv
  <2>5. UNCHANGED <<born, frame, stack, fault>>  BY <1>1, <1>5
  <2>6. LifeInv' /\ StackInv' /\ OwnInv' /\ FaultInv'
    BY <2>5 DEF FrameInv, LifeInv, Stage, Started, OnStack, StackInv, OwnInv, Is, FaultInv
  <2>7. Quiet
    BY <2>5 DEF Quiet, Kept, Joining, Started, Is, FrameInv, ResumeInv
  <2> QED  BY <2>2, <2>3, <2>4, <2>5, <2>6, <2>7 DEF FrameInv
<1> QED  BY <1>1, <1>4, <1>5

(***************************************************************************)
(* co_return.                                                              *)
(***************************************************************************)
Finishes(f) ==
    /\ frame'[f].outcome \in {"value", "error"}
    /\ \A h \in Frames :
          /\ frame'[h].life = IF h = f THEN "final" ELSE frame[h].life
          /\ h # f => frame'[h].outcome = frame[h].outcome
          /\ frame'[h].count # 0 <=> frame[h].count # 0
          /\ frame[h].count = 0 => frame'[h].count = 0
          /\ frame'[h].temp = frame[h].temp
          /\ frame'[h].vars = frame[h].vars /\ frame'[h].launched = frame[h].launched
          /\ frame'[h].home = frame[h].home /\ frame'[h].prev = frame[h].prev
          /\ frame'[h].parent = frame[h].parent /\ frame'[h].kids = frame[h].kids

\* It resumes nobody there.
LEMMA FinishesInv ==
  ASSUME FrameInv, NEW x \in Contexts, NEW f \in Frames, Runs(x, f), frame[f].prev = NoFrame,
         frame' \in [Frames -> Promises], Finishes(f),
         UNCHANGED <<born, queue, stack, away, arg, fault>>
  PROVE  FrameInv'
<1> USE DEF Is, Finishes
<1>1. /\ Is(f, "running") /\ frame[f].temp = NoFrame /\ frame[f].launched
      /\ frame[f].home \in Contexts
  BY RunsFacts
<1>2. \A h \in Frames : h # NoFrame
  BY FrameAssumption DEF Frames, NoFrame
<1>3. \A h \in Frames : /\ Started(h)' <=> Started(h) /\ h # f
                        /\ OnStack(h)' <=> OnStack(h)
                        /\ Is(h, "suspended")' <=> Is(h, "suspended")
                        /\ Is(h, "created")' <=> Is(h, "created")
  BY <1>1 DEF Started, OnStack
<1>4. TypeInv'
  BY DEF FrameInv, TypeInv
<1>5. LifeInv'
  <2>1. ASSUME NEW h \in Frames, h # f PROVE Stage(h)'
    <3>1. frame[h].temp # NoFrame =>
             frame[h].temp \in Frames /\ Started(frame[h].temp) /\ frame[frame[h].temp].prev = h
      BY DEF FrameInv, TypeInv, LifeInv, Stage, Promises, Handles
    <3>2. frame[h].temp # NoFrame => frame[h].temp # f
      BY <1>2, <3>1
    <3>3. Stage(h)  BY DEF FrameInv, LifeInv
    <3> QED  BY <2>1, <3>1, <3>2, <3>3 DEF Stage, Started
  <2>2. Stage(f)'
    <3>1. Stage(f)  BY DEF FrameInv, LifeInv
    <3> QED  BY <1>1, <3>1 DEF Stage, Started
  <2> QED  BY <2>1, <2>2 DEF LifeInv
<1>6. StackInv'
  <2>1. StillFinal(Frames)  BY <1>1 DEF StillFinal
  <2> QED  BY <1>3, <2>1, StackKept DEF FrameInv
<1>7. OwnInv'
  <2>1. ASSUME NEW h \in Frames, NEW g \in frame[h].vars
        PROVE  /\ g \in Frames
               /\ frame'[g].launched = frame[g].launched /\ ~Is(g, "none")' /\ (~Outlive => ~Is(g, "gone")')
               /\ Is(g, "gone")' => frame'[g].launched
               /\ ~Outlive /\ frame[g].launched /\ Is(h, "suspended")' => Started(g)' /\ frame'[g].prev = h
               /\ ~Outlive /\ frame[g].launched /\ OnStack(h)' => Below(stack', g, h)
    <3>1. /\ g \in Frames /\ ~Is(g, "none") /\ (~Outlive => ~Is(g, "gone"))
          /\ Is(g, "gone") => frame[g].launched
          /\ ~Outlive /\ frame[g].launched /\ Is(h, "suspended") => Started(g) /\ frame[g].prev = h
          /\ ~Outlive /\ frame[g].launched /\ OnStack(h) => Below(stack, g, h)
      BY DEF FrameInv, TypeInv, Promises, OwnInv
    <3> QED  BY <1>2, <1>3, <3>1
  <2>2. \A h \in Frames : frame'[h].vars = frame[h].vars /\ (Is(h, "created")' <=> Is(h, "created"))
    BY <1>3
  <2>3. OwnInv  BY DEF FrameInv
  <2> QED  BY <2>1, <2>2, <2>3, OwnKept
<1>8. ResumeInv'
  <2>1. \A h \in Frames : /\ Is(h, "suspended")' <=> Is(h, "suspended")
                          /\ Joining(h)' <=> Joining(h)
                          /\ \A k \in Frames : Awaits(h, k)' <=> Awaits(h, k)
    BY <1>2, <1>3 DEF Joining, Awaits
  <2> QED  BY <2>1, ResumeKept DEF FrameInv
<1>9. ArgInv' /\ FaultInv'
  <2>1. \A h \in Frames : frame[h].launched => frame'[h].launched  OBVIOUS
  <2> QED  BY <2>1, ArgSame DEF FrameInv, FaultInv
<1> QED  BY <1>4, <1>5, <1>6, <1>7, <1>8, <1>9 DEF FrameInv

\* It resumes who awaits it, or joins it.
LEMMA ReturnsTo ==
  ASSUME FrameInv, NEW x \in Contexts, NEW f \in Frames, Runs(x, f), NEW p \in Frames,
         NEW outcome \in {"value", "error"}, NEW G \in [Frames -> Promises],
         frame[f].prev \in {p, NoFrame}, Awaiting(p) \/ Joining(p),
         \A k \in Frames : Awaits(p, k) => k = f,
         G[f].life = "final", G[f].outcome = outcome, G[p].count = 0,
         \A h \in Frames :
            /\ h # f => G[h].life = frame[h].life /\ G[h].outcome = frame[h].outcome
            /\ h # p => G[h].count = frame[h].count
            /\ G[h].temp = frame[h].temp
            /\ G[h].vars = frame[h].vars /\ G[h].launched = frame[h].launched
            /\ G[h].home = frame[h].home /\ G[h].prev = frame[h].prev
            /\ G[h].parent = frame[h].parent /\ G[h].kids = frame[h].kids,
         NEW awaited, Resume(G, x, p, awaited), UNCHANGED <<born, queue, away, arg>>
  PROVE  /\ FrameInv' /\ Resumes(p, f) /\ frame'[f].outcome = outcome
         /\ fault' = IF awaited = "error" THEN "terminate" ELSE fault
<1>1. /\ Is(p, "suspended") /\ ~In(queue, p) /\ p \notin away /\ Apart(queue)
      /\ queue \in [Contexts -> Seq(Frames)]
  BY DEF FrameInv, TypeInv, ResumeInv
<1>2. /\ frame' = [G EXCEPT ![p].life = "running", ![p].temp = NoFrame]
      /\ stack' = Push(stack, x, p) /\ fault' = IF awaited = "error" THEN "terminate" ELSE fault
  BY <1>1, ResumeQuiet DEF FrameInv
<1>3. f # p  BY <1>1, RunsFacts DEF Is
<1>4. frame' \in [Frames -> Promises] /\ Resumes(p, f) /\ frame'[f].outcome = outcome
  <2>1. "running" \in Lives /\ NoFrame \in Handles /\ G[p] \in Promises
    BY DEF Lives, Handles
  <2>2. [G[p] EXCEPT !.life = "running", !.temp = NoFrame] \in Promises
    BY <2>1 DEF Promises
  <2>3. frame' \in [Frames -> Promises] /\ \A h \in Frames : h # p => frame'[h] = G[h]
    BY <1>2, <2>2
  <2>4. /\ frame'[p].life = "running" /\ frame'[p].temp = NoFrame /\ frame'[p].count = G[p].count
        /\ frame'[p].outcome = G[p].outcome /\ frame'[p].vars = G[p].vars
        /\ frame'[p].launched = G[p].launched /\ frame'[p].home = G[p].home
        /\ frame'[p].prev = G[p].prev /\ frame'[p].parent = G[p].parent
        /\ frame'[p].kids = G[p].kids
    BY <1>2, <2>1 DEF Promises
  <2>5. frame'[f] = G[f]  BY <1>3, <2>3
  <2> QED  BY <1>3, <2>3, <2>4, <2>5 DEF Resumes
<1>5. ArgInv'
  <2>1. \A h \in Frames : frame[h].launched => frame'[h].launched  BY <1>4 DEF Resumes
  <2> QED  BY <2>1, ArgSame DEF FrameInv
<1>6. \A h \in Frames : In(queue', h) <=> In(queue, h) /\ h # p
  BY <1>1
<1>7. away' = away \ {p} /\ UNCHANGED <<born, arg>> /\ fault' \in {fault, "terminate"}
  BY <1>1, <1>2
<1>8. f \in Handles /\ f # NoFrame
  BY FrameAssumption DEF Handles, Frames, NoFrame
<1>9. queue' \in [Contexts -> Seq(Frames)] /\ Apart(queue')
  BY <1>1
<1> QED  BY <1>1, <1>2, <1>4, <1>5, <1>6, <1>7, <1>8, <1>9, ResumesInv

LEMMA ReturnInv ==
  ASSUME FrameInv, NEW x \in Contexts, NEW f \in Frames, NEW outcome \in {"value", "error"},
         Return(x, f, outcome)
  PROVE  /\ FrameInv'
         /\ \/ Returned(f, outcome) /\ fault' = fault
            \/ Returned(f, outcome) /\ fault' = "terminate" /\ outcome = "error" /\ frame[f].prev # NoFrame
            \/ Quiet /\ fault' = "race" /\ Races(x, frame[f].parent)
<1> DEFINE F == [frame EXCEPT ![f].life = "final", ![f].outcome = outcome]
           prev == frame[f].prev
           parent == frame[f].parent
           count == frame[parent].count
           joins == prev = NoFrame /\ parent # NoFrame /\ Listening(count)
           G == [F EXCEPT ![parent].count = CountAfter(count, outcome),
                          ![parent].threads = @ \cup {x}]
<1>1. /\ Runs(x, f) /\ UNCHANGED <<born, queue, away, arg>>
      /\ \/ prev # NoFrame /\ Resume(F, x, prev, outcome)
         \/ prev = NoFrame /\ Races(x, parent) /\ fault' = "race" /\ UNCHANGED <<frame, stack>>
         \/ joins /\ JoinEnds(count, outcome) /\ Resume(G, x, parent, "none")
         \/ joins /\ ~JoinEnds(count, outcome) /\ frame' = G /\ UNCHANGED <<stack, fault>>
         \/ prev = NoFrame /\ ~joins /\ frame' = F /\ UNCHANGED <<stack, fault>>
  BY DEF Return
<1>2. /\ Is(f, "running") /\ Started(f) /\ prev \in Handles /\ parent \in Handles
      /\ \A h \in Frames : frame[h] \in Promises
      /\ Handles = Frames \cup {NoFrame}
  BY <1>1, RunsFacts DEF FrameInv, TypeInv, Promises, Handles
<1>3. /\ F \in [Frames -> Promises] /\ F[f].life = "final" /\ F[f].outcome = outcome
      /\ \A h \in Frames :
            /\ h # f => F[h].life = frame[h].life /\ F[h].outcome = frame[h].outcome
            /\ F[h].count = frame[h].count /\ F[h].temp = frame[h].temp
            /\ F[h].vars = frame[h].vars /\ F[h].launched = frame[h].launched
            /\ F[h].home = frame[h].home /\ F[h].prev = frame[h].prev
            /\ F[h].parent = frame[h].parent /\ F[h].kids = frame[h].kids
  <2>1. "final" \in Lives /\ outcome \in Outcomes /\ frame[f] \in Promises
    BY <1>2 DEF Lives, Outcomes
  <2>2. [frame[f] EXCEPT !.life = "final", !.outcome = outcome] \in Promises
    BY <2>1 DEF Promises
  <2>3. frame \in [Frames -> Promises]  BY DEF FrameInv, TypeInv
  <2>4. /\ F \in [Frames -> Promises] /\ \A h \in Frames : h # f => F[h] = frame[h]
        /\ F[f] = [frame[f] EXCEPT !.life = "final", !.outcome = outcome]
    BY <2>2, <2>3
  <2> HIDE DEF F
  <2>5. /\ F[f].life = "final" /\ F[f].outcome = outcome
        /\ F[f].count = frame[f].count /\ F[f].temp = frame[f].temp
        /\ F[f].vars = frame[f].vars /\ F[f].launched = frame[f].launched
        /\ F[f].home = frame[f].home /\ F[f].prev = frame[f].prev
        /\ F[f].parent = frame[f].parent /\ F[f].kids = frame[f].kids
    BY <2>1, <2>4 DEF Promises
  <2> QED  BY <2>4, <2>5
<1> HIDE DEF F
<1>4. joins => /\ parent \in Frames /\ Joining(parent) /\ count \in Nat /\ count # 0 /\ prev = NoFrame
               /\ CountAfter(count, outcome) \in Nat
               /\ JoinEnds(count, outcome) => CountAfter(count, outcome) = 0
               /\ ~JoinEnds(count, outcome) => CountAfter(count, outcome) # 0
  <2>1. joins => parent \in Frames /\ count # 0 /\ prev = NoFrame
    BY <1>2 DEF Listening
  <2>2. joins => count \in Nat  BY <1>2, <2>1 DEF Promises
  <2> QED  BY <2>1, <2>2 DEF Joining, CountAfter, JoinEnds
<1>5. joins =>
        /\ G \in [Frames -> Promises] /\ G[f].life = "final" /\ G[f].outcome = outcome
        /\ G[parent].count = CountAfter(count, outcome)
        /\ \A h \in Frames :
            /\ h # f => G[h].life = frame[h].life /\ G[h].outcome = frame[h].outcome
            /\ h # parent => G[h].count = frame[h].count
            /\ G[h].temp = frame[h].temp
            /\ G[h].vars = frame[h].vars /\ G[h].launched = frame[h].launched
            /\ G[h].home = frame[h].home /\ G[h].prev = frame[h].prev
            /\ G[h].parent = frame[h].parent /\ G[h].kids = frame[h].kids
  <2> SUFFICES ASSUME joins PROVE
        /\ G \in [Frames -> Promises] /\ G[f].life = "final" /\ G[f].outcome = outcome
        /\ G[parent].count = CountAfter(count, outcome)
        /\ \A h \in Frames :
            /\ h # f => G[h].life = frame[h].life /\ G[h].outcome = frame[h].outcome
            /\ h # parent => G[h].count = frame[h].count
            /\ G[h].temp = frame[h].temp
            /\ G[h].vars = frame[h].vars /\ G[h].launched = frame[h].launched
            /\ G[h].home = frame[h].home /\ G[h].prev = frame[h].prev
            /\ G[h].parent = frame[h].parent /\ G[h].kids = frame[h].kids
    OBVIOUS
  <2> PICK p \in Frames : p = parent  BY <1>4
  <2> PICK n \in Nat : n = CountAfter(count, outcome)  BY <1>4
  <2> PICK t \in SUBSET Contexts : t = F[p].threads \cup {x}
    BY <1>3 DEF Promises
  <2>1. G = [F EXCEPT ![p].count = n, ![p].threads = t] /\ F[p] \in Promises  BY <1>3
  <2>2. [F[p] EXCEPT !.count = n, !.threads = t] \in Promises
    BY <2>1 DEF Promises
  <2>3. /\ G \in [Frames -> Promises] /\ \A h \in Frames : h # p => G[h] = F[h]
        /\ G[p] = [F[p] EXCEPT !.count = n, !.threads = t]
    BY <1>3, <2>1, <2>2
  <2> HIDE DEF G
  <2>4. /\ G[p].life = F[p].life /\ G[p].outcome = F[p].outcome
        /\ G[p].count = n /\ G[p].temp = F[p].temp
        /\ G[p].vars = F[p].vars /\ G[p].launched = F[p].launched
        /\ G[p].home = F[p].home /\ G[p].prev = F[p].prev
        /\ G[p].parent = F[p].parent /\ G[p].kids = F[p].kids
    BY <2>1, <2>3 DEF Promises
  <2>5. \A h \in Frames :
            /\ G[h].life = F[h].life /\ G[h].outcome = F[h].outcome
            /\ h # p => G[h].count = F[h].count
            /\ G[h].temp = F[h].temp
            /\ G[h].vars = F[h].vars /\ G[h].launched = F[h].launched
            /\ G[h].home = F[h].home /\ G[h].prev = F[h].prev
            /\ G[h].parent = F[h].parent /\ G[h].kids = F[h].kids
    <3> TAKE h \in Frames
    <3>1. CASE h = p  BY <2>4, <3>1
    <3>2. CASE h # p  BY <2>3, <3>2
    <3> QED  BY <3>1, <3>2
  <2>6. G[f].life = "final" /\ G[f].outcome = outcome /\ G[p].count = n
    BY <1>3, <2>4, <2>5
  <2>7. ASSUME NEW h \in Frames
        PROVE  /\ h # f => G[h].life = frame[h].life /\ G[h].outcome = frame[h].outcome
               /\ h # p => G[h].count = frame[h].count
               /\ G[h].temp = frame[h].temp
               /\ G[h].vars = frame[h].vars /\ G[h].launched = frame[h].launched
               /\ G[h].home = frame[h].home /\ G[h].prev = frame[h].prev
               /\ G[h].parent = frame[h].parent /\ G[h].kids = frame[h].kids
    <3>1. /\ G[h].life = F[h].life /\ G[h].outcome = F[h].outcome
          /\ h # p => G[h].count = F[h].count
          /\ G[h].temp = F[h].temp
          /\ G[h].vars = F[h].vars /\ G[h].launched = F[h].launched
          /\ G[h].home = F[h].home /\ G[h].prev = F[h].prev
          /\ G[h].parent = F[h].parent /\ G[h].kids = F[h].kids
      BY <2>5
    <3>2. /\ h # f => F[h].life = frame[h].life /\ F[h].outcome = frame[h].outcome
          /\ F[h].count = frame[h].count /\ F[h].temp = frame[h].temp
          /\ F[h].vars = frame[h].vars /\ F[h].launched = frame[h].launched
          /\ F[h].home = frame[h].home /\ F[h].prev = frame[h].prev
          /\ F[h].parent = frame[h].parent /\ F[h].kids = frame[h].kids
      BY <1>3
    <3> QED  BY <3>1, <3>2
  <2> QED  BY <2>3, <2>6, <2>7
<1> HIDE DEF G
<1>6. CASE prev # NoFrame /\ Resume(F, x, prev, outcome)
  <2>1. prev \in Frames  BY <1>2, <1>6
  <2>2. Awaits(prev, f)  BY <1>2 DEF Awaits
  <2>3. Awaiting(prev) /\ \A k \in Frames : Awaits(prev, k) => k = f
    BY <2>1, <2>2 DEF Awaiting, FrameInv, ResumeInv
  <2>4. F[prev].count = 0
    <3>1. ~Joining(prev)  BY <2>1, <2>3 DEF FrameInv, ResumeInv
    <3> QED  BY <1>3, <2>1, <3>1 DEF Joining
  <2>5. /\ FrameInv' /\ Resumes(prev, f) /\ frame'[f].outcome = outcome
        /\ fault' = IF outcome = "error" THEN "terminate" ELSE fault
    <3>1. Runs(x, f) /\ Resume(F, x, prev, outcome) /\ UNCHANGED <<born, queue, away, arg>>
      BY <1>1, <1>6
    <3>2. PICK p \in Frames : p = prev  BY <2>1
    <3>3. /\ frame[f].prev \in {p, NoFrame} /\ Awaiting(p) /\ F[p].count = 0
          /\ \A k \in Frames : Awaits(p, k) => k = f
      BY <2>3, <2>4, <3>2
    <3> HIDE DEF prev
    <3> QED  BY <1>3, <3>1, <3>2, <3>3, ReturnsTo
  <2>6. \A h \in Frames : ~Counts(f, h)  BY <1>6 DEF Counts
  <2>7. frame[prev].count = 0  BY <1>3, <2>1, <2>4
  <2>8. Returned(f, outcome)
    BY <1>2, <2>1, <2>3, <2>5, <2>6, <2>7 DEF Returned, Resumes, Joining, Started, Is, FrameInv, ResumeInv
  <2> QED  BY <1>6, <2>5, <2>8
<1>10. CASE prev = NoFrame /\ Races(x, parent) /\ fault' = "race" /\ UNCHANGED <<frame, stack>>
  <2>1. UNCHANGED <<born, frame, queue, stack, away, arg>>  BY <1>1, <1>10
  <2>2. Quiet
    BY <2>1 DEF Quiet, Kept, Joining, Started, Is, FrameInv, ResumeInv
  <2>3. FrameInv'
    BY <1>10, <2>1 DEF FrameInv, TypeInv, LifeInv, Stage, Started, OnStack, StackInv, OwnInv,
                       ResumeInv, Awaits, Awaiting, Joining, Is, ArgInv, FaultInv
  <2> QED  BY <1>10, <2>2, <2>3
<1>7. CASE joins /\ JoinEnds(count, outcome) /\ Resume(G, x, parent, "none")
  <2>1. parent \in Frames /\ Joining(parent) /\ G[parent].count = 0 /\ prev = NoFrame
    BY <1>4, <1>5, <1>7
  <2>2. \A k \in Frames : ~Awaits(parent, k)
    BY <2>1 DEF FrameInv, ResumeInv, Awaiting
  <2>3. FrameInv' /\ Resumes(parent, f) /\ frame'[f].outcome = outcome /\ fault' = fault
    BY <1>1, <1>5, <1>7, <2>1, <2>2, ReturnsTo
  <2>4. \A h \in Frames : Counts(f, h) <=> h = parent
    BY <2>1 DEF Counts
  <2>5. CountAfter(count, outcome) = 0  BY <1>4, <1>7
  <2>6. Returned(f, outcome)
    BY <1>2, <1>7, <2>1, <2>3, <2>4, <2>5 DEF Returned, Resumes, Joining, Started, Is, FrameInv, ResumeInv
  <2> QED  BY <2>3, <2>6
<1>8. CASE joins /\ ~JoinEnds(count, outcome) /\ frame' = G /\ UNCHANGED <<stack, fault>>
  <2>1. Finishes(f) /\ frame' \in [Frames -> Promises]
    BY <1>2, <1>4, <1>5, <1>8 DEF Finishes, Is
  <2>2. \A h \in Frames : Counts(f, h) <=> h = parent
    BY <1>4, <1>8 DEF Counts
  <2>3. Returned(f, outcome)
    BY <1>2, <1>4, <1>5, <1>8, <2>1, <2>2
       DEF Returned, Finishes, Joining, Started, Is, FrameInv, ResumeInv
  <2> QED  BY <1>1, <1>4, <1>8, <2>1, <2>3, FinishesInv
<1>9. CASE prev = NoFrame /\ ~joins /\ frame' = F /\ UNCHANGED <<stack, fault>>
  <2>1. Finishes(f) /\ frame' \in [Frames -> Promises]
    BY <1>2, <1>3, <1>9 DEF Finishes, Is
  <2>2. \A h \in Frames : ~Counts(f, h)
    <3>1. \A h \in Frames : h # NoFrame  BY FrameAssumption DEF Frames, NoFrame
    <3> QED  BY <1>9, <3>1 DEF Counts, Joining, Listening
  <2>3. Returned(f, outcome)
    BY <1>2, <1>3, <1>9, <2>1, <2>2
       DEF Returned, Finishes, Joining, Started, Is, FrameInv, ResumeInv
  <2> QED  BY <1>1, <1>9, <2>1, <2>3, FinishesInv
<1> QED  BY <1>1, <1>6, <1>7, <1>8, <1>9, <1>10

(***************************************************************************)
(* co_await.                                                               *)
(***************************************************************************)
LEMMA AwaitInv ==
  ASSUME FrameInv, NEW x \in Contexts, NEW f \in Frames, NEW g \in frame[f].vars,
         NEW temporary \in BOOLEAN, Await(x, f, g, temporary)
  PROVE  FrameInv' /\ Awaited(f, g)
<1> USE DEF Is
<1>1. /\ Runs(x, f) /\ MaySuspend(f) /\ g \in Unlaunched(frame[f].vars) /\ g \in Frames
      /\ frame' = [Launched(frame, g, x) EXCEPT
                    ![g].prev = f,
                    ![f].life = "suspended",
                    ![f].temp = IF temporary THEN g ELSE NoFrame,
                    ![f].vars = IF temporary THEN @ \ {g} ELSE @]
      /\ queue' = Push(queue, x, g) /\ Pop(x) /\ UNCHANGED <<born, away, arg, fault>>
  BY DEF Await, FrameInv, TypeInv, Promises
<1>2. /\ stack[x] # <<>> /\ f = Last(stack[x]) /\ Is(f, "running") /\ frame[f].launched
      /\ frame[f].outcome = "none" /\ frame[f].home \in Contexts /\ frame[f].temp = NoFrame
      /\ ~In(queue, f) /\ f \notin away /\ ~Awaiting(f) /\ ~Joining(f)
  BY <1>1, RunsFacts
<1>3. Is(g, "created") /\ g # f
  <2>1. frame[f].vars \in SUBSET Frames /\ \A k \in frame[f].vars : ~Is(k, "none")
    BY DEF FrameInv, TypeInv, Promises, OwnInv
  <2>2. Is(g, "created")  BY <1>1, <2>1, UnlaunchedCreated DEF FrameInv
  <2> QED  BY <1>2, <2>2
<1>4. /\ frame[g].prev = NoFrame /\ frame[g].parent = NoFrame /\ frame[g].count = 0
      /\ frame[g].kids = {} /\ frame[g].temp = NoFrame /\ frame[g].outcome = "none"
      /\ ~Started(g) /\ ~OnStack(g) /\ ~Is(g, "final")
      /\ ~In(queue, g) /\ g \notin away /\ ~Awaiting(g) /\ ~Joining(g)
  <2>1. /\ frame[g].prev = NoFrame /\ frame[g].parent = NoFrame /\ frame[g].count = 0
        /\ frame[g].kids = {} /\ frame[g].temp = NoFrame /\ frame[g].outcome = "none"
    BY <1>1, <1>3 DEF FrameInv, LifeInv, Stage
  <2>2. ~Started(g) /\ ~OnStack(g) /\ ~Is(g, "final") /\ ~Is(g, "suspended")
    BY <1>3 DEF Started, OnStack
  <2> QED  BY <1>1, <2>1, <2>2 DEF FrameInv, ResumeInv
<1>5. /\ frame' \in [Frames -> Promises]
      /\ frame'[g].life = "suspended" /\ frame'[g].launched /\ frame'[g].home = x
      /\ frame'[g].prev = f /\ frame'[f].life = "suspended" /\ frame'[f].temp \in {g, NoFrame}
      /\ \/ temporary /\ frame'[f].vars = frame[f].vars \ {g}
         \/ frame'[f].vars = frame[f].vars
      /\ \A h \in Frames :
           /\ h # g => frame'[h].launched = frame[h].launched /\ frame'[h].home = frame[h].home
                       /\ frame'[h].prev = frame[h].prev
           /\ h # f => frame'[h].temp = frame[h].temp /\ frame'[h].vars = frame[h].vars
           /\ h # f /\ h # g => frame'[h].life = frame[h].life
           /\ frame'[h].outcome = frame[h].outcome /\ frame'[h].parent = frame[h].parent
           /\ frame'[h].count = frame[h].count /\ frame'[h].kids = frame[h].kids
  <2> DEFINE new == [frame[g] EXCEPT !.launched = TRUE, !.life = "suspended", !.home = x, !.prev = f]
             old == [frame[f] EXCEPT !.life = "suspended",
                                     !.temp = IF temporary THEN g ELSE NoFrame,
                                     !.vars = IF temporary THEN @ \ {g} ELSE @]
  <2>1. frame \in [Frames -> Promises] /\ frame[f] \in Promises /\ frame[g] \in Promises
    BY <1>1 DEF FrameInv, TypeInv
  <2>2. "suspended" \in Lives /\ f \in Handles /\ g \in Handles /\ NoFrame \in Handles
    BY <1>1 DEF Lives, Handles
  <2>3. /\ new \in Promises
        /\ new.life = "suspended" /\ new.launched /\ new.home = x /\ new.prev = f
        /\ new.temp = frame[g].temp /\ new.vars = frame[g].vars /\ new.outcome = frame[g].outcome
        /\ new.parent = frame[g].parent /\ new.count = frame[g].count /\ new.kids = frame[g].kids
    BY <2>1, <2>2 DEF Promises
  <2>4. /\ old \in Promises
        /\ old.life = "suspended" /\ old.launched = frame[f].launched /\ old.home = frame[f].home
        /\ old.prev = frame[f].prev /\ old.temp \in {g, NoFrame}
        /\ \/ temporary /\ old.vars = frame[f].vars \ {g}
           \/ old.vars = frame[f].vars
        /\ old.outcome = frame[f].outcome
        /\ old.parent = frame[f].parent /\ old.count = frame[f].count /\ old.kids = frame[f].kids
    <3>1. CASE temporary  BY <2>1, <2>2, <3>1 DEF Promises
    <3>2. CASE ~temporary  BY <2>1, <2>2, <3>2 DEF Promises
    <3> QED  BY <3>1, <3>2
  <2>5. frame' = [frame EXCEPT ![g] = new, ![f] = old]
    BY <1>1, <1>3, <2>1 DEF Launched
  <2> HIDE DEF new, old
  <2>6. /\ frame' \in [Frames -> Promises] /\ frame'[g] = new /\ frame'[f] = old
        /\ \A h \in Frames : h # f /\ h # g => frame'[h] = frame[h]
    <3>1. [frame EXCEPT ![g] = new] \in [Frames -> Promises]  BY <2>1, <2>3
    <3> PICK H \in [Frames -> Promises] : H = [frame EXCEPT ![g] = new]  BY <3>1
    <3>2. H[g] = new /\ \A h \in Frames : h # g => H[h] = frame[h]  BY <1>1, <2>1
    <3>3. frame' = [H EXCEPT ![f] = old]  BY <2>5
    <3>4. old \in Promises /\ g # f /\ g \in Frames  BY <1>1, <1>3, <2>4
    <3>5. frame' \in [Frames -> Promises] /\ frame'[f] = old
          /\ \A h \in Frames : h # f => frame'[h] = H[h]
      BY <3>3, <3>4
    <3> QED  BY <3>2, <3>4, <3>5
  <2> QED  BY <1>3, <2>3, <2>4, <2>6
<1>6. \A h \in Frames : /\ Started(h)' <=> Started(h) \/ h = g
                        /\ OnStack(h)' <=> OnStack(h) /\ h # f
                        /\ Is(h, "suspended")' <=> Is(h, "suspended") \/ h = g \/ h = f
                        /\ Is(h, "created")' <=> Is(h, "created") /\ h # g
  BY <1>2, <1>3, <1>4, <1>5 DEF Started, OnStack
<1>7. TypeInv'
  <2>1. stack' \in [Contexts -> Seq(Frames)]
    BY <1>1, <1>2, FrontQueue DEF Pop, FrameInv, TypeInv
  <2>2. queue' \in [Contexts -> Seq(Frames)]
    BY <1>1, PushFacts DEF FrameInv, TypeInv
  <2> QED  BY <1>1, <1>5, <2>1, <2>2 DEF FrameInv, TypeInv
<1>8. LifeInv'
  <2>1. ASSUME NEW h \in Frames, h # f, h # g PROVE Stage(h)'
    <3>1. frame[h].temp # NoFrame =>
             frame[h].temp \in Frames /\ Started(frame[h].temp) /\ frame[frame[h].temp].prev = h
      BY DEF FrameInv, TypeInv, LifeInv, Stage, Promises, Handles
    <3>2. frame[h].temp # NoFrame => frame[h].temp # g
      BY <1>4, <3>1
    <3>3. frame[h].temp # NoFrame => frame'[frame[h].temp].life \in {"suspended", "running"}
      BY <1>5, <3>1, <3>2 DEF Started
    <3>4. Stage(h) /\ (h > born' <=> h > born)  BY <1>1 DEF FrameInv, LifeInv
    <3> QED  BY <1>5, <2>1, <3>1, <3>2, <3>3, <3>4, StageKept
  <2>2. Stage(f)'
    <3>1. Stage(f)  BY DEF FrameInv, LifeInv
    <3>2. Started(g)' /\ frame'[g].prev = f  BY <1>1, <1>5, <1>6
    <3>3. ~(f > born')  BY <1>1, <1>2, <3>1 DEF Stage
    <3>4. /\ frame'[f].life = "suspended" /\ frame'[f].launched /\ frame'[f].home \in Contexts
          /\ frame'[f].outcome = "none"
      BY <1>2, <1>3, <1>5
    <3>5. frame'[f].temp # NoFrame => Started(g)' /\ frame'[g].prev = f /\ frame'[f].temp = g
      BY <1>5, <3>2
    <3> QED  BY <3>3, <3>4, <3>5 DEF Stage, Started
  <2>3. Stage(g)'
    <3>1. Stage(g)  BY <1>1 DEF FrameInv, LifeInv
    <3> QED  BY <1>1, <1>3, <1>4, <1>5, <3>1 DEF Stage, Started
  <2> QED  BY <2>1, <2>2, <2>3 DEF LifeInv
<1>9. StackInv' /\ \A h, k \in Frames : Below(stack, k, h) /\ OnStack(h)' => Below(stack', k, h)
  <2>1. StillFinal(Frames \ {Last(stack[x])})  BY <1>2, <1>4, <1>5 DEF StillFinal
  <2>2. \A h \in Frames : OnStack(h)' <=> OnStack(h) /\ h # Last(stack[x])  BY <1>2, <1>6
  <2>3. TypeInv /\ StackInv  BY DEF FrameInv
  <2> QED  BY <1>1, <1>2, <2>1, <2>2, <2>3, StackPopped
<1>10. OwnInv'
  <2>0. \A h \in Frames : frame'[h].vars \subseteq frame[h].vars
    BY <1>5
  <2>1. \A k \in frame[f].vars : ~Outlive => ~frame[k].launched
    BY <1>1 DEF MaySuspend, Unlaunched
  <2>2. ASSUME NEW h \in Frames, NEW k \in frame'[h].vars
        PROVE  /\ frame'[k].life # "none" /\ (~Outlive => frame'[k].life # "gone")
               /\ frame'[k].life = "gone" => frame'[k].launched
               /\ frame'[h].life = "created" => frame'[k].life = "created" /\ k < h
               /\ ~Outlive /\ frame'[k].launched /\ Is(h, "suspended")' => Started(k)' /\ frame'[k].prev = h
               /\ ~Outlive /\ frame'[k].launched /\ OnStack(h)' => Below(stack', k, h)
    <3>1. k \in frame[h].vars /\ k \in Frames
      BY <2>0, <2>2 DEF FrameInv, TypeInv, Promises
    <3>2. /\ frame[k].life # "none" /\ (~Outlive => frame[k].life # "gone")
          /\ frame[k].life = "gone" => frame[k].launched
          /\ frame[h].life = "created" => frame[k].life = "created" /\ k < h
          /\ ~Outlive /\ frame[k].launched /\ Is(h, "suspended") => Started(k) /\ frame[k].prev = h
          /\ ~Outlive /\ frame[k].launched /\ OnStack(h) => Below(stack, k, h)
          /\ k = g => h = f
      BY <1>1, <3>1 DEF FrameInv, OwnInv
    <3>3. CASE k = g
      <4>1. h = f  BY <3>2, <3>3
      <4>2. Started(g)' /\ ~OnStack(f)' /\ frame'[g].life = "suspended" /\ frame'[g].prev = f
            /\ frame'[f].life = "suspended"
        BY <1>1, <1>5, <1>6
      <4> QED  BY <3>3, <4>1, <4>2
    <3>4. CASE k # g /\ h = f
      <4>1. ~Outlive => ~frame'[k].launched  BY <1>5, <2>1, <3>1, <3>4
      <4>2. frame'[k].life # "none" /\ (~Outlive => frame'[k].life # "gone")
            /\ (frame'[k].life = "gone" => frame'[k].launched)  BY <1>5, <3>1, <3>2, <3>4
      <4> QED  BY <1>5, <3>4, <4>1, <4>2
    <3>5. CASE k # g /\ h = g
      <4>1. frame[k].life = "created" /\ k # f  BY <1>2, <1>3, <3>2, <3>5
      <4>2. ~frame[k].launched  BY <3>1, <4>1 DEF FrameInv, LifeInv, Stage
      <4>3. ~frame'[k].launched /\ frame'[k].life = "created"  BY <1>5, <3>1, <3>5, <4>1, <4>2
      <4> QED  BY <1>5, <3>5, <4>3
    <3>6. CASE k # g /\ h # f /\ h # g
      <4>1. frame'[h].life = frame[h].life /\ frame'[k].launched = frame[k].launched
            /\ frame'[k].prev = frame[k].prev
        BY <1>5, <3>1, <3>6
      <4>2. k = f => frame'[k].life = "suspended" /\ frame[k].life # "created"
        BY <1>2, <1>5
      <4>3. k # f => frame'[k].life = frame[k].life
        BY <1>5, <3>1, <3>6
      <4>4. ~Outlive /\ frame'[k].launched /\ OnStack(h)' => Below(stack', k, h)
        BY <1>6, <1>9, <3>1, <3>2, <4>1
      <4>5. Started(k) => Started(k)'  BY <1>6, <3>1
      <4> QED  BY <3>2, <4>1, <4>2, <4>3, <4>4, <4>5
    <3> QED  BY <3>3, <3>4, <3>5, <3>6
  <2>3. ASSUME NEW h \in Frames, NEW i \in Frames, NEW k \in frame'[h].vars, k \in frame'[i].vars
        PROVE  h = i
    <3>1. k \in frame[h].vars /\ k \in frame[i].vars  BY <2>0, <2>3
    <3> QED  BY <3>1 DEF FrameInv, OwnInv
  <2>4. ASSUME ~Overwrite, NEW k \in Frames, frame'[k].life = "created"
        PROVE  \E h \in Frames : k \in frame'[h].vars
    <3>1. k # g /\ frame[k].life = "created"  BY <1>6, <2>4
    <3>2. PICK h \in Frames : k \in frame[h].vars
      BY <2>4, <3>1 DEF FrameInv, OwnInv
    <3>3. k \in frame'[h].vars  BY <1>5, <3>1, <3>2
    <3> QED  BY <3>3
  <2> QED  BY <2>2, <2>3, <2>4 DEF OwnInv
<1>11. ResumeInv'
  <2>1. /\ \A h \in Frames : In(queue', h) <=> In(queue, h) \/ h = g
        /\ Apart(queue) /\ ~In(queue, g) => Apart(queue')
    BY <1>1, PushFacts DEF FrameInv, TypeInv
  <2>2. \A h, k \in Frames : Awaits(h, k)' <=> Awaits(h, k) \/ (h = f /\ k = g)
    BY <1>4, <1>5, <1>6 DEF Awaits
  <2>3. \A h \in Frames : Awaiting(h)' <=> Awaiting(h) \/ h = f
    BY <1>1, <2>2 DEF Awaiting
  <2>4. \A h \in Frames : Joining(h)' <=> Joining(h)
    BY <1>5 DEF Joining
  <2>5. \A k \in Frames : ~Awaits(f, k)
    BY <1>2 DEF Awaiting
  <2>6. ResumeInv /\ away' = away  BY <1>1 DEF FrameInv
  <2>7. ASSUME NEW h \in Frames
        PROVE  /\ In(queue', h) \/ h \in away' \/ Awaiting(h)' \/ Joining(h)' => Is(h, "suspended")'
               /\ ~JoinNothing /\ Is(h, "suspended")' =>
                     In(queue', h) \/ h \in away' \/ Awaiting(h)' \/ Joining(h)'
               /\ In(queue', h) => h \notin away' /\ ~Awaiting(h)' /\ ~Joining(h)'
               /\ h \in away' => ~Awaiting(h)' /\ ~Joining(h)'
               /\ Awaiting(h)' => ~Joining(h)'
    <3>1. /\ In(queue, h) \/ h \in away \/ Awaiting(h) \/ Joining(h) => Is(h, "suspended")
          /\ ~JoinNothing /\ Is(h, "suspended") =>
                In(queue, h) \/ h \in away \/ Awaiting(h) \/ Joining(h)
          /\ In(queue, h) => h \notin away /\ ~Awaiting(h) /\ ~Joining(h)
          /\ h \in away => ~Awaiting(h) /\ ~Joining(h)
          /\ Awaiting(h) => ~Joining(h)
      BY DEF FrameInv, ResumeInv
    <3>2. Is(h, "suspended")' <=> Is(h, "suspended") \/ h = g \/ h = f  BY <1>6
    <3>3. /\ In(queue', h) <=> In(queue, h) \/ h = g
          /\ Awaiting(h)' <=> Awaiting(h) \/ h = f
          /\ Joining(h)' <=> Joining(h)
          /\ h \in away' <=> h \in away
      BY <2>1, <2>3, <2>4, <2>6
    <3> QED  BY <1>2, <1>3, <1>4, <3>1, <3>2, <3>3
  <2>8. \A h, k, l \in Frames : Awaits(h, k)' /\ Awaits(h, l)' => k = l
    BY <2>2, <2>5, <2>6 DEF ResumeInv
  <2>9. Apart(queue')  BY <1>4, <2>1, <2>6 DEF ResumeInv
  <2> QED  BY <2>7, <2>8, <2>9 DEF ResumeInv
<1>12. ArgInv' /\ FaultInv'
  <2>1. ArgInv'
    <3>1. \A y \in Contexts : arg'[y] \in {arg[y], NoFrame}  BY <1>1
    <3>2. \A h \in Frames : frame[h].launched => frame'[h].launched  BY <1>5
    <3> QED  BY <1>1, <3>1, <3>2, ArgKept DEF FrameInv
  <2> QED  BY <1>1, <2>1 DEF FrameInv, FaultInv
<1>13. Awaited(f, g)
  <2>1. \A h \in Frames : Joining(h) => Is(h, "suspended")
    BY DEF FrameInv, ResumeInv
  <2>2. ASSUME NEW h \in Frames PROVE Kept(h)
    <3>1. /\ frame'[h].parent = frame[h].parent /\ frame'[h].kids = frame[h].kids
          /\ frame'[h].count = frame[h].count /\ frame'[h].outcome = frame[h].outcome
          /\ frame[h].launched => frame'[h].launched
      BY <1>5
    <3>2. /\ frame'[h].life = frame[h].life \/ frame'[h].life = "suspended"
          /\ frame'[h].life = frame[h].life \/ frame[h].life \in {"running", "created"}
      BY <1>2, <1>3, <1>5
    <3> QED  BY <2>1, <3>1, <3>2 DEF Kept, Started
  <2>3. ASSUME NEW h \in Frames, h # g
        PROVE  frame'[h].prev = frame[h].prev /\ (Started(h)' => Started(h))
    BY <1>2, <1>5, <2>3 DEF Started
  <2> QED  BY <1>1, <1>2, <1>3, <1>5, <2>2, <2>3 DEF Awaited
<1> QED  BY <1>7, <1>8, <1>9, <1>10, <1>11, <1>12, <1>13 DEF FrameInv

(***************************************************************************)
(* join().                                                                 *)
(***************************************************************************)
LEMMA FramesFinite ==
  IsFiniteSet(Frames) /\ \A S \in SUBSET Frames : IsFiniteSet(S) /\ Cardinality(S) \in Nat
<1>1. IsFiniteSet(Frames)
  BY FrameAssumption, FS_Interval DEF Frames
<1> QED  BY <1>1, FS_Subset, FS_CardinalityType

LEMMA OrderFacts ==
  ASSUME NEW K \in SUBSET Frames, NEW order \in SetToSeqs(K)
  PROVE  order \in Seq(Frames) /\ ToSet(order) = K /\ Distinct(order)
<1> PICK n \in Nat : n = Cardinality(K)  BY FramesFinite
<1>1. order \in [1 .. n -> K] /\ \A i, j \in 1 .. n : i # j => order[i] # order[j]
  BY DEF SetToSeqs
<1>2. order \in Injection(1 .. n, K)
  BY <1>1 DEF Injection, IsInjective
<1>3. Cardinality(1 .. n) = n
  BY FS_Interval
<1>4. order \in Surjection(1 .. n, K)
  BY <1>2, <1>3, FramesFinite, FS_Injection
<1>5. \A k \in K : \E i \in 1 .. n : order[i] = k
  BY <1>4 DEF Surjection
<1>6. order \in Seq(Frames)
  BY <1>1
<1> QED  BY <1>1, <1>5, <1>6 DEF ToSet, Distinct

Joined(q, x, t) == [q EXCEPT ![x] = @ \o t]

LEMMA JoinQueued ==
  ASSUME NEW q \in [Contexts -> Seq(Frames)], NEW x \in Contexts, NEW t \in Seq(Frames)
  PROVE  /\ Joined(q, x, t) \in [Contexts -> Seq(Frames)]
         /\ ToSet(Joined(q, x, t)[x]) = ToSet(q[x]) \cup ToSet(t)
         /\ \A y \in Contexts : y # x => Joined(q, x, t)[y] = q[y]
         /\ \A g \in Frames : In(Joined(q, x, t), g) <=> In(q, g) \/ g \in ToSet(t)
         /\ Apart(q) /\ Distinct(t) /\ (\A g \in ToSet(t) : ~In(q, g)) => Apart(Joined(q, x, t))
<1> DEFINE p == Joined(q, x, t)
<1>1. q[x] \in Seq(Frames)  OBVIOUS
<1>2. /\ q[x] \o t \in Seq(Frames)
      /\ ToSet(q[x] \o t) = ToSet(q[x]) \cup ToSet(t)
      /\ Distinct(q[x] \o t) <=> Distinct(q[x]) /\ Distinct(t) /\ ToSet(q[x]) \cap ToSet(t) = {}
  BY <1>1, JoinQueues
<1>3. /\ p \in [Contexts -> Seq(Frames)] /\ p[x] = q[x] \o t
      /\ \A y \in Contexts : y # x => p[y] = q[y]
  BY <1>2 DEF Joined
<1> HIDE DEF p
<1>4. \A g \in Frames : In(p, g) <=> In(q, g) \/ g \in ToSet(t)
  BY <1>2, <1>3 DEF In
<1>5. ASSUME Apart(q), Distinct(t), \A g \in ToSet(t) : ~In(q, g) PROVE Apart(p)
  BY <1>2, <1>3, <1>5 DEF Apart, In
<1> QED  BY <1>2, <1>3, <1>4, <1>5 DEF p

\* Without arguments nobody is left to resume it.
LEMMA JoinInv ==
  ASSUME FrameInv, NEW x \in Contexts, NEW f \in Frames, frame[f].kids = {}, Join(x, f)
  PROVE  FrameInv' /\ Gathered(f, Unlaunched(frame[f].vars))
<1> USE DEF Is
<1> DEFINE K == Unlaunched(frame[f].vars)
<1>1. /\ Runs(x, f) /\ (K = {} => JoinNothing) /\ K = frame[f].vars /\ K \in SUBSET Frames
      /\ frame' = [g \in Frames |->
                  CASE g \in K -> [frame[g] EXCEPT !.launched = TRUE, !.life = "suspended",
                                                   !.home = x, !.parent = f]
                    [] g = f -> [frame[f] EXCEPT !.life = "suspended", !.vars = {},
                                                 !.kids = K, !.count = Cardinality(K)]
                    [] OTHER -> frame[g]]
      /\ \E order \in SetToSeqs(K) : queue' = [queue EXCEPT ![x] = @ \o order]
      /\ Pop(x) /\ UNCHANGED <<born, away, arg, fault>>
  <2>1. K \in SUBSET Frames  BY DEF FrameInv, TypeInv, Promises, Unlaunched
  <2> QED  BY <2>1 DEF Join
<1>0. \A g \in frame[f].vars : g \in K <=> g \in Unlaunched(frame[f].vars)  OBVIOUS
<1> HIDE DEF K
<1>2. /\ stack[x] # <<>> /\ f = Last(stack[x]) /\ Is(f, "running") /\ frame[f].launched
      /\ frame[f].outcome = "none" /\ frame[f].home \in Contexts /\ frame[f].temp = NoFrame
      /\ ~In(queue, f) /\ f \notin away /\ ~Awaiting(f) /\ ~Joining(f)
  BY <1>1, RunsFacts
<1>3. \A g \in K : g \in Frames /\ Is(g, "created") /\ g # f
  <2>1. K \in SUBSET Frames /\ \A k \in K : ~Is(k, "none")
    BY <1>1 DEF FrameInv, OwnInv
  <2>2. \A g \in K : g \in Unlaunched(K)  BY <1>0, <1>1
  <2>3. \A g \in K : Is(g, "created")  BY <2>1, <2>2, UnlaunchedCreated DEF FrameInv
  <2> QED  BY <1>2, <2>1, <2>3
<1>4. ASSUME NEW g \in K
      PROVE  /\ frame[g].prev = NoFrame /\ frame[g].count = 0
             /\ frame[g].kids = {} /\ frame[g].temp = NoFrame /\ frame[g].outcome = "none"
             /\ ~Started(g) /\ ~OnStack(g) /\ ~Is(g, "final")
             /\ ~In(queue, g) /\ g \notin away /\ ~Awaiting(g) /\ ~Joining(g)
  <2>1. /\ frame[g].prev = NoFrame /\ frame[g].count = 0
        /\ frame[g].kids = {} /\ frame[g].temp = NoFrame /\ frame[g].outcome = "none"
    BY <1>3 DEF FrameInv, LifeInv, Stage
  <2>2. ~Started(g) /\ ~OnStack(g) /\ ~Is(g, "final") /\ ~Is(g, "suspended")
    BY <1>3 DEF Started, OnStack
  <2> QED  BY <1>3, <2>1, <2>2 DEF FrameInv, ResumeInv
<1> PICK c \in Nat : c = Cardinality(K)
  BY <1>1, FramesFinite
<1>14. c = 0 => JoinNothing
  BY <1>1, FramesFinite, FS_EmptySet
<1>5. /\ frame' \in [Frames -> Promises]
      /\ \A h \in K : /\ frame'[h].life = "suspended" /\ frame'[h].launched /\ frame'[h].home = x
                      /\ frame'[h].parent = f
      /\ frame'[f].life = "suspended" /\ frame'[f].vars = {} /\ frame'[f].kids = K
      /\ frame'[f].count = c
      /\ \A h \in Frames :
           /\ h \notin K => /\ frame'[h].launched = frame[h].launched /\ frame'[h].home = frame[h].home
                            /\ frame'[h].parent = frame[h].parent
           /\ h # f => /\ frame'[h].vars = frame[h].vars /\ frame'[h].kids = frame[h].kids
                       /\ frame'[h].count = frame[h].count
           /\ h # f /\ h \notin K => frame'[h].life = frame[h].life
           /\ frame'[h].outcome = frame[h].outcome /\ frame'[h].prev = frame[h].prev
           /\ frame'[h].temp = frame[h].temp
  <2>1. \A h \in Frames : frame[h] \in Promises  BY DEF FrameInv, TypeInv
  <2>2. "suspended" \in Lives /\ f \in Handles BY DEF Lives, Handles
  <2>3. f \notin K  BY <1>3
  <2>4. ASSUME NEW h \in K
        PROVE  /\ frame'[h] \in Promises /\ frame'[h].life = "suspended" /\ frame'[h].launched
               /\ frame'[h].home = x /\ frame'[h].parent = f /\ frame'[h].vars = frame[h].vars
               /\ frame'[h].kids = frame[h].kids /\ frame'[h].count = frame[h].count
               /\ frame'[h].outcome = frame[h].outcome /\ frame'[h].prev = frame[h].prev
               /\ frame'[h].temp = frame[h].temp
    <3>1. frame'[h] = [frame[h] EXCEPT !.launched = TRUE, !.life = "suspended", !.home = x, !.parent = f]
          /\ frame[h] \in Promises
      BY <1>1, <1>3, <2>1
    <3> QED  BY <2>2, <3>1 DEF Promises
  <2>5. /\ frame'[f] \in Promises /\ frame'[f].life = "suspended" /\ frame'[f].vars = {}
        /\ frame'[f].kids = K /\ frame'[f].count = c
        /\ frame'[f].launched = frame[f].launched /\ frame'[f].home = frame[f].home
        /\ frame'[f].parent = frame[f].parent /\ frame'[f].outcome = frame[f].outcome
        /\ frame'[f].prev = frame[f].prev /\ frame'[f].temp = frame[f].temp
    <3>1. frame'[f] = [frame[f] EXCEPT !.life = "suspended", !.vars = {}, !.kids = K, !.count = c]
          /\ frame[f] \in Promises
      BY <1>1, <2>1, <2>3
    <3>2. frame'[f] \in Promises  BY <1>1, <2>2, <3>1 DEF Promises
    <3> QED  BY <3>1, <3>2 DEF Promises
  <2>6. \A h \in Frames : h # f /\ h \notin K => frame'[h] = frame[h]
    BY <1>1
  <2>7. \A h \in Frames : frame'[h] \in Promises
    BY <2>1, <2>4, <2>5, <2>6
  <2>8. frame' \in [Frames -> Promises]
    <3> DEFINE Next1(g) ==
                  CASE g \in K -> [frame[g] EXCEPT !.launched = TRUE, !.life = "suspended",
                                                   !.home = x, !.parent = f]
                    [] g = f -> [frame[f] EXCEPT !.life = "suspended", !.vars = {},
                                                 !.kids = K, !.count = Cardinality(K)]
                    [] OTHER -> frame[g]
    <3>1. frame' = [g \in Frames |-> Next1(g)]  BY <1>1
    <3> HIDE DEF Next1
    <3>2. \A g \in Frames : Next1(g) \in Promises  BY <2>7, <3>1
    <3> QED  BY <3>1, <3>2
  <2> QED  BY <2>3, <2>4, <2>5, <2>6, <2>8
<1>6. \A h \in Frames : /\ Started(h)' <=> Started(h) \/ h \in K
                        /\ OnStack(h)' <=> OnStack(h) /\ h # f
                        /\ Is(h, "suspended")' <=> Is(h, "suspended") \/ h \in K \/ h = f
                        /\ Is(h, "created")' <=> Is(h, "created") /\ h \notin K
  BY <1>2, <1>3, <1>4, <1>5 DEF Started, OnStack
<1>7. /\ queue' \in [Contexts -> Seq(Frames)] /\ Apart(queue')
      /\ \A h \in Frames : In(queue', h) <=> In(queue, h) \/ h \in K
      /\ \A y \in Contexts : ToSet(queue[y]) \subseteq ToSet(queue'[y])
  <2>1. PICK order \in SetToSeqs(K) : queue' = Joined(queue, x, order)
    BY <1>1 DEF Joined
  <2>2. order \in Seq(Frames) /\ ToSet(order) = K /\ Distinct(order)
    BY <1>1, OrderFacts
  <2>3. queue \in [Contexts -> Seq(Frames)] /\ Apart(queue)
    BY DEF FrameInv, TypeInv, ResumeInv
  <2>4. \A g \in ToSet(order) : ~In(queue, g)  BY <1>4, <2>2
  <2> PICK t \in Seq(Frames) : t = order  BY <2>2
  <2>5. /\ Joined(queue, x, t) \in [Contexts -> Seq(Frames)]
        /\ ToSet(Joined(queue, x, t)[x]) = ToSet(queue[x]) \cup ToSet(t)
        /\ \A y \in Contexts : y # x => Joined(queue, x, t)[y] = queue[y]
        /\ \A g \in Frames : In(Joined(queue, x, t), g) <=> In(queue, g) \/ g \in ToSet(t)
        /\ Apart(queue) /\ Distinct(t) /\ (\A g \in ToSet(t) : ~In(queue, g))
              => Apart(Joined(queue, x, t))
    BY <2>3, JoinQueued
  <2>6. queue' = Joined(queue, x, t) /\ ToSet(t) = K /\ Distinct(t)
    BY <2>1, <2>2
  <2> HIDE DEF K
  <2>7. \A y \in Contexts : ToSet(queue[y]) \subseteq ToSet(queue'[y])
    <3>1. ToSet(queue'[x]) = ToSet(queue[x]) \cup K  BY <2>5, <2>6
    <3>2. \A y \in Contexts : y # x => queue'[y] = queue[y]  BY <2>5, <2>6
    <3> QED  BY <3>1, <3>2
  <2>8. queue' \in [Contexts -> Seq(Frames)] /\ Apart(queue')
    BY <2>2, <2>3, <2>4, <2>5, <2>6
  <2>9. \A h \in Frames : In(queue', h) <=> In(queue, h) \/ h \in K
    BY <2>5, <2>6
  <2> QED  BY <2>7, <2>8, <2>9
<1>8. TypeInv'
  <2>1. stack' \in [Contexts -> Seq(Frames)]
    BY <1>1, <1>2, FrontQueue DEF Pop, FrameInv, TypeInv
  <2> QED  BY <1>1, <1>5, <1>7, <2>1 DEF FrameInv, TypeInv
<1>9. LifeInv'
  <2>1. ASSUME NEW h \in Frames, h # f, h \notin K PROVE Stage(h)'
    <3>1. frame[h].temp # NoFrame =>
             frame[h].temp \in Frames /\ Started(frame[h].temp) /\ frame[frame[h].temp].prev = h
      BY DEF FrameInv, TypeInv, LifeInv, Stage, Promises, Handles
    <3>2. frame[h].temp # NoFrame => frame[h].temp \notin K
      BY <1>4, <3>1
    <3>3. frame[h].temp # NoFrame => frame'[frame[h].temp].life \in {"suspended", "running"}
      BY <1>5, <3>1, <3>2 DEF Started
    <3>4. Stage(h) /\ (h > born' <=> h > born)  BY <1>1 DEF FrameInv, LifeInv
    <3> QED  BY <1>5, <2>1, <3>1, <3>3, <3>4, StageKept
  <2>2. Stage(f)'
    <3>1. Stage(f) /\ f \notin K  BY <1>3 DEF FrameInv, LifeInv
    <3>2. ~(f > born')  BY <1>1, <1>2, <3>1 DEF Stage
    <3> QED  BY <1>2, <1>5, <3>1, <3>2 DEF Stage, Started
  <2>3. ASSUME NEW g \in K PROVE Stage(g)'
    <3>1. Stage(g) /\ g \in Frames  BY <1>3 DEF FrameInv, LifeInv
    <3>2. ~(g > born')  BY <1>1, <1>3, <3>1 DEF Stage
    <3> QED  BY <1>4, <1>5, <3>1, <3>2 DEF Stage, Started
  <2> QED  BY <2>1, <2>2, <2>3 DEF LifeInv
<1>10. StackInv' /\ \A h, k \in Frames : Below(stack, k, h) /\ OnStack(h)' => Below(stack', k, h)
  <2>1. StillFinal(Frames \ {Last(stack[x])})  BY <1>2, <1>4, <1>5 DEF StillFinal
  <2>2. \A h \in Frames : OnStack(h)' <=> OnStack(h) /\ h # Last(stack[x])  BY <1>2, <1>6
  <2>3. TypeInv /\ StackInv  BY DEF FrameInv
  <2> QED  BY <1>1, <1>2, <2>1, <2>2, <2>3, StackPopped
<1>11. OwnInv'
  <2>1. ASSUME NEW h \in Frames, NEW k \in frame'[h].vars
        PROVE  /\ frame'[k].life # "none" /\ (~Outlive => frame'[k].life # "gone")
               /\ frame'[k].life = "gone" => frame'[k].launched
               /\ frame'[h].life = "created" => frame'[k].life = "created" /\ k < h
               /\ ~Outlive /\ frame'[k].launched /\ Is(h, "suspended")' => Started(k)' /\ frame'[k].prev = h
               /\ ~Outlive /\ frame'[k].launched /\ OnStack(h)' => Below(stack', k, h)
    <3>1. h # f /\ k \in frame[h].vars /\ k \in Frames
      BY <1>5, <2>1 DEF FrameInv, TypeInv, Promises
    <3>2. /\ frame[k].life # "none" /\ (~Outlive => frame[k].life # "gone")
          /\ frame[k].life = "gone" => frame[k].launched
          /\ frame[h].life = "created" => frame[k].life = "created" /\ k < h
          /\ ~Outlive /\ frame[k].launched /\ Is(h, "suspended") => Started(k) /\ frame[k].prev = h
          /\ ~Outlive /\ frame[k].launched /\ OnStack(h) => Below(stack, k, h)
          /\ k \notin K
      BY <1>1, <3>1 DEF FrameInv, OwnInv
    <3>3. CASE h \in K
      <4>1. frame[k].life = "created" /\ k # f  BY <1>2, <1>3, <3>2, <3>3
      <4>2. ~frame[k].launched  BY <3>1, <4>1 DEF FrameInv, LifeInv, Stage
      <4>3. ~frame'[k].launched /\ frame'[k].life = "created"
        BY <1>5, <3>1, <3>2, <4>1, <4>2
      <4> QED  BY <1>5, <3>3, <4>3
    <3>4. CASE h \notin K
      <4>1. /\ frame'[h].life = frame[h].life /\ frame'[k].launched = frame[k].launched
            /\ frame'[k].prev = frame[k].prev
        BY <1>5, <3>1, <3>2, <3>4
      <4>2. k = f => frame'[k].life = "suspended" /\ frame[k].life # "created"
        BY <1>2, <1>5
      <4>3. k # f => frame'[k].life = frame[k].life
        BY <1>5, <3>1, <3>2
      <4>4. ~Outlive /\ frame'[k].launched /\ OnStack(h)' => Below(stack', k, h)
        BY <1>6, <1>10, <3>1, <3>2, <4>1
      <4>5. Started(k) => Started(k)'  BY <1>6, <3>1
      <4> QED  BY <3>2, <4>1, <4>2, <4>3, <4>4, <4>5
    <3> QED  BY <3>3, <3>4
  <2>2. \A h \in Frames : frame'[h].vars \subseteq frame[h].vars
    BY <1>5
  <2>3. ASSUME NEW h \in Frames, NEW i \in Frames, NEW k \in frame'[h].vars, k \in frame'[i].vars
        PROVE  h = i
    <3>1. k \in frame[h].vars /\ k \in frame[i].vars  BY <2>2, <2>3
    <3> QED  BY <3>1 DEF FrameInv, OwnInv
  <2>4. ASSUME ~Overwrite, NEW k \in Frames, frame'[k].life = "created"
        PROVE  \E h \in Frames : k \in frame'[h].vars
    <3>1. k \notin K /\ frame[k].life = "created"  BY <1>6, <2>4
    <3>2. PICK h \in Frames : k \in frame[h].vars
      BY <2>4, <3>1 DEF FrameInv, OwnInv
    <3>3. h # f  BY <1>1, <3>1, <3>2
    <3> QED  BY <1>5, <3>2, <3>3
  <2> QED  BY <2>1, <2>3, <2>4 DEF OwnInv
<1>12. ResumeInv'
  <2>1. \A h, k \in Frames : Awaits(h, k)' <=> Awaits(h, k)
    <3>1. \A h \in Frames : h # NoFrame  BY FrameAssumption DEF Frames, NoFrame
    <3> QED  BY <1>4, <1>5, <1>6, <3>1 DEF Awaits
  <2>2. \A h \in Frames : Awaiting(h)' <=> Awaiting(h)
    BY <2>1 DEF Awaiting
  <2>3. \A h \in Frames : Joining(h)' <=> Joining(h) \/ (h = f /\ c # 0)
    BY <1>2, <1>5 DEF Joining
  <2>4. away' = away  BY <1>1
  <2>5. ASSUME NEW h \in Frames
        PROVE  /\ In(queue', h) \/ h \in away' \/ Awaiting(h)' \/ Joining(h)' => Is(h, "suspended")'
               /\ ~JoinNothing /\ Is(h, "suspended")' =>
                     In(queue', h) \/ h \in away' \/ Awaiting(h)' \/ Joining(h)'
               /\ In(queue', h) => h \notin away' /\ ~Awaiting(h)' /\ ~Joining(h)'
               /\ h \in away' => ~Awaiting(h)' /\ ~Joining(h)'
               /\ Awaiting(h)' => ~Joining(h)'
    <3>1. /\ In(queue, h) \/ h \in away \/ Awaiting(h) \/ Joining(h) => Is(h, "suspended")
          /\ ~JoinNothing /\ Is(h, "suspended") =>
                In(queue, h) \/ h \in away \/ Awaiting(h) \/ Joining(h)
          /\ In(queue, h) => h \notin away /\ ~Awaiting(h) /\ ~Joining(h)
          /\ h \in away => ~Awaiting(h) /\ ~Joining(h)
          /\ Awaiting(h) => ~Joining(h)
      BY DEF FrameInv, ResumeInv
    <3>2. Is(h, "suspended")' <=> Is(h, "suspended") \/ h \in K \/ h = f  BY <1>6
    <3>3. /\ In(queue', h) <=> In(queue, h) \/ h \in K
          /\ Awaiting(h)' <=> Awaiting(h)
          /\ Joining(h)' <=> Joining(h) \/ (h = f /\ c # 0)
          /\ h \in away' <=> h \in away
      BY <1>7, <2>2, <2>3, <2>4
    <3>4. h \in K => h # f /\ h \notin away /\ ~Awaiting(h) /\ ~Joining(h)
      BY <1>3, <1>4
    <3> QED  BY <1>2, <1>14, <3>1, <3>2, <3>3, <3>4
  <2>6. \A h, k, l \in Frames : Awaits(h, k)' /\ Awaits(h, l)' => k = l
    BY <2>1 DEF FrameInv, ResumeInv
  <2> QED  BY <1>7, <2>5, <2>6 DEF ResumeInv
<1>13. ArgInv' /\ FaultInv'
  <2>1. \A h \in Frames : frame[h].launched => frame'[h].launched  BY <1>5
  <2> QED  BY <1>1, <1>7, <2>1, ArgSame DEF FrameInv, FaultInv
<1>15. Gathered(f, K)
  <2>1. frame[f].kids = {}  OBVIOUS
  <2>2. \A h \in Frames : Joining(h) => Is(h, "suspended")
    BY DEF FrameInv, ResumeInv
  <2>3. \A h \in Frames : Joining(h) => Is(h, "suspended")'
    BY <1>1, <1>2, <1>3, <1>5, <2>2
  <2>4. ASSUME NEW h \in Frames, h \notin K
        PROVE  frame'[h].parent = frame[h].parent /\ (Started(h)' => Started(h))
    BY <1>2, <1>5, <2>4 DEF Started
  <2>5. \A h \in Frames : /\ Is(h, "gone") => Is(h, "gone")'
                          /\ frame[h].launched => frame'[h].launched
    BY <1>2, <1>3, <1>5
  <2>6. frame'[f].count = Cardinality(K)  BY <1>5
  <2>7. /\ \A g \in K : Is(g, "created") /\ frame'[g].parent = f /\ frame'[g].launched
        /\ \A h \in Frames : /\ frame'[h].outcome = frame[h].outcome
                             /\ frame'[h].prev = frame[h].prev
                             /\ h # f => frame'[h].kids = frame[h].kids /\ frame'[h].count = frame[h].count
    BY <1>3, <1>5
  <2>8. K \in SUBSET Frames /\ Is(f, "running") /\ frame'[f].kids = K
    BY <1>1, <1>2, <1>5
  <2> QED  BY <2>1, <2>3, <2>4, <2>5, <2>6, <2>7, <2>8 DEF Gathered
<1> QED  BY <1>8, <1>9, <1>10, <1>11, <1>12, <1>13, <1>15 DEF FrameInv, K

-----------------------------------------------------------------------------
LEMMA InitFrameInv == FrameInit => FrameInv
<1> SUFFICES ASSUME FrameInit PROVE FrameInv
  OBVIOUS
<1>1. /\ born = 0 /\ frame = [f \in Frames |-> Blank] /\ queue = [x \in Contexts |-> <<>>]
      /\ stack = [x \in Contexts |-> <<>>] /\ away = {} /\ arg = [x \in Contexts |-> NoFrame]
      /\ fault = "none"
  BY DEF FrameInit
<1>2. Blank \in Promises
  BY DEF Blank, Promises, Lives, Handles, Outcomes
<1>3. TypeInv
  <2>1. frame \in [Frames -> Promises]  BY <1>1, <1>2
  <2>2. 0 \in 0 .. MaxFrames  BY FrameAssumption
  <2> QED  BY <1>1, <2>1, <2>2 DEF TypeInv, Handles
<1>4. \A f \in Frames :
         /\ frame[f].life = "none" /\ ~frame[f].launched /\ frame[f].prev = NoFrame
         /\ frame[f].outcome = "none" /\ frame[f].vars = {} /\ frame[f].temp = NoFrame
         /\ frame[f].parent = NoFrame /\ frame[f].count = 0 /\ frame[f].kids = {}
  BY <1>1 DEF Blank
<1>5. \A f \in Frames : f > born
  BY <1>1, FrameAssumption DEF Frames
<1>6. LifeInv
  BY <1>4, <1>5 DEF LifeInv, Stage, Is, Started
<1>7. \A q : q = [x \in Contexts |-> <<>>] => Apart(q) /\ \A f \in Frames : ~In(q, f)
  BY EmptyQueue DEF Apart, In
<1>8. StackInv
  BY <1>1, <1>4, <1>7 DEF StackInv, OnStack, Is
<1>9. OwnInv
  BY <1>4 DEF OwnInv, Is
<1>10. ResumeInv
  BY <1>1, <1>4, <1>7 DEF ResumeInv, Is, Awaiting, Awaits, Joining, Started
<1> QED  BY <1>1, <1>3, <1>6, <1>8, <1>9, <1>10 DEF FrameInv, ArgInv, FaultInv

LEMMA NextFrameInv ==
  ASSUME FrameInv, [FrameNext]_frameVars
  PROVE  FrameInv'
<1>1. CASE UNCHANGED frameVars
  BY <1>1 DEF frameVars, FrameInv, TypeInv, LifeInv, Stage, Started, OnStack, StackInv, OwnInv,
              ResumeInv, Awaits, Awaiting, Joining, Is, ArgInv, FaultInv
<1>2. ASSUME NEW x \in Contexts, ThreadStep(x) PROVE FrameInv'
  BY <1>2, DropArgInv, DestroyInv, RunHandleInv DEF ThreadStep
<1>3. ASSUME NEW x \in Contexts, SpawnRoot(x) PROVE FrameInv'
  BY <1>3, SpawnRootInv
<1>4. ASSUME NEW x \in Contexts, NEW f \in Frames, CoroutineStep(x, f) PROVE FrameInv'
  <2>1. ASSUME NEW params \in SUBSET frame[f].vars, Create(x, f, params) PROVE FrameInv'
    BY <2>1, CreateInv
  <2>2. ASSUME NEW g \in frame[f].vars, DropVar(x, f, g) PROVE FrameInv'
    BY <2>2, DropVarInv
  <2>3. ASSUME NEW g \in frame[f].vars, NEW temporary \in BOOLEAN, Await(x, f, g, temporary)
        PROVE  FrameInv'
    BY <2>3, AwaitInv
  <2>4. ASSUME NEW g \in frame[f].vars, NEW y \in Contexts, Spawn(x, f, g, y) PROVE FrameInv'
    BY <2>4, SpawnInv
  <2>5. CASE Join(x, f)     BY <1>4, <2>5, JoinInv DEF CoroutineStep
  <2>6. CASE Yield(x, f)    BY <2>6, YieldInv
  <2>7. ASSUME NEW y \in Contexts, NEW blocking \in BOOLEAN, Suspend(x, f, y, blocking)
        PROVE  FrameInv'
    BY <2>7, SuspendInv
  <2>8. ASSUME NEW g \in frame[f].vars, Assign(x, f, g) PROVE FrameInv'
    BY <2>8, AssignInv
  <2> QED  BY <1>4, <2>1, <2>2, <2>3, <2>4, <2>5, <2>6, <2>7, <2>8 DEF CoroutineStep
<1>5. ASSUME NEW f \in Frames, Returns(f) PROVE FrameInv'
  BY <1>5, ReturnInv DEF Returns
<1>6. ASSUME NEW f \in Frames, ComeBack(f) PROVE FrameInv'
  BY <1>6, ComeBackInv
<1> QED  BY <1>1, <1>2, <1>3, <1>4, <1>5, <1>6 DEF FrameNext

LEMMA FrameInvAlways == FrameSpec => []FrameInv
<1>1. FrameInv /\ [FrameNext]_frameVars => FrameInv'
  BY NextFrameInv
<1> QED  BY <1>1, InitFrameInv, PTL DEF FrameSpec

(***************************************************************************)
(* What a step can do wrong: ~Coro() reads a launched frame that is gone,  *)
(* an awaited coroutine throws, two handlers of one join() race.           *)
(***************************************************************************)
Late(g) ==
    /\ Is(g, "gone") /\ frame[g].launched
    /\ \/ Remote /\ \E x \in Contexts : arg[x] = g /\ arg'[x] = NoFrame
       \/ Outlive /\ \E f \in Frames : g \in frame[f].vars \ frame'[f].vars

RaceStep ==
    fault' = "race" /\ \E x \in Contexts, g \in Frames : Runs(x, g) /\ Races(x, frame[g].parent)

Expected ==
    \/ fault' = fault
    \/ fault' = "touch" /\ \E g \in Frames : Late(g)
    \/ fault' = "terminate" /\ \E g \in Frames : frame[g].prev # NoFrame /\ frame'[g].outcome = "error"
    \/ RaceStep

\* The parameter of spawn() is that of a queued frame, unless another thread runs it.
LEMMA DropArgLate ==
  ASSUME FrameInv, NEW x \in Contexts, DropArg(x)
  PROVE  Expected
<1> PICK g : g = arg[x]  OBVIOUS
<1>1. /\ g \in Frames /\ fault' = Touch({g}) /\ arg'[x] = NoFrame
      /\ frame[g].launched /\ (~Remote => In(queue, g))
  BY DEF DropArg, FrameInv, TypeInv, Handles, ArgInv, In
<1>2. ~Remote => ~Is(g, "gone")
  BY <1>1 DEF FrameInv, ResumeInv, Is
<1>3. CASE ~Is(g, "gone")  BY <1>1, <1>3 DEF Touch, Expected
<1>4. CASE Is(g, "gone")
  <2>1. Late(g)  BY <1>1, <1>2, <1>4, FrameAssumption DEF Late
  <2>2. fault' = "touch"  BY <1>1, <1>4 DEF Touch
  <2> QED  BY <1>1, <2>1, <2>2 DEF Expected
<1> QED  BY <1>3, <1>4

\* Objects that f lets go of: none is gone, or it was launched and outlived.
LEMMA VarsLate ==
  ASSUME FrameInv, NEW f \in Frames, NEW objects \in SUBSET frame[f].vars,
         \A g \in objects : g \notin frame'[f].vars, fault' = Touch(objects)
  PROVE  Expected
<1>1. CASE \A g \in objects : ~Is(g, "gone")  BY <1>1 DEF Touch, Expected
<1>2. CASE \E g \in objects : Is(g, "gone")
  <2>1. PICK g \in objects : Is(g, "gone")  BY <1>2
  <2>2. g \in Frames /\ frame[g].launched /\ Outlive
    BY <2>1, FrameAssumption DEF FrameInv, OwnInv, TypeInv, Promises
  <2>3. Late(g)  BY <2>1, <2>2 DEF Late
  <2>4. fault' = "touch"  BY <2>1 DEF Touch
  <2> QED  BY <2>2, <2>3, <2>4 DEF Expected
<1> QED  BY <1>1, <1>2

LEMMA DropVarLate ==
  ASSUME FrameInv, NEW x \in Contexts, NEW f \in Frames, NEW g \in frame[f].vars, DropVar(x, f, g)
  PROVE  Expected
<1>1. g \in Frames /\ ~Is(g, "none") /\ Is(f, "running") /\ fault' = Touch({g})
  BY DEF FrameInv, TypeInv, Promises, OwnInv, DropVar, Runs
<1>2. frame' = [Dropped(frame, {g}) EXCEPT ![f].vars = @ \ {g}]
  BY DEF DropVar
<1>3. Dropped(frame, {g}) \in [Frames -> Promises]
  <2> PICK objects : objects = {g}  OBVIOUS
  <2>1. objects \in SUBSET Frames /\ \A h \in objects : ~Is(h, "none")  BY <1>1
  <2>2. Dropped(frame, objects) \in [Frames -> Promises]  BY <2>1, DroppedFields DEF FrameInv
  <2> QED  BY <2>2
<1>4. frame'[f].vars = Dropped(frame, {g})[f].vars \ {g}
  <2> PICK G \in [Frames -> Promises] : G = Dropped(frame, {g})  BY <1>3
  <2>1. frame' = [G EXCEPT ![f].vars = @ \ {g}]  BY <1>2
  <2>2. frame'[f] = [G[f] EXCEPT !.vars = @ \ {g}]  BY <2>1
  <2>3. G[f] \in Promises  OBVIOUS
  <2> QED  BY <2>2, <2>3 DEF Promises
<1>5. g \notin frame'[f].vars  BY <1>4
<1> QED  BY <1>1, <1>5, VarsLate

LEMMA DestroyLate ==
  ASSUME FrameInv, NEW x \in Contexts, Destroy(x)
  PROVE  Expected
<1> PICK f : f = Last(stack[x])  OBVIOUS
<1>1. /\ f \in Frames /\ fault' = Touch(frame[f].vars)
      /\ frame' = [Dropped(frame, frame[f].vars) EXCEPT ![f] = Gone(f)]
  BY FrontQueue DEF FrameInv, TypeInv, Destroy
<1>2. frame'[f].vars = {}
  <2>1. /\ frame[f].vars \in SUBSET Frames /\ \A g \in frame[f].vars : ~Is(g, "none")
    BY <1>1 DEF FrameInv, TypeInv, Promises, OwnInv
  <2>2. Dropped(frame, frame[f].vars) \in [Frames -> Promises]
    BY <2>1, DroppedFields DEF FrameInv
  <2>3. frame'[f] = Gone(f)  BY <1>1, <2>2
  <2> QED  BY <2>3 DEF Gone, Blank
<1>3. \A g \in frame[f].vars : g \notin frame'[f].vars  BY <1>2
<1> PICK objects : objects = frame[f].vars  OBVIOUS
<1> QED  BY <1>1, <1>3, VarsLate

LEMMA LateAtWorst ==
  ASSUME FrameInv, FrameNext
  PROVE  Expected
<1>1. ASSUME NEW x \in Contexts, ThreadStep(x) PROVE Expected
  BY <1>1, DropArgLate, DestroyLate, RunHandleInv DEF ThreadStep, Expected
<1>2. ASSUME NEW x \in Contexts, SpawnRoot(x) PROVE fault' = fault
  BY <1>2 DEF SpawnRoot
<1>3. ASSUME NEW x \in Contexts, NEW f \in Frames, CoroutineStep(x, f) PROVE Expected
  <2>1. ASSUME NEW params \in SUBSET frame[f].vars, Create(x, f, params) PROVE fault' = fault
    BY <2>1 DEF Create
  <2>2. ASSUME NEW g \in frame[f].vars, DropVar(x, f, g) PROVE Expected
    BY <2>2, DropVarLate
  <2>3. ASSUME NEW g \in frame[f].vars, NEW temporary \in BOOLEAN, Await(x, f, g, temporary)
        PROVE  fault' = fault
    BY <2>3 DEF Await
  <2>4. ASSUME NEW g \in frame[f].vars, NEW y \in Contexts, Spawn(x, f, g, y)
        PROVE  fault' = fault
    BY <2>4 DEF Spawn
  <2>5. CASE Join(x, f)     BY <2>5 DEF Join, Expected
  <2>6. CASE Yield(x, f)    BY <2>6 DEF Yield, Expected
  <2>7. ASSUME NEW y \in Contexts, NEW blocking \in BOOLEAN, Suspend(x, f, y, blocking)
        PROVE  fault' = fault
    BY <2>7 DEF Suspend
  <2>8. ASSUME NEW g \in frame[f].vars, Assign(x, f, g) PROVE fault' = fault
    BY <2>8 DEF Assign
  <2> QED  BY <1>3, <2>1, <2>2, <2>3, <2>4, <2>5, <2>6, <2>7, <2>8 DEF CoroutineStep, Expected
<1>4. ASSUME NEW f \in Frames, Returns(f) PROVE Expected
  <2>1. PICK x \in Contexts, o \in {"value", "error"} : Return(x, f, o)  BY <1>4 DEF Returns
  <2>2. \/ fault' = fault
        \/ Returned(f, o) /\ fault' = "terminate" /\ o = "error" /\ frame[f].prev # NoFrame
        \/ fault' = "race" /\ Races(x, frame[f].parent)
    BY <2>1, ReturnInv
  <2>3. Runs(x, f)  BY <2>1 DEF Return
  <2> QED  BY <2>2, <2>3 DEF Expected, RaceStep, Returned
<1>5. ASSUME NEW f \in Frames, ComeBack(f) PROVE fault' = fault
  BY <1>5, ComeBackInv
<1> QED  BY <1>1, <1>2, <1>3, <1>4, <1>5 DEF FrameNext, Expected

(***************************************************************************)
(* A suspended coroutine is resumed by one party.                          *)
(***************************************************************************)
LEMMA QueueBounded ==
  ASSUME NEW s \in Seq(Frames), Distinct(s)
  PROVE  Len(s) <= MaxFrames
<1>1. /\ Len(s) \in Nat /\ DOMAIN s = 1 .. Len(s) /\ s \in [1 .. Len(s) -> Frames]
  BY LenProperties
<1>2. s \in Injection(1 .. Len(s), Frames)
  BY <1>1 DEF Distinct, Injection, IsInjective
<1>3. \A n \in Nat : Cardinality(1 .. n) = n
  BY FS_Interval
<1>5. Cardinality(1 .. Len(s)) = Len(s) /\ Cardinality(Frames) = MaxFrames
  BY <1>1, <1>3, FrameAssumption DEF Frames
<1>4. Cardinality(1 .. Len(s)) <= Cardinality(Frames)
  BY <1>2, FramesFinite, FS_Injection
<1> QED  BY <1>4, <1>5

LEMMA ResumersFacts ==
  ASSUME ~JoinNothing, FrameInv, NEW f \in Frames
  PROVE  Cardinality(Resumers(f)) = IF Is(f, "suspended") THEN 1 ELSE 0
<1> DEFINE Queued(p) == p[2] \in DOMAIN queue[p[1]] /\ queue[p[1]][p[2]] = f
           Q == {p \in Contexts \X (1 .. MaxFrames) : Queued(p)}
           A == IF f \in away THEN {<<"away", f>>} ELSE {}
           H == {h \in Frames : frame[h].prev = f /\ ~Is(h, "final") /\ ~Is(h, "gone")}
           C == {<<"child", g>> : g \in H}
           J == IF frame[f].count > 0 THEN {<<"kids", f>>} ELSE {}
<1>1. Resumers(f) = Q \cup A \cup C \cup J
  BY DEF Resumers
<1>2. /\ Is(f, "suspended") <=> In(queue, f) \/ f \in away \/ Awaiting(f) \/ Joining(f)
      /\ In(queue, f) => f \notin away /\ ~Awaiting(f) /\ ~Joining(f)
      /\ f \in away => ~Awaiting(f) /\ ~Joining(f)
      /\ Awaiting(f) => ~Joining(f)
      /\ \A g, h \in Frames : Awaits(f, g) /\ Awaits(f, h) => g = h
  BY DEF FrameInv, ResumeInv
<1>3. (~In(queue, f) => Q = {}) /\ (In(queue, f) => \E p : Q = {p})
  <2>1. ASSUME NEW p \in Q PROVE In(queue, f)
    <3>1. p[1] \in Contexts /\ f \in ToSet(queue[p[1]])  BY DEF ToSet
    <3> QED  BY <3>1 DEF In
  <2>2. ASSUME In(queue, f) PROVE \E p : Q = {p}
    <3>1. PICK x \in Contexts : f \in ToSet(queue[x])  BY <2>2 DEF In
    <3>2. PICK i \in DOMAIN queue[x] : queue[x][i] = f  BY <3>1 DEF ToSet
    <3>3. queue[x] \in Seq(Frames) /\ Distinct(queue[x])
      BY DEF FrameInv, TypeInv, ResumeInv, Apart
    <3>4. i \in 1 .. MaxFrames
      <4>1. i \in 1 .. Len(queue[x]) /\ Len(queue[x]) \in Nat  BY <3>3, LenProperties
      <4>2. Len(queue[x]) <= MaxFrames  BY <3>3, QueueBounded
      <4> QED  BY <4>1, <4>2, FrameAssumption
    <3>5. <<x, i>> \in Q  BY <3>2, <3>4
    <3>6. ASSUME NEW p \in Q PROVE p = <<x, i>>
      <4>1. PICK y \in Contexts, j \in 1 .. MaxFrames : p = <<y, j>>  OBVIOUS
      <4>2. j \in DOMAIN queue[y] /\ queue[y][j] = f  BY <4>1
      <4>3. f \in ToSet(queue[y])  BY <4>2 DEF ToSet
      <4>4. y = x  BY <3>1, <4>3 DEF FrameInv, ResumeInv, Apart
      <4>5. j = i  BY <3>2, <3>3, <4>2, <4>4 DEF Distinct
      <4> QED  BY <4>1, <4>4, <4>5
    <3>7. Q = {<<x, i>>}  BY <3>5, <3>6
    <3> QED  BY <3>7
  <2> QED  BY <2>1, <2>2
<1> HIDE DEF Q
<1>4. \A h \in Frames : h \in H <=> Awaits(f, h)
  <2>1. ASSUME NEW h \in Frames, frame[h].prev = f
        PROVE  frame[h].life \in {"suspended", "running", "final"}
    <3>1. f # NoFrame  BY FrameAssumption DEF Frames, NoFrame
    <3>2. ~Is(h, "none") /\ ~Is(h, "created") /\ ~Is(h, "gone")
      BY <2>1, <3>1 DEF FrameInv, LifeInv, Stage
    <3>3. frame[h].life \in Lives  BY DEF FrameInv, TypeInv, Promises
    <3> QED  BY <3>2, <3>3 DEF Is, Lives
  <2> QED  BY <2>1 DEF Awaits, Started, Is
<1>5. (~Awaiting(f) => C = {}) /\ (Awaiting(f) => \E p : C = {p})
  <2>1. CASE ~Awaiting(f)
    <3>1. H = {}  BY <1>4, <2>1 DEF Awaiting
    <3> QED  BY <2>1, <3>1
  <2>2. CASE Awaiting(f)
    <3>1. PICK g \in Frames : Awaits(f, g)  BY <2>2 DEF Awaiting
    <3>2. H = {g}  BY <1>2, <1>4, <3>1
    <3>3. C = {<<"child", g>>}  BY <3>2
    <3> QED  BY <2>2, <3>3
  <2> QED  BY <2>1, <2>2
<1> HIDE DEF H, C
<1>6. (f \notin away => A = {}) /\ (f \in away => \E p : A = {p})
  OBVIOUS
<1>7. (~Joining(f) => J = {}) /\ (Joining(f) => \E p : J = {p})
  <2>1. Joining(f) <=> frame[f].count > 0
    <3>1. frame[f].count \in Nat  BY DEF FrameInv, TypeInv, Promises
    <3> QED  BY <3>1 DEF Joining
  <2>2. CASE frame[f].count > 0
    <3>1. J = {<<"kids", f>>}  BY <2>2
    <3> QED  BY <2>1, <2>2, <3>1
  <2>3. CASE ~(frame[f].count > 0)
    <3>1. J = {}  BY <2>3
    <3> QED  BY <2>1, <2>3, <3>1
  <2> QED  BY <2>2, <2>3
<1> HIDE DEF A, J
<1>8. CASE Is(f, "suspended")
  <2>1. \E p : Resumers(f) = {p}
    <3>1. CASE In(queue, f)
      BY <1>1, <1>2, <1>3, <1>5, <1>6, <1>7, <3>1
    <3>2. CASE f \in away
      BY <1>1, <1>2, <1>3, <1>5, <1>6, <1>7, <3>2
    <3>3. CASE Awaiting(f)
      BY <1>1, <1>2, <1>3, <1>5, <1>6, <1>7, <3>3
    <3>4. CASE Joining(f)
      BY <1>1, <1>2, <1>3, <1>5, <1>6, <1>7, <3>4
    <3> QED  BY <1>2, <1>8, <3>1, <3>2, <3>3, <3>4
  <2> QED  BY <1>8, <2>1, FS_Singleton
<1>9. CASE ~Is(f, "suspended")
  <2>1. Resumers(f) = {}
    BY <1>1, <1>2, <1>3, <1>5, <1>6, <1>7, <1>9
  <2> QED  BY <1>9, <2>1, FS_EmptySet
<1> QED  BY <1>8, <1>9

(***************************************************************************)
(* A suspended coroutine has exactly one resumer: a context, the kernel or *)
(* a pool, the coroutine it awaits, or those it joins; others have none.   *)
(* Coroutines may migrate, so that the children of a join() end on several *)
(* threads (the process is not followed beyond a race on its count); only  *)
(* a join() of nothing is suspended for nobody.                            *)
(***************************************************************************)
THEOREM EachFrameHasOneResumer ==
  ASSUME ~JoinNothing
  PROVE  FrameSpec => []OneResumer
<1>1. FrameInv => OneResumer
  BY ResumersFacts DEF OneResumer
<1> QED  BY <1>1, FrameInvAlways, PTL

-----------------------------------------------------------------------------
(***************************************************************************)
(* join(): the count of a coroutine that joins is the number of those that *)
(* have not returned, and it listens until one has thrown.  Who waits      *)
(* for whom has no cycle.                                                  *)
(***************************************************************************)
Pending(f) == {g \in frame[f].kids : frame[g].outcome = "none"}

KidsInv ==
    /\ \A f \in Frames : \A g \in frame[f].kids :
          frame[g].launched /\ (Is(g, "gone") \/ frame[g].parent = f)
    /\ \A f, g \in Frames : frame[g].parent = f => Is(f, "gone") \/ g \in frame[f].kids
    /\ \A g \in Frames : frame[g].parent # NoFrame => frame[g].prev = NoFrame
    /\ \A f \in Frames : Joining(f) =>
          /\ frame[f].count = Cardinality(Pending(f))
          /\ \A g \in frame[f].kids : frame[g].outcome # "error"

Waits(f, g) == Awaits(f, g) \/ (Joining(f) /\ Started(g) /\ frame[g].parent = f)

NoCycle == \A T \in SUBSET Frames : T # {} => \E f \in T : \A g \in T : ~Waits(f, g)

JoinInvariant == FrameInv /\ KidsInv /\ NoCycle

\* Those in L wait for nobody, the others for nobody new but those in L.
LEMMA NoCycleKept ==
  ASSUME NoCycle, NEW L \in SUBSET Frames, \A h \in L, g \in Frames : ~Waits(h, g)',
         \A h, g \in Frames \ L : Waits(h, g)' => Waits(h, g)
  PROVE  NoCycle'
<1> SUFFICES ASSUME NEW T \in SUBSET Frames, T # {}
             PROVE  \E f \in T : \A g \in T : ~Waits(f, g)'
  BY DEF NoCycle
<1>1. CASE T \cap L # {}
  <2>1. PICK f \in T : f \in L  BY <1>1
  <2> QED  BY <2>1
<1>2. CASE T \cap L = {}
  <2>1. PICK f \in T : \A g \in T : ~Waits(f, g)  BY DEF NoCycle
  <2> QED  BY <1>2, <2>1
<1> QED  BY <1>1, <1>2

LEMMA KidsKept ==
  ASSUME FrameInv, KidsInv,
         \A h \in Frames : \/ Cleared(h)
                           \/ Kept(h) /\ frame'[h].prev = frame[h].prev
                           \/ Kept(h) /\ frame[h].parent = NoFrame
  PROVE  KidsInv'
<1>1. \A h \in Frames :
        /\ frame'[h].outcome = frame[h].outcome /\ (frame[h].launched => frame'[h].launched)
        /\ Is(h, "gone") => Is(h, "gone")'
        /\ \/ Is(h, "gone")' /\ frame'[h].parent = NoFrame /\ frame'[h].kids = {} /\ frame'[h].count = 0
              /\ frame'[h].prev = NoFrame
           \/ /\ frame'[h].parent = frame[h].parent /\ frame'[h].kids = frame[h].kids
              /\ frame'[h].count = frame[h].count
              /\ frame'[h].prev = frame[h].prev \/ frame[h].parent = NoFrame
  BY DEF Cleared, Kept
<1>2. \A h \in Frames : h # NoFrame /\ frame[h].kids \in SUBSET Frames
  BY FrameAssumption DEF Frames, NoFrame, FrameInv, TypeInv, Promises
<1>3. ASSUME NEW f \in Frames, NEW g \in frame'[f].kids
      PROVE  frame'[g].launched /\ (Is(g, "gone")' \/ frame'[g].parent = f)
  <2>1. g \in frame[f].kids /\ g \in Frames  BY <1>1, <1>2
  <2>2. frame[g].launched /\ (Is(g, "gone") \/ frame[g].parent = f)
    BY <2>1 DEF KidsInv
  <2> QED  BY <1>1, <2>1, <2>2
<1>4. ASSUME NEW f \in Frames, NEW g \in Frames, frame'[g].parent = f
      PROVE  Is(f, "gone")' \/ g \in frame'[f].kids
  <2>1. frame[g].parent = f  BY <1>1, <1>2, <1>4
  <2>2. Is(f, "gone") \/ g \in frame[f].kids  BY <2>1 DEF KidsInv
  <2> QED  BY <1>1, <2>2
<1>5. ASSUME NEW g \in Frames, frame'[g].parent # NoFrame PROVE frame'[g].prev = NoFrame
  BY <1>1, <1>5 DEF KidsInv
<1>6. ASSUME NEW f \in Frames, Joining(f)'
      PROVE  /\ frame'[f].count = Cardinality(Pending(f)')
             /\ \A g \in frame'[f].kids : frame'[g].outcome # "error"
  <2>1. frame'[f].kids = frame[f].kids /\ frame'[f].count = frame[f].count /\ Joining(f)
    BY <1>1, <1>6 DEF Joining
  <2>2. \A g \in frame[f].kids : frame'[g].outcome = frame[g].outcome  BY <1>1, <1>2
  <2>3. Pending(f)' = Pending(f)  BY <2>1, <2>2 DEF Pending
  <2> QED  BY <2>1, <2>2, <2>3 DEF KidsInv
<1> QED  BY <1>3, <1>4, <1>5, <1>6 DEF KidsInv

LEMMA QuietKids ==
  ASSUME JoinInvariant, Quiet
  PROVE  KidsInv' /\ NoCycle'
<1>1. KidsInv'  BY KidsKept DEF JoinInvariant, Quiet
<1>2. \A f, g \in Frames : Waits(f, g)' => Waits(f, g)
  <2> SUFFICES ASSUME NEW f \in Frames, NEW g \in Frames, Waits(f, g)' PROVE Waits(f, g)
    OBVIOUS
  <2>1. Started(g)' /\ (frame'[g].prev = f \/ (Joining(f)' /\ frame'[g].parent = f))
    BY DEF Waits, Awaits
  <2>2. ~Cleared(g)  BY <2>1 DEF Cleared, Started, Is
  <2>3. Kept(g) /\ frame'[g].prev = frame[g].prev  BY <2>2 DEF Quiet
  <2>4. f # NoFrame  BY FrameAssumption DEF Frames, NoFrame
  <2>5. frame[g].prev = f \/ (Joining(f) /\ frame[g].parent = f)
    BY <2>1, <2>3 DEF Quiet, Kept, Cleared, Joining
  <2>6. ~Is(g, "created") /\ ~Is(g, "none")
    BY <2>4, <2>5 DEF JoinInvariant, FrameInv, LifeInv, Stage
  <2>7. Started(g)  BY <2>1, <2>3, <2>6 DEF Kept
  <2> QED  BY <2>5, <2>7 DEF Waits, Awaits
<1>3. NoCycle'
  <2> DEFINE L == {}
  <2>1. L \in SUBSET Frames /\ \A h \in L, g \in Frames : ~Waits(h, g)'  OBVIOUS
  <2> HIDE DEF L
  <2>2. \A h, g \in Frames \ L : Waits(h, g)' => Waits(h, g)  BY <1>2
  <2> QED  BY <2>1, <2>2, NoCycleKept DEF JoinInvariant
<1> QED  BY <1>1, <1>3

LEMMA AwaitedKids ==
  ASSUME JoinInvariant, NEW f \in Frames, NEW g, Awaited(f, g)
  PROVE  KidsInv' /\ NoCycle'
<1>1. /\ g \in Frames /\ Is(g, "created") /\ Is(f, "running") /\ f # g
      /\ frame[g].prev = NoFrame /\ frame[g].parent = NoFrame /\ frame[g].count = 0
  BY DEF Awaited, Is, JoinInvariant, FrameInv, LifeInv, Stage
<1>2. KidsInv'
  BY <1>1, KidsKept DEF JoinInvariant, Awaited
<1>3. \A k \in Frames : ~Waits(g, k)'
  <2> SUFFICES ASSUME NEW k \in Frames, Waits(g, k)' PROVE FALSE
    OBVIOUS
  <2>1. ~Joining(g)'  BY <1>1 DEF Awaited, Kept, Joining
  <2>2. Started(k)' /\ frame'[k].prev = g  BY <2>1 DEF Waits, Awaits
  <2>3. k # g  BY <1>1, <2>2 DEF Awaited
  <2>4. Awaits(g, k)  BY <2>2, <2>3 DEF Awaited, Awaits
  <2> QED  BY <1>1, <2>4 DEF JoinInvariant, FrameInv, ResumeInv, Awaiting, Is
<1>4. \A h, k \in Frames \ {g} : Waits(h, k)' => Waits(h, k)
  BY DEF Awaited, Waits, Awaits, Kept, Joining
<1>5. NoCycle'
  <2> DEFINE L == {g}
  <2>1. L \in SUBSET Frames /\ \A h \in L, k \in Frames : ~Waits(h, k)'  BY <1>1, <1>3
  <2>2. \A h, k \in Frames \ L : Waits(h, k)' => Waits(h, k)  BY <1>4
  <2> HIDE DEF L
  <2> QED  BY <2>1, <2>2, NoCycleKept DEF JoinInvariant
<1> QED  BY <1>2, <1>5

LEMMA GatheredKids ==
  ASSUME JoinInvariant, NEW f \in Frames, NEW K, Gathered(f, K)
  PROVE  KidsInv' /\ NoCycle'
<1>1. /\ K \in SUBSET Frames /\ Is(f, "running") /\ ~Is(f, "gone") /\ frame[f].kids = {}
      /\ frame'[f].kids = K /\ frame'[f].count = Cardinality(K)
      /\ \A g \in Frames : g # NoFrame
      /\ \A h \in Frames : frame[h].kids \in SUBSET Frames
  BY FrameAssumption DEF Gathered, Is, Frames, NoFrame, JoinInvariant, FrameInv, TypeInv, Promises
<1>2. \A g \in K : /\ g # f /\ ~frame[g].launched /\ frame[g].outcome = "none" /\ ~Joining(g)
                   /\ frame[g].prev = NoFrame /\ frame[g].parent = NoFrame /\ ~Is(g, "suspended")
  BY DEF Gathered, Is, JoinInvariant, FrameInv, LifeInv, Stage, Joining
<1>3. \A g \in Frames : frame[g].parent # f
  BY <1>1 DEF JoinInvariant, KidsInv
<1>4. \A h \in Frames : \A g \in frame[h].kids : g \notin K /\ frame'[g].parent = frame[g].parent
  BY <1>1, <1>2 DEF JoinInvariant, KidsInv, Gathered
<1>5. KidsInv'
  <2>1. ASSUME NEW h \in Frames, NEW g \in frame'[h].kids
        PROVE  frame'[g].launched /\ (Is(g, "gone")' \/ frame'[g].parent = h)
    <3>1. CASE h = f  BY <1>1, <3>1 DEF Gathered
    <3>2. CASE h # f
      <4>1. g \in frame[h].kids /\ g \in Frames  BY <1>1, <3>2 DEF Gathered
      <4>2. frame[g].launched /\ (Is(g, "gone") \/ frame[g].parent = h)
        BY <4>1 DEF JoinInvariant, KidsInv
      <4> QED  BY <1>4, <4>1, <4>2 DEF Gathered
    <3> QED  BY <3>1, <3>2
  <2>2. ASSUME NEW h \in Frames, NEW g \in Frames, frame'[g].parent = h
        PROVE  Is(h, "gone")' \/ g \in frame'[h].kids
    <3>1. CASE g \in K  BY <1>1, <2>2, <3>1 DEF Gathered
    <3>2. CASE g \notin K
      <4>1. frame[g].parent = h /\ h # f  BY <1>3, <2>2, <3>2 DEF Gathered
      <4>2. Is(h, "gone") \/ g \in frame[h].kids  BY <4>1 DEF JoinInvariant, KidsInv
      <4> QED  BY <4>1, <4>2 DEF Gathered
    <3> QED  BY <3>1, <3>2
  <2>3. ASSUME NEW g \in Frames, frame'[g].parent # NoFrame PROVE frame'[g].prev = NoFrame
    BY <1>2, <2>3 DEF Gathered, JoinInvariant, KidsInv
  <2>4. ASSUME NEW h \in Frames, Joining(h)'
        PROVE  /\ frame'[h].count = Cardinality(Pending(h)')
               /\ \A g \in frame'[h].kids : frame'[g].outcome # "error"
    <3>1. CASE h = f
      <4>1. \A g \in K : frame'[g].outcome = "none"  BY <1>1, <1>2 DEF Gathered
      <4>2. Pending(h)' = K  BY <1>1, <3>1, <4>1 DEF Pending
      <4> QED  BY <1>1, <3>1, <4>1, <4>2
    <3>2. CASE h # f
      <4>1. frame'[h].kids = frame[h].kids /\ frame'[h].count = frame[h].count /\ Joining(h)
        BY <2>4, <3>2 DEF Gathered, Joining
      <4>2. \A g \in frame[h].kids : frame'[g].outcome = frame[g].outcome
        BY <1>1 DEF Gathered
      <4>3. Pending(h)' = Pending(h)  BY <4>1, <4>2 DEF Pending
      <4> QED  BY <4>1, <4>2, <4>3 DEF JoinInvariant, KidsInv
    <3> QED  BY <3>1, <3>2
  <2> QED  BY <2>1, <2>2, <2>3, <2>4 DEF KidsInv
<1>6. ASSUME NEW h \in K, NEW k \in Frames, Waits(h, k)' PROVE FALSE
  <2>1. ~Joining(h)'  BY <1>1, <1>2 DEF Gathered, Joining
  <2>2. Started(k)' /\ frame'[k].prev = h  BY <1>6, <2>1 DEF Waits, Awaits
  <2>3. frame[k].prev = h  BY <2>2 DEF Gathered
  <2>4. k \notin K  BY <1>1, <1>2, <2>3
  <2>5. Awaits(h, k)  BY <2>2, <2>3, <2>4 DEF Gathered, Awaits
  <2> QED  BY <1>1, <1>2, <2>5 DEF JoinInvariant, FrameInv, ResumeInv, Awaiting
<1>7. ASSUME NEW h \in Frames \ K, NEW k \in Frames \ K, Waits(h, k)' PROVE Waits(h, k)
  <2>1. Started(k) /\ frame'[k].prev = frame[k].prev /\ frame'[k].parent = frame[k].parent
    BY <1>7 DEF Waits, Awaits, Gathered
  <2>2. CASE frame'[k].prev = h  BY <2>1, <2>2 DEF Waits, Awaits
  <2>3. CASE Joining(h)' /\ frame'[k].parent = h
    <3>1. h # f  BY <1>3, <2>1, <2>3
    <3>2. Joining(h)  BY <2>3, <3>1 DEF Gathered, Joining
    <3> QED  BY <2>1, <2>3, <3>2 DEF Waits
  <2> QED  BY <1>7, <2>2, <2>3 DEF Waits, Awaits
<1> QED  BY <1>1, <1>5, <1>6, <1>7, NoCycleKept DEF JoinInvariant

\* f is among those that h still waits for.
LEMMA CountsPending ==
  ASSUME JoinInvariant, NEW f \in Frames, Is(f, "running"), NEW h \in Frames, Joining(h)
  PROVE  /\ f \in frame[h].kids <=> Counts(f, h)
         /\ Counts(f, h) => f \in Pending(h)
         /\ IsFiniteSet(Pending(h)) /\ frame[h].count = Cardinality(Pending(h))
         /\ \A g \in frame[h].kids : g \in Frames /\ frame[g].outcome \in {"value", "none"}
<1>1. /\ ~Is(h, "gone") /\ ~Is(f, "gone") /\ frame[f].outcome = "none" /\ h # NoFrame
      /\ frame[h].kids \in SUBSET Frames
      /\ \A g \in Frames : frame[g].outcome \in {"none", "value", "error"}
  BY FrameAssumption DEF JoinInvariant, FrameInv, TypeInv, Promises, Outcomes, LifeInv, Stage,
                         Started, Is, Joining, Frames, NoFrame
<1>2. f \in frame[h].kids <=> Counts(f, h)
  BY <1>1 DEF JoinInvariant, KidsInv, Counts
<1>3. Counts(f, h) => f \in Pending(h)
  BY <1>1, <1>2 DEF Pending
<1>4. IsFiniteSet(Pending(h))
  <2>1. Pending(h) \in SUBSET Frames  BY <1>1 DEF Pending
  <2> QED  BY <2>1, FramesFinite
<1>5. /\ frame[h].count = Cardinality(Pending(h))
      /\ \A g \in frame[h].kids : frame[g].outcome # "error"
  BY DEF JoinInvariant, KidsInv
<1> QED  BY <1>1, <1>2, <1>3, <1>4, <1>5

LEMMA ReturnedKids ==
  ASSUME JoinInvariant, NEW f \in Frames, NEW outcome \in {"value", "error"}, Returned(f, outcome)
  PROVE  KidsInv' /\ NoCycle'
<1>1. /\ Is(f, "running")
      /\ \A h \in Frames : frame[h].kids \in SUBSET Frames
  BY DEF Returned, JoinInvariant, FrameInv, TypeInv, Promises
<1>2. ASSUME NEW h \in Frames, Joining(h)' PROVE Joining(h)
  BY <1>2 DEF Returned, Joining, Counts
<1>3. ASSUME NEW h \in Frames, Joining(h)'
      PROVE  /\ frame'[h].count = Cardinality(Pending(h)')
             /\ \A g \in frame'[h].kids : frame'[g].outcome # "error"
  <2>1. Joining(h)  BY <1>2, <1>3
  <2>2. /\ f \in frame[h].kids <=> Counts(f, h)
        /\ Counts(f, h) => f \in Pending(h)
        /\ IsFiniteSet(Pending(h)) /\ frame[h].count = Cardinality(Pending(h))
        /\ \A g \in frame[h].kids : g \in Frames /\ frame[g].outcome \in {"value", "none"}
    BY <1>1, <2>1, CountsPending
  <2>3. CASE Counts(f, h)
    <3>1. frame'[h].count = CountAfter(frame[h].count, outcome) /\ frame'[h].kids = frame[h].kids
      BY <2>3 DEF Returned
    <3>2. outcome = "value" /\ frame'[h].count = frame[h].count - 1
      BY <1>3, <3>1 DEF CountAfter, Joining
    <3>3. Pending(h)' = Pending(h) \ {f}
      BY <2>2, <3>1, <3>2 DEF Pending, Returned
    <3>4. Cardinality(Pending(h) \ {f}) = Cardinality(Pending(h)) - 1
      BY <2>2, <2>3, FS_RemoveElement
    <3>5. \A g \in frame'[h].kids : frame'[g].outcome # "error"
      BY <2>2, <3>1, <3>2 DEF Returned
    <3> QED  BY <2>2, <3>2, <3>3, <3>4, <3>5
  <2>4. CASE ~Counts(f, h)
    <3>1. frame'[h].count = frame[h].count /\ frame'[h].kids = frame[h].kids
      BY <2>4 DEF Returned
    <3>2. \A g \in frame[h].kids : frame'[g].outcome = frame[g].outcome
      BY <2>2, <2>4 DEF Returned
    <3>3. Pending(h)' = Pending(h)  BY <3>1, <3>2 DEF Pending
    <3> QED  BY <2>2, <3>1, <3>2, <3>3
  <2> QED  BY <2>3, <2>4
<1>4. ASSUME NEW h \in Frames, NEW g \in frame'[h].kids
      PROVE  frame'[g].launched /\ (Is(g, "gone")' \/ frame'[g].parent = h)
  <2>1. g \in frame[h].kids /\ g \in Frames  BY <1>1 DEF Returned
  <2>2. frame[g].launched /\ (Is(g, "gone") \/ frame[g].parent = h)
    BY <2>1 DEF JoinInvariant, KidsInv
  <2> QED  BY <2>1, <2>2 DEF Returned
<1>5. KidsInv'
  BY <1>3, <1>4 DEF KidsInv, Returned, JoinInvariant
<1>6. \A h, g \in Frames : Waits(h, g)' => Waits(h, g)
  BY <1>2 DEF Waits, Awaits, Returned
<1>7. NoCycle'
  <2> DEFINE L == {}
  <2>1. L \in SUBSET Frames /\ \A h \in L, g \in Frames : ~Waits(h, g)'  OBVIOUS
  <2> HIDE DEF L
  <2>2. \A h, g \in Frames \ L : Waits(h, g)' => Waits(h, g)  BY <1>6
  <2> QED  BY <2>1, <2>2, NoCycleKept DEF JoinInvariant
<1> QED  BY <1>5, <1>7

(***************************************************************************)
(* Every step is one of the four, so the invariant holds, and a coroutine  *)
(* that joins is resumed only by the step that ends its join().            *)
(***************************************************************************)
FourSteps ==
    \/ Quiet
    \/ \E f, g \in Frames : Awaited(f, g)
    \/ \E f \in Frames, K \in SUBSET Frames : Gathered(f, K)
    \/ \E f \in Frames, outcome \in {"value", "error"} : Returned(f, outcome)

LEMMA StepFacts ==
  ASSUME FrameInv, [FrameNext]_frameVars
  PROVE  FrameInv' /\ FourSteps
<1>1. CASE UNCHANGED frameVars
  <2>1. Quiet
    BY <1>1 DEF frameVars, Quiet, Kept, Joining, Started, Is, FrameInv, ResumeInv
  <2> QED  BY <2>1, NextFrameInv DEF FourSteps
<1>2. ASSUME NEW x \in Contexts, ThreadStep(x) PROVE FourSteps
  BY <1>2, DropArgInv, DestroyInv, RunHandleInv DEF ThreadStep, FourSteps
<1>3. ASSUME NEW x \in Contexts, SpawnRoot(x) PROVE FourSteps
  BY <1>3, SpawnRootInv DEF FourSteps
<1>4. ASSUME NEW x \in Contexts, NEW f \in Frames, CoroutineStep(x, f) PROVE FourSteps
  <2>1. ASSUME NEW params \in SUBSET frame[f].vars, Create(x, f, params) PROVE Quiet
    BY <2>1, CreateInv
  <2>2. ASSUME NEW g \in frame[f].vars, DropVar(x, f, g) PROVE Quiet
    BY <2>2, DropVarInv
  <2>3. ASSUME NEW g \in frame[f].vars, NEW temporary \in BOOLEAN, Await(x, f, g, temporary)
        PROVE  FourSteps
    <3>1. Awaited(f, g)  BY <2>3, AwaitInv
    <3>2. g \in Frames  BY <3>1 DEF Awaited
    <3> QED  BY <3>1, <3>2 DEF FourSteps
  <2>4. ASSUME NEW g \in frame[f].vars, NEW y \in Contexts, Spawn(x, f, g, y) PROVE Quiet
    BY <2>4, SpawnInv
  <2>5. CASE Join(x, f)
    <3>1. PICK K : Gathered(f, K)  BY <1>4, <2>5, JoinInv DEF CoroutineStep
    <3>2. K \in SUBSET Frames  BY <3>1 DEF Gathered
    <3> QED  BY <3>1, <3>2 DEF FourSteps
  <2>6. CASE Yield(x, f)    BY <2>6, YieldInv DEF FourSteps
  <2>7. ASSUME NEW y \in Contexts, NEW blocking \in BOOLEAN, Suspend(x, f, y, blocking)
        PROVE  Quiet
    BY <2>7, SuspendInv
  <2>8. ASSUME NEW g \in frame[f].vars, Assign(x, f, g) PROVE Quiet
    BY <2>8, AssignInv
  <2> QED  BY <1>4, <2>1, <2>2, <2>3, <2>4, <2>5, <2>6, <2>7, <2>8 DEF CoroutineStep, FourSteps
<1>5. ASSUME NEW f \in Frames, Returns(f) PROVE FourSteps
  <2>1. PICK x \in Contexts, o \in {"value", "error"} : Return(x, f, o)  BY <1>5 DEF Returns
  <2>2. Returned(f, o) \/ Quiet  BY <2>1, ReturnInv
  <2> QED  BY <2>2 DEF FourSteps
<1>6. ASSUME NEW f \in Frames, ComeBack(f) PROVE FourSteps
  BY <1>6, ComeBackInv DEF FourSteps
<1> QED  BY <1>1, <1>2, <1>3, <1>4, <1>5, <1>6, NextFrameInv DEF FrameNext

LEMMA JoinInvariantAlways == FrameSpec => []JoinInvariant
<1>1. FrameInit => JoinInvariant
  <2> SUFFICES ASSUME FrameInit PROVE JoinInvariant
    OBVIOUS
  <2>1. \A f \in Frames : /\ frame[f].kids = {} /\ frame[f].parent = NoFrame /\ frame[f].prev = NoFrame
                          /\ ~Joining(f) /\ ~Started(f) /\ f # NoFrame
    BY FrameAssumption DEF FrameInit, Blank, Joining, Started, Frames, NoFrame
  <2>2. KidsInv  BY <2>1 DEF KidsInv
  <2>3. NoCycle  BY <2>1 DEF NoCycle, Waits, Awaits
  <2> QED  BY <2>2, <2>3, InitFrameInv DEF JoinInvariant
<1>2. JoinInvariant /\ [FrameNext]_frameVars => JoinInvariant'
  <2> SUFFICES ASSUME JoinInvariant, [FrameNext]_frameVars PROVE JoinInvariant'
    OBVIOUS
  <2>1. FrameInv' /\ FourSteps  BY StepFacts DEF JoinInvariant
  <2>2. KidsInv' /\ NoCycle'
    BY <2>1, QuietKids, AwaitedKids, GatheredKids, ReturnedKids DEF FourSteps
  <2> QED  BY <2>1, <2>2 DEF JoinInvariant
<1> QED  BY <1>1, <1>2, PTL DEF FrameSpec

-----------------------------------------------------------------------------
(***************************************************************************)
(* A coroutine that does not migrate is resumed where it was launched, so  *)
(* it shares its thread with who awaits it, with who joins it and with the *)
(* others that are joined there: their handlers use one count one by one.  *)
(***************************************************************************)
Placed(x) == ToSet(queue[x]) \cup ToSet(stack[x])
Live(f) == Started(f) \/ OnStack(f)

HomeInv ==
    /\ \A x \in Contexts : \A f \in Placed(x) : frame[f].home = x
    /\ \A f, g \in Frames : Awaits(f, g) => frame[f].home = frame[g].home
    /\ \A f, g \in Frames : frame[g].parent = f /\ Started(g) =>
          /\ frame[f].threads \subseteq {frame[g].home}
          /\ Joining(f) => frame[f].home = frame[g].home
    /\ \A f, g, h \in Frames :
          frame[g].parent = f /\ Started(g) /\ frame[h].parent = f /\ Started(h)
             => frame[g].home = frame[h].home
    /\ \A f \in Frames : frame[f].kids = {} => Is(f, "gone") \/ frame[f].threads = {}

\* Those in L are launched, everybody else stays; who counts down does it there.
Settled(L) ==
    /\ \A h \in L : ~Live(h)
    /\ \A h \in Frames \ L : Live(h)' => frame'[h].home = frame[h].home
    /\ \A x \in Contexts : \A h \in Placed(x)' : h \in Placed(x) \/ frame'[h].home = x

Fewer == \A h \in Frames : frame'[h].threads \subseteq frame[h].threads

LEMMA PlacedLive ==
  FrameInv => \A x \in Contexts : \A f \in Placed(x) : f \in Frames /\ Live(f)
<1> SUFFICES ASSUME FrameInv, NEW x \in Contexts, NEW f \in Placed(x)
             PROVE  f \in Frames /\ Live(f)
  OBVIOUS
<1>1. queue[x] \in Seq(Frames) /\ stack[x] \in Seq(Frames)
  BY DEF FrameInv, TypeInv
<1>2. CASE f \in ToSet(queue[x])
  <2>1. f \in Frames  BY <1>1, <1>2, ElementOfSeq, LenProperties DEF ToSet
  <2>2. In(queue, f)  BY <1>2 DEF In
  <2> QED  BY <2>1, <2>2 DEF FrameInv, ResumeInv, Live, Started, Is
<1>3. CASE f \in ToSet(stack[x])
  <2>1. PICK i \in DOMAIN stack[x] : stack[x][i] = f  BY <1>3 DEF ToSet
  <2>2. f \in Frames  BY <1>1, <2>1, ElementOfSeq, LenProperties
  <2> QED  BY <2>1, <2>2 DEF FrameInv, StackInv, Live
<1> QED  BY <1>2, <1>3 DEF Placed

LEMMA HomesKept ==
  ASSUME FrameInv, FrameInv', HomeInv, NEW L \in SUBSET Frames, Settled(L),
         \A f, g \in Frames : Awaits(f, g)' => Awaits(f, g) \/ frame'[f].home = frame'[g].home,
         \A f, g \in Frames : frame'[g].parent = f /\ Started(g)' =>
            \/ /\ frame[g].parent = f /\ Started(g) /\ (Joining(f)' => Joining(f))
               /\ frame'[f].threads \subseteq frame[f].threads \cup {frame[g].home}
            \/ /\ g \in L /\ frame'[f].threads = {} /\ frame'[g].home = frame'[f].home
               /\ \A h \in Frames : frame'[h].parent = f /\ Started(h)' =>
                     h \in L /\ frame'[h].home = frame'[f].home,
         \A f \in Frames : frame'[f].kids = {} => Is(f, "gone")' \/ frame'[f].threads = {}
  PROVE  HomeInv'
<1>6. (\A x \in Contexts : \A f \in Placed(x) : f \in Frames /\ Live(f))'
  BY PlacedLive, PTL
<1>1. ASSUME NEW x \in Contexts, NEW f \in Placed(x)' PROVE frame'[f].home = x
  <2>1. f \in Frames /\ Live(f)'  BY <1>1, <1>6
  <2>2. CASE f \in Placed(x)
    <3>1. Live(f) /\ frame[f].home = x  BY <2>2, PlacedLive DEF HomeInv
    <3> QED  BY <2>1, <3>1 DEF Settled
  <2> QED  BY <1>1, <2>2 DEF Settled
<1>2. \A f \in Frames : Started(f) /\ Started(f)' => frame'[f].home = frame[f].home
  BY DEF Settled, Live
<1>3. ASSUME NEW f \in Frames, NEW g \in Frames, Awaits(f, g)'
      PROVE  frame'[f].home = frame'[g].home
  <2>1. CASE Awaits(f, g)
    <3>1. Started(g) /\ Started(g)' /\ frame[f].home = frame[g].home
      BY <1>3, <2>1 DEF HomeInv, Awaits
    <3>2. Is(f, "suspended") /\ Is(f, "suspended")'
      BY <1>3, <2>1 DEF FrameInv, ResumeInv, Awaiting
    <3> QED  BY <1>2, <3>1, <3>2 DEF Started, Is
  <2> QED  BY <1>3, <2>1
<1>4. ASSUME NEW f \in Frames, NEW g \in Frames, frame'[g].parent = f, Started(g)'
      PROVE  /\ frame'[f].threads \subseteq {frame'[g].home}
             /\ Joining(f)' => frame'[f].home = frame'[g].home
  <2>1. CASE /\ frame[g].parent = f /\ Started(g) /\ (Joining(f)' => Joining(f))
             /\ frame'[f].threads \subseteq frame[f].threads \cup {frame[g].home}
    <3>1. /\ frame'[g].home = frame[g].home /\ frame[f].threads \subseteq {frame[g].home}
          /\ Joining(f) => frame[f].home = frame[g].home
      BY <1>2, <1>4, <2>1 DEF HomeInv
    <3>2. Joining(f)' => Is(f, "suspended") /\ Is(f, "suspended")'
      BY <2>1 DEF FrameInv, ResumeInv
    <3> QED  BY <1>2, <2>1, <3>1, <3>2 DEF Started, Is
  <2>2. CASE g \in L /\ frame'[f].threads = {} /\ frame'[g].home = frame'[f].home
    BY <2>2
  <2> QED  BY <1>4, <2>1, <2>2
<1>5. ASSUME NEW f \in Frames, NEW g \in Frames, NEW h \in Frames, frame'[g].parent = f, Started(g)',
             frame'[h].parent = f, Started(h)'
      PROVE  frame'[g].home = frame'[h].home
  <2>1. CASE frame[g].parent = f /\ Started(g) /\ frame[h].parent = f /\ Started(h)
    BY <1>2, <1>5, <2>1 DEF HomeInv
  <2>2. CASE \A k \in Frames : frame'[k].parent = f /\ Started(k)' =>
                 k \in L /\ frame'[k].home = frame'[f].home
    BY <1>5, <2>2
  <2> QED  BY <1>5, <2>1, <2>2
<1> QED  BY <1>1, <1>3, <1>4, <1>5 DEF HomeInv

LEMMA QuietHomes ==
  ASSUME JoinInvariant, FrameInv', HomeInv, Quiet, NEW L \in SUBSET Frames, Settled(L), Fewer
  PROVE  HomeInv'
<1>1. \A g \in Frames : g # NoFrame
  BY FrameAssumption DEF Frames, NoFrame
<1>2. ASSUME NEW g \in Frames, Started(g)', frame'[g].prev # NoFrame \/ frame'[g].parent # NoFrame
      PROVE  Started(g) /\ frame'[g].prev = frame[g].prev /\ frame'[g].parent = frame[g].parent
  <2>1. ~Cleared(g)  BY <1>2 DEF Cleared, Started, Is
  <2>2. Kept(g) /\ frame'[g].prev = frame[g].prev  BY <2>1 DEF Quiet
  <2>3. ~Is(g, "created") /\ ~Is(g, "none")
    BY <1>2, <2>2 DEF Kept, JoinInvariant, FrameInv, LifeInv, Stage
  <2> QED  BY <1>2, <2>2, <2>3 DEF Kept
<1>3. \A f, g \in Frames : Awaits(f, g)' => Awaits(f, g)
  BY <1>1, <1>2 DEF Awaits
<1>4. \A f \in Frames : Joining(f)' => Joining(f)
  BY DEF Quiet, Kept, Cleared, Joining
<1>5. \A f \in Frames : frame'[f].kids = {} => Is(f, "gone")' \/ frame'[f].threads = {}
  BY DEF Quiet, Kept, Cleared, Fewer, HomeInv
<1>6. \A f, g \in Frames : frame'[g].parent = f /\ Started(g)' =>
         /\ frame[g].parent = f /\ Started(g) /\ (Joining(f)' => Joining(f))
         /\ frame'[f].threads \subseteq frame[f].threads \cup {frame[g].home}
  BY <1>1, <1>2, <1>4 DEF Fewer
<1> QED  BY <1>3, <1>5, <1>6, HomesKept DEF JoinInvariant

LEMMA AwaitedHomes ==
  ASSUME JoinInvariant, FrameInv', HomeInv, NEW f \in Frames, NEW g \in Frames, Awaited(f, g),
         Settled({g}), Fewer, frame'[f].home = frame'[g].home
  PROVE  HomeInv'
<1>1. Is(g, "created") /\ frame[g].parent = NoFrame /\ \A h \in Frames : h # NoFrame
  BY FrameAssumption DEF Awaited, JoinInvariant, FrameInv, LifeInv, Stage, Frames, NoFrame
<1>2. \A h, k \in Frames : Awaits(h, k)' => Awaits(h, k) \/ frame'[h].home = frame'[k].home
  BY DEF Awaited, Awaits
<1>3. \A h \in Frames : frame'[h].kids = {} => Is(h, "gone")' \/ frame'[h].threads = {}
  BY DEF Awaited, Kept, Fewer, HomeInv
<1>4. \A h, k \in Frames : frame'[k].parent = h /\ Started(k)' =>
         /\ frame[k].parent = h /\ Started(k) /\ (Joining(h)' => Joining(h))
         /\ frame'[h].threads \subseteq frame[h].threads \cup {frame[k].home}
  BY <1>1 DEF Awaited, Kept, Fewer, Joining
<1>5. {g} \in SUBSET Frames  OBVIOUS
<1> QED  BY <1>2, <1>3, <1>4, <1>5, HomesKept DEF JoinInvariant

LEMMA GatheredHomes ==
  ASSUME JoinInvariant, FrameInv', HomeInv, NEW f \in Frames, NEW K \in SUBSET Frames,
         Gathered(f, K), Settled(K), Fewer, \A g \in K : frame'[g].home = frame'[f].home
  PROVE  HomeInv'
<1>1. /\ \A g \in K : Is(g, "created") /\ frame[g].prev = NoFrame
      /\ \A g \in Frames : frame[g].parent # f /\ g # NoFrame
      /\ Is(f, "running") /\ frame[f].kids = {} /\ frame[f].threads = {}
  <2>1. /\ Is(f, "running") /\ frame[f].kids = {} /\ ~Is(f, "gone")
        /\ \A g \in K : Is(g, "created")
    BY DEF Gathered, Is
  <2>2. \A g \in Frames : frame[g].parent # f
    BY <2>1 DEF JoinInvariant, KidsInv
  <2>3. frame[f].threads = {}
    BY <2>1 DEF HomeInv
  <2>4. \A g \in K : frame[g].prev = NoFrame
    BY <2>1 DEF JoinInvariant, FrameInv, LifeInv, Stage
  <2>5. \A g \in Frames : g # NoFrame  BY FrameAssumption DEF Frames, NoFrame
  <2> QED  BY <2>1, <2>2, <2>3, <2>4, <2>5
<1>2. \A h, k \in Frames : Awaits(h, k)' => Awaits(h, k)
  BY <1>1 DEF Gathered, Awaits
<1>3. frame'[f].threads = {}
  BY <1>1 DEF Fewer
<1>4. \A h \in Frames : frame'[h].kids = {} => Is(h, "gone")' \/ frame'[h].threads = {}
  BY <1>3 DEF Gathered, Fewer, HomeInv
<1>5. ASSUME NEW h \in Frames, NEW k \in Frames, frame'[k].parent = h, Started(k)'
      PROVE  \/ /\ frame[k].parent = h /\ Started(k) /\ (Joining(h)' => Joining(h))
                /\ frame'[h].threads \subseteq frame[h].threads \cup {frame[k].home}
             \/ /\ k \in K /\ frame'[h].threads = {} /\ frame'[k].home = frame'[h].home
                /\ \A l \in Frames : frame'[l].parent = h /\ Started(l)' =>
                      l \in K /\ frame'[l].home = frame'[h].home
  <2>1. CASE k \in K
    <3>1. h = f  BY <1>5, <2>1 DEF Gathered
    <3>2. \A l \in Frames : frame'[l].parent = f => l \in K
      BY <1>1 DEF Gathered
    <3> QED  BY <1>3, <2>1, <3>1, <3>2
  <2>2. CASE k \notin K
    <3>1. frame[k].parent = h /\ Started(k) /\ h # f  BY <1>1, <1>5, <2>2 DEF Gathered
    <3>2. Joining(h)' => Joining(h)  BY <3>1 DEF Gathered, Joining
    <3> QED  BY <3>1, <3>2 DEF Fewer
  <2> QED  BY <2>1, <2>2
<1> QED  BY <1>2, <1>4, <1>5, HomesKept DEF JoinInvariant

LEMMA ReturnedHomes ==
  ASSUME JoinInvariant, FrameInv', HomeInv, NEW f \in Frames, NEW outcome \in {"value", "error"},
         Returned(f, outcome), Settled({}),
         \A h \in Frames : frame'[h].threads \subseteq
                              frame[h].threads \cup (IF Counts(f, h) THEN {frame[f].home} ELSE {})
  PROVE  HomeInv'
<1>1. Is(f, "running") /\ Started(f) /\ \A h \in Frames : h # NoFrame
  BY FrameAssumption DEF Returned, Started, Is, Frames, NoFrame
<1>2. \A h, k \in Frames : Awaits(h, k)' => Awaits(h, k)
  BY DEF Returned, Awaits
<1>3. \A h \in Frames : Counts(f, h) => frame[f].parent = h /\ frame[h].kids # {}
  <2>1. \A h \in Frames : Joining(h) => ~Is(h, "gone")
    BY DEF JoinInvariant, FrameInv, ResumeInv, Is
  <2> QED  BY <2>1 DEF Counts, JoinInvariant, KidsInv
<1>4. \A h \in Frames : Joining(h)' => Joining(h)
  BY DEF Returned, Joining, Counts
<1>5. \A h \in Frames : frame'[h].kids = {} => Is(h, "gone")' \/ frame'[h].threads = {}
  <2> SUFFICES ASSUME NEW h \in Frames, frame'[h].kids = {}
               PROVE  Is(h, "gone")' \/ frame'[h].threads = {}
    OBVIOUS
  <2>1. frame[h].kids = {}  BY DEF Returned
  <2>2. frame'[h].threads \subseteq frame[h].threads  BY <1>3, <2>1
  <2>3. Is(h, "gone") \/ frame[h].threads = {}  BY <2>1 DEF HomeInv
  <2> QED  BY <2>2, <2>3 DEF Returned
<1>6. ASSUME NEW h \in Frames, NEW k \in Frames, frame'[k].parent = h, Started(k)'
      PROVE  /\ frame[k].parent = h /\ Started(k) /\ (Joining(h)' => Joining(h))
             /\ frame'[h].threads \subseteq frame[h].threads \cup {frame[k].home}
  <2>1. frame[k].parent = h /\ Started(k)  BY <1>6 DEF Returned
  <2>2. Counts(f, h) => frame[k].home = frame[f].home
    BY <1>1, <1>3, <2>1 DEF HomeInv
  <2> QED  BY <1>4, <2>1, <2>2
<1>7. {} \in SUBSET Frames  OBVIOUS
<1> QED  BY <1>2, <1>5, <1>6, <1>7, HomesKept DEF JoinInvariant

(***************************************************************************)
(* The steps.                                                              *)
(***************************************************************************)
\* Its home counts as long as it runs or will.
Stays(h) ==
    frame'[h].threads = frame[h].threads /\ (Live(h)' => frame'[h].home = frame[h].home)

LEMMA PushedFrames ==
  ASSUME NEW q \in [Contexts -> Seq(Frames)], NEW x \in Contexts, NEW f \in Frames
  PROVE  \A y \in Contexts : \A h \in ToSet(Push(q, x, f)[y]) : h \in ToSet(q[y]) \/ (h = f /\ y = x)
<1>1. /\ Push(q, x, f)[x] = Append(q[x], f) /\ q[x] \in Seq(Frames)
      /\ \A y \in Contexts : y # x => Push(q, x, f)[y] = q[y]
  BY PushFacts
<1>2. ToSet(Append(q[x], f)) = ToSet(q[x]) \cup {f}
  BY <1>1, AppendQueue
<1> QED  BY <1>1, <1>2

LEMMA PoppedFrames ==
  ASSUME FrameInv, NEW x \in Contexts, stack[x] # <<>>, Pop(x)
  PROVE  \A y \in Contexts : ToSet(stack'[y]) \subseteq ToSet(stack[y])
<1>1. /\ stack \in [Contexts -> Seq(Frames)]
      /\ stack'[x] = Front(stack[x]) /\ \A y \in Contexts : y # x => stack'[y] = stack[y]
  BY DEF FrameInv, TypeInv, Pop
<1>2. stack[x] \in Seq(Frames) /\ ToSet(stack[x]) = ToSet(Front(stack[x])) \cup {Last(stack[x])}
  BY <1>1, FrontQueue
<1> QED  BY <1>1, <1>2

LEMMA RunsHome ==
  ASSUME FrameInv, HomeInv, NEW x \in Contexts, NEW f \in Frames, Runs(x, f)
  PROVE  f \in Placed(x) /\ frame[f].home = x /\ Live(f) /\ stack[x] # <<>>
<1>1. stack[x] \in Seq(Frames) /\ stack[x] # <<>> /\ f = Last(stack[x]) /\ OnStack(f)
  BY RunsFacts DEF FrameInv, TypeInv
<1>2. f \in ToSet(stack[x])  BY <1>1, FrontQueue
<1> QED  BY <1>1, <1>2 DEF Placed, HomeInv, Live

LEMMA HomesStay ==
  ASSUME JoinInvariant, FrameInv', HomeInv, Quiet, \A h \in Frames : Stays(h),
         \A x \in Contexts : \A h \in Placed(x)' : h \in Placed(x) \/ frame'[h].home = x
  PROVE  HomeInv'
<1>1. {} \in SUBSET Frames /\ Settled({}) /\ Fewer
  BY DEF Settled, Stays, Fewer
<1> QED  BY <1>1, QuietHomes

\* What ~Coro() leaves of the frames, and what a change elsewhere in one does.
LEMMA DroppedHomes ==
  ASSUME TypeInv, LifeInv, OwnInv, NEW objects \in SUBSET Frames, \A g \in objects : ~Is(g, "none")
  PROVE  /\ Dropped(frame, objects) \in [Frames -> Promises]
         /\ \A h \in Frames : \/ Dropped(frame, objects)[h] = frame[h]
                              \/ /\ Dropped(frame, objects)[h].life = "gone"
                                 /\ Dropped(frame, objects)[h].threads = frame[h].threads
<1>1. \A h \in Frames : Gone(h).life = "gone" /\ Gone(h).threads = frame[h].threads
  BY DEF Gone, Blank
<1>2. Dropped(frame, objects) \in [Frames -> Promises]
  BY DroppedFields
<1> QED  BY <1>1, <1>2 DEF Dropped

LEMMA CreateHomes ==
  ASSUME JoinInvariant, HomeInv, NEW x \in Contexts, NEW f \in Frames, NEW params \in SUBSET frame[f].vars,
         Create(x, f, params)
  PROVE  HomeInv'
<1>1. FrameInv' /\ Quiet  BY CreateInv DEF JoinInvariant
<1> PICK b \in Nat : b = born + 1
  BY DEF JoinInvariant, FrameInv, TypeInv
<1>2. /\ b \in Frames /\ b # f /\ frame[b].threads = {}
      /\ frame' = [frame EXCEPT ![f].vars = (@ \ params) \cup {b},
                                ![b] = [Blank EXCEPT !.life = "created", !.vars = params]]
      /\ UNCHANGED <<queue, stack>>
  <2>1. b \in Frames /\ b > born /\ born' = b
    BY FrameAssumption DEF JoinInvariant, FrameInv, TypeInv, Create, Frames
  <2>2. Is(b, "none") /\ frame[b].kids = {} /\ Is(f, "running")
    BY <2>1 DEF JoinInvariant, FrameInv, LifeInv, Stage, Create, Runs, Is
  <2> QED  BY <2>1, <2>2 DEF Create, HomeInv, Is
<1>3. \A h \in Frames : frame[h] \in Promises
  BY DEF JoinInvariant, FrameInv, TypeInv
<1>4. frame'[b].life = "created" /\ frame'[b].threads = {}
  BY <1>2 DEF Blank, JoinInvariant, FrameInv, TypeInv
<1>5. frame'[f].home = frame[f].home /\ frame'[f].threads = frame[f].threads
  BY <1>2, <1>3 DEF Promises, JoinInvariant, FrameInv, TypeInv
<1>6. \A h \in Frames : h # b /\ h # f => frame'[h] = frame[h]
  BY <1>2 DEF JoinInvariant, FrameInv, TypeInv
<1>7. ASSUME NEW h \in Frames PROVE Stays(h)
  BY <1>2, <1>4, <1>5, <1>6 DEF Stays, Live, Started, OnStack
<1> QED  BY <1>1, <1>2, <1>7, HomesStay DEF Placed

LEMMA DropVarHomes ==
  ASSUME JoinInvariant, HomeInv, NEW x \in Contexts, NEW f \in Frames, NEW g \in frame[f].vars,
         DropVar(x, f, g)
  PROVE  HomeInv'
<1>1. FrameInv' /\ Quiet  BY DropVarInv DEF JoinInvariant
<1> PICK objects : objects = {g}  OBVIOUS
<1>2. objects \in SUBSET Frames /\ \A h \in objects : ~Is(h, "none")
  BY DEF JoinInvariant, FrameInv, TypeInv, Promises, OwnInv
<1> PICK G : G = Dropped(frame, objects)  OBVIOUS
<1>3. /\ G \in [Frames -> Promises]
      /\ \A h \in Frames : G[h] = frame[h] \/ (G[h].life = "gone" /\ G[h].threads = frame[h].threads)
  BY <1>2, DroppedHomes DEF JoinInvariant, FrameInv
<1>4. frame' = [G EXCEPT ![f].vars = @ \ {g}] /\ UNCHANGED <<queue, stack>>
  BY DEF DropVar
<1>5. /\ \A h \in Frames : h # f => frame'[h] = G[h]
      /\ frame'[f].life = G[f].life /\ frame'[f].home = G[f].home /\ frame'[f].threads = G[f].threads
  BY <1>3, <1>4 DEF Promises
<1>6. ASSUME NEW h \in Frames PROVE Stays(h)
  <2>1. /\ frame'[h].life = G[h].life /\ frame'[h].home = G[h].home
        /\ frame'[h].threads = G[h].threads
    BY <1>5
  <2> QED  BY <1>3, <2>1 DEF Stays, Live, Started, OnStack
<1> QED  BY <1>1, <1>4, <1>6, HomesStay DEF Placed

LEMMA AssignHomes ==
  ASSUME JoinInvariant, HomeInv, NEW x \in Contexts, NEW f \in Frames, NEW g \in frame[f].vars,
         Assign(x, f, g)
  PROVE  HomeInv'
<1>1. FrameInv' /\ Quiet  BY AssignInv DEF JoinInvariant
<1>2. /\ frame \in [Frames -> Promises]
      /\ frame' = [frame EXCEPT ![f].vars = @ \ {g}] /\ UNCHANGED <<queue, stack>>
  BY DEF Assign, JoinInvariant, FrameInv, TypeInv
<1>3. /\ \A h \in Frames : h # f => frame'[h] = frame[h]
      /\ frame'[f].home = frame[f].home /\ frame'[f].threads = frame[f].threads
  BY <1>2 DEF Promises
<1>4. \A h \in Frames : Stays(h)  BY <1>3 DEF Stays
<1> QED  BY <1>1, <1>2, <1>4, HomesStay DEF Placed

LEMMA DropArgHomes ==
  ASSUME JoinInvariant, HomeInv, NEW x \in Contexts, DropArg(x)
  PROVE  HomeInv'
<1>1. FrameInv' /\ Quiet  BY DropArgInv DEF JoinInvariant
<1> PICK objects : objects = {arg[x]}  OBVIOUS
<1>2. objects \in SUBSET Frames /\ \A h \in objects : ~Is(h, "none")
  <2>1. arg[x] \in Frames /\ frame[arg[x]].launched
    BY DEF DropArg, JoinInvariant, FrameInv, TypeInv, Handles, ArgInv
  <2> QED  BY <2>1 DEF JoinInvariant, FrameInv, LifeInv, Stage
<1>3. /\ frame' = Dropped(frame, objects) /\ UNCHANGED <<queue, stack>>
      /\ \A h \in Frames : frame'[h] = frame[h] \/ (frame'[h].life = "gone" /\ frame'[h].threads = frame[h].threads)
  BY <1>2, DroppedHomes DEF JoinInvariant, FrameInv, DropArg
<1>4. \A h \in Frames : Stays(h)  BY <1>3 DEF Stays, Live, Started, OnStack
<1> QED  BY <1>1, <1>3, <1>4, HomesStay DEF Placed

LEMMA DestroyHomes ==
  ASSUME JoinInvariant, HomeInv, NEW x \in Contexts, Destroy(x)
  PROVE  HomeInv'
<1>1. FrameInv' /\ Quiet  BY DestroyInv DEF JoinInvariant
<1> PICK f : f = Last(stack[x])  OBVIOUS
<1>2. /\ f \in Frames /\ stack[x] # <<>> /\ Pop(x) /\ queue' = queue
      /\ frame' = [Dropped(frame, frame[f].vars) EXCEPT ![f] = Gone(f)]
  BY FrontQueue DEF JoinInvariant, FrameInv, TypeInv, Destroy
<1>3. frame[f].vars \in SUBSET Frames /\ \A g \in frame[f].vars : ~Is(g, "none")
  BY <1>2 DEF JoinInvariant, FrameInv, TypeInv, Promises, OwnInv
<1> PICK G : G = Dropped(frame, frame[f].vars)  OBVIOUS
<1>4. /\ G \in [Frames -> Promises]
      /\ \A h \in Frames : G[h] = frame[h] \/ (G[h].life = "gone" /\ G[h].threads = frame[h].threads)
  BY <1>3, DroppedHomes DEF JoinInvariant, FrameInv
<1>5. /\ \A h \in Frames : h # f => frame'[h] = G[h]
      /\ frame'[f].life = "gone" /\ frame'[f].threads = frame[f].threads
  <2>1. frame' = [G EXCEPT ![f] = Gone(f)]  BY <1>2
  <2>2. Gone(f).life = "gone" /\ Gone(f).threads = frame[f].threads  BY DEF Gone, Blank
  <2> QED  BY <1>2, <1>4, <2>1, <2>2
<1>6. \A h \in Frames : Stays(h)
  BY <1>4, <1>5 DEF Stays, Live, Started, OnStack
<1>7. \A y \in Contexts : \A h \in Placed(y)' : h \in Placed(y)
  BY <1>2, PoppedFrames DEF Placed, JoinInvariant
<1> QED  BY <1>1, <1>6, <1>7, HomesStay

\* A coroutine suspends on its own thread and waits to come back there.
LEMMA SuspendedStays ==
  ASSUME FrameInv, HomeInv, NEW x \in Contexts, NEW f \in Frames, Runs(x, f),
         frame' = [frame EXCEPT ![f].life = "suspended", ![f].home = x], Pop(x),
         queue' = queue \/ queue' = Push(queue, x, f)
  PROVE  /\ \A h \in Frames : Stays(h)
         /\ \A y \in Contexts : \A h \in Placed(y)' : h \in Placed(y) \/ frame'[h].home = y
<1>1. /\ frame \in [Frames -> Promises] /\ queue \in [Contexts -> Seq(Frames)]
      /\ f \in Placed(x) /\ frame[f].home = x /\ stack[x] # <<>>
  BY RunsHome DEF FrameInv, TypeInv
<1>2. /\ \A h \in Frames : h # f => frame'[h] = frame[h]
      /\ frame'[f].home = x /\ frame'[f].threads = frame[f].threads
  <2>1. frame'[f] = [frame[f] EXCEPT !.life = "suspended", !.home = x]  BY <1>1
  <2> QED  BY <1>1, <2>1 DEF Promises
<1>3. \A h \in Frames : Stays(h)
  BY <1>1, <1>2 DEF Stays
<1>4. \A y \in Contexts : \A h \in ToSet(queue'[y]) : h \in ToSet(queue[y]) \/ (h = f /\ y = x)
  <2>1. CASE queue' = queue  BY <2>1
  <2>2. CASE queue' = Push(queue, x, f)
    <3>1. \A y \in Contexts : \A h \in ToSet(Push(queue, x, f)[y]) :
             h \in ToSet(queue[y]) \/ (h = f /\ y = x)
      BY <1>1, PushedFrames
    <3> QED  BY <2>2, <3>1
  <2> QED  BY <2>1, <2>2
<1>5. \A y \in Contexts : ToSet(stack'[y]) \subseteq ToSet(stack[y])
  BY <1>1, PoppedFrames
<1> QED  BY <1>1, <1>3, <1>4, <1>5 DEF Placed

LEMMA YieldHomes ==
  ASSUME JoinInvariant, HomeInv, NEW x \in Contexts, NEW f \in Frames, Yield(x, f)
  PROVE  HomeInv'
<1>1. FrameInv' /\ Quiet  BY YieldInv DEF JoinInvariant
<1>2. /\ Runs(x, f) /\ frame' = [frame EXCEPT ![f].life = "suspended", ![f].home = x]
      /\ queue' = Push(queue, x, f) /\ Pop(x)
  BY DEF Yield
<1> QED  BY <1>1, <1>2, SuspendedStays, HomesStay DEF JoinInvariant

LEMMA SuspendHomes ==
  ASSUME ~Migrate, JoinInvariant, HomeInv, NEW x \in Contexts, NEW f \in Frames, NEW y \in Contexts,
         NEW blocking \in BOOLEAN, Suspend(x, f, y, blocking)
  PROVE  HomeInv'
<1>1. FrameInv' /\ Quiet  BY SuspendInv DEF JoinInvariant
<1>2. /\ Runs(x, f) /\ frame' = [frame EXCEPT ![f].life = "suspended", ![f].home = x]
      /\ queue' = queue /\ Pop(x)
  <2>1. y = x  BY DEF Suspend
  <2> QED  BY <2>1 DEF Suspend
<1> QED  BY <1>1, <1>2, SuspendedStays, HomesStay DEF JoinInvariant

\* spawn()
LEMMA QueuedFrames ==
  ASSUME FrameInv, NEW y \in Contexts, NEW g \in Frames, queue' = Push(queue, y, g)
  PROVE  \A z \in Contexts : \A h \in ToSet(queue'[z]) : h \in ToSet(queue[z]) \/ (h = g /\ z = y)
<1> PICK q \in [Contexts -> Seq(Frames)] : q = queue  BY DEF FrameInv, TypeInv
<1>1. \A z \in Contexts : \A h \in ToSet(Push(q, y, g)[z]) : h \in ToSet(q[z]) \/ (h = g /\ z = y)
  BY PushedFrames
<1>2. queue' = Push(q, y, g)  OBVIOUS
<1> QED  BY <1>1, <1>2

LEMMA LaunchedHomes ==
  ASSUME JoinInvariant, FrameInv', HomeInv, Quiet, NEW y \in Contexts, NEW g \in Frames, ~Live(g),
         \A h \in Frames : frame'[h].threads = frame[h].threads
                           /\ (h # g => frame'[h].home = frame[h].home),
         frame'[g].home = y, queue' = Push(queue, y, g), stack' = stack
  PROVE  HomeInv'
<1>1. \A z \in Contexts : \A h \in ToSet(queue'[z]) : h \in ToSet(queue[z]) \/ (h = g /\ z = y)
  BY QueuedFrames DEF JoinInvariant
<1>2. Settled({g}) /\ Fewer /\ {g} \in SUBSET Frames
  BY <1>1 DEF Settled, Fewer, Placed
<1> QED  BY <1>2, QuietHomes

LEMMA SpawnHomes ==
  ASSUME JoinInvariant, HomeInv, NEW x \in Contexts, NEW f \in Frames, NEW g \in frame[f].vars,
         NEW y \in Contexts, Spawn(x, f, g, y)
  PROVE  HomeInv'
<1>1. FrameInv' /\ Quiet  BY SpawnInv DEF JoinInvariant
<1>2. /\ g \in Unlaunched(frame[f].vars) /\ g \in Frames /\ Is(f, "running")
      /\ frame' = [Launched(frame, g, y) EXCEPT ![f].vars = @ \ {g}]
      /\ queue' = Push(queue, y, g) /\ stack' = stack
  BY DEF Spawn, Runs, JoinInvariant, FrameInv, TypeInv, Promises
<1>3. Is(g, "created") /\ g # f /\ ~Live(g)
  <2>1. frame[f].vars \in SUBSET Frames /\ \A k \in frame[f].vars : ~Is(k, "none")
    BY DEF JoinInvariant, FrameInv, TypeInv, Promises, OwnInv
  <2>2. Is(g, "created")  BY <1>2, <2>1, UnlaunchedCreated DEF JoinInvariant, FrameInv
  <2> QED  BY <1>2, <2>2 DEF Is, Live, Started, OnStack
<1>4. /\ \A h \in Frames : frame'[h].threads = frame[h].threads
                           /\ (h # g => frame'[h].home = frame[h].home)
      /\ frame'[g].home = y
  <2>1. frame \in [Frames -> Promises] /\ frame[f] \in Promises /\ frame[g] \in Promises
    BY <1>2 DEF JoinInvariant, FrameInv, TypeInv
  <2>2. /\ frame'[g] = [frame[g] EXCEPT !.launched = TRUE, !.life = "suspended", !.home = y]
        /\ frame'[f] = [frame[f] EXCEPT !.vars = @ \ {g}]
        /\ \A h \in Frames : h # f /\ h # g => frame'[h] = frame[h]
    BY <1>2, <1>3, <2>1 DEF Launched
  <2>3. frame'[g].home = y /\ frame'[g].threads = frame[g].threads
    BY <2>1, <2>2 DEF Promises
  <2>4. frame'[f].home = frame[f].home /\ frame'[f].threads = frame[f].threads
    BY <2>1, <2>2 DEF Promises
  <2> QED  BY <2>2, <2>3, <2>4
<1> QED  BY <1>1, <1>2, <1>3, <1>4, LaunchedHomes

LEMMA SpawnRootHomes ==
  ASSUME JoinInvariant, HomeInv, NEW x \in Contexts, SpawnRoot(x)
  PROVE  HomeInv'
<1>1. FrameInv' /\ Quiet  BY SpawnRootInv DEF JoinInvariant
<1> PICK g \in Nat : g = born + 1
  BY DEF JoinInvariant, FrameInv, TypeInv
<1>2. /\ g \in Frames /\ ~Live(g) /\ frame' = Launched(frame, g, x)
      /\ queue' = Push(queue, x, g) /\ stack' = stack
  <2>1. born' = g /\ born < MaxFrames  BY DEF SpawnRoot
  <2>2. g \in Frames /\ g > born
    BY <2>1, FrameAssumption DEF JoinInvariant, FrameInv, TypeInv, Frames
  <2>3. Is(g, "none")  BY <2>2 DEF JoinInvariant, FrameInv, LifeInv, Stage
  <2> QED  BY <2>1, <2>2, <2>3 DEF SpawnRoot, Live, Started, OnStack, Is
<1>3. frame \in [Frames -> Promises] /\ frame[g] \in Promises
  BY <1>2 DEF JoinInvariant, FrameInv, TypeInv
<1>4. /\ frame'[g] = [frame[g] EXCEPT !.launched = TRUE, !.life = "suspended", !.home = x]
      /\ \A h \in Frames : h # g => frame'[h] = frame[h]
  BY <1>2, <1>3 DEF Launched
<1>5. frame'[g].home = x /\ frame'[g].threads = frame[g].threads
  BY <1>3, <1>4 DEF Promises
<1> QED  BY <1>1, <1>2, <1>4, <1>5, LaunchedHomes

\* A context resumes a coroutine whose home it is.
LEMMA ResumedStays ==
  ASSUME FrameInv, NEW x \in Contexts, NEW f \in Frames, Is(f, "suspended"),
         Resume(frame, x, f, "none")
  PROVE  (\A h \in Frames : Stays(h)) /\ stack' = Push(stack, x, f) /\ frame'[f].home = frame[f].home
<1>1. frame \in [Frames -> Promises] /\ TypeInv /\ LifeInv
  BY DEF FrameInv, TypeInv
<1>2. frame' = [frame EXCEPT ![f].life = "running", ![f].temp = NoFrame] /\ stack' = Push(stack, x, f)
  BY <1>1, ResumeQuiet
<1>3. /\ \A h \in Frames : h # f => frame'[h] = frame[h]
      /\ frame'[f].home = frame[f].home /\ frame'[f].threads = frame[f].threads
  <2>1. frame'[f] = [frame[f] EXCEPT !.life = "running", !.temp = NoFrame]  BY <1>1, <1>2
  <2> QED  BY <1>1, <1>2, <2>1 DEF Promises
<1> QED  BY <1>2, <1>3 DEF Stays

LEMMA RunHandleHomes ==
  ASSUME JoinInvariant, HomeInv, NEW x \in Contexts, RunHandle(x)
  PROVE  HomeInv'
<1>1. FrameInv' /\ Quiet  BY RunHandleInv DEF JoinInvariant
<1> PICK f : f = Head(queue[x])  OBVIOUS
<1>2. /\ queue[x] \in Seq(Frames) /\ queue[x] # <<>> /\ Resume(frame, x, f, "none")
      /\ queue' = [queue EXCEPT ![x] = Tail(@)]
      /\ queue \in [Contexts -> Seq(Frames)] /\ stack \in [Contexts -> Seq(Frames)]
  BY DEF RunHandle, JoinInvariant, FrameInv, TypeInv
<1>3. f \in Frames /\ ToSet(queue[x]) = ToSet(Tail(queue[x])) \cup {f}
  BY <1>2, PopQueue
<1>4. Is(f, "suspended")
  <2>1. In(queue, f)  BY <1>3 DEF In
  <2> QED  BY <1>3, <2>1 DEF JoinInvariant, FrameInv, ResumeInv
<1>5. (\A h \in Frames : Stays(h)) /\ stack' = Push(stack, x, f)
  BY <1>2, <1>3, <1>4, ResumedStays DEF JoinInvariant
<1>6. \A y \in Contexts : ToSet(queue'[y]) \subseteq ToSet(queue[y])
  <2>1. queue'[x] = Tail(queue[x]) /\ \A y \in Contexts : y # x => queue'[y] = queue[y]
    BY <1>2
  <2> QED  BY <1>3, <2>1
<1>7. \A y \in Contexts : \A h \in ToSet(stack'[y]) : h \in ToSet(stack[y]) \/ (h = f /\ y = x)
  <2>1. \A y \in Contexts : \A h \in ToSet(Push(stack, x, f)[y]) :
           h \in ToSet(stack[y]) \/ (h = f /\ y = x)
    <3>1. f \in Frames /\ stack \in [Contexts -> Seq(Frames)]  BY <1>2, <1>3
    <3> QED  BY <3>1, PushedFrames
  <2>2. stack' = Push(stack, x, f)  BY <1>5
  <2> QED  BY <2>1, <2>2
<1>8. \A y \in Contexts : \A h \in Placed(y)' : h \in Placed(y)
  BY <1>3, <1>6, <1>7 DEF Placed
<1> QED  BY <1>1, <1>5, <1>8, HomesStay

LEMMA ComeBackHomes ==
  ASSUME JoinInvariant, HomeInv, NEW f \in Frames, ComeBack(f)
  PROVE  HomeInv'
<1>1. FrameInv' /\ Quiet  BY ComeBackInv DEF JoinInvariant
<1> PICK x : x = frame[f].home  OBVIOUS
<1>2. /\ f \in away
      /\ \/ Resume(frame, x, f, "none") /\ queue' = queue
         \/ queue' = Push(queue, x, f) /\ UNCHANGED <<frame, stack>>
  BY DEF ComeBack
<1>3. /\ Is(f, "suspended") /\ queue \in [Contexts -> Seq(Frames)]
      /\ stack \in [Contexts -> Seq(Frames)]
  BY <1>2 DEF JoinInvariant, FrameInv, TypeInv, ResumeInv
<1>4. x \in Contexts
  BY <1>3 DEF JoinInvariant, FrameInv, LifeInv, Stage, Started, Is
<1>5. CASE Resume(frame, x, f, "none") /\ queue' = queue
  <2>1. (\A h \in Frames : Stays(h)) /\ stack' = Push(stack, x, f) /\ frame'[f].home = x
    BY <1>3, <1>4, <1>5, ResumedStays DEF JoinInvariant
  <2>2. \A y \in Contexts : \A h \in ToSet(stack'[y]) : h \in ToSet(stack[y]) \/ (h = f /\ y = x)
    BY <1>3, <1>4, <2>1, PushedFrames
  <2>3. \A y \in Contexts : \A h \in Placed(y)' : h \in Placed(y) \/ frame'[h].home = y
    BY <1>5, <2>1, <2>2 DEF Placed
  <2> QED  BY <1>1, <2>1, <2>3, HomesStay
<1>6. CASE queue' = Push(queue, x, f) /\ UNCHANGED <<frame, stack>>
  <2>1. \A h \in Frames : Stays(h)  BY <1>6 DEF Stays
  <2>2. \A y \in Contexts : \A h \in ToSet(queue'[y]) : h \in ToSet(queue[y]) \/ (h = f /\ y = x)
    BY <1>3, <1>4, <1>6, PushedFrames
  <2>3. \A y \in Contexts : \A h \in Placed(y)' : h \in Placed(y) \/ frame'[h].home = y
    BY <1>6, <2>2 DEF Placed
  <2> QED  BY <1>1, <2>1, <2>3, HomesStay
<1> QED  BY <1>2, <1>5, <1>6

LEMMA AwaitHomes ==
  ASSUME JoinInvariant, HomeInv, NEW x \in Contexts, NEW f \in Frames, NEW g \in frame[f].vars,
         NEW temporary \in BOOLEAN, Await(x, f, g, temporary)
  PROVE  HomeInv'
<1>1. FrameInv' /\ Awaited(f, g)  BY AwaitInv DEF JoinInvariant
<1>2. g \in Frames /\ f # g /\ ~Live(g)
  BY <1>1 DEF Awaited, Is, Live, Started, OnStack
<1>3. /\ Runs(x, f) /\ queue' = Push(queue, x, g) /\ Pop(x)
      /\ frame' = [Launched(frame, g, x) EXCEPT
                    ![g].prev = f,
                    ![f].life = "suspended",
                    ![f].temp = IF temporary THEN g ELSE NoFrame,
                    ![f].vars = IF temporary THEN @ \ {g} ELSE @]
  BY DEF Await
<1>4. frame[f].home = x /\ stack[x] # <<>>
  BY <1>3, RunsHome DEF JoinInvariant
<1>5. /\ frame'[g].home = x
      /\ \A h \in Frames : frame'[h].threads = frame[h].threads /\ (h # g => frame'[h].home = frame[h].home)
  <2> PICK t : t = IF temporary THEN g ELSE NoFrame  OBVIOUS
  <2> PICK v : v = IF temporary THEN frame[f].vars \ {g} ELSE frame[f].vars  OBVIOUS
  <2> PICK new : new = [frame[g] EXCEPT !.launched = TRUE, !.life = "suspended", !.home = x, !.prev = f]
    OBVIOUS
  <2> PICK old : old = [frame[f] EXCEPT !.life = "suspended", !.temp = t, !.vars = v]
    OBVIOUS
  <2>1. frame \in [Frames -> Promises] /\ frame[f] \in Promises /\ frame[g] \in Promises
    BY <1>2 DEF JoinInvariant, FrameInv, TypeInv
  <2>2. frame' = [frame EXCEPT ![g] = new, ![f] = old]
    BY <1>2, <1>3, <2>1 DEF Launched
  <2>3. /\ frame'[g] = new /\ frame'[f] = old
        /\ \A h \in Frames : h # f /\ h # g => frame'[h] = frame[h]
    BY <1>2, <2>1, <2>2
  <2>4. new.home = x /\ new.threads = frame[g].threads
    BY <2>1 DEF Promises
  <2>5. old.home = frame[f].home /\ old.threads = frame[f].threads
    BY <2>1 DEF Promises
  <2> QED  BY <2>3, <2>4, <2>5
<1>6. /\ \A z \in Contexts : \A h \in ToSet(queue'[z]) : h \in ToSet(queue[z]) \/ (h = g /\ z = x)
      /\ \A z \in Contexts : ToSet(stack'[z]) \subseteq ToSet(stack[z])
  BY <1>2, <1>3, <1>4, QueuedFrames, PoppedFrames DEF JoinInvariant
<1>7. Settled({g}) /\ Fewer
  BY <1>2, <1>5, <1>6 DEF Settled, Fewer, Placed
<1>8. frame'[f].home = frame'[g].home
  BY <1>2, <1>4, <1>5
<1> QED  BY <1>1, <1>2, <1>7, <1>8, AwaitedHomes

LEMMA JoinHomes ==
  ASSUME JoinInvariant, HomeInv, NEW x \in Contexts, NEW f \in Frames, frame[f].kids = {}, Join(x, f)
  PROVE  HomeInv'
<1> DEFINE K == Unlaunched(frame[f].vars)
<1>1. FrameInv' /\ Gathered(f, K)  BY JoinInv DEF JoinInvariant
<1>2. K \in SUBSET Frames /\ \A g \in K : g # f /\ ~Live(g)
  BY <1>1 DEF Gathered, Is, Live, Started, OnStack
<1>3. /\ Runs(x, f) /\ Pop(x)
      /\ frame' = [g \in Frames |->
                  CASE g \in K -> [frame[g] EXCEPT !.launched = TRUE, !.life = "suspended",
                                                   !.home = x, !.parent = f]
                    [] g = f -> [frame[f] EXCEPT !.life = "suspended", !.vars = {},
                                                 !.kids = K, !.count = Cardinality(K)]
                    [] OTHER -> frame[g]]
      /\ \E order \in SetToSeqs(K) : queue' = [queue EXCEPT ![x] = @ \o order]
  BY DEF Join
<1> HIDE DEF K
<1>4. frame[f].home = x /\ stack[x] # <<>>
  BY <1>3, RunsHome DEF JoinInvariant
<1>5. /\ \A g \in K : frame'[g].home = x
      /\ \A h \in Frames : frame'[h].threads = frame[h].threads /\ (h \notin K => frame'[h].home = frame[h].home)
  <2>1. \A h \in Frames : frame[h] \in Promises
    BY DEF JoinInvariant, FrameInv, TypeInv
  <2>2. ASSUME NEW g \in K PROVE frame'[g].home = x /\ frame'[g].threads = frame[g].threads
    <3>1. frame'[g] = [frame[g] EXCEPT !.launched = TRUE, !.life = "suspended", !.home = x, !.parent = f]
      BY <1>2, <1>3
    <3> QED  BY <1>2, <2>1, <3>1 DEF Promises
  <2>3. frame'[f].home = frame[f].home /\ frame'[f].threads = frame[f].threads
    <3>1. frame'[f] = [frame[f] EXCEPT !.life = "suspended", !.vars = {},
                                       !.kids = K, !.count = Cardinality(K)]
      BY <1>2, <1>3
    <3> QED  BY <2>1, <3>1 DEF Promises
  <2>4. \A h \in Frames : h # f /\ h \notin K => frame'[h] = frame[h]
    BY <1>3
  <2> QED  BY <2>2, <2>3, <2>4
<1>6. \A z \in Contexts : \A h \in ToSet(queue'[z]) : h \in ToSet(queue[z]) \/ (h \in K /\ z = x)
  <2> PICK order \in SetToSeqs(K) : queue' = [queue EXCEPT ![x] = @ \o order]  BY <1>3
  <2> PICK q \in [Contexts -> Seq(Frames)] : q = queue  BY DEF JoinInvariant, FrameInv, TypeInv
  <2>1. order \in Seq(Frames) /\ ToSet(order) = K  BY <1>2, OrderFacts
  <2>2. queue' = Joined(q, x, order)  BY DEF Joined
  <2>3. /\ ToSet(Joined(q, x, order)[x]) = ToSet(q[x]) \cup K
        /\ \A z \in Contexts : z # x => Joined(q, x, order)[z] = q[z]
    BY <2>1, JoinQueued
  <2> QED  BY <2>2, <2>3
<1>7. \A z \in Contexts : ToSet(stack'[z]) \subseteq ToSet(stack[z])
  BY <1>3, <1>4, PoppedFrames DEF JoinInvariant
<1>8. Settled(K) /\ Fewer
  BY <1>2, <1>5, <1>6, <1>7 DEF Settled, Fewer, Placed
<1>9. \A g \in K : frame'[g].home = frame'[f].home
  BY <1>2, <1>4, <1>5
<1> QED  BY <1>1, <1>2, <1>8, <1>9, GatheredHomes

LEMMA ResumedFields ==
  ASSUME TypeInv, LifeInv, NEW x \in Contexts, NEW p \in Frames, NEW F \in [Frames -> Promises],
         NEW awaited, Is(p, "suspended"), Resume(F, x, p, awaited)
  PROVE  /\ \A h \in Frames : frame'[h].home = F[h].home /\ frame'[h].threads = F[h].threads
         /\ stack' = Push(stack, x, p)
<1>1. frame' = [F EXCEPT ![p].life = "running", ![p].temp = NoFrame] /\ stack' = Push(stack, x, p)
  BY ResumeQuiet
<1>2. /\ frame'[p] = [F[p] EXCEPT !.life = "running", !.temp = NoFrame]
      /\ \A h \in Frames : h # p => frame'[h] = F[h]
  BY <1>1
<1>3. frame'[p].home = F[p].home /\ frame'[p].threads = F[p].threads
  BY <1>2 DEF Promises
<1> QED  BY <1>1, <1>2, <1>3

\* Where it returns to, and whose count it uses.
ReturnedFields(x, f) ==
    /\ \A h \in Frames :
          /\ frame'[h].home = frame[h].home
          /\ frame'[h].threads \subseteq frame[h].threads \cup (IF Counts(f, h) THEN {x} ELSE {})
    /\ \/ stack' = stack
       \/ \E p \in Frames : /\ stack' = Push(stack, x, p)
                            /\ Awaits(p, f) \/ (Joining(p) /\ frame[f].parent = p)

LEMMA ReturnFields ==
  ASSUME FrameInv, NEW x \in Contexts, NEW f \in Frames, NEW outcome \in {"value", "error"},
         Return(x, f, outcome)
  PROVE  ReturnedFields(x, f)
<1> DEFINE F == [frame EXCEPT ![f].life = "final", ![f].outcome = outcome]
           prev == frame[f].prev
           parent == frame[f].parent
           count == frame[parent].count
           joins == prev = NoFrame /\ parent # NoFrame /\ Listening(count)
           G == [F EXCEPT ![parent].count = CountAfter(count, outcome),
                          ![parent].threads = @ \cup {x}]
<1>1. /\ Runs(x, f)
      /\ \/ prev # NoFrame /\ Resume(F, x, prev, outcome)
         \/ prev = NoFrame /\ Races(x, parent) /\ fault' = "race" /\ UNCHANGED <<frame, stack>>
         \/ joins /\ JoinEnds(count, outcome) /\ Resume(G, x, parent, "none")
         \/ joins /\ ~JoinEnds(count, outcome) /\ frame' = G /\ UNCHANGED <<stack, fault>>
         \/ prev = NoFrame /\ ~joins /\ frame' = F /\ UNCHANGED <<stack, fault>>
  BY DEF Return
<1>2. /\ Started(f) /\ prev \in Handles /\ parent \in Handles /\ Handles = Frames \cup {NoFrame}
      /\ frame \in [Frames -> Promises] /\ TypeInv /\ LifeInv
  BY <1>1, RunsFacts DEF FrameInv, TypeInv, Promises, Handles
<1>3. /\ F \in [Frames -> Promises]
      /\ \A h \in Frames : F[h].home = frame[h].home /\ F[h].threads = frame[h].threads
  <2>1. "final" \in Lives /\ outcome \in Outcomes /\ frame[f] \in Promises
    BY <1>2 DEF Lives, Outcomes
  <2>2. [frame[f] EXCEPT !.life = "final", !.outcome = outcome] \in Promises
    BY <2>1 DEF Promises
  <2>3. /\ F \in [Frames -> Promises] /\ \A h \in Frames : h # f => F[h] = frame[h]
        /\ F[f] = [frame[f] EXCEPT !.life = "final", !.outcome = outcome]
    BY <1>2, <2>2
  <2> HIDE DEF F
  <2>4. F[f].home = frame[f].home /\ F[f].threads = frame[f].threads
    BY <2>1, <2>3 DEF Promises
  <2> QED  BY <2>3, <2>4
<1> HIDE DEF F
<1>4. joins => /\ parent \in Frames /\ Joining(parent) /\ Counts(f, parent)
               /\ CountAfter(count, outcome) \in Nat
  <2>1. joins => parent \in Frames /\ count # 0 /\ prev = NoFrame
    BY <1>2 DEF Listening
  <2>2. joins => count \in Nat  BY <1>2, <2>1 DEF Promises
  <2> QED  BY <2>1, <2>2 DEF Joining, Counts, CountAfter
<1>5. ASSUME joins
      PROVE  /\ G \in [Frames -> Promises]
             /\ \A h \in Frames :
                   /\ G[h].home = frame[h].home
                   /\ G[h].threads \subseteq frame[h].threads \cup (IF Counts(f, h) THEN {x} ELSE {})
  <2> PICK p \in Frames : p = parent  BY <1>4, <1>5
  <2> PICK n \in Nat : n = CountAfter(count, outcome)  BY <1>4, <1>5
  <2> PICK t \in SUBSET Contexts : t = F[p].threads \cup {x}
    BY <1>3 DEF Promises
  <2>1. G = [F EXCEPT ![p].count = n, ![p].threads = t] /\ F[p] \in Promises  BY <1>3
  <2>2. [F[p] EXCEPT !.count = n, !.threads = t] \in Promises
    BY <2>1 DEF Promises
  <2>3. /\ G \in [Frames -> Promises] /\ \A h \in Frames : h # p => G[h] = F[h]
        /\ G[p] = [F[p] EXCEPT !.count = n, !.threads = t]
    BY <1>3, <2>1, <2>2
  <2> HIDE DEF G
  <2>4. G[p].home = F[p].home /\ G[p].threads = t
    BY <2>1, <2>3 DEF Promises
  <2>5. Counts(f, p)  BY <1>4, <1>5
  <2> QED  BY <1>3, <2>3, <2>4, <2>5
<1> HIDE DEF G
<1>6. CASE prev # NoFrame /\ Resume(F, x, prev, outcome)
  <2>1. prev \in Frames /\ Awaits(prev, f)  BY <1>2, <1>6 DEF Awaits
  <2>2. Is(prev, "suspended")  BY <2>1 DEF FrameInv, ResumeInv, Awaiting
  <2>3. /\ \A h \in Frames : frame'[h].home = F[h].home /\ frame'[h].threads = F[h].threads
        /\ stack' = Push(stack, x, prev)
    BY <1>2, <1>3, <1>6, <2>1, <2>2, ResumedFields
  <2> QED  BY <1>3, <2>1, <2>3 DEF ReturnedFields
<1>7. CASE joins /\ Resume(G, x, parent, "none")
  <2>1. parent \in Frames /\ Joining(parent)  BY <1>4, <1>7
  <2>2. Is(parent, "suspended")  BY <2>1 DEF FrameInv, ResumeInv
  <2>3. /\ \A h \in Frames : frame'[h].home = G[h].home /\ frame'[h].threads = G[h].threads
        /\ stack' = Push(stack, x, parent)
    BY <1>2, <1>5, <1>7, <2>1, <2>2, ResumedFields
  <2> QED  BY <1>5, <1>7, <2>1, <2>3 DEF ReturnedFields
<1>8. CASE frame' = frame /\ stack' = stack
  BY <1>8 DEF ReturnedFields
<1>9. CASE joins /\ frame' = G /\ stack' = stack
  BY <1>5, <1>9 DEF ReturnedFields
<1>10. CASE frame' = F /\ stack' = stack
  BY <1>3, <1>10 DEF ReturnedFields
<1> QED  BY <1>1, <1>6, <1>7, <1>8, <1>9, <1>10

\* Its handlers of one join() do not race.
LEMMA NoRace ==
  ASSUME FrameInv, HomeInv, NEW x \in Contexts, NEW f \in Frames, Runs(x, f)
  PROVE  ~Races(x, frame[f].parent)
<1> PICK p : p = frame[f].parent  OBVIOUS
<1> SUFFICES ASSUME Races(x, p) PROVE FALSE
  OBVIOUS
<1>1. p \in Frames /\ Started(f)
  BY DEF Races, Runs, Started, Is, FrameInv, TypeInv, Promises, Handles
<1>2. frame[p].threads \subseteq {x}  BY <1>1, RunsHome DEF HomeInv
<1> QED  BY <1>2 DEF Races

LEMMA ReturnHomes ==
  ASSUME JoinInvariant, HomeInv, NEW x \in Contexts, NEW f \in Frames, NEW outcome \in {"value", "error"},
         Return(x, f, outcome)
  PROVE  HomeInv'
<1>1. /\ FrameInv' /\ ReturnedFields(x, f) /\ Runs(x, f) /\ queue' = queue
      /\ \/ Returned(f, outcome)
         \/ Quiet /\ fault' = "race" /\ Races(x, frame[f].parent)
  BY ReturnInv, ReturnFields DEF Return, JoinInvariant
<1>2. frame[f].home = x /\ stack \in [Contexts -> Seq(Frames)]
  BY <1>1, RunsHome DEF JoinInvariant, FrameInv, TypeInv
<1>3. \A y \in Contexts : \A h \in Placed(y)' : h \in Placed(y) \/ frame'[h].home = y
  <2>1. CASE stack' = stack  BY <1>1, <2>1 DEF Placed
  <2>2. ASSUME NEW p \in Frames, stack' = Push(stack, x, p),
               Awaits(p, f) \/ (Joining(p) /\ frame[f].parent = p)
        PROVE  \A y \in Contexts : \A h \in Placed(y)' : h \in Placed(y) \/ frame'[h].home = y
    <3>1. \A y \in Contexts : \A h \in ToSet(Push(stack, x, p)[y]) : h \in ToSet(stack[y]) \/ (h = p /\ y = x)
      BY <1>2, PushedFrames
    <3>2. \A y \in Contexts : \A h \in ToSet(stack'[y]) : h \in ToSet(stack[y]) \/ (h = p /\ y = x)
      BY <2>2, <3>1
    <3>3. Started(f)  BY <1>1 DEF Runs, Started, Is
    <3>4. frame'[p].home = x
      BY <1>1, <1>2, <2>2, <3>3 DEF ReturnedFields, HomeInv
    <3> QED  BY <1>1, <3>2, <3>4 DEF Placed
  <2> QED  BY <1>1, <2>1, <2>2 DEF ReturnedFields
<1>4. {} \in SUBSET Frames /\ Settled({})
  BY <1>1, <1>3 DEF Settled, ReturnedFields
<1>5. CASE Returned(f, outcome)
  BY <1>1, <1>2, <1>4, <1>5, ReturnedHomes DEF ReturnedFields
<1>6. ~Races(x, frame[f].parent)
  BY <1>1, NoRace DEF JoinInvariant
<1> QED  BY <1>1, <1>5, <1>6

HomeInvariant == JoinInvariant /\ (~Migrate => HomeInv /\ fault # "race")

LEMMA NextHomes ==
  ASSUME ~Migrate, JoinInvariant, HomeInv, [FrameNext]_frameVars
  PROVE  HomeInv'
<1>1. CASE UNCHANGED frameVars
  BY <1>1 DEF frameVars, HomeInv, Placed, Awaits, Started, Joining, Is
<1>2. ASSUME NEW x \in Contexts, ThreadStep(x) PROVE HomeInv'
  BY <1>2, DropArgHomes, DestroyHomes, RunHandleHomes DEF ThreadStep
<1>3. ASSUME NEW x \in Contexts, SpawnRoot(x) PROVE HomeInv'
  BY <1>3, SpawnRootHomes
<1>4. ASSUME NEW x \in Contexts, NEW f \in Frames, CoroutineStep(x, f) PROVE HomeInv'
  <2>1. ASSUME NEW params \in SUBSET frame[f].vars, Create(x, f, params) PROVE HomeInv'
    BY <2>1, CreateHomes
  <2>2. ASSUME NEW g \in frame[f].vars, DropVar(x, f, g) PROVE HomeInv'
    BY <2>2, DropVarHomes
  <2>3. ASSUME NEW g \in frame[f].vars, NEW temporary \in BOOLEAN, Await(x, f, g, temporary)
        PROVE  HomeInv'
    BY <2>3, AwaitHomes
  <2>4. ASSUME NEW g \in frame[f].vars, NEW y \in Contexts, Spawn(x, f, g, y) PROVE HomeInv'
    BY <2>4, SpawnHomes
  <2>5. CASE Join(x, f)     BY <1>4, <2>5, JoinHomes DEF CoroutineStep
  <2>6. CASE Yield(x, f)    BY <2>6, YieldHomes
  <2>7. ASSUME NEW y \in Contexts, NEW blocking \in BOOLEAN, Suspend(x, f, y, blocking)
        PROVE  HomeInv'
    BY <2>7, SuspendHomes
  <2>8. ASSUME NEW g \in frame[f].vars, Assign(x, f, g) PROVE HomeInv'
    BY <2>8, AssignHomes
  <2> QED  BY <1>4, <2>1, <2>2, <2>3, <2>4, <2>5, <2>6, <2>7, <2>8 DEF CoroutineStep
<1>5. ASSUME NEW f \in Frames, Returns(f) PROVE HomeInv'
  BY <1>5, ReturnHomes DEF Returns
<1>6. ASSUME NEW f \in Frames, ComeBack(f) PROVE HomeInv'
  BY <1>6, ComeBackHomes
<1> QED  BY <1>1, <1>2, <1>3, <1>4, <1>5, <1>6 DEF FrameNext

LEMMA HomeInvariantAlways == FrameSpec => []HomeInvariant
<1>1. FrameInit /\ JoinInvariant => HomeInvariant
  <2> SUFFICES ASSUME FrameInit PROVE HomeInv /\ fault # "race"
    BY DEF HomeInvariant
  <2>1. /\ \A f \in Frames : ~Started(f) /\ frame[f].threads = {}
        /\ \A x \in Contexts : Placed(x) = {}
    BY DEF FrameInit, Blank, Started, Placed, ToSet
  <2> QED  BY <2>1 DEF HomeInv, Awaits, FrameInit
<1>2. HomeInvariant /\ [FrameNext]_frameVars /\ JoinInvariant' => HomeInvariant'
  <2> SUFFICES ASSUME ~Migrate, HomeInvariant, [FrameNext]_frameVars
               PROVE  HomeInv' /\ fault' # "race"
    BY DEF HomeInvariant
  <2>1. JoinInvariant /\ FrameInv /\ HomeInv /\ fault # "race"
    BY DEF HomeInvariant, JoinInvariant
  <2>2. HomeInv'  BY <2>1, NextHomes
  <2>3. CASE UNCHANGED frameVars
    BY <2>1, <2>2, <2>3 DEF frameVars
  <2>4. CASE FrameNext
    <3>1. Expected  BY <2>1, <2>4, LateAtWorst
    <3> QED  BY <2>1, <2>2, <3>1, NoRace DEF Expected, RaceStep
  <2> QED  BY <2>3, <2>4
<1> QED  BY <1>1, <1>2, JoinInvariantAlways, PTL DEF FrameSpec

(***************************************************************************)
(* Nobody reads, resumes or destroys a frame that is gone: a frame that    *)
(* destroys itself in FinalSuspend is below the one that owns its Coro     *)
(* object, which therefore cannot be looked at any more.  This needs that  *)
(* coroutines are spawned on their own thread, let go of what they have    *)
(* awaited before they suspend again and stay on their thread.             *)
(***************************************************************************)
THEOREM NoFrameIsUsedAfterDestroy ==
  ASSUME Premises, ~Migrate
  PROVE  FrameSpec => []NoUseAfterDestroy
<1>1. HomeInvariant => NoUseAfterDestroy
  BY DEF HomeInvariant, JoinInvariant, FrameInv, FaultInv, NoUseAfterDestroy
<1> QED  BY <1>1, HomeInvariantAlways, PTL

(***************************************************************************)
(* What else can happen without these premises, and nothing worse: ~Coro() *)
(* reads a launched frame that is gone, the exception of an awaited        *)
(* coroutine ends the process, handlers of one join() race on two threads. *)
(***************************************************************************)
THEOREM OnlyKnownFaultsHappen == FrameSpec => OnlyKnownFaults
<1> DEFINE Known ==
          \/ /\ fault' = "touch"
             /\ \E g \in Frames :
                   /\ Is(g, "gone") /\ frame[g].launched
                   /\ \/ Remote /\ \E x \in Contexts : arg[x] = g /\ arg'[x] = NoFrame
                      \/ Outlive /\ \E f \in Frames : g \in frame[f].vars \ frame'[f].vars
          \/ /\ fault' = "terminate"
             /\ \E g \in Frames : frame[g].prev # NoFrame /\ frame'[g].outcome = "error"
          \/ /\ fault' = "race" /\ Migrate
             /\ \E x, y \in Contexts, f, g \in Frames :
                   x # y /\ Runs(x, g) /\ frame[g].parent = f /\ y \in frame[f].threads
<1>1. ASSUME HomeInvariant, FrameNext, fault' # fault
      PROVE  Known
  <2>1. FrameInv /\ (~Migrate => HomeInv)
    BY <1>1 DEF HomeInvariant, JoinInvariant
  <2>2. Expected  BY <1>1, <2>1, LateAtWorst
  <2>3. CASE fault' = "touch" /\ \E g \in Frames : Late(g)
    BY <2>3 DEF Late
  <2>4. CASE RaceStep
    <3>1. PICK x \in Contexts, g \in Frames : Runs(x, g) /\ Races(x, frame[g].parent)
      BY <2>4 DEF RaceStep
    <3>2. Migrate  BY <2>1, <3>1, NoRace
    <3>3. PICK f : f = frame[g].parent  OBVIOUS
    <3>4. f \in Frames /\ frame[f].threads \subseteq Contexts
      BY <2>1, <3>1, <3>3 DEF Races, FrameInv, TypeInv, Promises, Handles
    <3>5. PICK y \in frame[f].threads : y # x  BY <3>1, <3>3 DEF Races
    <3> QED  BY <2>4, <3>1, <3>2, <3>3, <3>4, <3>5 DEF RaceStep
  <2> QED  BY <1>1, <2>2, <2>3, <2>4 DEF Expected
<1>2. HomeInvariant /\ [FrameNext]_frameVars => [fault' # fault => Known]_frameVars
  BY <1>1
<1> QED  BY <1>2, HomeInvariantAlways, PTL DEF FrameSpec, OnlyKnownFaults

(***************************************************************************)
(* join() goes on when all have returned a value or one has thrown.        *)
(***************************************************************************)
LEMMA JoinEndsRightly ==
  ASSUME JoinInvariant, NEW p \in Frames, Joining(p),
         NEW f \in Frames, NEW outcome \in {"value", "error"}, Returned(f, outcome),
         ~Is(p, "suspended")'
  PROVE  \/ \A g \in frame[p].kids : frame'[g].outcome = "value"
         \/ \E g \in frame[p].kids : frame'[g].outcome = "error"
<1>1. Counts(f, p) /\ JoinEnds(frame[p].count, outcome) /\ frame'[f].outcome = outcome
      /\ Is(f, "running")
  BY DEF Returned
<1>2. /\ f \in frame[p].kids /\ f \in Pending(p)
      /\ IsFiniteSet(Pending(p)) /\ frame[p].count = Cardinality(Pending(p))
      /\ \A g \in frame[p].kids : g \in Frames /\ frame[g].outcome \in {"value", "none"}
  BY <1>1, CountsPending
<1>3. CASE outcome = "error"
  BY <1>1, <1>2, <1>3
<1>4. CASE outcome = "value"
  <2>1. Cardinality(Pending(p)) = 1  BY <1>1, <1>2, <1>4 DEF JoinEnds
  <2>2. \E g : Pending(p) = {g}  BY <1>2, <2>1, FS_Singleton
  <2>3. Pending(p) = {f}  BY <1>2, <2>2
  <2>4. \A g \in frame[p].kids : g # f => frame[g].outcome = "value"
    BY <1>2, <2>3 DEF Pending
  <2> QED  BY <1>1, <1>2, <1>4, <2>4 DEF Returned
<1> QED  BY <1>3, <1>4

\* A join() goes on when all its children have returned or as soon as one has
\* thrown, in whatever order and on whatever threads they end, up to a race on
\* its count (OnlyKnownFaults says when there is one).
THEOREM JoinWaitsForAllOrThrows == FrameSpec => JoinComplete
<1>1. ASSUME JoinInvariant, [FrameNext]_frameVars, NEW p \in Frames,
             Is(p, "suspended"), frame'[p].life = "running", frame[p].count # 0
      PROVE  \/ \A g \in frame[p].kids : frame'[g].outcome = "value"
             \/ \E g \in frame[p].kids : frame'[g].outcome = "error"
  <2>1. Joining(p) /\ ~Is(p, "suspended")' /\ ~Is(p, "gone")'  BY <1>1 DEF Joining, Is
  <2>2. FourSteps  BY <1>1, StepFacts DEF JoinInvariant
  <2>3. PICK f \in Frames, outcome \in {"value", "error"} : Returned(f, outcome)
    BY <2>1, <2>2 DEF FourSteps, Quiet, Kept, Cleared, Awaited, Gathered
  <2> QED  BY <1>1, <2>1, <2>3, JoinEndsRightly
<1>2. JoinInvariant /\ [FrameNext]_frameVars =>
        [\A f \in Frames : frame[f].kids # {} /\ Is(f, "suspended") /\ frame'[f].life = "running"
           => \/ frame[f].count = 0
              \/ \A g \in frame[f].kids : frame'[g].outcome = "value"
              \/ \E g \in frame[f].kids : frame'[g].outcome = "error"]_frameVars
  BY <1>1
<1> QED  BY <1>2, JoinInvariantAlways, PTL DEF FrameSpec, JoinComplete

(***************************************************************************)
(* When nothing is left to run, no frame is left: among the suspended ones *)
(* one would wait for nobody, and of those that were never launched the    *)
(* last one would have no owner.                                           *)
(***************************************************************************)
LEMMA LastOfFrames ==
  ASSUME NEW T \in SUBSET Frames, T # {}
  PROVE  \E f \in T : \A g \in T : g <= f
<1> DEFINE D == {MaxFrames - f : f \in T}
<1>1. \A f \in Frames : f \in Int /\ MaxFrames - f \in Nat /\ MaxFrames \in Nat
  BY FrameAssumption DEF Frames
<1>2. D \in SUBSET Nat /\ D # {}  BY <1>1
<1>3. IsWellFoundedOn(OpToRel(<, Nat), Nat)  BY NatLessThanWellFounded
<1>4. PICK d \in D : \A e \in D : ~(<<e, d>> \in OpToRel(<, Nat))
  BY <1>2, <1>3, WFMin
<1>5. \A e \in D : ~(e < d)  BY <1>2, <1>4 DEF OpToRel
<1>6. PICK f \in T : d = MaxFrames - f  OBVIOUS
<1>7. ASSUME NEW g \in T PROVE g <= f
  <2>1. ~(MaxFrames - g < MaxFrames - f)  BY <1>5, <1>6
  <2> QED  BY <1>1, <1>6, <2>1
<1> QED  BY <1>7

LEMMA NothingLeft ==
  ASSUME ~Overwrite, ~JoinNothing, JoinInvariant, away = {}, \A x \in Contexts : Idle(x) /\ queue[x] = <<>>
  PROVE  \A f \in Frames : Is(f, "none") \/ Is(f, "gone")
<1>1. \A f \in Frames : ~In(queue, f) /\ ~In(stack, f)
  BY EmptyQueue DEF In, Idle
<1>2. \A f \in Frames : ~OnStack(f)
  BY <1>1 DEF JoinInvariant, FrameInv, StackInv
<1>3. \A f \in Frames : Is(f, "suspended") => Awaiting(f) \/ Joining(f)
  BY <1>1 DEF JoinInvariant, FrameInv, ResumeInv
<1>4. \A f \in Frames : frame[f].life \in Lives /\ frame[f].kids \in SUBSET Frames /\ f # NoFrame
  BY FrameAssumption DEF JoinInvariant, FrameInv, TypeInv, Promises, Frames, NoFrame
<1>5. \A f \in Frames : ~Is(f, "suspended")
  <2> DEFINE T == {f \in Frames : Is(f, "suspended")}
  <2> SUFFICES ASSUME T # {} PROVE FALSE
    OBVIOUS
  <2>1. PICK f \in T : \A g \in T : ~Waits(f, g)  BY DEF JoinInvariant, NoCycle
  <2>2. CASE Awaiting(f)
    <3>1. PICK g \in Frames : Awaits(f, g)  BY <2>2 DEF Awaiting
    <3>2. Is(g, "suspended")  BY <1>2, <3>1 DEF Awaits, Started, OnStack, Is
    <3> QED  BY <2>1, <3>1, <3>2 DEF Waits
  <2>3. CASE Joining(f)
    <3>1. Pending(f) # {}
      <4>1. frame[f].count = Cardinality(Pending(f))  BY <2>3 DEF JoinInvariant, KidsInv
      <4> QED  BY <2>3, <4>1, FS_EmptySet DEF Joining
    <3>2. PICK g \in frame[f].kids : frame[g].outcome = "none"  BY <3>1 DEF Pending
    <3>3. g \in Frames /\ frame[g].launched /\ (Is(g, "gone") \/ frame[g].parent = f)
      BY <1>4, <3>2 DEF JoinInvariant, KidsInv
    <3>4. ~Is(g, "gone") /\ ~Is(g, "none") /\ ~Is(g, "created")
      BY <3>2, <3>3 DEF JoinInvariant, FrameInv, LifeInv, Stage
    <3>5. Is(g, "suspended")  BY <1>2, <1>4, <3>3, <3>4 DEF OnStack, Lives, Is
    <3> QED  BY <2>1, <2>3, <3>3, <3>4, <3>5 DEF Waits, Started, Is
  <2> QED  BY <1>3, <2>2, <2>3
<1>6. \A f \in Frames : ~Is(f, "created")
  <2> DEFINE T == {f \in Frames : Is(f, "created")}
  <2> SUFFICES ASSUME T # {} PROVE FALSE
    OBVIOUS
  <2>1. PICK g \in T : \A h \in T : h <= g  BY LastOfFrames
  <2>2. PICK f \in Frames : g \in frame[f].vars  BY DEF JoinInvariant, FrameInv, OwnInv
  <2>3. ~Is(f, "none") /\ ~Is(f, "gone")
    BY <2>2 DEF JoinInvariant, FrameInv, LifeInv, Stage
  <2>4. Is(f, "created")  BY <1>2, <1>4, <1>5, <2>3 DEF OnStack, Lives, Is
  <2>5. g < f  BY <2>2, <2>4 DEF JoinInvariant, FrameInv, OwnInv
  <2>6. f <= g  BY <2>1, <2>4
  <2> QED  BY <2>5, <2>6, FrameAssumption DEF Frames
<1> QED  BY <1>2, <1>4, <1>5, <1>6 DEF OnStack, Lives, Is

\* No frame is left when nothing runs and nothing is outstanding, also after
\* exceptions and migrations, if no Coro object that owns a frame is assigned to
\* and no join() is without arguments: both lose frames.
THEOREM NoFrameIsLeft ==
  ASSUME ~Overwrite, ~JoinNothing
  PROVE  FrameSpec => []NoFrameLeaks
<1>1. JoinInvariant => NoFrameLeaks
  BY NothingLeft DEF NoFrameLeaks, Is
<1> QED  BY <1>1, JoinInvariantAlways, PTL

-----------------------------------------------------------------------------
\* A pool has no handle that was not given away.
LEMMA PooledAway == FrameSpec => [](pooled \subseteq away)
<1>1. FrameInit => pooled \subseteq away
  BY DEF FrameInit
<1>2. pooled \subseteq away /\ [FrameNext]_frameVars => (pooled \subseteq away)'
  <2> SUFFICES ASSUME pooled \subseteq away, FrameNext \/ UNCHANGED frameVars
               PROVE  (pooled \subseteq away)'
    OBVIOUS
  <2>1. CASE UNCHANGED frameVars  BY <2>1 DEF frameVars
  <2>2. ASSUME NEW x \in Contexts, ThreadStep(x) \/ SpawnRoot(x) PROVE (pooled \subseteq away)'
    BY <2>2 DEF ThreadStep, DropArg, Destroy, RunHandle, SpawnRoot
  <2>3. ASSUME NEW x \in Contexts, NEW f \in Frames, CoroutineStep(x, f)
        PROVE  (pooled \subseteq away)'
    <3>1. \/ UNCHANGED <<pooled, away>>
          \/ \E y \in Contexts, blocking \in BOOLEAN : Suspend(x, f, y, blocking)
      BY <2>3 DEF CoroutineStep, Create, DropVar, Assign, Await, Spawn, Join, Yield
    <3> QED  BY <3>1 DEF Suspend
  <2>4. ASSUME NEW f \in Frames, Returns(f) PROVE (pooled \subseteq away)'
    BY <2>4 DEF Returns, Return
  <2>5. ASSUME NEW f \in Frames, ComeBack(f) PROVE (pooled \subseteq away)'
    BY <2>5 DEF ComeBack
  <2> QED  BY <2>1, <2>2, <2>3, <2>4, <2>5 DEF FrameNext
<1> QED  BY <1>1, <1>2, PTL DEF FrameSpec

\* A frame's life goes through its stages, its number is given once, join()
\* counts no more children than there are, and a pool has only handles that were
\* given away.
THEOREM FrameTypeCorrect == FrameSpec => []FrameTypeOK
<1>1. JoinInvariant /\ pooled \subseteq away => FrameTypeOK
  <2> SUFFICES ASSUME JoinInvariant, pooled \subseteq away PROVE FrameTypeOK
    OBVIOUS
  <2>1. TypeInv /\ LifeInv /\ fault \in {"none", "touch", "terminate", "race"}
    BY DEF JoinInvariant, FrameInv, FaultInv
  <2>2. MaxFrames \in Nat /\ IsFiniteSet(Frames) /\ Cardinality(Frames) = MaxFrames
    BY FrameAssumption, FS_Interval DEF Frames
  <2>3. ASSUME NEW f \in Frames PROVE frame[f].count \in 0 .. MaxFrames
    <3>1. frame[f].count \in Nat  BY <2>1 DEF TypeInv, Promises
    <3>2. CASE Joining(f)
      <4>1. frame[f].count = Cardinality(Pending(f))
        BY <3>2 DEF JoinInvariant, KidsInv
      <4>2. Pending(f) \subseteq Frames  BY <2>1 DEF TypeInv, Promises, Pending
      <4>3. Cardinality(Pending(f)) <= MaxFrames  BY <2>2, <4>2, FS_Subset
      <4> QED  BY <2>2, <3>1, <4>1, <4>3
    <3>3. CASE ~Joining(f)
      BY <2>2, <3>3 DEF Joining
    <3> QED  BY <3>2, <3>3
  <2>4. \A f \in Frames :
           /\ Is(f, "none") <=> f > born
           /\ frame[f].life \in Lives /\ frame[f].vars \subseteq Frames
    BY <2>1 DEF TypeInv, LifeInv, Stage, Promises
  <2> QED  BY <2>1, <2>3, <2>4 DEF FrameTypeOK, TypeInv, Lives
<1> QED  BY <1>1, JoinInvariantAlways, PooledAway, PTL
=============================================================================
