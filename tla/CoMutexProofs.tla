---------------------------- MODULE CoMutexProofs ----------------------------
(***************************************************************************)
(* What holds of Mutex and Condition for any number of coroutines and      *)
(* contexts.  The argument: a handle known to somebody is known in exactly *)
(* one place (the condition's queue, the hands of a notifier, the queue of *)
(* its context), and its coroutine is suspended or about to be; a queued   *)
(* coroutine is blocked.  So no step gives the lock to a second coroutine. *)
(***************************************************************************)
EXTENDS CoMutex, SequenceTheorems, TLAPS

Distinct(s) == \A i, j \in DOMAIN s : s[i] = s[j] => i = j

Woken == {"granted", "enqueued", "releaseWait", "waiting"}

QueueInv ==
    /\ Distinct(queue)
    /\ \A c \in Elements(queue) : pc[c] = "blocked"

OutInv == \A c \in Coros : out[c] # <<>> => pc[c] \in {"release", "releaseWait", "notifyIn", "notifyOut"}

CondInv ==
    /\ Distinct(cqueue)
    /\ \A c \in Elements(cqueue) : pc[c] \in {"enqueued", "releaseWait", "waiting"}

HandsInv ==
    \A d \in Coros :
        /\ Distinct(out[d])
        /\ \A c \in Elements(out[d]) :
              /\ pc[c] \in Woken
              /\ c \notin Elements(cqueue)
              /\ \A e \in Coros : c \in Elements(out[e]) => e = d

ReadyInv ==
    \A x \in Contexts :
        /\ Distinct(ready[x])
        /\ \A c \in Elements(ready[x]) :
              /\ Home[c] = x
              /\ pc[c] \in Woken
              /\ c \notin Elements(cqueue)
              /\ \A d \in Coros : c \notin Elements(out[d])

LockInv == MutualExclusion /\ NeverStranded

MutexInv ==
    MutexTypeOK /\ QueueInv /\ OutInv /\ CondInv /\ HandsInv /\ ReadyInv /\ LockInv

(***************************************************************************)
(* Sequences as queues.                                                    *)
(***************************************************************************)
LEMMA AppendElements ==
  ASSUME NEW S, NEW s \in Seq(S), NEW e \in S
  PROVE  /\ Append(s, e) \in Seq(S)
         /\ Elements(Append(s, e)) = Elements(s) \cup {e}
         /\ Distinct(s) /\ e \notin Elements(s) => Distinct(Append(s, e))
  BY DEF Elements, Distinct

LEMMA TailElements ==
  ASSUME NEW S, NEW s \in Seq(S), s # <<>>
  PROVE  /\ Tail(s) \in Seq(S) /\ Head(s) \in S
         /\ Elements(s) = Elements(Tail(s)) \cup {Head(s)}
         /\ Distinct(s) => Distinct(Tail(s)) /\ Head(s) \notin Elements(Tail(s))
         /\ Len(s) = 1 => Tail(s) = <<>>
<1>1. /\ Tail(s) \in Seq(S) /\ Head(s) \in S /\ Head(s) = s[1]
      /\ DOMAIN s = 1 .. Len(s) /\ DOMAIN Tail(s) = 1 .. Len(s) - 1
      /\ Len(s) \in Nat /\ Len(s) # 0
      /\ \A i \in 1 .. Len(s) - 1 : Tail(s)[i] = s[i + 1]
  OBVIOUS
<1>2. Len(s) = 1 => Tail(s) = <<>>
  BY <1>1, EmptySeq
<1>3. Elements(s) = Elements(Tail(s)) \cup {Head(s)}
  <2>1. ASSUME NEW i \in DOMAIN s PROVE s[i] \in Elements(Tail(s)) \cup {Head(s)}
    <3>1. CASE i = 1   BY <1>1, <3>1
    <3>2. CASE i # 1
      <4>1. i - 1 \in DOMAIN Tail(s) /\ Tail(s)[i - 1] = s[i]  BY <1>1, <3>2
      <4> QED  BY <4>1 DEF Elements
    <3> QED  BY <3>1, <3>2
  <2>2. ASSUME NEW i \in DOMAIN Tail(s) PROVE Tail(s)[i] \in Elements(s)
    <3>1. i + 1 \in DOMAIN s /\ Tail(s)[i] = s[i + 1]  BY <1>1
    <3> QED  BY <3>1 DEF Elements
  <2>3. Head(s) \in Elements(s)
    <3>1. 1 \in DOMAIN s  BY <1>1
    <3> QED  BY <1>1, <3>1 DEF Elements
  <2> QED  BY <2>1, <2>2, <2>3 DEF Elements
<1>4. ASSUME Distinct(s) PROVE Distinct(Tail(s)) /\ Head(s) \notin Elements(Tail(s))
  <2>1. Distinct(Tail(s))
    BY <1>1, <1>4 DEF Distinct
  <2>2. ASSUME NEW i \in DOMAIN Tail(s) PROVE Tail(s)[i] # Head(s)
    BY <1>1, <1>4 DEF Distinct
  <2> QED  BY <2>1, <2>2 DEF Elements
<1> QED  BY <1>1, <1>2, <1>3, <1>4

LEMMA CutElements ==
  ASSUME NEW S, NEW s \in Seq(S), NEW n \in 0 .. Len(s)
  PROVE  LET a == SubSeq(s, 1, n)
             b == SubSeq(s, n + 1, Len(s))
         IN  /\ a \in Seq(S) /\ b \in Seq(S)
             /\ Elements(s) = Elements(a) \cup Elements(b)
             /\ Distinct(s) => Distinct(a) /\ Distinct(b) /\ Elements(a) \cap Elements(b) = {}
             /\ n = 0 => a = <<>>
<1> DEFINE a == SubSeq(s, 1, n)
           b == SubSeq(s, n + 1, Len(s))
<1>1. /\ DOMAIN s = 1 .. Len(s) /\ Len(s) \in Nat
      /\ a \in Seq(S) /\ DOMAIN a = 1 .. n /\ (\A i \in 1 .. n : a[i] = s[i])
  BY SubSeqProperties
<1>2. /\ b \in Seq(S) /\ DOMAIN b = 1 .. Len(s) - n
      /\ \A i \in 1 .. Len(s) - n : b[i] = s[n + i]
  BY SubSeqProperties
<1>3. n = 0 => a = <<>>
  BY <1>1, EmptySeq
<1> HIDE DEF a, b
<1>4. ASSUME NEW i \in DOMAIN s PROVE s[i] \in Elements(a) \cup Elements(b)
  <2>1. CASE i <= n
    <3>1. i \in DOMAIN a /\ a[i] = s[i]  BY <1>1, <2>1
    <3> QED  BY <3>1 DEF Elements
  <2>2. CASE ~(i <= n)
    <3>1. i - n \in DOMAIN b /\ b[i - n] = s[i]  BY <1>1, <1>2, <2>2
    <3> QED  BY <3>1 DEF Elements
  <2> QED  BY <2>1, <2>2
<1>5. ASSUME NEW i \in DOMAIN a PROVE i \in DOMAIN s /\ a[i] = s[i]
  BY <1>1
<1>6. ASSUME NEW i \in DOMAIN b PROVE n + i \in DOMAIN s /\ b[i] = s[n + i]
  BY <1>1, <1>2
<1>7. Elements(s) = Elements(a) \cup Elements(b)
  BY <1>4, <1>5, <1>6 DEF Elements
<1>8. ASSUME Distinct(s) PROVE Distinct(a) /\ Distinct(b) /\ Elements(a) \cap Elements(b) = {}
  <2>1. Distinct(a)  BY <1>1, <1>5, <1>8 DEF Distinct
  <2>2. Distinct(b)  BY <1>1, <1>2, <1>6, <1>8 DEF Distinct
  <2>3. ASSUME NEW i \in DOMAIN a, NEW j \in DOMAIN b PROVE a[i] # b[j]
    <3>1. i # n + j  BY <1>1, <1>2
    <3> QED  BY <1>5, <1>6, <1>8, <3>1 DEF Distinct
  <2> QED  BY <2>1, <2>2, <2>3 DEF Elements
<1> QED  BY <1>1, <1>2, <1>3, <1>7, <1>8 DEF a, b

LEMMA EmptyElements == Elements(<<>>) = {} /\ Distinct(<<>>)
  BY DEF Elements, Distinct

LEMMA ElementsType ==
  ASSUME NEW S, NEW s \in Seq(S)
  PROVE  Elements(s) \subseteq S
  BY DEF Elements

(***************************************************************************)
(* The steps, by what they do to the places where handles are known.       *)
(***************************************************************************)
Delivering == {"release", "releaseWait", "notifyIn", "notifyOut"}

PlacesInv == OutInv /\ CondInv /\ HandsInv /\ ReadyInv

LEMMA Typing ==
  ASSUME MutexInv
  PROVE  /\ pc \in [Coros -> Steps] /\ inWait \in [Coros -> BOOLEAN]
         /\ queue \in Seq(Coros) /\ cqueue \in Seq(Coros)
         /\ out \in [Coros -> Seq(Coros)] /\ ready \in [Contexts -> Seq(Coros)]
         /\ Elements(queue) \subseteq Coros /\ Elements(cqueue) \subseteq Coros
         /\ \A d \in Coros : Elements(out[d]) \subseteq Coros
         /\ \A x \in Contexts : Elements(ready[x]) \subseteq Coros
  BY ElementsType DEF MutexInv, MutexTypeOK

\* A coroutine that does not wait for the lock goes from one step to another.
LEMMA QueueKept ==
  ASSUME MutexInv, NEW c \in Coros, NEW to,
         pc' = [pc EXCEPT ![c] = to], pc[c] # "blocked", UNCHANGED queue
  PROVE  QueueInv'
  BY Typing DEF MutexInv, QueueInv

\* A coroutine whose handle nobody knows goes from one step to another.
LEMMA PlainMove ==
  ASSUME MutexInv, NEW c \in Coros, NEW to,
         pc' = [pc EXCEPT ![c] = to], pc[c] \notin Woken \cup Delivering,
         UNCHANGED <<cqueue, out, ready>>
  PROVE  PlacesInv'
<1> USE DEF Woken, Delivering
<1>1. OutInv'    BY Typing DEF MutexInv, OutInv
<1>2. CondInv'   BY Typing DEF MutexInv, CondInv
<1>3. HandsInv'  BY Typing DEF MutexInv, HandsInv
<1>4. ReadyInv'  BY Typing DEF MutexInv, ReadyInv
<1> QED  BY <1>1, <1>2, <1>3, <1>4 DEF PlacesInv

\* A coroutine enters its free thread, leaves it, or stays where it is.
LEMMA ThreadMove ==
  ASSUME MutexInv, NEW c \in Coros, NEW to \in Steps, pc' = [pc EXCEPT ![c] = to],
         \/ EnterThread(c) /\ to \notin Suspended
         \/ LeaveThread(c) /\ pc[c] \notin Suspended /\ to \in Suspended
         \/ UNCHANGED busy /\ (pc[c] \in Suspended <=> to \in Suspended)
  PROVE  /\ busy' \in [Contexts -> Coros \cup {Nobody}]
         /\ \A d \in Coros : busy'[Home[d]] = d <=> pc'[d] \notin Suspended
<1>1. /\ pc \in [Coros -> Steps] /\ busy \in [Contexts -> Coros \cup {Nobody}]
      /\ Home \in [Coros -> Contexts] /\ Nobody \notin Coros
      /\ \A d \in Coros : busy[Home[d]] = d <=> pc[d] \notin Suspended
  BY MutexAssumption DEF MutexInv, MutexTypeOK
<1>2. busy' \in [Contexts -> Coros \cup {Nobody}]
  BY <1>1 DEF EnterThread, LeaveThread
<1>3. ASSUME NEW d \in Coros PROVE busy'[Home[d]] = d <=> pc'[d] \notin Suspended
  <2>1. /\ Home[c] \in Contexts /\ Home[d] \in Contexts
        /\ pc'[c] = to /\ d # c => pc'[d] = pc[d]
        /\ busy[Home[d]] = d <=> pc[d] \notin Suspended
        /\ busy[Home[c]] = c <=> pc[c] \notin Suspended
    BY <1>1
  <2>2. CASE EnterThread(c) /\ to \notin Suspended
    BY <1>1, <2>1, <2>2 DEF EnterThread
  <2>3. CASE LeaveThread(c) /\ pc[c] \notin Suspended /\ to \in Suspended
    BY <1>1, <2>1, <2>3 DEF LeaveThread
  <2>4. CASE UNCHANGED busy /\ (pc[c] \in Suspended <=> to \in Suspended)
    BY <1>1, <2>1, <2>4
  <2> QED  BY <2>2, <2>3, <2>4
<1> QED  BY <1>2, <1>3

(***************************************************************************)
(* What a step does to the lock.                                           *)
(***************************************************************************)
Holding == {"granted", "critical", "away", "testing", "enqueue", "enqueued", "notifyIn"}

LEMMA LockKept ==
  ASSUME MutexInv, NEW c \in Coros, NEW to, pc' = [pc EXCEPT ![c] = to],
         UNCHANGED flag, pc[c] \in Holding <=> to \in Holding
  PROVE  LockInv'
  BY Typing DEF MutexInv, LockInv, MutualExclusion, NeverStranded, Holds, Holding

LEMMA LockTook ==
  ASSUME MutexInv, NEW c \in Coros, NEW to \in Holding, pc' = [pc EXCEPT ![c] = to],
         flag, flag' = FALSE
  PROVE  LockInv'
  BY Typing DEF MutexInv, LockInv, MutualExclusion, NeverStranded, Holds, Holding

LEMMA LockGiven ==
  ASSUME MutexInv, NEW c \in Coros, NEW to, to \notin Holding,
         pc' = [pc EXCEPT ![c] = to], pc[c] \in Holding, flag' = TRUE
  PROVE  LockInv'
  BY Typing DEF MutexInv, LockInv, MutualExclusion, NeverStranded, Holds, Holding

LEMMA LockPassed ==
  ASSUME MutexInv, NEW c \in Coros, NEW to, to \notin Holding, pc[c] \in Holding,
         NEW d \in Coros, d # c,
         pc' = [pc EXCEPT ![d] = "granted", ![c] = to], UNCHANGED flag
  PROVE  LockInv'
<1>1. ~flag /\ \A e \in Coros : e # c => ~Holds(e)
  BY DEF MutexInv, LockInv, MutualExclusion, Holds, Holding
<1>2. \A e \in Coros : Holds(e)' <=> e = d
  BY <1>1, Typing DEF Holds, Holding
<1> QED  BY <1>1, <1>2 DEF LockInv, MutualExclusion, NeverStranded

(***************************************************************************)
(* The steps, by what they do to the places where handles are known.       *)
(***************************************************************************)

\* What MutexTypeOK says of the data, apart from who runs where.
DataTypes ==
    /\ flag \in BOOLEAN /\ item \in BOOLEAN
    /\ queue \in Seq(Coros) /\ cqueue \in Seq(Coros)
    /\ pc \in [Coros -> Steps]
    /\ inWait \in [Coros -> BOOLEAN] /\ owes \in [Coros -> BOOLEAN]
    /\ out \in [Coros -> Seq(Coros)]
    /\ ready \in [Contexts -> Seq(Coros)]

\* The steps of a running coroutine that touch no queue: its own life, the lock
\* taken when free, the predicate.
LEMMA LocalStep ==
  ASSUME MutexInv, NEW c \in Coros,
         \/ Begin(c) \/ End(c) \/ Suspend(c) \/ Continue(c) \/ Produce(c)
         \/ LockFree(c)
         \/ CallWait(c) \/ PredTrue(c) \/ PredFalse(c) \/ PlainReturn(c)
  PROVE  MutexInv'
<1>1. PICK to \in Steps :
        /\ pc' = [pc EXCEPT ![c] = to]
        /\ pc[c] \notin {"blocked"} \cup Woken \cup Delivering
        /\ \/ EnterThread(c) /\ to \notin Suspended
           \/ LeaveThread(c) /\ pc[c] \notin Suspended /\ to \in Suspended
           \/ UNCHANGED busy /\ (pc[c] \in Suspended <=> to \in Suspended)
        /\ \/ UNCHANGED flag /\ (pc[c] \in Holding <=> to \in Holding)
           \/ flag /\ flag' = FALSE /\ to \in Holding
  <2> USE Typing DEF Goto, Woken, Delivering, Suspended, Holding, Steps
  <2>1. CASE Begin(c)      BY <2>1 DEF Begin
  <2>2. CASE End(c)        BY <2>2 DEF End
  <2>3. CASE Suspend(c)    BY <2>3 DEF Suspend
  <2>4. CASE Continue(c)   BY <2>4 DEF Continue
  <2>5. CASE Produce(c)
    <3>1. pc' = [pc EXCEPT ![c] = "critical"]  BY <2>5 DEF Produce
    <3> QED  BY <2>5, <3>1 DEF Produce
  <2>6. CASE LockFree(c)
    <3>1. Acquired(c) \in {"testing", "critical"}  BY DEF Acquired
    <3> QED  BY <2>6, <3>1 DEF LockFree
  <2>7. CASE CallWait(c)   BY <2>7 DEF CallWait
  <2>8. CASE PredTrue(c)   BY <2>8 DEF PredTrue
  <2>9. CASE PredFalse(c)  BY <2>9 DEF PredFalse
  <2>10. CASE PlainReturn(c)  BY <2>10 DEF PlainReturn
  <2> QED  BY <2>1, <2>2, <2>3, <2>4, <2>5, <2>6, <2>7, <2>8, <2>9, <2>10
<1>2. /\ UNCHANGED <<queue, cqueue, out, ready>>
      /\ flag' \in BOOLEAN /\ item' \in BOOLEAN
      /\ inWait' \in [Coros -> BOOLEAN] /\ owes' \in [Coros -> BOOLEAN]
  <2> USE DEF Begin, End, Suspend, Continue, Produce, LockFree, CallWait, PredTrue,
              PredFalse, PlainReturn
  <2>1. UNCHANGED <<queue, cqueue, out, ready>>
    OBVIOUS
  <2>2. flag' \in BOOLEAN
    BY DEF MutexInv, MutexTypeOK
  <2>3. item' \in BOOLEAN
    BY DEF MutexInv, MutexTypeOK
  <2>4. inWait' \in [Coros -> BOOLEAN]
    <3>1. inWait' = inWait \/ \E b \in BOOLEAN : inWait' = [inWait EXCEPT ![c] = b]
      OBVIOUS
    <3> QED  BY <3>1, Typing
  <2>5. owes' \in [Coros -> BOOLEAN]
    BY DEF MutexInv, MutexTypeOK
  <2> QED  BY <2>1, <2>2, <2>3, <2>4, <2>5
<1>3. MutexTypeOK'
  BY <1>1, <1>2, ThreadMove, Typing DEF MutexTypeOK
<1>4. QueueInv'   BY <1>1, <1>2, QueueKept
<1>5. PlacesInv'  BY <1>1, <1>2, PlainMove
<1>6. LockInv'    BY <1>1, LockKept, LockTook
<1> QED  BY <1>3, <1>4, <1>5, <1>6 DEF MutexInv, PlacesInv

LEMMA LockTakenStep ==
  ASSUME MutexInv, NEW c \in Coros, LockTaken(c)
  PROVE  MutexInv'
<1>1. /\ pc' = [pc EXCEPT ![c] = "blocked"] /\ queue' = Append(queue, c)
      /\ pc[c] \in {"running", "relock"} /\ LeaveThread(c)
      /\ UNCHANGED <<flag, cqueue, inWait, out, ready, item, owes>>
  BY DEF LockTaken, Goto
<1>2. pc[c] \notin Suspended /\ "blocked" \in Suspended /\ "blocked" \in Steps
  BY <1>1 DEF Suspended, Steps
<1>3. c \notin Elements(queue)
  BY <1>1 DEF MutexInv, QueueInv
<1>4. /\ queue' \in Seq(Coros) /\ Distinct(queue')
      /\ Elements(queue') = Elements(queue) \cup {c}
  BY <1>1, <1>3, Typing, AppendElements DEF MutexInv, QueueInv
<1>5. MutexTypeOK'
  BY <1>1, <1>2, <1>4, ThreadMove DEF MutexInv, MutexTypeOK
<1>6. QueueInv'
  BY <1>1, <1>4, Typing DEF MutexInv, QueueInv
<1>7. PlacesInv'
  BY <1>1, PlainMove DEF Woken, Delivering
<1>8. LockInv'
  BY <1>1, LockKept DEF Holding
<1> QED  BY <1>5, <1>6, <1>7, <1>8 DEF MutexInv, PlacesInv

\* unlock() in both its callers: the front entry goes into the hands of c.
LEMMA PassOnStep ==
  ASSUME MutexInv, NEW c \in Coros, NEW to, PassOn(c, to),
         \/ pc[c] = "critical" /\ to = "release"
         \/ pc[c] = "enqueued" /\ to = "releaseWait",
         UNCHANGED <<cqueue, inWait, ready, busy, item, owes>>
  PROVE  MutexInv'
<1> DEFINE d == Head(queue)
<1> USE DEF Woken, Delivering
<1>1. /\ d \in Coros /\ Tail(queue) \in Seq(Coros)
      /\ Elements(queue) = Elements(Tail(queue)) \cup {d}
      /\ Distinct(Tail(queue)) /\ d \notin Elements(Tail(queue))
  BY Typing, TailElements DEF PassOn, MutexInv, QueueInv
<1>2. pc[d] = "blocked" /\ d # c
  BY <1>1 DEF MutexInv, QueueInv
<1>3. /\ queue' = Tail(queue)
      /\ pc' = [pc EXCEPT ![d] = "granted", ![c] = to]
      /\ out' = [out EXCEPT ![c] = <<d>>]
      /\ UNCHANGED flag
  BY DEF PassOn
<1> HIDE DEF d
<1>4. /\ pc'[d] = "granted" /\ pc'[c] = to /\ out'[c] = <<d>>
      /\ \A e \in Coros \ {c, d} : pc'[e] = pc[e]
      /\ \A e \in Coros \ {c} : out'[e] = out[e]
  BY <1>1, <1>2, <1>3, Typing
<1>5. Elements(<<d>>) = {d} /\ Distinct(<<d>>) /\ <<d>> # <<>>
  BY DEF Elements, Distinct
<1>6. /\ out[c] = <<>> /\ d \notin Elements(cqueue)
      /\ \A e \in Coros : d \notin Elements(out[e])
      /\ \A x \in Contexts : d \notin Elements(ready[x])
  BY <1>1, <1>2 DEF MutexInv, OutInv, CondInv, HandsInv, ReadyInv
<1>7. MutexTypeOK'
  <2>1. pc' \in [Coros -> Steps] /\ out' \in [Coros -> Seq(Coros)]
    <3>1. to \in Steps /\ "granted" \in Steps /\ <<d>> \in Seq(Coros)
      BY <1>1 DEF Steps
    <3> QED  BY <1>3, <3>1, Typing
  <2>2. \A e \in Coros : busy'[Home[e]] = e <=> pc'[e] \notin Suspended
    BY <1>1, <1>2, <1>4 DEF MutexInv, MutexTypeOK, Suspended
  <2> QED  BY <1>1, <1>3, <2>1, <2>2 DEF MutexInv, MutexTypeOK
<1>8. QueueInv'
  BY <1>1, <1>2, <1>3, <1>4, Typing DEF MutexInv, QueueInv
<1>9. OutInv'
  BY <1>2, <1>4, Typing DEF MutexInv, OutInv
<1>10. CondInv'
  BY <1>1, <1>4, <1>6, Typing DEF MutexInv, CondInv
<1>11. HandsInv'
  <2> SUFFICES ASSUME NEW e \in Coros
               PROVE  /\ Distinct(out'[e])
                      /\ \A h \in Elements(out'[e]) :
                            /\ pc'[h] \in Woken
                            /\ h \notin Elements(cqueue)
                            /\ \A f \in Coros : h \in Elements(out'[f]) => f = e
    BY DEF HandsInv
  <2>1. CASE e = c
    <3>1. Elements(out'[e]) = {d} /\ Distinct(out'[e])  BY <1>4, <1>5, <2>1
    <3>2. \A f \in Coros : d \in Elements(out'[f]) => f = c  BY <1>4, <1>6
    <3> QED  BY <1>4, <1>6, <2>1, <3>1, <3>2
  <2>2. CASE e # c
    <3>1. out'[e] = out[e] /\ d \notin Elements(out[e])  BY <1>4, <1>6, <2>2
    <3>2. /\ Distinct(out[e])
          /\ \A h \in Elements(out[e]) :
                /\ h \in Coros /\ pc[h] \in Woken /\ h \notin Elements(cqueue)
                /\ \A f \in Coros : h \in Elements(out[f]) => f = e
      BY Typing DEF MutexInv, HandsInv
    <3>3. ASSUME NEW h \in Elements(out[e]), NEW f \in Coros, h \in Elements(out'[f])
          PROVE  f = e
      BY <1>4, <1>5, <3>1, <3>2, <3>3
    <3>4. \A h \in Elements(out[e]) : pc'[h] \in Woken
      BY <1>4, <3>1, <3>2
    <3> QED  BY <3>1, <3>2, <3>3, <3>4
  <2> QED  BY <2>1, <2>2
<1>12. ReadyInv'
  <2> SUFFICES ASSUME NEW x \in Contexts
               PROVE  /\ Distinct(ready[x])
                      /\ \A h \in Elements(ready[x]) :
                            /\ Home[h] = x
                            /\ pc'[h] \in Woken
                            /\ h \notin Elements(cqueue)
                            /\ \A e \in Coros : h \notin Elements(out'[e])
    BY DEF ReadyInv
  <2>1. /\ Distinct(ready[x])
        /\ \A h \in Elements(ready[x]) :
              /\ h \in Coros /\ h # d
              /\ Home[h] = x /\ pc[h] \in Woken /\ h \notin Elements(cqueue)
              /\ \A e \in Coros : h \notin Elements(out[e])
    BY <1>6, Typing DEF MutexInv, ReadyInv
  <2>2. \A h \in Elements(ready[x]) : pc'[h] \in Woken
    BY <1>4, <2>1
  <2>3. \A h \in Elements(ready[x]), e \in Coros : h \notin Elements(out'[e])
    BY <1>4, <1>5, <2>1
  <2> QED  BY <2>1, <2>2, <2>3
<1>13. LockInv'
  BY <1>1, <1>2, <1>3, LockPassed DEF Holding
<1> QED  BY <1>7, <1>8, <1>9, <1>10, <1>11, <1>12, <1>13 DEF MutexInv

\* unlock() with nobody queued.
LEMMA SetFreeStep ==
  ASSUME MutexInv, NEW c \in Coros, NEW to, SetFree(c, to),
         \/ pc[c] = "critical" /\ to = "running" /\ UNCHANGED busy
         \/ pc[c] = "enqueued" /\ to = "waiting" /\ LeaveThread(c),
         UNCHANGED <<cqueue, inWait, ready, item, owes>>
  PROVE  MutexInv'
<1> USE DEF Woken, Delivering
<1>1. /\ pc' = [pc EXCEPT ![c] = to] /\ flag' = TRUE /\ UNCHANGED <<queue, out>>
      /\ to \in Steps
  BY DEF SetFree, Goto, Steps
<1>2. /\ busy' \in [Contexts -> Coros \cup {Nobody}]
      /\ \A d \in Coros : busy'[Home[d]] = d <=> pc'[d] \notin Suspended
  BY <1>1, ThreadMove DEF Suspended
<1>3. MutexTypeOK'
  BY <1>1, <1>2, Typing DEF MutexInv, MutexTypeOK
<1>4. QueueInv'   BY <1>1, QueueKept
<1>5. PlacesInv'
  <2>1. CASE pc[c] = "critical"  BY <1>1, <2>1, PlainMove
  <2>2. CASE pc[c] = "enqueued" /\ to = "waiting"
    <3>1. OutInv'    BY <1>1, <2>2, Typing DEF MutexInv, OutInv
    <3>2. CondInv'   BY <1>1, <2>2, Typing DEF MutexInv, CondInv
    <3>3. HandsInv'  BY <1>1, <2>2, Typing DEF MutexInv, HandsInv
    <3>4. ReadyInv'  BY <1>1, <2>2, Typing DEF MutexInv, ReadyInv
    <3> QED  BY <3>1, <3>2, <3>3, <3>4 DEF PlacesInv
  <2> QED  BY <2>1, <2>2
<1>6. LockInv'
  BY <1>1, LockGiven DEF Holding
<1> QED  BY <1>3, <1>4, <1>5, <1>6 DEF MutexInv, PlacesInv

LEMMA EnqueueStep ==
  ASSUME MutexInv, NEW c \in Coros, Enqueue(c)
  PROVE  MutexInv'
<1> USE DEF Woken, Delivering
<1>1. /\ pc[c] = "enqueue" /\ pc' = [pc EXCEPT ![c] = "enqueued"]
      /\ cqueue' = Append(cqueue, c)
      /\ UNCHANGED <<flag, queue, inWait, out, ready, busy, item, owes>>
  BY DEF Enqueue, Goto
<1>2. /\ c \notin Elements(cqueue)
      /\ \A d \in Coros : c \notin Elements(out[d])
      /\ \A x \in Contexts : c \notin Elements(ready[x])
  BY <1>1 DEF MutexInv, CondInv, HandsInv, ReadyInv
<1>3. /\ cqueue' \in Seq(Coros) /\ Distinct(cqueue')
      /\ Elements(cqueue') = Elements(cqueue) \cup {c}
  BY <1>1, <1>2, Typing, AppendElements DEF MutexInv, CondInv
<1>4. MutexTypeOK'
  BY <1>1, <1>3, ThreadMove, Typing DEF MutexInv, MutexTypeOK, Suspended, Steps
<1>5. QueueInv'   BY <1>1, QueueKept
<1>6. OutInv'     BY <1>1, Typing DEF MutexInv, OutInv
<1>7. CondInv'    BY <1>1, <1>3, Typing DEF MutexInv, CondInv
<1>8. HandsInv'   BY <1>1, <1>2, <1>3, Typing DEF MutexInv, HandsInv
<1>9. ReadyInv'   BY <1>1, <1>2, <1>3, Typing DEF MutexInv, ReadyInv
<1>10. LockInv'   BY <1>1, LockKept DEF Holding
<1> QED  BY <1>4, <1>5, <1>6, <1>7, <1>8, <1>9, <1>10 DEF MutexInv

\* notify_one() and notify_all(): the first n entries go into the hands of c.
LEMMA NotifyStep ==
  ASSUME MutexInv, NEW c \in Coros, NEW n \in 0 .. Len(cqueue), NotifySome(c, n)
  PROVE  MutexInv'
<1> DEFINE a == SubSeq(cqueue, 1, n)
           b == SubSeq(cqueue, n + 1, Len(cqueue))
           to == IF n = 0 THEN pc[c] ELSE IF pc[c] = "critical" THEN "notifyIn" ELSE "notifyOut"
<1> USE DEF Woken, Delivering
<1>1. /\ pc[c] \in {"running", "critical"} /\ pc' = [pc EXCEPT ![c] = to]
      /\ out' = [out EXCEPT ![c] = a] /\ cqueue' = b
      /\ owes' = [owes EXCEPT ![c] = FALSE]
      /\ UNCHANGED <<flag, queue, inWait, ready, busy, item>>
  BY DEF NotifySome, Goto
<1>2. /\ a \in Seq(Coros) /\ b \in Seq(Coros)
      /\ Elements(cqueue) = Elements(a) \cup Elements(b)
      /\ Distinct(a) /\ Distinct(b) /\ Elements(a) \cap Elements(b) = {}
      /\ n = 0 => a = <<>>
  BY Typing, CutElements DEF MutexInv, CondInv
<1>3. /\ to \in Steps /\ to \notin Suspended /\ pc[c] \notin Suspended
      /\ pc[c] \in Holding <=> to \in Holding
      /\ n # 0 => to \in Delivering
  BY <1>1 DEF Steps, Suspended, Holding
<1> HIDE DEF a, b, to
<1>4. /\ pc'[c] = to /\ out'[c] = a
      /\ \A e \in Coros \ {c} : pc'[e] = pc[e] /\ out'[e] = out[e]
  BY <1>1, Typing
<1>5. \A h \in Coros : pc[h] \in Woken => pc'[h] = pc[h]
  BY <1>1, <1>4
<1>6. \A h \in Elements(cqueue) :
        /\ h \in Coros /\ pc[h] \in {"enqueued", "releaseWait", "waiting"}
        /\ \A e \in Coros : h \notin Elements(out[e])
        /\ \A x \in Contexts : h \notin Elements(ready[x])
  BY Typing DEF MutexInv, CondInv, HandsInv, ReadyInv
<1>7. MutexTypeOK'
  BY <1>1, <1>2, <1>3, ThreadMove, Typing DEF MutexInv, MutexTypeOK
<1>8. QueueInv'
  BY <1>1, QueueKept
<1>9. OutInv'
  BY <1>2, <1>3, <1>4 DEF MutexInv, OutInv
<1>10. CondInv'
  BY <1>1, <1>2, <1>5, <1>6 DEF CondInv
<1>11. HandsInv'
  <2> SUFFICES ASSUME NEW e \in Coros
               PROVE  /\ Distinct(out'[e])
                      /\ \A h \in Elements(out'[e]) :
                            /\ pc'[h] \in Woken
                            /\ h \notin Elements(b)
                            /\ \A f \in Coros : h \in Elements(out'[f]) => f = e
    BY <1>1 DEF HandsInv
  <2>1. CASE e = c
    BY <1>2, <1>4, <1>5, <1>6, <2>1
  <2>2. CASE e # c
    <3>1. /\ out'[e] = out[e] /\ Distinct(out[e])
          /\ \A h \in Elements(out[e]) :
                /\ h \in Coros /\ pc[h] \in Woken /\ h \notin Elements(cqueue)
                /\ \A f \in Coros : h \in Elements(out[f]) => f = e
      BY <1>4, <2>2, Typing DEF MutexInv, HandsInv
    <3> QED  BY <1>2, <1>4, <1>5, <3>1
  <2> QED  BY <2>1, <2>2
<1>12. ReadyInv'
  <2> SUFFICES ASSUME NEW x \in Contexts
               PROVE  /\ Distinct(ready[x])
                      /\ \A h \in Elements(ready[x]) :
                            /\ Home[h] = x
                            /\ pc'[h] \in Woken
                            /\ h \notin Elements(b)
                            /\ \A e \in Coros : h \notin Elements(out'[e])
    BY <1>1 DEF ReadyInv
  <2>1. /\ Distinct(ready[x])
        /\ \A h \in Elements(ready[x]) :
              /\ h \in Coros /\ Home[h] = x /\ pc[h] \in Woken /\ h \notin Elements(cqueue)
              /\ \A e \in Coros : h \notin Elements(out[e])
    BY Typing DEF MutexInv, ReadyInv
  <2> QED  BY <1>2, <1>4, <1>5, <2>1
<1>13. LockInv'
  BY <1>1, <1>3, LockKept
<1> QED  BY <1>7, <1>8, <1>9, <1>10, <1>11, <1>12, <1>13 DEF MutexInv

\* queue_in_context(): the first entry in the hands of c goes to its context.
LEMMA DeliverStep ==
  ASSUME MutexInv, NEW c \in Coros, Deliver(c)
  PROVE  MutexInv'
<1> DEFINE h == Head(out[c])
           to == IF Len(out[c]) = 1 THEN Resumption[pc[c]] ELSE pc[c]
<1> USE DEF Woken, Delivering
<1>1. /\ h \in Coros /\ Tail(out[c]) \in Seq(Coros)
      /\ Elements(out[c]) = Elements(Tail(out[c])) \cup {h}
      /\ Distinct(Tail(out[c])) /\ h \notin Elements(Tail(out[c]))
      /\ Len(out[c]) = 1 => Tail(out[c]) = <<>>
      /\ Home[h] \in Contexts
  <2>1. out[c] \in Seq(Coros) /\ Distinct(out[c]) /\ out[c] # <<>>
    BY Typing DEF Deliver, MutexInv, HandsInv
  <2> QED  BY <2>1, TailElements, MutexAssumption
<1>2. pc[c] \in Delivering
  BY DEF Deliver, MutexInv, OutInv
<1>3. /\ pc' = [pc EXCEPT ![c] = to]
      /\ out' = [out EXCEPT ![c] = Tail(out[c])]
      /\ ready' = [ready EXCEPT ![Home[h]] = Append(ready[Home[h]], h)]
      /\ UNCHANGED <<flag, queue, cqueue, inWait, item, owes>>
  BY Typing DEF Deliver, Goto
<1>4. /\ to \in Steps /\ (pc[c] \in Holding <=> to \in Holding)
      /\ pc[c] \in Woken => to \in {"releaseWait", "waiting"}
      /\ Len(out[c]) # 1 => to \in Delivering
      /\ \/ LeaveThread(c) /\ pc[c] \notin Suspended /\ to \in Suspended
         \/ UNCHANGED busy /\ (pc[c] \in Suspended <=> to \in Suspended)
  BY <1>2 DEF Deliver, Resumption, Steps, Holding, Suspended
<1> HIDE DEF h, to
<1>5. /\ pc'[c] = to /\ out'[c] = Tail(out[c])
      /\ \A e \in Coros \ {c} : pc'[e] = pc[e] /\ out'[e] = out[e]
      /\ ready'[Home[h]] = Append(ready[Home[h]], h)
      /\ \A x \in Contexts \ {Home[h]} : ready'[x] = ready[x]
  BY <1>1, <1>3, Typing
<1>6. \A e \in Coros : Elements(out'[e]) \subseteq Elements(out[e]) /\ h \notin Elements(out'[e])
  <2>1. \A e \in Coros : h \in Elements(out[e]) => e = c
    BY <1>1 DEF MutexInv, HandsInv
  <2> QED  BY <1>1, <1>5, <2>1
<1>7. \A g \in Coros : pc[g] \in Woken => pc'[g] = pc[g] \/ pc'[g] \in {"releaseWait", "waiting"}
  BY <1>4, <1>5
<1>8. h \notin Elements(cqueue) /\ pc[h] \in Woken /\ \A x \in Contexts : h \notin Elements(ready[x])
  BY <1>1 DEF MutexInv, HandsInv, ReadyInv
<1>9. /\ Append(ready[Home[h]], h) \in Seq(Coros)
      /\ Elements(Append(ready[Home[h]], h)) = Elements(ready[Home[h]]) \cup {h}
      /\ Distinct(Append(ready[Home[h]], h))
  <2>1. ready[Home[h]] \in Seq(Coros) /\ Distinct(ready[Home[h]]) /\ h \notin Elements(ready[Home[h]])
    BY <1>1, <1>8, Typing DEF MutexInv, ReadyInv
  <2> QED  BY <1>1, <2>1, AppendElements
<1>10. MutexTypeOK'
  <2>1. ready' \in [Contexts -> Seq(Coros)] /\ out' \in [Coros -> Seq(Coros)]
    BY <1>1, <1>3, <1>9, Typing
  <2> QED  BY <1>3, <1>4, <2>1, ThreadMove, Typing DEF MutexInv, MutexTypeOK
<1>11. QueueInv'
  BY <1>2, <1>3, QueueKept
<1>12. OutInv'
  BY <1>1, <1>4, <1>5 DEF MutexInv, OutInv
<1>13. CondInv'
  BY <1>3, <1>7, Typing DEF MutexInv, CondInv
<1>14. HandsInv'
  <2> SUFFICES ASSUME NEW e \in Coros
               PROVE  /\ Distinct(out'[e])
                      /\ \A g \in Elements(out'[e]) :
                            /\ pc'[g] \in Woken
                            /\ g \notin Elements(cqueue)
                            /\ \A f \in Coros : g \in Elements(out'[f]) => f = e
    BY <1>3 DEF HandsInv
  <2>1. Distinct(out'[e])
    BY <1>1, <1>5 DEF MutexInv, HandsInv
  <2>2. \A g \in Elements(out[e]) :
           /\ g \in Coros /\ pc[g] \in Woken /\ g \notin Elements(cqueue)
           /\ \A f \in Coros : g \in Elements(out[f]) => f = e
    BY Typing DEF MutexInv, HandsInv
  <2> QED  BY <1>6, <1>7, <2>1, <2>2
<1>15. ReadyInv'
  <2> SUFFICES ASSUME NEW x \in Contexts
               PROVE  /\ Distinct(ready'[x])
                      /\ \A g \in Elements(ready'[x]) :
                            /\ Home[g] = x
                            /\ pc'[g] \in Woken
                            /\ g \notin Elements(cqueue)
                            /\ \A e \in Coros : g \notin Elements(out'[e])
    BY <1>3 DEF ReadyInv
  <2>1. Distinct(ready'[x]) /\ \A g \in Elements(ready'[x]) : g \in Elements(ready[x]) \/ (g = h /\ x = Home[h])
    <3>1. CASE x = Home[h]
      BY <1>5, <1>9, <3>1
    <3>2. CASE x # Home[h]
      <4>1. ready'[x] = ready[x]  BY <1>5, <3>2
      <4>2. Distinct(ready[x])     BY DEF MutexInv, ReadyInv
      <4> QED  BY <4>1, <4>2
    <3> QED  BY <3>1, <3>2
  <2>2. \A g \in Elements(ready[x]) :
           /\ g \in Coros /\ Home[g] = x /\ pc[g] \in Woken /\ g \notin Elements(cqueue)
           /\ \A e \in Coros : g \notin Elements(out[e])
    BY Typing DEF MutexInv, ReadyInv
  <2>3. ASSUME NEW g \in Elements(ready'[x])
        PROVE  /\ g \in Coros /\ Home[g] = x /\ pc[g] \in Woken /\ g \notin Elements(cqueue)
               /\ \A e \in Coros : g \notin Elements(out'[e])
    <3>1. CASE g \in Elements(ready[x])
      BY <1>6, <2>2, <3>1
    <3>2. CASE g = h /\ x = Home[h]
      BY <1>1, <1>6, <1>8, <3>2
    <3> QED  BY <2>1, <3>1, <3>2
  <2> QED  BY <1>7, <2>1, <2>3
<1>16. LockInv'
  BY <1>3, <1>4, LockKept
<1> QED  BY <1>10, <1>11, <1>12, <1>13, <1>14, <1>15, <1>16 DEF MutexInv

\* What a free context finds at the front of its queue.
LEMMA FrontIsSuspended ==
  ASSUME MutexInv, NEW x \in Contexts, busy[x] = Nobody, ready[x] # <<>>
  PROVE  LET c == Head(ready[x])
         IN  /\ c \in Coros /\ Home[c] = x
             /\ pc[c] \in {"granted", "waiting"}
             /\ c \notin Elements(cqueue)
             /\ \A d \in Coros : c \notin Elements(out[d])
             /\ \A y \in Contexts : c \in Elements(ready[y]) => y = x
<1>1. /\ Head(ready[x]) \in Coros /\ Head(ready[x]) \in Elements(ready[x])
  BY Typing, TailElements
<1>2. /\ pc[Head(ready[x])] \in Woken /\ Home[Head(ready[x])] = x
      /\ Head(ready[x]) \notin Elements(cqueue)
      /\ \A d \in Coros : Head(ready[x]) \notin Elements(out[d])
      /\ \A y \in Contexts : Head(ready[x]) \in Elements(ready[y]) => y = x
  BY <1>1 DEF MutexInv, ReadyInv
<1>3. pc[Head(ready[x])] \in Suspended
  BY <1>1, <1>2, MutexAssumption DEF MutexInv, MutexTypeOK
<1> QED  BY <1>1, <1>2, <1>3 DEF Woken, Suspended

LEMMA RunReadyStep ==
  ASSUME MutexInv, NEW x \in Contexts, RunReady(x)
  PROVE  MutexInv'
<1> DEFINE c == Head(ready[x])
           to == IF pc[c] = "granted" THEN Acquired(c) ELSE "relock"
<1> USE DEF Woken, Delivering
<1>1. /\ ready[x] # <<>> /\ EnterThread(c)
      /\ pc' = [pc EXCEPT ![c] = to]
      /\ ready' = [ready EXCEPT ![x] = Tail(ready[x])]
      /\ UNCHANGED <<flag, queue, cqueue, inWait, out, item, owes>>
  BY DEF RunReady, Goto
<1>2. busy[x] = Nobody
  <2>1. c \in Coros /\ c \in Elements(ready[x])  BY <1>1, Typing, TailElements
  <2>2. Home[c] = x                              BY <2>1 DEF MutexInv, ReadyInv
  <2> QED  BY <1>1, <2>2 DEF EnterThread
<1>3. /\ c \in Coros /\ Home[c] = x /\ pc[c] \in {"granted", "waiting"}
      /\ c \notin Elements(cqueue)
      /\ \A d \in Coros : c \notin Elements(out[d])
      /\ \A y \in Contexts : c \in Elements(ready[y]) => y = x
  BY <1>1, <1>2, FrontIsSuspended
<1>4. /\ Tail(ready[x]) \in Seq(Coros) /\ Distinct(Tail(ready[x]))
      /\ Elements(ready[x]) = Elements(Tail(ready[x])) \cup {c}
      /\ c \notin Elements(Tail(ready[x]))
  <2>1. ready[x] \in Seq(Coros) /\ Distinct(ready[x])
    BY Typing DEF MutexInv, ReadyInv
  <2> QED  BY <1>1, <2>1, TailElements
<1>5. /\ to \in Steps /\ to \notin Suspended
      /\ pc[c] \in Holding <=> to \in Holding
  BY <1>3 DEF Acquired, Steps, Suspended, Holding
<1> HIDE DEF c, to
<1>6. /\ \A e \in Coros \ {c} : pc'[e] = pc[e]
      /\ ready'[x] = Tail(ready[x]) /\ \A y \in Contexts \ {x} : ready'[y] = ready[y]
  BY <1>1, <1>3, Typing
<1>7. MutexTypeOK'
  <2>1. ready' \in [Contexts -> Seq(Coros)]
    BY <1>1, <1>4, Typing
  <2> QED  BY <1>1, <1>3, <1>5, <2>1, ThreadMove, Typing DEF MutexInv, MutexTypeOK
<1>8. QueueInv'
  BY <1>1, <1>3, QueueKept
<1>9. OutInv'
  BY <1>1, <1>3, <1>6 DEF MutexInv, OutInv
<1>10. CondInv'
  BY <1>1, <1>3, <1>6, Typing DEF MutexInv, CondInv
<1>11. HandsInv'
  BY <1>1, <1>3, <1>6, Typing DEF MutexInv, HandsInv
<1>12. ReadyInv'
  <2> SUFFICES ASSUME NEW y \in Contexts
               PROVE  /\ Distinct(ready'[y])
                      /\ \A g \in Elements(ready'[y]) :
                            /\ Home[g] = y
                            /\ pc'[g] \in Woken
                            /\ g \notin Elements(cqueue)
                            /\ \A e \in Coros : g \notin Elements(out[e])
    BY <1>1 DEF ReadyInv
  <2>1. Distinct(ready'[y]) /\ \A g \in Elements(ready'[y]) : g \in Elements(ready[y]) /\ g # c
    BY <1>3, <1>4, <1>6 DEF MutexInv, ReadyInv
  <2>2. \A g \in Elements(ready[y]) :
           /\ g \in Coros /\ Home[g] = y /\ pc[g] \in Woken /\ g \notin Elements(cqueue)
           /\ \A e \in Coros : g \notin Elements(out[e])
    BY Typing DEF MutexInv, ReadyInv
  <2> QED  BY <1>6, <2>1, <2>2
<1>13. LockInv'
  BY <1>1, <1>3, <1>5, LockKept
<1> QED  BY <1>7, <1>8, <1>9, <1>10, <1>11, <1>12, <1>13 DEF MutexInv

LEMMA InitMutexInv == MutexInit => MutexInv
<1> SUFFICES ASSUME MutexInit PROVE MutexInv
  OBVIOUS
<1>1. MutexTypeOK
  <2>1. \A c \in Coros : busy[Home[c]] = Nobody /\ pc[c] = "idle" /\ c # Nobody
    BY MutexAssumption DEF MutexInit
  <2>2. /\ <<>> \in Seq(Coros) /\ pc \in [Coros -> Steps]
        /\ busy \in [Contexts -> Coros \cup {Nobody}]
    BY DEF MutexInit, Steps
  <2> QED  BY <2>1, <2>2 DEF MutexInit, MutexTypeOK, Suspended
<1>2. QueueInv /\ CondInv
  BY EmptyElements DEF MutexInit, QueueInv, CondInv
<1>3. OutInv /\ HandsInv /\ ReadyInv
  BY EmptyElements DEF MutexInit, OutInv, HandsInv, ReadyInv
<1>4. LockInv
  BY DEF MutexInit, LockInv, MutualExclusion, NeverStranded, Holds
<1> QED  BY <1>1, <1>2, <1>3, <1>4 DEF MutexInv

LEMMA NextMutexInv == MutexInv /\ [MutexNext]_mutexVars => MutexInv'
<1> SUFFICES ASSUME MutexInv, [MutexNext]_mutexVars PROVE MutexInv'
  OBVIOUS
<1>1. ASSUME NEW c \in Coros, Unlock(c) PROVE MutexInv'
  BY <1>1, PassOnStep, SetFreeStep DEF Unlock
<1>2. ASSUME NEW c \in Coros, WaitUnlock(c) PROVE MutexInv'
  BY <1>2, PassOnStep, SetFreeStep DEF WaitUnlock
<1>3. ASSUME NEW c \in Coros, NotifyOne(c) \/ NotifyAll(c) PROVE MutexInv'
  <2>1. Len(cqueue) \in Nat /\ (Len(cqueue) = 0 => cqueue = <<>>)
    BY Typing, EmptySeq
  <2>2. (IF cqueue = <<>> THEN 0 ELSE 1) \in 0 .. Len(cqueue) /\ Len(cqueue) \in 0 .. Len(cqueue)
    BY <2>1
  <2> QED  BY <1>3, <2>2, NotifyStep DEF NotifyOne, NotifyAll
<1>4. CASE UNCHANGED mutexVars
  BY <1>4 DEF mutexVars, MutexInv, MutexTypeOK, QueueInv, OutInv, CondInv, HandsInv,
              ReadyInv, LockInv, MutualExclusion, NeverStranded, Holds
<1> QED
  BY <1>1, <1>2, <1>3, <1>4, LocalStep, LockTakenStep, EnqueueStep, DeliverStep, RunReadyStep
  DEF MutexNext

LEMMA MutexInvariant == MutexSpec => []MutexInv
  BY InitMutexInv, NextMutexInv, PTL DEF MutexSpec

(***************************************************************************)
(* The theorems.                                                           *)
(***************************************************************************)

\* Every variable keeps its type, and a thread runs at most one coroutine,
\* whatever the number of coroutines, contexts and hand-overs in flight.
THEOREM MutexTypeCorrect == MutexSpec => []MutexTypeOK
<1>1. MutexInv => MutexTypeOK  BY DEF MutexInv
<1> QED  BY <1>1, MutexInvariant, PTL

\* At most one coroutine has the lock, one that unlock() handed it to included,
\* for any number of coroutines on any contexts.
THEOREM MutexExcludes == MutexSpec => []MutualExclusion
<1>1. MutexInv => MutualExclusion  BY DEF MutexInv, LockInv
<1> QED  BY <1>1, MutexInvariant, PTL

\* A lock whose flag_ is down has a holder: no hand-over loses it.
THEOREM MutexNeverStranded == MutexSpec => []NeverStranded
<1>1. MutexInv => NeverStranded  BY DEF MutexInv, LockInv
<1> QED  BY <1>1, MutexInvariant, PTL

\* A context resumes only handles of its own coroutines, each once, and only
\* when they are suspended, although Condition::wait shows a handle to other
\* threads before its coroutine is.
THEOREM MutexResumesSuspended == MutexSpec => []ResumesSuspended
<1>1. MutexInv => ResumesSuspended
  <2> SUFFICES ASSUME MutexInv, NEW x \in Contexts, busy[x] = Nobody, ready[x] # <<>>
               PROVE  /\ Home[Head(ready[x])] = x
                      /\ pc[Head(ready[x])] \in {"granted", "waiting"}
                      /\ \A i \in 2 .. Len(ready[x]) : ready[x][i] # Head(ready[x])
    BY DEF ResumesSuspended
  <2>1. ready[x] \in Seq(Coros) /\ Distinct(ready[x])
    BY Typing DEF MutexInv, ReadyInv
  <2>2. \A i \in 2 .. Len(ready[x]) : ready[x][i] # Head(ready[x])
    BY <2>1 DEF Distinct
  <2> QED  BY <2>2, FrontIsSuspended
<1> QED  BY <1>1, MutexInvariant, PTL

(***************************************************************************)
(* The refinement: which step of the fair lock each step is.               *)
(***************************************************************************)
LEMMA HolderHolds ==
  ASSUME MutexInv, NEW c \in Coros, Holds(c)
  PROVE  Holder = c /\ ~flag
<1>1. ~flag /\ \A d \in Coros : Holds(d) => d = c
  BY DEF MutexInv, LockInv, MutualExclusion
<1> QED  BY <1>1 DEF Holder

LEMMA NextHolderHolds ==
  ASSUME MutexInv', NEW c \in Coros, Holds(c)'
  PROVE  Holder' = c
<1>1. ~flag' /\ \A d \in Coros : Holds(d)' => d = c
  BY DEF MutexInv, LockInv, MutualExclusion
<1> QED  BY <1>1 DEF Holder

\* A step that leaves the lock alone is a stutter of the fair lock.
LEMMA LockStutters ==
  ASSUME MutexInv, MutexInv', NEW c \in Coros, NEW to,
         pc' = [pc EXCEPT ![c] = to], UNCHANGED <<flag, queue>>,
         pc[c] \in Holding <=> to \in Holding
  PROVE  UNCHANGED <<Holder, queue>>
<1>1. CASE flag
  BY <1>1 DEF Holder
<1>2. CASE ~flag
  <2>1. PICK d \in Coros : Holds(d)
    BY <1>2 DEF MutexInv, LockInv, NeverStranded
  <2>2. Holds(d)'
    BY <2>1, Typing DEF Holds, Holding
  <2> QED  BY <2>1, <2>2, HolderHolds, NextHolderHolds
<1> QED  BY <1>1, <1>2

LEMMA StepOfFairLock ==
  MutexInv /\ MutexInv' /\ [MutexNext]_mutexVars => [Lock!LockNext]_<<Holder, queue>>
<1> SUFFICES ASSUME MutexInv, MutexInv', [MutexNext]_mutexVars
             PROVE  [Lock!LockNext]_<<Holder, queue>>
  BY DEF Lock!lockVars
<1> USE Typing DEF Holding
<1>1. ASSUME NEW c \in Coros,
             \/ Begin(c) \/ End(c) \/ Suspend(c) \/ Continue(c)
             \/ CallWait(c) \/ PredTrue(c) \/ PredFalse(c) \/ PlainReturn(c) \/ Enqueue(c)
             \/ NotifyOne(c) \/ NotifyAll(c)
      PROVE  UNCHANGED <<Holder, queue>>
  <2>1. PICK to : /\ pc' = [pc EXCEPT ![c] = to]
                  /\ pc[c] \in Holding <=> to \in Holding
                  /\ UNCHANGED <<flag, queue>>
    BY <1>1 DEF Begin, End, Suspend, Continue, CallWait, PredTrue, PredFalse, PlainReturn,
                Enqueue, NotifyOne, NotifyAll, NotifySome, Goto
  <2> QED  BY <2>1, LockStutters
<1>2. ASSUME NEW c \in Coros, Produce(c) PROVE UNCHANGED <<Holder, queue>>
  BY <1>2 DEF Produce, Holder, Holds
<1>3. ASSUME NEW c \in Coros, Deliver(c) PROVE UNCHANGED <<Holder, queue>>
  <2>1. pc[c] \in Delivering
    BY <1>3 DEF Deliver, MutexInv, OutInv, Delivering
  <2>2. PICK to : /\ pc' = [pc EXCEPT ![c] = to]
                  /\ pc[c] \in Holding <=> to \in Holding
                  /\ UNCHANGED <<flag, queue>>
    <3>1. CASE Len(out[c]) = 1
      BY <1>3, <2>1, <3>1 DEF Deliver, Goto, Resumption, Delivering
    <3>2. CASE Len(out[c]) # 1
      <4>1. pc' = [pc EXCEPT ![c] = pc[c]] /\ UNCHANGED <<flag, queue>>
        BY <1>3, <3>2 DEF Deliver
      <4> QED  BY <4>1
    <3> QED  BY <3>1, <3>2
  <2> QED  BY <2>2, LockStutters
<1>4. ASSUME NEW x \in Contexts, RunReady(x) PROVE UNCHANGED <<Holder, queue>>
  <2> DEFINE c == Head(ready[x])
             to == IF pc[c] = "granted" THEN Acquired(c) ELSE "relock"
  <2>1. c \in Coros /\ c \in Elements(ready[x])
    BY <1>4, TailElements DEF RunReady
  <2>2. Home[c] = x
    BY <2>1 DEF MutexInv, ReadyInv
  <2>3. pc[c] \in {"granted", "waiting"}
    BY <1>4, <2>2, FrontIsSuspended DEF RunReady, EnterThread
  <2>4. /\ pc' = [pc EXCEPT ![c] = to] /\ UNCHANGED <<flag, queue>>
        /\ pc[c] \in Holding <=> to \in Holding
    BY <1>4, <2>3 DEF RunReady, Goto, Acquired
  <2> QED  BY <2>1, <2>4, LockStutters
<1>5. ASSUME NEW c \in Coros, LockFree(c) PROVE Lock!AcquireFree(c)
  <2>1. Acquired(c) \in Holding /\ pc' = [pc EXCEPT ![c] = Acquired(c)]
    BY <1>5 DEF LockFree, Goto, Acquired
  <2>2. Holds(c)'
    BY <2>1 DEF Holds
  <2>3. Holder = Nobody /\ Holder' = c /\ UNCHANGED queue
    BY <1>5, <2>2, NextHolderHolds DEF LockFree, Holder
  <2> QED  BY <2>3 DEF Lock!AcquireFree
<1>6. ASSUME NEW c \in Coros, LockTaken(c) PROVE Lock!AskAndWait(c)
  <2>1. PICK d \in Coros : Holds(d)
    BY <1>6 DEF LockTaken, MutexInv, LockInv, NeverStranded
  <2>2. d # c /\ Holds(d)'
    BY <1>6, <2>1 DEF LockTaken, Goto, Holds
  <2>3. Holder = d /\ Holder' = d /\ d # Nobody
    BY <2>1, <2>2, HolderHolds, NextHolderHolds, MutexAssumption
  <2> QED  BY <1>6, <2>3 DEF LockTaken, Lock!AskAndWait
<1>7. ASSUME NEW c \in Coros, NEW to, PassOn(c, to), pc[c] # "blocked" PROVE Lock!Pass
  <2>1. PICK d \in Coros : d = Head(queue) /\ d \in Elements(queue)
    BY <1>7, TailElements DEF PassOn
  <2>2. d # c
    BY <1>7, <2>1 DEF MutexInv, QueueInv
  <2>3. Holds(d)'
    BY <1>7, <2>1, <2>2 DEF PassOn, Holds
  <2>4. Holder' = d
    BY <2>3, NextHolderHolds
  <2> QED  BY <1>7, <2>1, <2>4 DEF PassOn, Lock!Pass
<1>8. ASSUME NEW c \in Coros, NEW to, SetFree(c, to), Holds(c) PROVE Lock!Release
  <2>1. Holder = c /\ c # Nobody
    BY <1>8, HolderHolds, MutexAssumption
  <2> QED  BY <1>8, <2>1 DEF SetFree, Holder, Lock!Release
<1>9. ASSUME NEW c \in Coros, Unlock(c) \/ WaitUnlock(c) PROVE Lock!Pass \/ Lock!Release
  <2>1. pc[c] # "blocked" /\ Holds(c)
    BY <1>9 DEF Unlock, WaitUnlock, Holds
  <2> QED  BY <1>7, <1>8, <1>9, <2>1 DEF Unlock, WaitUnlock
<1>10. CASE UNCHANGED mutexVars
  BY <1>10 DEF mutexVars, Holder, Holds
<1> QED
  BY <1>1, <1>2, <1>3, <1>4, <1>5, <1>6, <1>9, <1>10 DEF MutexNext, Lock!LockNext

\* For any number of coroutines on any contexts the mutex is a lock that is
\* passed on in the order in which it was asked for.
THEOREM MutexIsFair == MutexSpec => ImplementsFairLock
<1>1. MutexInit => Lock!LockInit
  BY DEF MutexInit, Lock!LockInit, Holder
<1>2. MutexInv /\ MutexInv' /\ [MutexNext]_mutexVars => [Lock!LockNext]_<<Holder, queue>>
  BY StepOfFairLock
<1>3. <<Holder, queue>> = Lock!lockVars
  BY DEF Lock!lockVars
<1> QED
  BY <1>1, <1>2, <1>3, MutexInvariant, PTL DEF MutexSpec, ImplementsFairLock, Lock!LockSpec, Lock!lockVars

(***************************************************************************)
(* No missed signal.  What a coroutine that is inside Condition::wait and  *)
(* not in the queue may be doing: it is on its way to the test, unless it  *)
(* is about to queue, which for a wait with a predicate means that it      *)
(* found no item; and nobody makes one before it is queued, since it still *)
(* holds the lock.  So SignalInv does not count it.                        *)
(***************************************************************************)
WaitSteps == {"testing", "enqueue", "enqueued", "releaseWait", "waiting", "relock"}
FreeSteps == {"idle", "running", "critical", "away", "release", "notifyIn", "notifyOut"}

InWaitInv ==
    \A c \in Coros :
        /\ pc[c] \in WaitSteps => inWait[c]
        /\ pc[c] \in FreeSteps => ~inWait[c]

PredInv == \A c \in Coros \ PlainWaiters : pc[c] = "enqueue" => ~item

OnItsWay(c) == inWait[c] /\ c \notin Elements(cqueue) /\ pc[c] # "enqueue"

SignalInv == item /\ Asked => \E c \in Coros : owes[c] \/ OnItsWay(c)

NotifyInv == InWaitInv /\ PredInv /\ SignalInv

\* A step that changes neither the item nor the queue of the condition, that
\* takes nobody out of wait(), and makes nobody queue or notify.
LEMMA SignalKept ==
  ASSUME MutexInv, NotifyInv, UNCHANGED <<cqueue, inWait, item, owes>>,
         \A c \in Coros :
            /\ pc'[c] \in WaitSteps => inWait[c]
            /\ pc'[c] \in FreeSteps => ~inWait[c]
            /\ pc'[c] = "enqueue" => pc[c] = "enqueue"
  PROVE  NotifyInv'
<1>1. InWaitInv'  BY DEF NotifyInv, InWaitInv
<1>2. PredInv'    BY DEF NotifyInv, PredInv
<1>3. SignalInv'  BY DEF NotifyInv, SignalInv, OnItsWay, Asked
<1> QED  BY <1>1, <1>2, <1>3 DEF NotifyInv

LEMMA NextNotifyInv == MutexInv /\ NotifyInv /\ [MutexNext]_mutexVars => NotifyInv'
<1> SUFFICES ASSUME MutexInv, NotifyInv, [MutexNext]_mutexVars PROVE NotifyInv'
  OBVIOUS
<1> USE DEF WaitSteps, FreeSteps
<1>1. /\ pc \in [Coros -> Steps] /\ inWait \in [Coros -> BOOLEAN] /\ owes \in [Coros -> BOOLEAN]
      /\ cqueue \in Seq(Coros) /\ queue \in Seq(Coros) /\ item \in BOOLEAN
      /\ InWaitInv /\ PredInv /\ SignalInv
  BY DEF MutexInv, MutexTypeOK, NotifyInv
<1>2. ASSUME NEW c \in Coros,
             Begin(c) \/ End(c) \/ Suspend(c) \/ Continue(c) \/ LockFree(c) \/ LockTaken(c)
      PROVE  NotifyInv'
  <2>1. /\ UNCHANGED <<cqueue, inWait, item, owes>>
        /\ pc' = [pc EXCEPT ![c] = pc'[c]]
        /\ pc'[c] \in WaitSteps => inWait[c]
        /\ pc'[c] \in FreeSteps => ~inWait[c]
        /\ pc'[c] # "enqueue"
    BY <1>1, <1>2 DEF Begin, End, Suspend, Continue, LockFree, LockTaken, Acquired, Goto, InWaitInv
  <2> QED  BY <1>1, <2>1, SignalKept DEF InWaitInv
<1>3. ASSUME NEW c \in Coros, Produce(c)
      PROVE  NotifyInv'
  <2>1. /\ UNCHANGED <<pc, cqueue, inWait>> /\ owes'[c] /\ pc[c] = "critical"
    BY <1>1, <1>3 DEF Produce
  <2>2. \A d \in Coros : pc[d] # "enqueue"
    BY <2>1 DEF MutexInv, LockInv, MutualExclusion, Holds
  <2> QED  BY <1>1, <2>1, <2>2 DEF NotifyInv, InWaitInv, PredInv, SignalInv
<1>4. ASSUME NEW c \in Coros, NEW to, to \in FreeSteps, PassOn(c, to) \/ SetFree(c, to),
             ~inWait[c], pc[c] # "blocked", UNCHANGED <<cqueue, inWait, item, owes>>
      PROVE  NotifyInv'
  <2>1. CASE PassOn(c, to)
    <3>1. Head(queue) \in Coros /\ pc' = [pc EXCEPT ![Head(queue)] = "granted", ![c] = to]
      BY <1>1, <2>1, TailElements DEF PassOn
    <3> QED  BY <1>1, <1>4, <3>1, SignalKept DEF InWaitInv
  <2>2. CASE SetFree(c, to)
    BY <1>1, <1>4, <2>2, SignalKept DEF InWaitInv, SetFree, Goto
  <2> QED  BY <1>4, <2>1, <2>2
<1>5. ASSUME NEW c \in Coros, Unlock(c)
      PROVE  NotifyInv'
  BY <1>1, <1>4, <1>5 DEF Unlock, InWaitInv
<1>6. ASSUME NEW c \in Coros, WaitUnlock(c)
      PROVE  NotifyInv'
  <2>1. pc[c] = "enqueued" /\ inWait[c] /\ UNCHANGED <<cqueue, inWait, item, owes>>
    BY <1>1, <1>6 DEF WaitUnlock, InWaitInv
  <2>2. CASE PassOn(c, "releaseWait")
    <3>1. Head(queue) \in Coros /\ pc' = [pc EXCEPT ![Head(queue)] = "granted", ![c] = "releaseWait"]
      BY <1>1, <2>2, TailElements DEF PassOn
    <3> QED  BY <1>1, <2>1, <3>1, SignalKept DEF InWaitInv
  <2>3. CASE SetFree(c, "waiting")
    BY <1>1, <2>1, <2>3, SignalKept DEF InWaitInv, SetFree, Goto
  <2> QED  BY <1>6, <2>2, <2>3 DEF WaitUnlock
<1>7. ASSUME NEW c \in Coros, CallWait(c)
      PROVE  NotifyInv'
  <2>1. /\ pc[c] = "critical" /\ ~owes[c] /\ ~inWait[c] /\ UNCHANGED <<cqueue, item, owes>>
        /\ inWait' = [inWait EXCEPT ![c] = TRUE]
        /\ pc' = [pc EXCEPT ![c] = IF c \in PlainWaiters THEN "enqueue" ELSE "testing"]
    BY <1>1, <1>7 DEF CallWait, Goto, InWaitInv
  <2>2. InWaitInv'  BY <1>1, <2>1 DEF InWaitInv
  <2>3. PredInv'    BY <1>1, <2>1 DEF PredInv
  <2>4. \A d \in Coros : owes[d] \/ OnItsWay(d) => owes'[d] \/ OnItsWay(d)'
    BY <1>1, <2>1 DEF OnItsWay
  <2>5. SignalInv'  BY <1>1, <2>1, <2>4 DEF SignalInv, Asked
  <2> QED  BY <2>2, <2>3, <2>5 DEF NotifyInv
<1>8. ASSUME NEW c \in Coros, PredTrue(c)
      PROVE  NotifyInv'
  BY <1>1, <1>8 DEF PredTrue, Goto, NotifyInv, InWaitInv, PredInv, SignalInv
<1>9. ASSUME NEW c \in Coros, PredFalse(c)
      PROVE  NotifyInv'
  BY <1>1, <1>9 DEF PredFalse, Goto, NotifyInv, InWaitInv, PredInv, SignalInv
<1>10. ASSUME NEW c \in Coros, PlainReturn(c)
       PROVE  NotifyInv'
  <2>1. /\ UNCHANGED <<cqueue, item>> /\ owes' = [owes EXCEPT ![c] = item]
        /\ inWait' = [inWait EXCEPT ![c] = FALSE] /\ pc' = [pc EXCEPT ![c] = "critical"]
    BY <1>10 DEF PlainReturn, Goto
  <2>2. InWaitInv'  BY <1>1, <2>1 DEF InWaitInv
  <2>3. PredInv'    BY <1>1, <2>1 DEF PredInv
  <2>4. SignalInv'  BY <1>1, <2>1 DEF SignalInv
  <2> QED  BY <2>2, <2>3, <2>4 DEF NotifyInv
<1>11. ASSUME NEW c \in Coros, Enqueue(c)
       PROVE  NotifyInv'
  <2>1. /\ pc[c] = "enqueue" /\ pc' = [pc EXCEPT ![c] = "enqueued"] /\ cqueue' = Append(cqueue, c)
        /\ UNCHANGED <<inWait, item, owes>>
    BY <1>11 DEF Enqueue, Goto
  <2>2. Elements(cqueue') = Elements(cqueue) \cup {c}
    BY <1>1, <2>1, AppendElements
  <2>3. InWaitInv'  BY <1>1, <2>1 DEF InWaitInv
  <2>4. PredInv'    BY <1>1, <2>1 DEF PredInv
  <2>5. SignalInv'
    <3>1. CASE c \in PlainWaiters
      <4>1. \A d \in Coros : owes[d] \/ OnItsWay(d) => owes'[d] \/ OnItsWay(d)'
        BY <1>1, <2>1, <2>2 DEF OnItsWay
      <4> QED  BY <1>1, <2>1, <2>2, <3>1, <4>1 DEF SignalInv, Asked
    <3>2. CASE c \notin PlainWaiters
      BY <1>1, <2>1, <3>2 DEF PredInv, SignalInv
    <3> QED  BY <3>1, <3>2
  <2> QED  BY <2>3, <2>4, <2>5 DEF NotifyInv
<1>12. ASSUME NEW c \in Coros, NotifyOne(c) \/ NotifyAll(c)
       PROVE  NotifyInv'
  <2> DEFINE n == IF NotifyAll(c) THEN Len(cqueue) ELSE IF cqueue = <<>> THEN 0 ELSE 1
             a == SubSeq(cqueue, 1, n)
             b == SubSeq(cqueue, n + 1, Len(cqueue))
             to == IF n = 0 THEN pc[c] ELSE IF pc[c] = "critical" THEN "notifyIn" ELSE "notifyOut"
  <2>1. /\ cqueue' = b /\ UNCHANGED <<inWait, item>> /\ pc[c] \in {"running", "critical"}
        /\ pc' = [pc EXCEPT ![c] = to] /\ owes' = [owes EXCEPT ![c] = FALSE]
    BY <1>12 DEF NotifyOne, NotifyAll, NotifySome, Goto
  <2>2. InWaitInv'  BY <1>1, <2>1 DEF InWaitInv
  <2>3. PredInv'    BY <1>1, <2>1 DEF PredInv
  <2>4. n \in 0 .. Len(cqueue) /\ (cqueue # <<>> => n # 0)
    BY <1>1, EmptySeq
  <2>5. /\ b \in Seq(Coros) /\ a \in Seq(Coros)
        /\ Elements(cqueue) = Elements(a) \cup Elements(b)
        /\ Elements(a) \cap Elements(b) = {}
    BY <1>1, <2>4, CutElements DEF MutexInv, CondInv
  <2>6. SignalInv'
    <3>1. CASE cqueue = <<>>
      <4>1. Elements(cqueue') = {}
        BY <2>1, <2>5, <3>1, EmptyElements
      <4> QED  BY <4>1 DEF SignalInv, Asked
    <3>2. CASE cqueue # <<>>
      <4>1. n \in 1 .. Len(cqueue)
        BY <1>1, <2>4, <3>2
      <4>2. 1 \in DOMAIN a
        BY <1>1, <4>1, SubSeqProperties
      <4> HIDE DEF n, a, b, to
      <4>3. PICK d \in Coros : d \in Elements(a)
        BY <2>5, <4>2 DEF Elements
      <4>4. inWait[d] /\ pc[d] # "enqueue" /\ d # c
        BY <1>1, <2>1, <2>5, <4>3 DEF MutexInv, CondInv, InWaitInv
      <4>5. OnItsWay(d)'
        BY <1>1, <2>1, <2>5, <4>3, <4>4 DEF OnItsWay
      <4> QED  BY <4>5 DEF SignalInv
    <3> QED  BY <3>1, <3>2
  <2> QED  BY <2>2, <2>3, <2>6 DEF NotifyInv
<1>13. ASSUME NEW c \in Coros, Deliver(c)
       PROVE  NotifyInv'
  <2>1. pc[c] \in Delivering
    BY <1>13 DEF Deliver, MutexInv, OutInv, Delivering
  <2>2. CASE Len(out[c]) = 1
    BY <1>1, <1>13, <2>1, <2>2, SignalKept DEF Deliver, Goto, Resumption, Delivering, InWaitInv
  <2>3. CASE Len(out[c]) # 1
    BY <1>1, <1>13, <2>3, SignalKept DEF Deliver, InWaitInv
  <2> QED  BY <2>2, <2>3
<1>14. ASSUME NEW x \in Contexts, RunReady(x)
       PROVE  NotifyInv'
  <2> DEFINE c == Head(ready[x])
             to == IF pc[c] = "granted" THEN Acquired(c) ELSE "relock"
  <2>1. c \in Coros /\ c \in Elements(ready[x])
    BY <1>14, Typing, TailElements DEF RunReady
  <2>2. Home[c] = x
    BY <2>1 DEF MutexInv, ReadyInv
  <2>3. pc[c] \in {"granted", "waiting"}
    BY <1>14, <2>2, FrontIsSuspended DEF RunReady, EnterThread
  <2>4. pc' = [pc EXCEPT ![c] = to] /\ UNCHANGED <<cqueue, inWait, item, owes>>
    BY <1>14 DEF RunReady, Goto
  <2>5. (to \in WaitSteps => inWait[c]) /\ (to \in FreeSteps => ~inWait[c]) /\ to # "enqueue"
    BY <1>1, <2>1, <2>3 DEF Acquired, InWaitInv
  <2> QED  BY <1>1, <2>1, <2>4, <2>5, SignalKept DEF InWaitInv
<1>15. CASE UNCHANGED mutexVars
  BY <1>1, <1>15, SignalKept DEF mutexVars, InWaitInv
<1> QED
  BY <1>2, <1>3, <1>5, <1>6, <1>7, <1>8, <1>9, <1>10, <1>11, <1>12, <1>13, <1>14, <1>15
     DEF MutexNext

\* Condition::wait and notify miss no signal, for any number of coroutines, with
\* and without predicates, on any contexts: an item that a queued coroutine
\* waits for has somebody who will notify or who was notified.
THEOREM MutexMissesNoSignal == MutexSpec => []NoMissedSignal
<1>1. MutexInit => NotifyInv
  BY DEF MutexInit, NotifyInv, InWaitInv, PredInv, SignalInv, WaitSteps
<1>2. NotifyInv => NoMissedSignal
  BY DEF NotifyInv, SignalInv, OnItsWay, NoMissedSignal
<1> QED  BY <1>1, <1>2, MutexInvariant, NextNotifyInv, PTL DEF MutexSpec
=============================================================================
