----------------------------- MODULE QueueFacts -----------------------------
(***************************************************************************)
(* The sequences of the modules are queues: std::deque, std::vector and    *)
(* intrusive lists that are appended to, popped in front, cut and joined.  *)
(* What these operations do to the elements, for the proofs.               *)
(***************************************************************************)
EXTENDS SequencesExt, SequenceTheorems, TLAPS

\* No element occurs twice.
Distinct(s) == \A i, j \in DOMAIN s : s[i] = s[j] => i = j

LEMMA EmptyQueue == ToSet(<<>>) = {} /\ Distinct(<<>>)
  BY DEF ToSet, Distinct

LEMMA QueueType ==
  ASSUME NEW S, NEW s \in Seq(S)
  PROVE  ToSet(s) \subseteq S /\ Len(s) \in Nat /\ (s # <<>> <=> Len(s) > 0)
  BY EmptySeq DEF ToSet

LEMMA AppendQueue ==
  ASSUME NEW S, NEW s \in Seq(S), NEW e \in S
  PROVE  /\ Append(s, e) \in Seq(S) /\ Append(s, e) # <<>>
         /\ Len(Append(s, e)) = Len(s) + 1
         /\ ToSet(Append(s, e)) = ToSet(s) \cup {e}
         /\ Distinct(s) /\ e \notin ToSet(s) => Distinct(Append(s, e))
<1>1. /\ Append(s, e) \in Seq(S) /\ Len(Append(s, e)) = Len(s) + 1 /\ Len(s) \in Nat
      /\ Append(s, e) # <<>> /\ DOMAIN s = 1 .. Len(s) /\ DOMAIN Append(s, e) = 1 .. Len(s) + 1
      /\ \A i \in 1 .. Len(s) : Append(s, e)[i] = s[i]
      /\ Append(s, e)[Len(s) + 1] = e
  BY AppendProperties
<1>2. ToSet(Append(s, e)) = ToSet(s) \cup {e}
  BY <1>1 DEF ToSet
<1>3. Distinct(s) /\ e \notin ToSet(s) => Distinct(Append(s, e))
  BY <1>1 DEF ToSet, Distinct
<1> QED  BY <1>1, <1>2, <1>3

LEMMA PopQueue ==
  ASSUME NEW S, NEW s \in Seq(S), s # <<>>
  PROVE  /\ Tail(s) \in Seq(S) /\ Head(s) \in S
         /\ Len(Tail(s)) = Len(s) - 1
         /\ ToSet(s) = ToSet(Tail(s)) \cup {Head(s)}
         /\ Distinct(s) => Distinct(Tail(s)) /\ Head(s) \notin ToSet(Tail(s))
<1>1. /\ Tail(s) \in Seq(S) /\ Head(s) \in S /\ Head(s) = s[1]
      /\ DOMAIN s = 1 .. Len(s) /\ DOMAIN Tail(s) = 1 .. Len(s) - 1
      /\ Len(s) \in Nat /\ Len(s) # 0 /\ Len(Tail(s)) = Len(s) - 1
      /\ \A i \in 1 .. Len(s) - 1 : Tail(s)[i] = s[i + 1]
  OBVIOUS
<1>2. ToSet(s) = ToSet(Tail(s)) \cup {Head(s)}
  <2>1. ASSUME NEW i \in DOMAIN s PROVE s[i] \in ToSet(Tail(s)) \cup {Head(s)}
    <3>1. CASE i = 1   BY <1>1, <3>1
    <3>2. CASE i # 1
      <4>1. i - 1 \in DOMAIN Tail(s) /\ Tail(s)[i - 1] = s[i]  BY <1>1, <3>2
      <4> QED  BY <4>1 DEF ToSet
    <3> QED  BY <3>1, <3>2
  <2>2. ASSUME NEW i \in DOMAIN Tail(s) PROVE Tail(s)[i] \in ToSet(s)
    <3>1. i + 1 \in DOMAIN s /\ Tail(s)[i] = s[i + 1]  BY <1>1
    <3> QED  BY <3>1 DEF ToSet
  <2>3. Head(s) \in ToSet(s)
    <3>1. 1 \in DOMAIN s  BY <1>1
    <3> QED  BY <1>1, <3>1 DEF ToSet
  <2> QED  BY <2>1, <2>2, <2>3 DEF ToSet
<1>3. ASSUME Distinct(s) PROVE Distinct(Tail(s)) /\ Head(s) \notin ToSet(Tail(s))
  <2>1. Distinct(Tail(s))
    BY <1>1, <1>3 DEF Distinct
  <2>2. ASSUME NEW i \in DOMAIN Tail(s) PROVE Tail(s)[i] # Head(s)
    BY <1>1, <1>3 DEF Distinct
  <2> QED  BY <2>1, <2>2 DEF ToSet
<1> QED  BY <1>1, <1>2, <1>3

LEMMA JoinQueues ==
  ASSUME NEW S, NEW s \in Seq(S), NEW t \in Seq(S)
  PROVE  /\ s \o t \in Seq(S)
         /\ ToSet(s \o t) = ToSet(s) \cup ToSet(t)
         /\ Distinct(s \o t) <=> Distinct(s) /\ Distinct(t) /\ ToSet(s) \cap ToSet(t) = {}
<1> DEFINE u == s \o t
<1>1. /\ u \in Seq(S) /\ DOMAIN s = 1 .. Len(s) /\ DOMAIN t = 1 .. Len(t)
      /\ Len(s) \in Nat /\ Len(t) \in Nat /\ DOMAIN u = 1 .. Len(s) + Len(t)
      /\ \A i \in 1 .. Len(s) + Len(t) : u[i] = IF i <= Len(s) THEN s[i] ELSE t[i - Len(s)]
  BY ConcatProperties
<1> HIDE DEF u
<1>2. ASSUME NEW i \in DOMAIN s PROVE i \in DOMAIN u /\ u[i] = s[i]
  BY <1>1
<1>3. ASSUME NEW i \in DOMAIN t PROVE i + Len(s) \in DOMAIN u /\ u[i + Len(s)] = t[i]
  BY <1>1
<1>4. ASSUME NEW i \in DOMAIN u
      PROVE  \/ i \in DOMAIN s /\ u[i] = s[i]
             \/ i - Len(s) \in DOMAIN t /\ u[i] = t[i - Len(s)]
  BY <1>1
<1>5. ToSet(u) = ToSet(s) \cup ToSet(t)
  BY <1>2, <1>3, <1>4 DEF ToSet
<1>6. ASSUME Distinct(u) PROVE Distinct(s) /\ Distinct(t) /\ ToSet(s) \cap ToSet(t) = {}
  <2>1. Distinct(s)  BY <1>2, <1>6 DEF Distinct
  <2>2. Distinct(t)
    <3>1. ASSUME NEW i \in DOMAIN t, NEW j \in DOMAIN t, t[i] = t[j] PROVE i = j
      <4>1. i + Len(s) = j + Len(s)  BY <1>3, <1>6, <3>1 DEF Distinct
      <4> QED  BY <1>1, <4>1
    <3> QED  BY <3>1 DEF Distinct
  <2>3. ASSUME NEW i \in DOMAIN s, NEW j \in DOMAIN t PROVE s[i] # t[j]
    <3>1. i # j + Len(s)  BY <1>1
    <3> QED  BY <1>2, <1>3, <1>6, <3>1 DEF Distinct
  <2> QED  BY <2>1, <2>2, <2>3 DEF ToSet
<1>7. ASSUME Distinct(s), Distinct(t), ToSet(s) \cap ToSet(t) = {} PROVE Distinct(u)
  <2>1. ASSUME NEW i \in DOMAIN u, NEW j \in DOMAIN u, u[i] = u[j] PROVE i = j
    <3>1. \A k \in DOMAIN s, l \in DOMAIN t : s[k] # t[l]
      BY <1>7 DEF ToSet
    <3>2. CASE i \in DOMAIN s
      <4>1. j \in DOMAIN s
        BY <1>1, <1>4, <2>1, <3>1, <3>2
      <4> QED  BY <1>2, <1>7, <2>1, <3>2, <4>1 DEF Distinct
    <3>3. CASE i \notin DOMAIN s
      <4>1. i - Len(s) \in DOMAIN t /\ j - Len(s) \in DOMAIN t
        BY <1>2, <1>4, <2>1, <3>1, <3>3
      <4>2. t[i - Len(s)] = t[j - Len(s)]
        BY <1>1, <2>1, <4>1
      <4>3. i - Len(s) = j - Len(s)  BY <1>7, <4>1, <4>2 DEF Distinct
      <4> QED  BY <1>1, <4>3
    <3> QED  BY <3>2, <3>3
  <2> QED  BY <2>1 DEF Distinct
<1> QED  BY <1>1, <1>5, <1>6, <1>7 DEF u

\* A queue cut behind its first n elements.
LEMMA CutQueue ==
  ASSUME NEW S, NEW s \in Seq(S), NEW n \in 0 .. Len(s)
  PROVE  /\ SubSeq(s, 1, n) \in Seq(S) /\ SubSeq(s, n + 1, Len(s)) \in Seq(S)
         /\ Len(SubSeq(s, 1, n)) = n /\ Len(SubSeq(s, n + 1, Len(s))) = Len(s) - n
         /\ \A i \in 1 .. n : SubSeq(s, 1, n)[i] = s[i]
         /\ ToSet(s) = ToSet(SubSeq(s, 1, n)) \cup ToSet(SubSeq(s, n + 1, Len(s)))
         /\ Distinct(s) => /\ Distinct(SubSeq(s, 1, n)) /\ Distinct(SubSeq(s, n + 1, Len(s)))
                           /\ ToSet(SubSeq(s, 1, n)) \cap ToSet(SubSeq(s, n + 1, Len(s))) = {}
<1> DEFINE a == SubSeq(s, 1, n)  b == SubSeq(s, n + 1, Len(s))
<1>1. Len(s) \in Nat /\ n \in Int /\ \A i \in 1 .. Len(s) : s[i] \in S
  BY LenProperties, ElementOfSeq
<1>2. a \in Seq(S) /\ Len(a) = n /\ \A i \in 1 .. n : a[i] = s[i]
  <2>1. \A i \in 1 .. n : s[i] \in S  BY <1>1
  <2>2. /\ a \in Seq(S) /\ Len(a) = IF 1 <= n THEN n - 1 + 1 ELSE 0
        /\ \A i \in 1 .. n - 1 + 1 : a[i] = s[1 + i - 1]
    BY <1>1, <2>1, SubSeqProperties
  <2> QED  BY <1>1, <2>2
<1>3. b \in Seq(S) /\ Len(b) = Len(s) - n
  <2>1. \A i \in n + 1 .. Len(s) : s[i] \in S /\ n + 1 \in Int /\ Len(s) \in Int  BY <1>1
  <2>2. /\ b \in Seq(S) /\ Len(b) = IF n + 1 <= Len(s) THEN Len(s) - (n + 1) + 1 ELSE 0
    BY <1>1, <2>1, SubSeqProperties
  <2> QED  BY <1>1, <2>2
<1>4. s = a \o b
  <2>1. 1 \in 1 .. Len(s) + 1 /\ n \in 1 - 1 .. Len(s) /\ Len(s) \in n .. Len(s)  BY <1>1
  <2> QED  BY <2>1, ConcatAdjacentSubSeq, SubSeqFull
<1> HIDE DEF a, b
<1>5. /\ ToSet(s) = ToSet(a) \cup ToSet(b)
      /\ Distinct(s) => Distinct(a) /\ Distinct(b) /\ ToSet(a) \cap ToSet(b) = {}
  BY <1>2, <1>3, <1>4, JoinQueues
<1> QED  BY <1>2, <1>3, <1>5 DEF a, b

\* An element put behind the first n of a queue.
LEMMA InsertQueue ==
  ASSUME NEW S, NEW s \in Seq(S), NEW n \in 0 .. Len(s), NEW e \in S
  PROVE  /\ InsertAt(s, n + 1, e) \in Seq(S) /\ Len(InsertAt(s, n + 1, e)) = Len(s) + 1
         /\ ToSet(InsertAt(s, n + 1, e)) = ToSet(s) \cup {e}
         /\ Distinct(s) /\ e \notin ToSet(s) => Distinct(InsertAt(s, n + 1, e))
<1> DEFINE a == SubSeq(s, 1, n)  b == SubSeq(s, n + 1, Len(s))
<1>1. InsertAt(s, n + 1, e) = (a \o <<e>>) \o b
  <2>1. (n + 1) - 1 = n  OBVIOUS
  <2> QED  BY <2>1 DEF InsertAt
<1>2. /\ a \in Seq(S) /\ b \in Seq(S) /\ Len(a) = n /\ Len(b) = Len(s) - n
      /\ ToSet(s) = ToSet(a) \cup ToSet(b)
      /\ Distinct(s) => Distinct(a) /\ Distinct(b) /\ ToSet(a) \cap ToSet(b) = {}
  BY CutQueue
<1> HIDE DEF a, b
<1>3. /\ a \o <<e>> = Append(a, e) /\ Append(a, e) \in Seq(S) /\ Len(Append(a, e)) = n + 1
      /\ ToSet(Append(a, e)) = ToSet(a) \cup {e}
      /\ Distinct(a) /\ e \notin ToSet(a) => Distinct(Append(a, e))
  BY <1>2, AppendIsConcat, AppendQueue
<1> DEFINE c == Append(a, e)
<1>4. /\ c \in Seq(S) /\ Len(c) = n + 1 /\ ToSet(c) = ToSet(a) \cup {e}
      /\ Distinct(a) /\ e \notin ToSet(a) => Distinct(c)
      /\ InsertAt(s, n + 1, e) = c \o b
  BY <1>1, <1>3
<1> HIDE DEF c
<1>5. c \o b \in Seq(S) /\ Len(c \o b) = Len(c) + Len(b)
  BY <1>2, <1>4, ConcatProperties
<1>6. Len(c \o b) = Len(s) + 1
  <2>1. Len(s) \in Nat  BY LenProperties
  <2> QED  BY <1>2, <1>4, <1>5, <2>1
<1>7. /\ ToSet(c \o b) = ToSet(c) \cup ToSet(b)
      /\ Distinct(c) /\ Distinct(b) /\ ToSet(c) \cap ToSet(b) = {} => Distinct(c \o b)
  BY <1>2, <1>4, JoinQueues
<1>8. ToSet(c \o b) = ToSet(s) \cup {e}
  BY <1>2, <1>4, <1>7
<1>9. Distinct(s) /\ e \notin ToSet(s) => Distinct(c \o b)
  BY <1>2, <1>4, <1>7
<1> QED  BY <1>4, <1>5, <1>6, <1>8, <1>9

\* A stack that is popped.
LEMMA FrontQueue ==
  ASSUME NEW S, NEW s \in Seq(S), s # <<>>
  PROVE  /\ Front(s) \in Seq(S) /\ Last(s) \in S
         /\ Len(s) \in Nat \ {0} /\ Len(Front(s)) = Len(s) - 1 /\ Last(s) = s[Len(s)]
         /\ \A i \in 1 .. Len(s) - 1 : Front(s)[i] = s[i]
         /\ ToSet(s) = ToSet(Front(s)) \cup {Last(s)}
<1>1. Len(s) \in Nat \ {0} /\ DOMAIN s = 1 .. Len(s) /\ s[Len(s)] \in S
  BY EmptySeq, LenProperties, ElementOfSeq
<1>2. Len(s) - 1 \in 0 .. Len(s)  BY <1>1
<1>3. /\ Front(s) \in Seq(S) /\ Len(Front(s)) = Len(s) - 1
      /\ \A i \in 1 .. Len(s) - 1 : Front(s)[i] = s[i]
  BY <1>2, CutQueue DEF Front
<1>4. DOMAIN Front(s) = 1 .. Len(s) - 1  BY <1>3, LenProperties
<1>5. ToSet(s) = ToSet(Front(s)) \cup {Last(s)}
  BY <1>1, <1>3, <1>4 DEF ToSet, Last
<1> QED  BY <1>1, <1>3, <1>5 DEF Last

\* The head of two queues that are joined is the head of the first.
LEMMA HeadOfJoin ==
  ASSUME NEW S, NEW s \in Seq(S), NEW t \in Seq(S), s # <<>>
  PROVE  s \o t # <<>> /\ Head(s \o t) = Head(s) /\ Tail(s \o t) = Tail(s) \o t
<1> DEFINE u == s \o t
<1>1. /\ Len(s) \in Nat \ {0} /\ Len(t) \in Nat /\ u \in Seq(S) /\ Len(u) = Len(s) + Len(t)
      /\ \A i \in 1 .. Len(s) + Len(t) : u[i] = IF i <= Len(s) THEN s[i] ELSE t[i - Len(s)]
  BY EmptySeq, LenProperties, ConcatProperties
<1> HIDE DEF u
<1>2. u # <<>> /\ Head(u) = u[1] /\ Head(s) = s[1]  BY <1>1, EmptySeq
<1>3. /\ Tail(u) \in Seq(S) /\ Len(Tail(u)) = Len(u) - 1
      /\ \A i \in 1 .. Len(Tail(u)) : Tail(u)[i] = u[i + 1]
      /\ Tail(s) \in Seq(S) /\ Len(Tail(s)) = Len(s) - 1
      /\ \A i \in 1 .. Len(Tail(s)) : Tail(s)[i] = s[i + 1]
  BY <1>1, <1>2, HeadTailProperties
<1> DEFINE v == Tail(s) \o t
<1>4. /\ v \in Seq(S) /\ Len(v) = Len(s) - 1 + Len(t)
      /\ \A i \in 1 .. Len(s) - 1 + Len(t) :
           v[i] = IF i <= Len(s) - 1 THEN Tail(s)[i] ELSE t[i - (Len(s) - 1)]
  BY <1>1, <1>3, ConcatProperties
<1> HIDE DEF v
<1>5. ASSUME NEW i \in 1 .. Len(Tail(u)) PROVE Tail(u)[i] = v[i]
  <2>1. Tail(u)[i] = u[i + 1] /\ i \in 1 .. Len(s) - 1 + Len(t)  BY <1>1, <1>3
  <2>2. CASE i <= Len(s) - 1
    <3>1. u[i + 1] = s[i + 1] /\ i \in 1 .. Len(Tail(s))  BY <1>1, <1>3, <2>1, <2>2
    <3>2. v[i] = s[i + 1]  BY <1>3, <1>4, <2>1, <2>2, <3>1
    <3> QED  BY <2>1, <3>1, <3>2
  <2>3. CASE i > Len(s) - 1
    <3>1. u[i + 1] = t[(i + 1) - Len(s)]  BY <1>1, <2>1, <2>3
    <3>2. v[i] = t[i - (Len(s) - 1)] /\ (i + 1) - Len(s) = i - (Len(s) - 1)
      BY <1>1, <1>4, <2>1, <2>3
    <3> QED  BY <2>1, <3>1, <3>2
  <2> QED  BY <1>1, <2>1, <2>2, <2>3
<1>6. Tail(u) = v  BY <1>1, <1>3, <1>4, <1>5, SeqEqual
<1>7. Head(u) = Head(s)  BY <1>1, <1>2
<1> QED  BY <1>2, <1>6, <1>7 DEF u, v
=============================================================================
