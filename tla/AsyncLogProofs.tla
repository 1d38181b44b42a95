--------------------------- MODULE AsyncLogProofs ---------------------------
(***************************************************************************)
(* The four buffers of AsyncLogger go round, what a destructor may count   *)
(* on is printed, and the file holds the messages once and in their order: *)
(* for every capacity, every set of lengths and every number of writes.    *)
(***************************************************************************)
EXTENDS AsyncLog, FiniteSetTheorems, SequenceTheorems, TLAPS

(***************************************************************************)
(* BuffersGoRound is not inductive: that a pass finds a buffer for each    *)
(* spare it lent has to be known from the moment it lends one.  LoanInv    *)
(* counts the loan against what the pass prints.                           *)
(***************************************************************************)
TypeInv ==
    /\ ready \in Seq(Seq(Nat)) /\ batch \in Seq(Seq(Nat)) /\ current \in Seq(Nat)
    /\ count \in Nat
    /\ held \subseteq {"current", "next"} \cup Spares
    /\ back \in {"wait", "print", "exited", "undefined"}

NextInv == "next" \in held <=> ready = <<>>

LoanInv ==
    /\ back # "undefined"
    /\ back # "print" => Spares \subseteq held
    /\ back = "print" => Cardinality(Spares \ held) <= Len(batch)

LogInv == TypeInv /\ NextInv /\ LoanInv

-----------------------------------------------------------------------------
\* One spare, lent by itself, is one buffer to take back.
LEMMA OneLent == ASSUME NEW s PROVE Cardinality({s}) = 1
  BY FS_Singleton

LEMMA NoneLent == Cardinality({}) = 0
  BY FS_EmptySet

\* What is still to be printed is cleared in place: the vector keeps its length.
LEMMA PrintKeepsLength ==
  ASSUME batch \in Seq(Seq(Nat)), NEW i \in DOMAIN batch
  PROVE  /\ [batch EXCEPT ![i] = <<>>] \in Seq(Seq(Nat))
         /\ Len([batch EXCEPT ![i] = <<>>]) = Len(batch)
  OBVIOUS

LEMMA InitLogInv == AsyncLogInit => LogInv
  BY DEF AsyncLogInit, LogInv, TypeInv, NextInv, LoanInv, Spares

-----------------------------------------------------------------------------
\* Every step of the writers, the background thread and the destructor keeps
\* the loan covered.
LEMMA NextLogInv == LogInv /\ [AsyncLogNext]_asyncLogVars => LogInv'
<1> SUFFICES ASSUME LogInv, [AsyncLogNext]_asyncLogVars PROVE LogInv'
  OBVIOUS
<1> USE DEF LogInv
<1>1. CASE UNCHANGED asyncLogVars
  BY <1>1 DEF asyncLogVars, TypeInv, NextInv, LoanInv
<1>2. ASSUME NEW len \in Lengths, WriteFits(len) PROVE LogInv'
  BY <1>2 DEF WriteFits, TypeInv, NextInv, LoanInv
<1>3. ASSUME NEW len \in Lengths, WriteRolls(len) PROVE LogInv'
  <2>1. TypeInv'
    BY <1>3 DEF WriteRolls, TypeInv
  <2>2. NextInv'
    <3>1. Len(Append(ready, current)) = Len(ready) + 1 /\ Len(ready) \in Nat
      BY DEF TypeInv
    <3>2. ready' # <<>> /\ "next" \notin held'
      BY <1>3, <3>1 DEF WriteRolls
    <3> QED BY <3>2 DEF NextInv
  <2>3. Spares \ held' = Spares \ held
    BY <1>3 DEF WriteRolls, Spares
  <2>4. LoanInv'
    BY <1>3, <2>3 DEF WriteRolls, LoanInv
  <2> QED BY <2>1, <2>2, <2>4
<1>4. CASE TakeCurrent
  <2>1. Spares \subseteq held /\ "next" \in held
    BY <1>4 DEF TakeCurrent, NextInv, LoanInv
  <2>2. CASE size # 0
    <3>1. /\ batch' = <<current>> /\ current' = <<>> /\ ready' = ready /\ count' = count
          /\ back' = "print"
          /\ held' = held \ {"currentAlter"}
      BY <1>4, <2>1, <2>2 DEF TakeCurrent, LendNext
    <3>2. Spares \ held' = {"currentAlter"}
      BY <2>1, <3>1 DEF Spares
    <3>3. Cardinality(Spares \ held') = 1 /\ Len(batch') = 1
      <4>1. Cardinality(Spares \ held') = 1
        BY <3>2, OneLent, Zenon
      <4>2. Len(<<current>>) = 1
        OBVIOUS
      <4> QED BY <3>1, <4>1, <4>2
    <3>4. TypeInv'
      <4>1. <<current>> \in Seq(Seq(Nat)) /\ <<>> \in Seq(Nat)
        BY DEF TypeInv
      <4>2. held' \subseteq {"current", "next"} \cup Spares
        BY <3>1 DEF TypeInv
      <4> QED BY <3>1, <4>1, <4>2 DEF TypeInv
    <3>5. NextInv'
      BY <3>1 DEF NextInv
    <3> QED BY <3>1, <3>3, <3>4, <3>5 DEF LoanInv
  <2>3. CASE size = 0
    <3>1. /\ batch' = batch /\ current' = current /\ ready' = ready /\ count' = count
          /\ back' = "print" /\ held' = held
      BY <1>4, <2>1, <2>3 DEF TakeCurrent, LendNext
    <3>2. Spares \ held' = {}
      BY <2>1, <3>1
    <3>3. Cardinality(Spares \ held') = 0 /\ Len(batch') >= 0
      <4>1. Cardinality(Spares \ held') = 0
        BY <3>2, NoneLent, Zenon
      <4> QED BY <3>1, <4>1 DEF TypeInv
    <3>4. TypeInv'
      BY <3>1 DEF TypeInv
    <3>5. NextInv'
      BY <3>1 DEF NextInv
    <3> QED BY <3>1, <3>3, <3>4, <3>5 DEF LoanInv
  <2> QED BY <2>2, <2>3
<1>5. CASE TakeReady
  <2>1. Spares \subseteq held /\ "next" \notin held
    BY <1>5 DEF TakeReady, NextInv, LoanInv
  <2>2. /\ batch' = ready /\ ready' = <<>> /\ current' = current /\ count' = count
        /\ back' = "print" /\ ready # <<>>
        /\ held' = (held \ {"nextAlter"}) \cup {"next"}
    BY <1>5, <2>1 DEF TakeReady, LendNext, AlwaysLendNext
  <2>3. Spares \ held' = {"nextAlter"}
    BY <2>1, <2>2 DEF Spares
  <2>4. Cardinality(Spares \ held') = 1 /\ Len(batch') >= 1
    <3>1. Cardinality(Spares \ held') = 1
      BY <2>3, OneLent, Zenon
    <3>2. Len(ready) >= 1
      BY <2>2 DEF TypeInv
    <3> QED BY <2>2, <3>1, <3>2
  <2>5. TypeInv'
    <3>1. held' \subseteq {"current", "next"} \cup Spares
      BY <2>2 DEF TypeInv
    <3>2. <<>> \in Seq(Seq(Nat))
      OBVIOUS
    <3> QED BY <2>2, <3>1, <3>2 DEF TypeInv
  <2>6. NextInv'
    BY <2>2 DEF NextInv
  <2> QED BY <2>2, <2>4, <2>5, <2>6 DEF LoanInv
<1>6. CASE PrintNext
  <2>1. PICK i \in DOMAIN batch : batch' = [batch EXCEPT ![i] = <<>>]
    BY <1>6 DEF PrintNext, Unprinted
  <2>2. batch' \in Seq(Seq(Nat)) /\ Len(batch') = Len(batch)
    BY <2>1, PrintKeepsLength DEF TypeInv
  <2>3. UNCHANGED <<count, current, ready, held, back>> /\ back = "print"
    BY <1>6 DEF PrintNext
  <2> QED BY <2>2, <2>3 DEF TypeInv, NextInv, LoanInv
<1>7. CASE EndPass
  <2>1. Cardinality(Spares \ held) <= Len(batch)
    BY <1>7 DEF EndPass, LoanInv
  <2>2. Cardinality(Spares \ held) \in Nat
    <3>1. IsFiniteSet(Spares)
      <4>1. IsFiniteSet({"currentAlter"}) /\ IsFiniteSet({"nextAlter"})
        BY FS_Singleton
      <4>2. Spares = {"currentAlter"} \cup {"nextAlter"}
        BY DEF Spares
      <4> QED BY <4>1, <4>2, FS_Union
    <3> QED BY <3>1, FS_Difference, FS_CardinalityType
  <2>3. ~(Cardinality(Spares \ held) > Len(batch))
    BY <2>1, <2>2 DEF TypeInv
  <2>4. /\ back' \in {"wait", "exited"} /\ held' = held \cup Spares /\ batch' = <<>>
        /\ UNCHANGED <<count, current, ready>>
    BY <1>7, <2>3 DEF EndPass
  <2>5. TypeInv'
    <3>1. held' \subseteq {"current", "next"} \cup Spares
      BY <2>4 DEF TypeInv
    <3>2. <<>> \in Seq(Seq(Nat))
      OBVIOUS
    <3> QED BY <2>4, <3>1, <3>2 DEF TypeInv
  <2>6. NextInv'
    BY <2>4 DEF NextInv, Spares
  <2>7. Spares \subseteq held'
    BY <2>4
  <2> QED BY <2>4, <2>5, <2>6, <2>7 DEF LoanInv
<1>8. CASE Destroy
  BY <1>8 DEF Destroy, TypeInv, NextInv, LoanInv
<1> QED BY <1>1, <1>2, <1>3, <1>4, <1>5, <1>6, <1>7, <1>8 DEF AsyncLogNext, BackStep

-----------------------------------------------------------------------------
\* Whatever writers and the background thread do, no spare is lent twice and
\* none is lent without a full buffer to replace it: back() is never taken of
\* an empty vector.
THEOREM BuffersAlwaysGoRound == AsyncLogSpec => []BuffersGoRound
<1>1. LogInv => BuffersGoRound
  BY DEF LogInv, NextInv, LoanInv, BuffersGoRound
<1> QED BY InitLogInv, NextLogInv, <1>1, PTL DEF AsyncLogSpec

-----------------------------------------------------------------------------
(***************************************************************************)
(* The order of the messages.  Every buffer holds messages without a gap:  *)
(* what it holds is a span between two borders.                            *)
(***************************************************************************)
Span(lo, hi) == [k \in 1 .. hi - lo |-> lo + k]

LEMMA SpanType ==
  ASSUME NEW lo \in Nat, NEW hi \in Nat, lo <= hi
  PROVE  /\ Span(lo, hi) \in Seq(Nat) /\ Len(Span(lo, hi)) = hi - lo
         /\ Span(lo, hi) = <<>> <=> lo = hi
<1>1. hi - lo \in Nat  OBVIOUS
<1>2. Span(lo, hi) \in [1 .. hi - lo -> Nat]  BY DEF Span
<1>3. Span(lo, hi) \in Seq(Nat)  BY <1>1, <1>2, SeqDef
<1>4. Len(Span(lo, hi)) = hi - lo
  <2>1. DOMAIN Span(lo, hi) = 1 .. hi - lo  BY DEF Span
  <2>2. DOMAIN Span(lo, hi) = 1 .. Len(Span(lo, hi)) /\ Len(Span(lo, hi)) \in Nat
    BY <1>3, LenProperties
  <2> QED  BY <1>1, <2>1, <2>2
<1> QED  BY <1>3, <1>4, EmptySeq

LEMMA SpanOne == ASSUME NEW n \in Nat PROVE <<n + 1>> = Span(n, n + 1)
<1>0. n + 1 \in Nat /\ n <= n + 1 /\ (n + 1) - n = 1  OBVIOUS
<1>1. /\ Span(n, n + 1) \in Seq(Nat) /\ Len(Span(n, n + 1)) = 1 /\ Span(n, n + 1)[1] = n + 1
  <2>1. Span(n, n + 1) \in Seq(Nat) /\ Len(Span(n, n + 1)) = (n + 1) - n
    BY <1>0, SpanType
  <2>2. Span(n, n + 1)[1] = n + 1  BY <1>0 DEF Span
  <2> QED  BY <1>0, <2>1, <2>2
<1>2. <<n + 1>> \in Seq(Nat) /\ Len(<<n + 1>>) = 1 /\ <<n + 1>>[1] = n + 1
  OBVIOUS
<1> QED  BY <1>1, <1>2, SeqEqual

LEMMA SpanJoin ==
  ASSUME NEW a \in Nat, NEW b \in Nat, NEW c \in Nat, a <= b, b <= c
  PROVE  Span(a, b) \o Span(b, c) = Span(a, c)
<1> DEFINE s == Span(a, b)  t == Span(b, c)  u == Span(a, c)
<1>1. /\ s \in Seq(Nat) /\ Len(s) = b - a /\ t \in Seq(Nat) /\ Len(t) = c - b
      /\ u \in Seq(Nat) /\ Len(u) = c - a
  <2>1. s \in Seq(Nat) /\ Len(s) = b - a  BY SpanType
  <2>2. t \in Seq(Nat) /\ Len(t) = c - b  BY SpanType
  <2>3. a <= c  OBVIOUS
  <2>4. u \in Seq(Nat) /\ Len(u) = c - a  BY <2>3, SpanType
  <2> QED  BY <2>1, <2>2, <2>4
<1>2. /\ \A k \in 1 .. b - a : s[k] = a + k
      /\ \A k \in 1 .. c - b : t[k] = b + k
      /\ \A k \in 1 .. c - a : u[k] = a + k
  BY DEF Span
<1> HIDE DEF s, t, u
<1>3. /\ s \o t \in Seq(Nat) /\ Len(s \o t) = Len(s) + Len(t)
      /\ \A k \in 1 .. Len(s) + Len(t) : (s \o t)[k] = IF k <= Len(s) THEN s[k] ELSE t[k - Len(s)]
  BY <1>1, ConcatProperties
<1>4. ASSUME NEW k \in 1 .. Len(u) PROVE (s \o t)[k] = u[k]
  <2>1. CASE k <= b - a
    BY <1>1, <1>2, <1>3, <1>4, <2>1
  <2>2. CASE k > b - a
    <3>1. k - (b - a) \in 1 .. c - b  BY <1>1, <1>4, <2>2
    <3>2. t[k - (b - a)] = a + k  BY <1>2, <3>1
    <3>3. (s \o t)[k] = t[k - (b - a)]  BY <1>1, <1>3, <1>4, <2>2
    <3>4. u[k] = a + k  BY <1>1, <1>2, <1>4
    <3> QED  BY <3>2, <3>3, <3>4
  <2>3. k <= b - a \/ k > b - a
    <3>1. k \in Int /\ b - a \in Int  BY <1>1
    <3> QED  BY <3>1
  <2> QED  BY <2>1, <2>2, <2>3
<1>5. Len(s \o t) = Len(u)  BY <1>1, <1>3
<1> QED  BY <1>1, <1>3, <1>4, <1>5, SeqEqual DEF s, t, u

LEMMA SpanAppend ==
  ASSUME NEW a \in Nat, NEW b \in Nat, a <= b
  PROVE  Append(Span(a, b), b + 1) = Span(a, b + 1)
<1>0. b + 1 \in Nat /\ b <= b + 1  OBVIOUS
<1>1. Append(Span(a, b), b + 1) = Span(a, b) \o <<b + 1>>
  <2>1. Span(a, b) \in Seq(Nat)  BY SpanType
  <2> QED  BY <1>0, <2>1, AppendIsConcat
<1>2. <<b + 1>> = Span(b, b + 1)  BY SpanOne
<1>3. Span(a, b) \o Span(b, b + 1) = Span(a, b + 1)  BY <1>0, SpanJoin
<1> QED  BY <1>1, <1>2, <1>3

LEMMA SpanPrefix ==
  ASSUME NEW n \in Nat, NEW c \in Nat, n <= c
  PROVE  SubSeq(Span(0, c), 1, n) = Span(0, n)
<1>1. /\ Span(0, c) \in Seq(Nat) /\ Len(Span(0, c)) = c
      /\ Span(0, n) \in Seq(Nat) /\ Len(Span(0, n)) = n
      /\ \A k \in 1 .. c : Span(0, c)[k] = k
      /\ \A k \in 1 .. n : Span(0, n)[k] = k
  BY SpanType DEF Span
<1>2. \A k \in 1 .. n : Span(0, c)[k] \in Nat  BY <1>1
<1>3. /\ SubSeq(Span(0, c), 1, n) \in Seq(Nat)
      /\ Len(SubSeq(Span(0, c), 1, n)) = IF 1 <= n THEN n - 1 + 1 ELSE 0
      /\ \A k \in 1 .. n - 1 + 1 : SubSeq(Span(0, c), 1, n)[k] = Span(0, c)[1 + k - 1]
  BY <1>2, SubSeqProperties
<1>4. /\ Len(SubSeq(Span(0, c), 1, n)) = n
      /\ \A k \in 1 .. n : SubSeq(Span(0, c), 1, n)[k] = Span(0, n)[k]
  BY <1>1, <1>3
<1> QED  BY <1>1, <1>3, <1>4, SeqEqual

-----------------------------------------------------------------------------
(***************************************************************************)
(* The first m buffers of the batch are printed; e and r are the borders   *)
(* of the buffers of the batch and of ready_.  The file, the rest of the   *)
(* batch, ready_ and current_ follow one another without gap or overlap.   *)
(***************************************************************************)
BatchInv(m, e) ==
    /\ printed = Span(0, e[m])
    /\ \A j \in 1 .. m : batch[j] = <<>>
    /\ \A j \in m + 1 .. Len(batch) : batch[j] = Span(e[j - 1], e[j]) /\ e[j - 1] < e[j]
    /\ \A j \in 0 .. Len(batch) : e[j] <= e[Len(batch)]

ReadyInv(r) ==
    /\ \A j \in 1 .. Len(ready) : ready[j] = Span(r[j - 1], r[j]) /\ r[j - 1] < r[j]
    /\ \A j \in 0 .. Len(ready) : r[j] <= r[Len(ready)]

\* The batch ends at message a and current_ begins behind message b.  What the
\* destructor counts on is in the file by the end of the last pass.
EndInv(a, b) ==
    /\ current = Span(b, count) /\ a <= b /\ b <= count
    /\ owed <= count
    /\ back = "wait" /\ ready # <<>> => owed <= b
    /\ back \in {"print", "exited"} => owed <= a

Chained(m, e, r) ==
    /\ BatchInv(m, e) /\ ReadyInv(r)
    /\ e[Len(batch)] = r[0]
    /\ EndInv(e[Len(batch)], r[Len(ready)])

StopInv ==
    /\ size \in Nat /\ (size = 0 <=> current = <<>>)
    /\ owed \in Nat
    /\ back # "print" => batch = <<>>
    /\ stop \in BOOLEAN /\ (~stop => owed = 0 /\ back # "exited")

ChainInv ==
    /\ StopInv
    /\ \E m \in 0 .. Len(batch), e \in [0 .. Len(batch) -> Nat], r \in [0 .. Len(ready) -> Nat] :
          Chained(m, e, r)

LEMMA InitChainInv == AsyncLogInit => ChainInv
<1> SUFFICES ASSUME AsyncLogInit PROVE ChainInv
  OBVIOUS
<1> DEFINE e == [j \in 0 .. 0 |-> 0]
<1>1. Len(batch) = 0 /\ Len(ready) = 0 /\ 0 \in 0 .. 0  BY EmptySeq DEF AsyncLogInit
<1>2. Span(0, 0) = <<>>  BY SpanType
<1>3. e \in [0 .. Len(batch) -> Nat] /\ e \in [0 .. Len(ready) -> Nat] /\ e[0] = 0
  BY <1>1
<1>4. Chained(0, e, e)
  BY <1>1, <1>2, <1>3 DEF Chained, BatchInv, ReadyInv, EndInv, AsyncLogInit
<1>5. \E m \in 0 .. Len(batch), f \in [0 .. Len(batch) -> Nat], r \in [0 .. Len(ready) -> Nat] :
         Chained(m, f, r)
  BY <1>1, <1>3, <1>4
<1> QED  BY <1>5 DEF ChainInv, StopInv, AsyncLogInit

LEMMA ChainFacts ==
  ASSUME LogInv, ChainInv, NEW m \in 0 .. Len(batch), NEW e \in [0 .. Len(batch) -> Nat],
         NEW r \in [0 .. Len(ready) -> Nat]
  PROVE  /\ Len(ready) \in Nat /\ Len(batch) \in Nat /\ DOMAIN batch = 1 .. Len(batch)
         /\ count \in Nat /\ size \in Nat /\ owed \in Nat
         /\ ready \in Seq(Seq(Nat)) /\ batch \in Seq(Seq(Nat)) /\ current \in Seq(Nat)
         /\ m \in Nat /\ m <= Len(batch)
         /\ \A j \in 0 .. Len(batch) : e[j] \in Nat
         /\ \A j \in 0 .. Len(ready) : r[j] \in Nat
         /\ e[m] \in Nat /\ e[Len(batch)] \in Nat /\ r[0] \in Nat /\ r[Len(ready)] \in Nat
<1>1. /\ ready \in Seq(Seq(Nat)) /\ batch \in Seq(Seq(Nat)) /\ current \in Seq(Nat)
      /\ count \in Nat /\ size \in Nat /\ owed \in Nat
  BY DEF LogInv, TypeInv, ChainInv, StopInv
<1>2. Len(ready) \in Nat /\ Len(batch) \in Nat /\ DOMAIN batch = 1 .. Len(batch)
  BY <1>1, LenProperties
<1>3. m \in Nat /\ m <= Len(batch)  BY <1>2
<1>4. /\ \A j \in 0 .. Len(batch) : e[j] \in Nat
      /\ \A j \in 0 .. Len(ready) : r[j] \in Nat
  OBVIOUS
<1>5. /\ m \in 0 .. Len(batch) /\ Len(batch) \in 0 .. Len(batch)
      /\ 0 \in 0 .. Len(ready) /\ Len(ready) \in 0 .. Len(ready)
  BY <1>2
<1> QED  BY <1>1, <1>2, <1>3, <1>4, <1>5

\* What a step leaves alone stays chained.
LEMMA BatchKept ==
  ASSUME NEW m, NEW e, BatchInv(m, e), UNCHANGED <<printed, batch>>
  PROVE  BatchInv(m, e)'
  BY DEF BatchInv

LEMMA ReadyKept == ASSUME NEW r, ReadyInv(r), UNCHANGED ready PROVE ReadyInv(r)'
  BY DEF ReadyInv

LEMMA NoBatch ==
  ASSUME NEW a \in Nat, NEW f, f[0] = a, printed' = Span(0, a), batch' = <<>>
  PROVE  BatchInv(0, f)'
<1>1. Len(batch') = 0  BY EmptySeq
<1>2. (\A j \in 1 .. 0 : FALSE) /\ (\A j \in 0 + 1 .. 0 : FALSE) /\ (\A j \in 0 .. 0 : j = 0)
  OBVIOUS
<1>3. \A j \in 0 .. 0 : f[j] <= f[0]  BY <1>2
<1> QED  BY <1>1, <1>2, <1>3 DEF BatchInv

LEMMA NoReady ==
  ASSUME NEW b \in Nat, NEW q, q[0] = b, ready' = <<>>
  PROVE  ReadyInv(q)'
<1>1. Len(ready') = 0  BY EmptySeq
<1>2. (\A j \in 1 .. 0 : FALSE) /\ (\A j \in 0 .. 0 : j = 0)
  OBVIOUS
<1>3. \A j \in 0 .. 0 : q[j] <= q[0]  BY <1>2
<1> QED  BY <1>1, <1>2, <1>3 DEF ReadyInv

\* A chain in the next state is all that is left to find.
LEMMA ChainMade ==
  ASSUME StopInv', NEW m \in 0 .. Len(batch'), NEW e \in [0 .. Len(batch') -> Nat],
         NEW r \in [0 .. Len(ready') -> Nat], NEW a, NEW b,
         a = e[Len(batch')], a = r[0], b = r[Len(ready')],
         BatchInv(m, e)', ReadyInv(r)', EndInv(a, b)'
  PROVE  ChainInv'
<1>1. Chained(m, e, r)'  BY DEF Chained
<1>2. (\E i \in 0 .. Len(batch), f \in [0 .. Len(batch) -> Nat], q \in [0 .. Len(ready) -> Nat] :
          Chained(i, f, q))'
  BY <1>1
<1> QED  BY <1>2 DEF ChainInv

\* Every message written before the buffer in use stays where it is.
LEMMA WriteChain ==
  ASSUME LogInv, ChainInv, NEW len \in Lengths, WriteFits(len) \/ WriteRolls(len)
  PROVE  ChainInv'
<1> PICK m \in 0 .. Len(batch), e \in [0 .. Len(batch) -> Nat], r \in [0 .. Len(ready) -> Nat] :
      Chained(m, e, r)
  BY DEF ChainInv
<1>0. /\ Len(ready) \in Nat /\ Len(batch) \in Nat /\ count \in Nat /\ size \in Nat
      /\ owed \in Nat /\ ready \in Seq(Seq(Nat)) /\ current \in Seq(Nat)
      /\ \A j \in 0 .. Len(ready) : r[j] \in Nat
  BY ChainFacts
<1> PICK n \in Nat, a \in Nat, b \in Nat : n = Len(ready) /\ a = e[Len(batch)] /\ b = r[n]
  BY <1>0, ChainFacts
<1>1. len \in Nat \ {0} /\ len < Capacity /\ Capacity \in Nat
  BY LogAssumption
<1>2. BatchInv(m, e) /\ ReadyInv(r) /\ a = r[0] /\ EndInv(a, b)
  BY DEF Chained
<1>3. count' = count + 1 /\ UNCHANGED <<batch, back, stop, printed, owed>>
  BY DEF WriteFits, WriteRolls
<1>4. BatchInv(m, e)'  BY <1>2, <1>3, BatchKept
<1>5. current = Span(b, count) /\ a <= b /\ b <= count /\ owed <= count
  BY <1>2 DEF EndInv
<1>6. CASE WriteFits(len)
  <2>1. current' = Append(current, count + 1) /\ size' = size + len /\ ready' = ready
    BY <1>3, <1>6 DEF WriteFits
  <2>2. current' = Span(b, count + 1)
    BY <1>0, <1>5, <2>1, SpanAppend
  <2>3. EndInv(a, b)'
    <3>1. b <= count' /\ owed' <= count'  BY <1>0, <1>3, <1>5
    <3>2. current' = Span(b, count') /\ a <= b  BY <1>3, <1>5, <2>2
    <3> QED  BY <1>2, <1>3, <2>1, <3>1, <3>2 DEF EndInv
  <2>4. current' # <<>>
    <3>1. current \in Seq(Nat) /\ count + 1 \in Nat  BY <1>0
    <3> QED  BY <2>1, <3>1, AppendProperties
  <2>5. size' \in Nat /\ size' # 0  BY <1>0, <1>1, <2>1
  <2>6. StopInv'  BY <1>3, <2>4, <2>5 DEF StopInv, ChainInv
  <2>7. ReadyInv(r)'  BY <1>2, <2>1, ReadyKept
  <2> QED  BY <1>2, <1>3, <1>4, <2>1, <2>3, <2>6, <2>7, ChainMade
<1>7. CASE WriteRolls(len)
  <2> PICK c \in Nat : c = count  BY <1>0
  <2> DEFINE q == [j \in 0 .. n + 1 |-> IF j = n + 1 THEN c ELSE r[j]]
  <2>1. ready' = Append(ready, current) /\ current' = <<count + 1>> /\ size' = len
    BY <1>3, <1>7 DEF WriteRolls
  <2>2. size # 0  BY <1>0, <1>1, <1>7 DEF WriteRolls, Fits
  <2>3. b < count
    <3>1. current # <<>>  BY <2>2 DEF ChainInv, StopInv
    <3>2. b # count  BY <1>0, <1>5, <3>1, SpanType
    <3> QED  BY <1>0, <1>5, <3>2
  <2>4. /\ Len(ready') = n + 1
        /\ \A j \in 1 .. n : ready'[j] = ready[j]
        /\ ready'[n + 1] = current
    BY <1>0, <2>1, AppendProperties
  <2>5. /\ q \in [0 .. n + 1 -> Nat] /\ q[0] = r[0] /\ q[n + 1] = c
        /\ \A j \in 0 .. n : q[j] = r[j]
    BY <1>0
  <2> HIDE DEF q
  <2>6. current' = Span(count, count + 1)
    BY <1>0, <2>1, SpanOne
  <2>7. ReadyInv(q)'
    <3>1. ASSUME NEW j \in 1 .. n + 1 PROVE ready'[j] = Span(q[j - 1], q[j]) /\ q[j - 1] < q[j]
      <4>1. CASE j \in 1 .. n
        <5>1. j - 1 \in 0 .. n /\ j \in 0 .. n  BY <1>0, <4>1
        <5>2. ready[j] = Span(r[j - 1], r[j]) /\ r[j - 1] < r[j]  BY <1>2, <4>1 DEF ReadyInv
        <5> QED  BY <2>4, <2>5, <4>1, <5>1, <5>2
      <4>2. CASE j = n + 1
        <5>1. j - 1 = n /\ n \in 0 .. n  BY <1>0, <4>2
        <5>2. q[j - 1] = b /\ q[j] = c  BY <2>5, <4>2, <5>1
        <5> QED  BY <1>5, <2>3, <2>4, <4>2, <5>2
      <4>3. j \in 1 .. n \/ j = n + 1  BY <1>0
      <4> QED  BY <4>1, <4>2, <4>3
    <3>2. ASSUME NEW j \in 0 .. n + 1 PROVE q[j] <= q[n + 1]
      <4>1. CASE j \in 0 .. n
        <5>1. r[j] <= b /\ r[j] \in Nat  BY <1>0, <1>2, <4>1 DEF ReadyInv
        <5> QED  BY <1>0, <2>3, <2>5, <4>1, <5>1
      <4>2. CASE j = n + 1
        BY <1>0, <2>5, <4>2
      <4>3. j \in 0 .. n \/ j = n + 1  BY <1>0
      <4> QED  BY <4>1, <4>2, <4>3
    <3> QED  BY <2>4, <3>1, <3>2 DEF ReadyInv
  <2>8. EndInv(a, c)'
    <3>1. a <= count /\ count <= count + 1 /\ owed <= count + 1  BY <1>0, <1>5
    <3> QED  BY <1>2, <1>3, <1>5, <2>6, <3>1 DEF EndInv
  <2>9. current' # <<>> /\ size' \in Nat /\ size' # 0
    BY <1>1, <2>1
  <2>10. StopInv'  BY <1>3, <2>9 DEF StopInv, ChainInv
  <2> QED  BY <1>2, <1>3, <1>4, <2>4, <2>5, <2>7, <2>8, <2>10, ChainMade
<1> QED  BY <1>6, <1>7

LEMMA TakeCurrentChain == ASSUME LogInv, ChainInv, TakeCurrent PROVE ChainInv'
<1> PICK m \in 0 .. Len(batch), e \in [0 .. Len(batch) -> Nat], r \in [0 .. Len(ready) -> Nat] :
      Chained(m, e, r)
  BY DEF ChainInv
<1>1. /\ batch = <<>> /\ ready = <<>> /\ Len(batch) = 0 /\ Len(ready) = 0 /\ back = "wait"
  BY EmptySeq DEF TakeCurrent, ChainInv, StopInv
<1>2. /\ count \in Nat /\ owed \in Nat /\ current \in Seq(Nat) /\ m = 0
      /\ e[0] \in Nat /\ r[0] \in Nat
  BY <1>1, ChainFacts
<1>3. /\ BatchInv(0, e) /\ ReadyInv(r) /\ e[0] = r[0] /\ EndInv(e[0], r[0])
  BY <1>1, <1>2 DEF Chained
<1>4. printed = Span(0, e[0]) /\ current = Span(e[0], count) /\ e[0] <= count /\ owed <= count
  BY <1>3 DEF BatchInv, EndInv
<1>5. CASE size # 0
  <2> PICK c \in Nat : c = count  BY <1>2
  <2> DEFINE f == [j \in 0 .. 1 |-> IF j = 0 THEN e[0] ELSE c]
             q == [j \in 0 .. 0 |-> c]
  <2>1. /\ batch' = <<current>> /\ current' = <<>> /\ size' = 0 /\ back' = "print"
        /\ UNCHANGED <<count, ready, stop, printed, owed>>
    BY <1>5 DEF TakeCurrent
  <2>2. Len(batch') = 1 /\ batch'[1] = current /\ Len(ready') = 0  BY <1>1, <2>1
  <2>3. e[0] < count
    <3>1. current # <<>>  BY <1>5 DEF ChainInv, StopInv
    <3>2. e[0] # count  BY <1>2, <1>4, <3>1, SpanType
    <3> QED  BY <1>2, <1>4, <3>2
  <2>4. /\ f \in [0 .. 1 -> Nat] /\ f[0] = e[0] /\ f[1] = c
        /\ q \in [0 .. 0 -> Nat] /\ q[0] = c
    BY <1>2
  <2> HIDE DEF f, q
  <2>5. BatchInv(0, f)'
    BY <1>2, <1>4, <2>1, <2>2, <2>3, <2>4 DEF BatchInv
  <2>6. ReadyInv(q)'  BY <1>1, <1>2, <2>1, <2>4, NoReady
  <2>7. Span(count, count) = <<>>  BY <1>2, SpanType
  <2>8. EndInv(c, c)'  BY <1>2, <1>4, <2>1, <2>7 DEF EndInv
  <2>9. StopInv'  BY <2>1 DEF StopInv, ChainInv
  <2> QED  BY <2>2, <2>4, <2>5, <2>6, <2>8, <2>9, ChainMade
<1>6. CASE size = 0
  <2>1. e[0] = count
    <3>1. current = <<>>  BY <1>6 DEF ChainInv, StopInv
    <3> QED  BY <1>2, <1>4, <3>1, SpanType
  <2>2. /\ back' = "print" /\ UNCHANGED <<count, current, size, batch, ready, stop, printed, owed>>
    BY <1>6 DEF TakeCurrent
  <2>3. BatchInv(0, e)' /\ ReadyInv(r)'  BY <1>3, <2>2, BatchKept, ReadyKept
  <2>4. EndInv(e[0], r[0])'  BY <1>2, <1>3, <1>4, <2>1, <2>2 DEF EndInv
  <2>5. StopInv'  BY <2>2 DEF StopInv, ChainInv
  <2> QED  BY <1>1, <1>3, <2>2, <2>3, <2>4, <2>5, ChainMade
<1> QED  BY <1>5, <1>6

LEMMA TakeReadyChain == ASSUME LogInv, ChainInv, TakeReady PROVE ChainInv'
<1> PICK m \in 0 .. Len(batch), e \in [0 .. Len(batch) -> Nat], r \in [0 .. Len(ready) -> Nat] :
      Chained(m, e, r)
  BY DEF ChainInv
<1>1. batch = <<>> /\ Len(batch) = 0 /\ back = "wait" /\ ready # <<>>
  BY EmptySeq DEF TakeReady, ChainInv, StopInv
<1>2. /\ count \in Nat /\ owed \in Nat /\ m = 0 /\ e[0] \in Nat
      /\ \A j \in 0 .. Len(ready) : r[j] \in Nat
  BY <1>1, ChainFacts
<1>3. PICK n \in Nat, b \in Nat : n = Len(ready) /\ b = r[n]
  BY ChainFacts
<1> DEFINE q == [j \in 0 .. 0 |-> b]
<1>4. BatchInv(0, e) /\ ReadyInv(r) /\ e[0] = r[0] /\ EndInv(e[0], b)
  BY <1>1, <1>2, <1>3 DEF Chained
<1>5. printed = Span(0, r[0])
  BY <1>4 DEF BatchInv
<1>6. /\ batch' = ready /\ ready' = <<>> /\ back' = "print" /\ Len(batch') = n /\ Len(ready') = 0
      /\ UNCHANGED <<count, current, size, stop, printed, owed>>
  BY <1>3, EmptySeq DEF TakeReady
<1>7. q \in [0 .. 0 -> Nat] /\ q[0] = b
  BY <1>2, <1>3
<1> HIDE DEF q
<1>8. BatchInv(0, r)'  BY <1>2, <1>3, <1>4, <1>5, <1>6 DEF BatchInv, ReadyInv
<1>9. ReadyInv(q)'  BY <1>2, <1>3, <1>6, <1>7, NoReady
<1>10. EndInv(b, b)'  BY <1>1, <1>2, <1>3, <1>4, <1>6 DEF EndInv
<1>11. StopInv'  BY <1>6 DEF StopInv, ChainInv
<1>12. /\ 0 \in 0 .. Len(batch') /\ r \in [0 .. Len(batch') -> Nat]
       /\ q \in [0 .. Len(ready') -> Nat] /\ b = r[Len(batch')] /\ b = q[0] /\ b = q[Len(ready')]
  BY <1>3, <1>6, <1>7
<1> QED  BY <1>8, <1>9, <1>10, <1>11, <1>12, ChainMade

\* The next buffer is the first that is not printed, and goes behind the file.
LEMMA PrintChain ==
  ASSUME LogInv, ChainInv, PrintNext
  PROVE  /\ ChainInv'
         /\ \E a \in Nat, b \in Nat :
              a < b /\ b <= count /\ printed = Span(0, a) /\ printed' = Span(0, b)
<1> PICK m \in 0 .. Len(batch), e \in [0 .. Len(batch) -> Nat], r \in [0 .. Len(ready) -> Nat] :
      Chained(m, e, r)
  BY DEF ChainInv
<1> DEFINE n == Len(batch)
<1>0. /\ n \in Nat /\ DOMAIN batch = 1 .. n /\ m \in Nat /\ m <= n /\ batch \in Seq(Seq(Nat))
      /\ count \in Nat /\ e[n] \in Nat /\ r[Len(ready)] \in Nat /\ e[m] \in Nat
      /\ \A j \in 0 .. n : e[j] \in Nat
  BY ChainFacts
<1>1. BatchInv(m, e) /\ ReadyInv(r) /\ e[n] = r[0] /\ EndInv(e[n], r[Len(ready)])
  BY DEF Chained
<1>2. PICK i \in Unprinted :
         /\ \A j \in Unprinted : i <= j
         /\ printed' = printed \o batch[i]
         /\ batch' = [batch EXCEPT ![i] = <<>>]
  BY DEF PrintNext
<1>3. i \in 1 .. n /\ batch[i] # <<>>  BY <1>0, <1>2 DEF Unprinted
<1>4. i > m  BY <1>0, <1>1, <1>3 DEF BatchInv
<1>5. m + 1 \in 1 .. n /\ m + 1 \in 0 .. n /\ m + 1 \in m + 1 .. n /\ (m + 1) - 1 = m
  BY <1>0, <1>3, <1>4
<1>6. e[m + 1] \in Nat  BY <1>0, <1>5
<1>7. batch[m + 1] = Span(e[m], e[m + 1]) /\ e[m] < e[m + 1]
  BY <1>1, <1>5 DEF BatchInv
<1>8. i = m + 1
  <2>1. batch[m + 1] # <<>>
    <3>1. e[m] <= e[m + 1] /\ e[m] # e[m + 1]  BY <1>0, <1>6, <1>7
    <3> QED  BY <1>0, <1>6, <1>7, <3>1, SpanType
  <2>2. m + 1 \in Unprinted  BY <1>0, <1>5, <2>1 DEF Unprinted
  <2>3. i <= m + 1  BY <1>2, <2>2
  <2> QED  BY <1>0, <1>3, <1>4, <2>3
<1>9. printed = Span(0, e[m]) /\ printed' = Span(0, e[m + 1])
  <2>1. printed = Span(0, e[m])  BY <1>1 DEF BatchInv
  <2>2. 0 <= e[m] /\ e[m] <= e[m + 1]  BY <1>0, <1>6, <1>7
  <2>3. Span(0, e[m]) \o Span(e[m], e[m + 1]) = Span(0, e[m + 1])
    BY <1>0, <1>6, <2>2, SpanJoin
  <2> QED  BY <1>2, <1>7, <1>8, <2>1, <2>3
<1>10. /\ Len(batch') = n
       /\ \A j \in 1 .. n : batch'[j] = IF j = m + 1 THEN <<>> ELSE batch[j]
  BY <1>0, <1>2, <1>3, <1>8
<1>11. UNCHANGED <<count, current, size, ready, back, stop, owed>> /\ back = "print"
  BY DEF PrintNext
<1>12. BatchInv(m + 1, e)'
  <2>1. ASSUME NEW j \in 1 .. m + 1 PROVE batch'[j] = <<>>
    <3>1. j \in 1 .. n /\ (j = m + 1 \/ j \in 1 .. m)  BY <1>0, <1>5
    <3> QED  BY <1>1, <1>10, <3>1 DEF BatchInv
  <2>2. ASSUME NEW j \in (m + 1) + 1 .. n
        PROVE  batch'[j] = Span(e[j - 1], e[j]) /\ e[j - 1] < e[j]
    <3>1. j \in 1 .. n /\ j # m + 1 /\ j \in m + 1 .. n  BY <1>0, <1>5
    <3> QED  BY <1>1, <1>10, <3>1 DEF BatchInv
  <2>3. \A j \in 0 .. n : e[j] <= e[n]  BY <1>1 DEF BatchInv
  <2> QED  BY <1>9, <1>10, <2>1, <2>2, <2>3 DEF BatchInv
<1>13. ReadyInv(r)'  BY <1>1, <1>11, ReadyKept
<1>15. StopInv'  BY <1>11 DEF StopInv, ChainInv
<1>16. ChainInv'
  <2>1. m + 1 \in 0 .. Len(batch')  BY <1>5, <1>10
  <2>2. e \in [0 .. Len(batch') -> Nat] /\ r \in [0 .. Len(ready') -> Nat]  BY <1>10, <1>11
  <2>3. PICK a, b : a = e[n] /\ b = r[Len(ready)]  OBVIOUS
  <2>4. a = e[Len(batch')] /\ b = r[Len(ready')]  BY <1>10, <1>11, <2>3
  <2>5. EndInv(a, b)'  BY <1>1, <1>11, <2>3 DEF EndInv
  <2> QED  BY <1>1, <1>12, <1>13, <1>15, <2>1, <2>2, <2>3, <2>4, <2>5, ChainMade
<1>17. e[m + 1] <= count
  <2>1. e[m + 1] <= e[n]  BY <1>1, <1>5 DEF BatchInv
  <2>2. e[n] <= r[Len(ready)] /\ r[Len(ready)] <= count  BY <1>1 DEF EndInv
  <2> QED  BY <1>0, <1>6, <2>1, <2>2
<1> QED  BY <1>0, <1>6, <1>7, <1>9, <1>16, <1>17

LEMMA EndPassChain == ASSUME LogInv, ChainInv, EndPass PROVE ChainInv'
<1> PICK m \in 0 .. Len(batch), e \in [0 .. Len(batch) -> Nat], r \in [0 .. Len(ready) -> Nat] :
      Chained(m, e, r)
  BY DEF ChainInv
<1> PICK n, a, b : n = Len(batch) /\ a = e[n] /\ b = r[Len(ready)]
  OBVIOUS
<1> DEFINE f == [j \in 0 .. 0 |-> a]
<1>0. /\ n \in Nat /\ DOMAIN batch = 1 .. n /\ m \in Nat /\ m <= n /\ a \in Nat /\ b \in Nat
      /\ \A j \in 0 .. n : e[j] \in Nat
      /\ Len(ready) \in Nat /\ owed \in Nat /\ count \in Nat
  BY ChainFacts
<1>1. BatchInv(m, e) /\ ReadyInv(r) /\ a = r[0] /\ EndInv(a, b)
  BY DEF Chained
<1>2. m = n
  <2>1. CASE m < n
    <3>1. m + 1 \in m + 1 .. n /\ (m + 1) - 1 = m /\ m + 1 \in DOMAIN batch
          /\ m \in 0 .. n /\ m + 1 \in 0 .. n
      BY <1>0, <2>1
    <3>2. e[m] \in Nat /\ e[m + 1] \in Nat  BY <1>0, <3>1
    <3>3. batch[m + 1] = Span(e[m], e[m + 1]) /\ e[m] < e[m + 1]
      BY <1>1, <3>1 DEF BatchInv
    <3>4. e[m] <= e[m + 1] /\ e[m] # e[m + 1]  BY <3>2, <3>3
    <3>5. batch[m + 1] # <<>>  BY <3>2, <3>3, <3>4, SpanType
    <3> QED  BY <3>1, <3>5 DEF EndPass, Unprinted
  <2> QED  BY <1>0, <2>1
<1>3. printed = Span(0, a)  BY <1>1, <1>2 DEF BatchInv
<1>4. /\ back = "print" /\ batch' = <<>> /\ Len(batch') = 0
      /\ UNCHANGED <<count, current, size, ready, stop, printed, owed>>
  BY EmptySeq DEF EndPass
<1>5. back' \in {"wait", "exited", "undefined"} /\ (back' = "exited" => stop) /\ (back' = "wait" => ~stop)
  BY DEF EndPass
<1>6. f \in [0 .. 0 -> Nat] /\ f[0] = a  BY <1>0
<1> HIDE DEF f
<1>7. BatchInv(0, f)'  BY <1>0, <1>3, <1>4, <1>6, NoBatch
<1>8. ReadyInv(r)'  BY <1>1, <1>4, ReadyKept
<1>9. EndInv(a, b)'
  <2>1. back' = "wait" => owed = 0  BY <1>5 DEF ChainInv, StopInv
  <2>2. current = Span(b, count) /\ a <= b /\ b <= count /\ owed <= count /\ owed <= a
    BY <1>1, <1>4 DEF EndInv
  <2> QED  BY <1>0, <1>4, <1>5, <2>1, <2>2 DEF EndInv
<1>10. StopInv'  BY <1>4, <1>5 DEF StopInv, ChainInv
<1>11. /\ f \in [0 .. Len(batch') -> Nat] /\ r \in [0 .. Len(ready') -> Nat]
       /\ a = f[Len(batch')] /\ b = r[Len(ready')] /\ 0 \in 0 .. Len(batch')
  BY <1>4, <1>6
<1> QED  BY <1>1, <1>7, <1>8, <1>9, <1>10, <1>11, ChainMade

LEMMA DestroyChain == ASSUME LogInv, ChainInv, Destroy PROVE ChainInv'
<1> PICK m \in 0 .. Len(batch), e \in [0 .. Len(batch) -> Nat], r \in [0 .. Len(ready) -> Nat] :
      Chained(m, e, r)
  BY DEF ChainInv
<1> PICK a, b : a = e[Len(batch)] /\ b = r[Len(ready)]
  OBVIOUS
<1>0. count \in Nat /\ owed \in Nat /\ a \in Nat /\ b \in Nat
  BY ChainFacts
<1>1. BatchInv(m, e) /\ ReadyInv(r) /\ a = r[0] /\ EndInv(a, b)
  BY DEF Chained
<1>2. /\ owed' \in Nat /\ owed' <= count /\ stop' = TRUE
      /\ (owed' # 0 => back = "wait" /\ ready = <<>>)
  BY <1>0 DEF Destroy
<1>3. UNCHANGED <<count, current, size, ready, batch, back, printed>>  BY DEF Destroy
<1>4. BatchInv(m, e)' /\ ReadyInv(r)'  BY <1>1, <1>3, BatchKept, ReadyKept
<1>5. StopInv'  BY <1>2, <1>3 DEF StopInv, ChainInv
<1>6. a = e[Len(batch')] /\ b = r[Len(ready')]
      /\ e \in [0 .. Len(batch') -> Nat] /\ r \in [0 .. Len(ready') -> Nat] /\ m \in 0 .. Len(batch')
  BY <1>3
<1>7. EndInv(a, b)'  BY <1>0, <1>1, <1>2, <1>3 DEF EndInv
<1> QED  BY <1>1, <1>4, <1>5, <1>6, <1>7, ChainMade

LEMMA NextChainInv == LogInv /\ ChainInv /\ [AsyncLogNext]_asyncLogVars => ChainInv'
<1> SUFFICES ASSUME LogInv, ChainInv, [AsyncLogNext]_asyncLogVars PROVE ChainInv'
  OBVIOUS
<1>1. ASSUME UNCHANGED asyncLogVars PROVE ChainInv'
  <2> PICK m \in 0 .. Len(batch), e \in [0 .. Len(batch) -> Nat], r \in [0 .. Len(ready) -> Nat] :
        Chained(m, e, r)
    BY DEF ChainInv
  <2> PICK a, b : a = e[Len(batch)] /\ b = r[Len(ready)]
    OBVIOUS
  <2>1. BatchInv(m, e) /\ ReadyInv(r) /\ a = r[0] /\ EndInv(a, b)
    BY DEF Chained
  <2>2. UNCHANGED <<count, current, size, ready, batch, back, stop, printed, owed>>
    BY <1>1 DEF asyncLogVars
  <2>3. BatchInv(m, e)' /\ ReadyInv(r)'  BY <2>1, <2>2, BatchKept, ReadyKept
  <2>4. StopInv'  BY <2>2 DEF StopInv, ChainInv
  <2>5. a = e[Len(batch')] /\ b = r[Len(ready')]
        /\ e \in [0 .. Len(batch') -> Nat] /\ r \in [0 .. Len(ready') -> Nat] /\ m \in 0 .. Len(batch')
    BY <2>2
  <2>6. EndInv(a, b)'  BY <2>1, <2>2 DEF EndInv
  <2> QED  BY <2>1, <2>3, <2>4, <2>5, <2>6, ChainMade
<1>2. ASSUME NEW len \in Lengths, WriteFits(len) \/ WriteRolls(len) PROVE ChainInv'
  BY <1>2, WriteChain
<1> QED
  BY <1>1, <1>2, TakeCurrentChain, TakeReadyChain, PrintChain, EndPassChain, DestroyChain
  DEF AsyncLogNext, BackStep

-----------------------------------------------------------------------------
\* Whoever goes on writing, a destructor that finds the background thread
\* waiting and no full buffer gets everything written before it into the file:
\* the pass that follows takes current_ or the buffer it has become.
THEOREM QuietStopIsKept == AsyncLogSpec => []QuietStopLosesNothing
<1>1. LogInv /\ ChainInv => QuietStopLosesNothing
  <2> SUFFICES ASSUME LogInv, ChainInv, back = "exited" PROVE Len(printed) >= owed
    BY DEF QuietStopLosesNothing
  <2> PICK m \in 0 .. Len(batch), e \in [0 .. Len(batch) -> Nat], r \in [0 .. Len(ready) -> Nat] :
        Chained(m, e, r)
    BY DEF ChainInv
  <2>1. batch = <<>> /\ Len(batch) = 0  BY EmptySeq DEF ChainInv, StopInv
  <2>2. m = 0 /\ e[0] \in Nat /\ owed \in Nat  BY <2>1, ChainFacts
  <2>3. printed = Span(0, e[0]) /\ owed <= e[0]  BY <2>1, <2>2 DEF Chained, BatchInv, EndInv
  <2> QED  BY <2>2, <2>3, SpanType
<1> QED BY InitLogInv, NextLogInv, InitChainInv, NextChainInv, <1>1, PTL DEF AsyncLogSpec

-----------------------------------------------------------------------------
\* What is written, as the logger's promise counts it, is the span up to count.
LEMMA Written == ASSUME NEW c \in Nat PROVE [i \in 1 .. c |-> i] = Span(0, c)
<1>1. c - 0 = c /\ \A i \in 1 .. c : 0 + i = i  OBVIOUS
<1> QED  BY <1>1 DEF Span

LEMMA InitLog == AsyncLogInit => Out!LogInit
<1> SUFFICES ASSUME AsyncLogInit PROVE Out!LogInit
  OBVIOUS
<1>1. [i \in 1 .. count |-> i] = <<>>
  BY Written, SpanType DEF AsyncLogInit
<1> QED  BY <1>1 DEF AsyncLogInit, Out!LogInit

\* A write is a write, a printed buffer is an output, and nothing else is
\* seen from outside.
LEMMA NextLog == LogInv /\ ChainInv /\ [AsyncLogNext]_asyncLogVars => [Out!LogNext]_(Out!logVars)
<1> SUFFICES ASSUME LogInv, ChainInv, [AsyncLogNext]_asyncLogVars
             PROVE  [Out!LogNext]_(Out!logVars)
  OBVIOUS
<1>1. count \in Nat  BY DEF LogInv, TypeInv
<1>2. [i \in 1 .. count |-> i] = Span(0, count)  BY <1>1, Written
<1>3. Len([i \in 1 .. count |-> i]) = count  BY <1>1, <1>2, SpanType
<1>4. ASSUME UNCHANGED <<count, printed>> PROVE UNCHANGED Out!logVars
  BY <1>4 DEF Out!logVars
<1>5. ASSUME NEW len \in Lengths, WriteFits(len) \/ WriteRolls(len) PROVE Out!LogNext
  <2>1. count' = count + 1 /\ printed' = printed  BY <1>5 DEF WriteFits, WriteRolls
  <2>2. [i \in 1 .. count' |-> i] = Span(0, count + 1)  BY <1>1, <2>1, Written
  <2>3. Append(Span(0, count), count + 1) = Span(0, count + 1)
    <3>1. 0 <= count  BY <1>1
    <3> QED  BY <1>1, <3>1, SpanAppend
  <2>4. [i \in 1 .. count' |-> i] = Append([i \in 1 .. count |-> i], count + 1)
    BY <1>2, <2>2, <2>3
  <2>5. PICK m : m = count + 1  OBVIOUS
  <2>6. m \in {Len([i \in 1 .. count |-> i]) + 1}  BY <1>3, <2>5
  <2>7. Out!Write(m)  BY <2>1, <2>4, <2>5 DEF Out!Write
  <2> QED  BY <2>6, <2>7 DEF Out!LogNext
<1>6. CASE PrintNext
  <2>1. PICK a \in Nat, b \in Nat :
          a < b /\ b <= count /\ printed = Span(0, a) /\ printed' = Span(0, b)
    BY <1>6, PrintChain
  <2>2. Len(printed) = a  BY <2>1, SpanType
  <2>3. printed' = SubSeq([i \in 1 .. count |-> i], 1, b)
    BY <1>1, <1>2, <2>1, SpanPrefix
  <2>4. b \in Len(printed) + 1 .. Len([i \in 1 .. count |-> i])
    BY <1>1, <1>3, <2>1, <2>2
  <2>5. count' = count  BY <1>6 DEF PrintNext
  <2>6. Out!Output  BY <2>3, <2>4, <2>5 DEF Out!Output
  <2> QED  BY <2>6 DEF Out!LogNext
<1>7. TakeCurrent \/ TakeReady \/ EndPass \/ Destroy \/ UNCHANGED asyncLogVars
      => UNCHANGED <<count, printed>>
  BY DEF TakeCurrent, TakeReady, EndPass, Destroy, asyncLogVars
<1> QED  BY <1>4, <1>5, <1>6, <1>7 DEF AsyncLogNext, BackStep

\* Whichever buffers go through the two vectors, and at whatever moment the
\* destructor comes, messages reach the file once and in the order of the writes.
THEOREM LoggerImplementsLog == AsyncLogSpec => ImplementsLog
<1> QED
  BY InitLogInv, NextLogInv, InitChainInv, NextChainInv, InitLog, NextLog, PTL
  DEF AsyncLogSpec, ImplementsLog, Out!LogSpec

-----------------------------------------------------------------------------
(***************************************************************************)
(* Type correctness.  A buffer never fills completely: current_ takes a    *)
(* message only when more room is left than the message needs.             *)
(***************************************************************************)
SizeInv == count \in 0 .. MaxWrites /\ size \in 0 .. Capacity - 1

LEMMA NextSizeInv == SizeInv /\ [AsyncLogNext]_asyncLogVars => SizeInv'
<1> SUFFICES ASSUME SizeInv, [AsyncLogNext]_asyncLogVars PROVE SizeInv'
  OBVIOUS
<1>1. \A len \in Lengths : len \in 1 .. Capacity - 1  BY LogAssumption
<1>2. ASSUME NEW len \in Lengths, WriteFits(len) PROVE SizeInv'
  BY <1>1, <1>2, LogAssumption DEF WriteFits, Writing, Fits, SizeInv
<1>3. ASSUME NEW len \in Lengths, WriteRolls(len) PROVE SizeInv'
  BY <1>1, <1>3, LogAssumption DEF WriteRolls, Writing, SizeInv
<1>4. CASE TakeCurrent
  BY <1>4, LogAssumption DEF TakeCurrent, SizeInv
<1>5. TakeReady \/ PrintNext \/ EndPass \/ Destroy \/ UNCHANGED asyncLogVars
      => UNCHANGED <<count, size>>
  BY DEF TakeReady, PrintNext, EndPass, Destroy, asyncLogVars
<1> QED  BY <1>2, <1>3, <1>4, <1>5 DEF AsyncLogNext, BackStep, SizeInv

\* The variables keep their types; in particular a buffer is never full, so
\* that a message always fits into an empty one, and the destructor counts on
\* nothing that was not written.
THEOREM LogTypeCorrect == AsyncLogSpec => []AsyncLogTypeOK
<1>1. AsyncLogInit => SizeInv
  BY LogAssumption DEF AsyncLogInit, SizeInv
<1>2. LogInv /\ ChainInv /\ SizeInv => AsyncLogTypeOK
  <2> SUFFICES ASSUME LogInv, ChainInv, SizeInv PROVE AsyncLogTypeOK
    OBVIOUS
  <2> PICK m \in 0 .. Len(batch), e \in [0 .. Len(batch) -> Nat], r \in [0 .. Len(ready) -> Nat] :
        Chained(m, e, r)
    BY DEF ChainInv
  <2>1. e[m] \in Nat /\ owed \in Nat /\ count \in Nat  BY ChainFacts
  <2>2. printed = Span(0, e[m]) /\ owed <= count  BY DEF Chained, BatchInv, EndInv
  <2>3. printed \in Seq(Nat)  BY <2>1, <2>2, SpanType
  <2>4. owed \in 0 .. MaxWrites  BY <2>1, <2>2, LogAssumption DEF SizeInv
  <2> QED
    BY <2>3, <2>4 DEF LogInv, TypeInv, ChainInv, StopInv, SizeInv, AsyncLogTypeOK
<1> QED
  BY InitLogInv, NextLogInv, InitChainInv, NextChainInv, NextSizeInv, <1>1, <1>2, PTL
  DEF AsyncLogSpec
=============================================================================
