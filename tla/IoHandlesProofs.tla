--------------------------- MODULE IoHandlesProofs ---------------------------
(***************************************************************************)
(* Who owns a handle and where its operations complete, for any contexts,  *)
(* objects, operations and handles; and which of it needs careful users.   *)
(***************************************************************************)
EXTENDS IoHandles, FiniteSetTheorems, TLAPS

(***************************************************************************)
(* The invariant.  None of the properties is inductive: an operation       *)
(* completes at home because the handle of an object is associated with    *)
(* the context that the object knows, or with none (AttachedInv); this     *)
(* survives a move or the hand-over of an accepted socket only when no two *)
(* owners share a handle (OwnerInv) and closed handles have no port        *)
(* (PortInv); io_num stays above what is outstanding because a packet is   *)
(* that of one outstanding operation (PacketInv) that completed at home.   *)
(* Without Careful handles may be lost and attached_ of a RandomAccessFile *)
(* need not be true; the other parts remain.                               *)
(***************************************************************************)
Tame == Careful \/ RandomFiles = {}

Requests ==
    [st : {"free", "kernel", "ok", "err"}, ctx : Contexts \cup {None}, obj : Objects \cup {None},
     h : Handles \cup {None}, off : Nat, new : Handles \cup {None}, port : Contexts \cup {None}]

ObjectValues == [handle : Handles \cup {None}, attached : Contexts \cup {None}, offset : Nat]

TypeInv ==
    /\ port \in [Handles -> Contexts \cup {None}]
    /\ req \in [Ops -> Requests]
    /\ obj \in [Objects -> ObjectValues]
    /\ ioNum \in [Contexts -> Int]
    /\ packets \in [Contexts -> Seq(Ops \cup {Wake})]
    /\ open \subseteq Handles

OwnerInv ==
    /\ \A f \in Objects : obj[f].handle \in open \cup {None}
    /\ \A o \in Ops : req[o].new \in open \cup {None}
    /\ \A f, g \in Objects : obj[f].handle = obj[g].handle /\ Valid(f) => f = g
    /\ \A o, p \in Ops : req[o].new = req[p].new /\ req[o].new # None => o = p
    /\ \A f \in Objects, o \in Ops : Valid(f) => obj[f].handle # req[o].new
    /\ Careful => \A h \in open :
           (\E f \in Objects : obj[f].handle = h) \/ (\E o \in Ops : req[o].new = h)

RequestInv ==
    \A o \in Ops :
        /\ req[o].st = "free" => req[o] = Free
        /\ req[o].new # None => req[o].obj \in Acceptors
        /\ Tame => req[o].port = req[o].ctx

AttachedInv ==
    Tame => \A f \in Objects :
        obj[f].attached = IF Valid(f) THEN port[obj[f].handle] ELSE None

PortInv ==
    /\ \A h \in Handles \ open : port[h] = None
    /\ \A o \in Ops : req[o].new # None => port[req[o].new] = None

PacketInv ==
    \A x \in Contexts : \A i \in 1 .. Len(packets[x]) :
        packets[x][i] \in Ops =>
            /\ req[packets[x][i]].st \in {"ok", "err"}
            /\ req[packets[x][i]].port = x
            /\ \A j \in 1 .. Len(packets[x]) : packets[x][j] = packets[x][i] => j = i

OwnInv == TypeInv /\ OwnerInv /\ RequestInv /\ AttachedInv /\ PortInv

CoverInv == Tame => IoNumCovers

HandlesInv == OwnInv /\ PacketInv /\ CoverInv

-----------------------------------------------------------------------------
(***************************************************************************)
(* Packets and the count.                                                  *)
(***************************************************************************)
Outstanding(x) == {o \in InFlight : req[o].ctx = x}

LEMMA OutstandingFinite ==
  ASSUME NEW x \in Contexts
  PROVE  IsFiniteSet(Outstanding(x)) /\ Cardinality(Outstanding(x)) \in Nat
<1>1. Outstanding(x) \in SUBSET Ops  BY DEF Outstanding, InFlight
<1>2. IsFiniteSet(Outstanding(x))    BY <1>1, IocpAssumption, FS_Subset
<1> QED  BY <1>2, FS_CardinalityType

\* Steps that add no packet and leave completed operations alone.
LEMMA PacketsStay ==
  ASSUME TypeInv, PacketInv, packets' = packets,
         \A o \in Ops : req[o].st \in {"ok", "err"} =>
             req'[o].st \in {"ok", "err"} /\ req'[o].port = req[o].port
  PROVE  PacketInv'
  BY DEF PacketInv

\* poll() takes the first packet of its port.
LEMMA PacketTaken ==
  ASSUME TypeInv, PacketInv, NEW x \in Contexts, packets[x] # <<>>,
         packets' = [packets EXCEPT ![x] = Tail(@)],
         \A o \in Ops : o # Head(packets[x]) =>
             req'[o].st = req[o].st /\ req'[o].port = req[o].port
  PROVE  PacketInv' /\ packets' \in [Contexts -> Seq(Ops \cup {Wake})]
<1>1. packets[x] \in Seq(Ops \cup {Wake}) /\ packets'[x] = Tail(packets[x])
  BY DEF TypeInv
<1>2. /\ Tail(packets[x]) \in Seq(Ops \cup {Wake})
      /\ Len(Tail(packets[x])) = Len(packets[x]) - 1 /\ Len(packets[x]) \in Nat
      /\ \A i \in 1 .. Len(Tail(packets[x])) : Tail(packets[x])[i] = packets[x][i + 1]
      /\ Head(packets[x]) = packets[x][1] /\ 1 \in 1 .. Len(packets[x])
  BY <1>1
<1>3. packets' \in [Contexts -> Seq(Ops \cup {Wake})]
  BY <1>2 DEF TypeInv
<1>4. ASSUME NEW y \in Contexts, NEW i \in 1 .. Len(packets'[y]), packets'[y][i] \in Ops
      PROVE  /\ req'[packets'[y][i]].st \in {"ok", "err"}
             /\ req'[packets'[y][i]].port = y
             /\ \A j \in 1 .. Len(packets'[y]) : packets'[y][j] = packets'[y][i] => j = i
  <2>1. CASE y = x
    <3> DEFINE n == Len(packets[x])
    <3>1. n \in Nat /\ Len(packets'[y]) = n - 1
      BY <1>1, <1>2, <2>1
    <3>2. ASSUME NEW k \in 1 .. Len(packets'[y])
          PROVE  k + 1 \in 1 .. Len(packets[x]) /\ packets'[y][k] = packets[x][k + 1]
      <4>1. k \in 1 .. n - 1
        BY <3>1
      <4>2. k + 1 \in 1 .. n
        BY <3>1, <4>1
      <4>3. k \in 1 .. Len(Tail(packets[x]))
        BY <1>1, <2>1
      <4>4. Tail(packets[x])[k] = packets[x][k + 1]
        BY <1>2, <4>3
      <4> QED BY <1>1, <2>1, <4>2, <4>4
    <3>3. i + 1 \in 1 .. Len(packets[x]) /\ packets'[y][i] = packets[x][i + 1]
      BY <3>2
    <3>4. \A j \in 1 .. Len(packets[x]) : packets[x][j] = packets[x][i + 1] => j = i + 1
      BY <1>4, <3>3 DEF PacketInv
    <3>5. packets[x][i + 1] # Head(packets[x])
      BY <1>2, <1>4, <3>4
    <3>6. /\ req'[packets'[y][i]].st \in {"ok", "err"}
          /\ req'[packets'[y][i]].port = y
      BY <1>4, <2>1, <3>3, <3>5 DEF PacketInv
    <3>7. ASSUME NEW j \in 1 .. Len(packets'[y]), packets'[y][j] = packets'[y][i]
          PROVE  j = i
      <4>1. j + 1 \in 1 .. Len(packets[x]) /\ packets[x][j + 1] = packets[x][i + 1]
        BY <3>3, <3>7, <3>2
      <4>2. j + 1 = i + 1 /\ j \in Int /\ i \in Int
        BY <3>4, <4>1
      <4> QED BY <4>2
    <3> QED BY <3>6, <3>7
  <2>2. CASE y # x
    <3>1. packets'[y] = packets[y]
      BY <2>2 DEF TypeInv
    <3>2. /\ req[packets[y][i]].st \in {"ok", "err"} /\ req[packets[y][i]].port = y
          /\ \A j \in 1 .. Len(packets[y]) : packets[y][j] = packets[y][i] => j = i
      BY <1>4, <3>1 DEF PacketInv
    <3>3. packets[y][i] # Head(packets[x])
      <4>1. SUFFICES ASSUME packets[y][i] = packets[x][1] PROVE FALSE
        BY <1>2
      <4>2. packets[x][1] \in Ops
        BY <1>4, <3>1, <4>1
      <4>3. req[packets[x][1]].port = x
        BY <1>2, <4>2 DEF PacketInv
      <4> QED BY <2>2, <3>2, <4>1, <4>3
    <3> QED BY <1>4, <3>1, <3>2, <3>3
  <2> QED BY <2>1, <2>2
<1> QED BY <1>3, <1>4 DEF PacketInv

\* A port gets a packet: a wake-up, or an operation that has just completed.
LEMMA PacketAdded ==
  ASSUME TypeInv, PacketInv, NEW x \in Contexts, NEW p \in Ops \cup {Wake},
         packets' = [packets EXCEPT ![x] = Append(@, p)],
         p \in Ops => req[p].st = "kernel" /\ req'[p].st \in {"ok", "err"} /\ req'[p].port = x,
         \A o \in Ops : o # p => req'[o].st = req[o].st /\ req'[o].port = req[o].port
  PROVE  PacketInv' /\ packets' \in [Contexts -> Seq(Ops \cup {Wake})]
<1>1. packets[x] \in Seq(Ops \cup {Wake}) /\ packets'[x] = Append(packets[x], p)
  BY DEF TypeInv
<1>2. /\ Append(packets[x], p) \in Seq(Ops \cup {Wake})
      /\ Len(Append(packets[x], p)) = Len(packets[x]) + 1 /\ Len(packets[x]) \in Nat
      /\ \A i \in 1 .. Len(packets[x]) : Append(packets[x], p)[i] = packets[x][i]
      /\ Append(packets[x], p)[Len(packets[x]) + 1] = p
  BY <1>1
<1>3. packets' \in [Contexts -> Seq(Ops \cup {Wake})]
  BY <1>2 DEF TypeInv
<1>4. ASSUME NEW y \in Contexts, NEW i \in 1 .. Len(packets[y]), p \in Ops
      PROVE  packets[y][i] # p
  BY <1>4 DEF PacketInv
<1>5. ASSUME NEW y \in Contexts, NEW i \in 1 .. Len(packets'[y]), packets'[y][i] \in Ops
      PROVE  /\ req'[packets'[y][i]].st \in {"ok", "err"}
             /\ req'[packets'[y][i]].port = y
             /\ \A j \in 1 .. Len(packets'[y]) : packets'[y][j] = packets'[y][i] => j = i
  <2>1. CASE y = x /\ i \in 1 .. Len(packets[x])
    <3>1. packets'[y][i] = packets[x][i]
      BY <1>1, <1>2, <2>1
    <3>2. /\ req[packets[x][i]].st \in {"ok", "err"} /\ req[packets[x][i]].port = x
          /\ \A j \in 1 .. Len(packets[x]) : packets[x][j] = packets[x][i] => j = i
      BY <1>5, <2>1, <3>1 DEF PacketInv
    <3>3. packets[x][i] # p
      BY <1>4, <1>5, <2>1, <3>1
    <3>4. ASSUME NEW j \in 1 .. Len(packets'[y]), packets'[y][j] = packets'[y][i]
          PROVE  j = i
      <4>1. j \in 1 .. Len(packets[x]) \/ j = Len(packets[x]) + 1
        BY <1>1, <1>2, <2>1
      <4> QED BY <1>1, <1>2, <2>1, <3>1, <3>2, <3>3, <3>4, <4>1
    <3> QED BY <1>5, <2>1, <3>1, <3>2, <3>3, <3>4
  <2>2. CASE y = x /\ i = Len(packets[x]) + 1
    <3>1. packets'[y][i] = p /\ p \in Ops
      BY <1>1, <1>2, <1>5, <2>2
    <3>2. ASSUME NEW j \in 1 .. Len(packets'[y]), packets'[y][j] = packets'[y][i]
          PROVE  j = i
      <4>1. CASE j \in 1 .. Len(packets[x])
        BY <1>1, <1>2, <1>4, <2>2, <3>1, <3>2, <4>1
      <4>2. CASE j \notin 1 .. Len(packets[x])
        BY <1>1, <1>2, <2>2, <4>2
      <4> QED BY <4>1, <4>2
    <3> QED BY <2>2, <3>1, <3>2
  <2>3. CASE y # x
    <3>1. packets'[y] = packets[y]
      BY <2>3 DEF TypeInv
    <3>2. packets[y][i] # p
      BY <1>4, <1>5, <3>1
    <3> QED BY <1>5, <3>1, <3>2 DEF PacketInv
  <2> QED BY <1>1, <1>2, <2>1, <2>2, <2>3
<1> QED BY <1>3, <1>5 DEF PacketInv

\* Steps that leave alone what is outstanding, and count it at least as often.
LEMMA CoverStays ==
  ASSUME TypeInv, IoNumCovers, ioNum' \in [Contexts -> Int],
         \A x \in Contexts : ioNum'[x] >= ioNum[x],
         \A o \in Ops : (req'[o].st = "free") = (req[o].st = "free") /\ req'[o].ctx = req[o].ctx
  PROVE  IoNumCovers'
<1>1. ASSUME NEW x \in Contexts
      PROVE  ioNum'[x] >= Cardinality(Outstanding(x)')
  <2>1. Outstanding(x)' = Outstanding(x)
    BY DEF Outstanding, InFlight
  <2>2. ioNum[x] >= Cardinality(Outstanding(x))
    BY DEF IoNumCovers, Outstanding
  <2> QED BY <2>1, <2>2, OutstandingFinite DEF TypeInv
<1> QED BY <1>1 DEF IoNumCovers, Outstanding

\* A submission is counted in the context that will be told of it.
LEMMA CoverGrows ==
  ASSUME TypeInv, IoNumCovers, NEW x \in Contexts, NEW o \in Ops, req[o].st = "free",
         ioNum' = [ioNum EXCEPT ![x] = @ + 1],
         req'[o].ctx = x,
         \A p \in Ops : p # o => req'[p].st = req[p].st /\ req'[p].ctx = req[p].ctx
  PROVE  IoNumCovers'
<1>1. ASSUME NEW y \in Contexts
      PROVE  ioNum'[y] >= Cardinality(Outstanding(y)')
  <2>1. ioNum[y] >= Cardinality(Outstanding(y)) /\ ioNum[y] \in Int
    BY DEF IoNumCovers, Outstanding, TypeInv
  <2>2. /\ IsFiniteSet(Outstanding(y)) /\ Cardinality(Outstanding(y)) \in Nat
        /\ o \notin Outstanding(y)
    BY OutstandingFinite DEF Outstanding, InFlight
  <2>3. CASE y = x
    <3>1. Outstanding(y)' \subseteq Outstanding(y) \cup {o}
      BY <2>3 DEF Outstanding, InFlight
    <3>2. /\ IsFiniteSet(Outstanding(y) \cup {o})
          /\ Cardinality(Outstanding(y) \cup {o}) = Cardinality(Outstanding(y)) + 1
      BY <2>2, FS_AddElement
    <3>3. /\ Cardinality(Outstanding(y)') <= Cardinality(Outstanding(y) \cup {o})
          /\ IsFiniteSet(Outstanding(y)')
      BY <3>1, <3>2, FS_Subset
    <3>4. Cardinality(Outstanding(y)') \in Nat
      BY <3>3, FS_CardinalityType
    <3>5. ioNum'[y] = ioNum[y] + 1
      BY <2>3 DEF TypeInv
    <3> QED BY <2>1, <2>2, <3>2, <3>3, <3>4, <3>5
  <2>4. CASE y # x
    <3>1. Outstanding(y)' = Outstanding(y)
      BY <2>4 DEF Outstanding, InFlight
    <3>2. ioNum'[y] = ioNum[y]
      BY <2>4 DEF TypeInv
    <3> QED BY <2>1, <3>1, <3>2
  <2> QED BY <2>3, <2>4
<1> QED BY <1>1 DEF IoNumCovers, Outstanding

\* poll() takes the completion of an operation that its own context submitted.
LEMMA CoverShrinks ==
  ASSUME TypeInv, IoNumCovers, NEW x \in Contexts, NEW o \in Ops,
         req[o].st # "free", req[o].ctx = x,
         ioNum' = [ioNum EXCEPT ![x] = @ - 1],
         req'[o].st = "free",
         \A p \in Ops : p # o => req'[p].st = req[p].st /\ req'[p].ctx = req[p].ctx
  PROVE  IoNumCovers'
<1>1. ASSUME NEW y \in Contexts
      PROVE  ioNum'[y] >= Cardinality(Outstanding(y)')
  <2>1. ioNum[y] >= Cardinality(Outstanding(y)) /\ ioNum[y] \in Int
    BY DEF IoNumCovers, Outstanding, TypeInv
  <2>2. IsFiniteSet(Outstanding(y)) /\ Cardinality(Outstanding(y)) \in Nat
    BY OutstandingFinite
  <2>3. CASE y = x
    <3>1. Outstanding(y)' = Outstanding(y) \ {o} /\ o \in Outstanding(y)
      BY <2>3 DEF Outstanding, InFlight
    <3>2. Cardinality(Outstanding(y) \ {o}) = Cardinality(Outstanding(y)) - 1
      BY <2>2, <3>1, FS_RemoveElement
    <3>3. ioNum'[y] = ioNum[y] - 1
      BY <2>3 DEF TypeInv
    <3> QED BY <2>1, <2>2, <3>1, <3>2, <3>3
  <2>4. CASE y # x
    <3>1. Outstanding(y)' = Outstanding(y)
      BY <2>4 DEF Outstanding, InFlight
    <3>2. ioNum'[y] = ioNum[y]
      BY <2>4 DEF TypeInv
    <3> QED BY <2>1, <3>1, <3>2
  <2> QED BY <2>3, <2>4
<1> QED BY <1>1 DEF IoNumCovers, Outstanding

-----------------------------------------------------------------------------
(***************************************************************************)
(* Owners.                                                                 *)
(***************************************************************************)
\* Nothing is open or outstanding: at the start, and after std::terminate().
Nothing ==
    /\ port = [h \in Handles |-> None] /\ req = [o \in Ops |-> Free]
    /\ obj = [f \in Objects |-> Empty] /\ open = {}
    /\ ioNum = [x \in Contexts |-> 0] /\ packets = [x \in Contexts |-> <<>>]

LEMMA NothingInv == Nothing => HandlesInv
<1> SUFFICES ASSUME Nothing PROVE HandlesInv
  OBVIOUS
<1> USE DEF Nothing
<1>1. TypeInv
  BY DEF TypeInv, Requests, ObjectValues, Free, Empty
<1>2. OwnerInv
  BY DEF OwnerInv, Valid, Free, Empty
<1>3. RequestInv
  BY DEF RequestInv, Free
<1>4. AttachedInv
  BY DEF AttachedInv, Valid, Empty
<1>5. PortInv
  BY DEF PortInv, Free
<1>6. PacketInv
  BY DEF PacketInv
<1>7. CoverInv
  <2>1. ASSUME NEW x \in Contexts
        PROVE  ioNum[x] >= Cardinality({o \in InFlight : req[o].ctx = x})
    <3>1. {o \in InFlight : req[o].ctx = x} = {}
      BY DEF InFlight, Free
    <3>2. Cardinality({o \in InFlight : req[o].ctx = x}) = 0
      BY <3>1, FS_EmptySet, Zenon
    <3> QED BY <3>2
  <2> QED BY <2>1 DEF IoNumCovers, CoverInv
<1> QED BY <1>1, <1>2, <1>3, <1>4, <1>5, <1>6, <1>7 DEF HandlesInv, OwnInv

\* open() puts a new handle into an object; what that had is lost.
LEMMA OpenOwns ==
  ASSUME HandlesInv, NEW x \in Contexts, NEW f \in Objects, NEW h \in Handles,
         Open(x, f, h)
  PROVE  OwnInv'
<1> USE DEF HandlesInv, OwnInv
<1> PICK new \in Values(f, [Empty EXCEPT !.handle = h]) : obj' = [obj EXCEPT ![f] = new]
  BY DEF Open
<1>1. /\ new \in ObjectValues /\ new.handle = h
      /\ Tame => new.attached = None
  <2>1. [Empty EXCEPT !.handle = h] = [handle |-> h, attached |-> None, offset |-> 0]
    BY DEF Empty
  <2>2. CASE f \notin RandomFiles
    BY <2>1, <2>2 DEF Values, ObjectValues
  <2>3. CASE f \in RandomFiles
    <3>1. PICK a \in IF Careful THEN {obj[f].attached} ELSE Contexts \cup {None} :
             new = [[Empty EXCEPT !.handle = h] EXCEPT !.attached = a]
      BY <2>3 DEF Values
    <3>2. new = [handle |-> h, attached |-> a, offset |-> 0]
      BY <2>1, <3>1
    <3>3. obj[f].attached \in Contexts \cup {None}
      BY DEF TypeInv, ObjectValues
    <3>4. Tame => Careful /\ obj[f].attached = None
      BY <2>3 DEF Tame, Open, MayAssign, AttachedInv, Valid
    <3> QED BY <3>1, <3>2, <3>3, <3>4 DEF ObjectValues
  <2> QED BY <2>2, <2>3
<1>2. /\ h \notin open /\ h # None /\ None \notin Handles
      /\ Careful => obj[f].handle = None
  BY IocpAssumption DEF Open, Fresh, MayAssign
<1>3. obj' = [obj EXCEPT ![f] = new] /\ open' = open \cup {h} /\ UNCHANGED iocpVars
  BY DEF Open
<1>4. UNCHANGED <<port, req, ioNum, packets>>
  BY <1>3 DEF iocpVars
<1>5. /\ obj'[f] = new /\ obj'[f].handle = h
      /\ \A g \in Objects : g # f => obj'[g] = obj[g]
  BY <1>1, <1>3 DEF TypeInv
<1>6. /\ \A g \in Objects : obj[g].handle # h
      /\ \A o \in Ops : req[o].new # h
  BY <1>2 DEF OwnerInv
<1>7. TypeInv'
  BY <1>1, <1>3, <1>4 DEF TypeInv
<1>8. OwnerInv'
  <2>1. \A g \in Objects : obj'[g].handle \in open' \cup {None}
    BY <1>3, <1>5 DEF OwnerInv
  <2>2. \A o \in Ops : req'[o].new \in open' \cup {None}
    BY <1>3, <1>4 DEF OwnerInv
  <2>3. \A g, k \in Objects : obj'[g].handle = obj'[k].handle /\ Valid(g)' => g = k
    BY <1>5, <1>6 DEF OwnerInv, Valid
  <2>4. \A g \in Objects, o \in Ops : Valid(g)' => obj'[g].handle # req'[o].new
    BY <1>4, <1>5, <1>6 DEF OwnerInv, Valid
  <2>5. ASSUME Careful, NEW i \in open'
        PROVE  (\E g \in Objects : obj'[g].handle = i) \/ (\E o \in Ops : req'[o].new = i)
    <3>1. CASE i = h
      BY <1>5, <3>1
    <3>2. CASE i # h
      <4>1. i \in open /\ i # None
        BY <1>3, <2>5, <3>2, IocpAssumption DEF TypeInv
      <4>2. (\E g \in Objects : obj[g].handle = i) \/ (\E o \in Ops : req[o].new = i)
        BY <2>5, <4>1 DEF OwnerInv
      <4> QED BY <1>2, <1>4, <1>5, <2>5, <4>1, <4>2
    <3> QED BY <3>1, <3>2
  <2> QED BY <1>4, <2>1, <2>2, <2>3, <2>4, <2>5 DEF OwnerInv
<1>9. RequestInv'
  BY <1>4 DEF RequestInv
<1>10. AttachedInv'
  BY <1>1, <1>2, <1>4, <1>5 DEF AttachedInv, PortInv, Valid, Tame
<1>11. PortInv'
  BY <1>3, <1>4 DEF PortInv
<1> QED BY <1>7, <1>8, <1>9, <1>10, <1>11

\* A move between objects of a class: the target has the source's handle, and
\* the source none.
LEMMA MoveOwns ==
  ASSUME HandlesInv, NEW x \in Contexts, NEW f \in Objects, NEW g \in Objects,
         (f \in RandomFiles) = (g \in RandomFiles), Move(x, f, g)
  PROVE  OwnInv'
<1> USE DEF HandlesInv, OwnInv
<1>0. PICK new \in Values(g, obj[f]) : obj' = [obj EXCEPT ![g] = new, ![f] = Empty]
  BY DEF Move
<1>1. Careful => /\ obj[g].handle = None
                 /\ f \in RandomFiles => obj[f].attached = None
  BY DEF Move, MayMove, MayAssign
<1>2. /\ new \in ObjectValues /\ new.handle = obj[f].handle
      /\ Tame => new.attached = obj[f].attached
  <2>1. obj[f] \in ObjectValues /\ obj[g] \in ObjectValues
    BY DEF TypeInv
  <2>2. CASE g \in RandomFiles
    <3>1. PICK a \in IF Careful THEN {obj[g].attached} ELSE Contexts \cup {None} :
             new = [obj[f] EXCEPT !.attached = a]
      BY <1>0, <2>2 DEF Values
    <3>2. a \in Contexts \cup {None} /\ (Careful => a = obj[g].attached)
      <4>1. CASE Careful
        <5>1. a = obj[g].attached
          BY <3>1, <4>1
        <5> QED BY <2>1, <5>1 DEF ObjectValues
      <4>2. CASE ~Careful
        BY <3>1, <4>2
      <4> QED BY <4>1, <4>2
    <3> HIDE DEF HandlesInv, OwnInv
    <3>3. new \in ObjectValues /\ new.handle = obj[f].handle /\ new.attached = a
      <4>1. new = [handle |-> obj[f].handle, attached |-> a, offset |-> obj[f].offset]
        BY <2>1, <3>1 DEF ObjectValues
      <4> QED BY <2>1, <3>2, <4>1 DEF ObjectValues
    <3>4. Tame => Careful /\ obj[f].attached = None /\ obj[g].attached = None
      <4>1. f \in RandomFiles
        BY <2>2
      <4>2. AttachedInv /\ (Tame => Careful)
        BY <2>2 DEF Tame, HandlesInv, OwnInv
      <4> QED BY <1>1, <4>1, <4>2 DEF AttachedInv, Valid
    <3> QED BY <3>2, <3>3, <3>4
  <2>3. CASE g \notin RandomFiles
    BY <1>0, <2>1, <2>3 DEF Values
  <2> QED BY <2>2, <2>3
<1>3. /\ obj' = [obj EXCEPT ![g] = new, ![f] = Empty]
      /\ UNCHANGED <<port, req, ioNum, packets, open>>
  BY <1>0 DEF Move, iocpVars
<1>4. /\ obj'[f] = Empty
      /\ g # f => obj'[g] = new
      /\ \A k \in Objects : k # f /\ k # g => obj'[k] = obj[k]
  BY <1>3 DEF TypeInv
<1>5. Empty.handle = None /\ Empty.attached = None
  BY DEF Empty
<1>6. TypeInv'
  <2>1. Empty \in ObjectValues
    BY DEF Empty, ObjectValues
  <2> QED BY <1>2, <1>3, <2>1 DEF TypeInv
<1>7. OwnerInv'
  <2>1. \A k \in Objects : obj'[k].handle \in open \cup {None}
    BY <1>2, <1>4, <1>5 DEF OwnerInv
  <2>2. \A k, l \in Objects : obj'[k].handle = obj'[l].handle /\ Valid(k)' => k = l
    BY <1>2, <1>4, <1>5 DEF OwnerInv, Valid
  <2>3. \A k \in Objects, o \in Ops : Valid(k)' => obj'[k].handle # req[o].new
    BY <1>2, <1>4, <1>5 DEF OwnerInv, Valid
  <2>4. ASSUME Careful, NEW h \in open
        PROVE  (\E k \in Objects : obj'[k].handle = h) \/ (\E o \in Ops : req[o].new = h)
    <3>1. h # None
      BY IocpAssumption DEF TypeInv
    <3>2. CASE obj[f].handle = h
      <4>1. g # f => obj'[g].handle = h  BY <1>2, <1>4, <3>2
      <4> QED BY <1>1, <2>4, <3>1, <3>2, <4>1
    <3>3. CASE obj[f].handle # h
      BY <1>1, <1>4, <2>4, <3>1, <3>3 DEF OwnerInv
    <3> QED BY <3>2, <3>3
  <2>5. /\ \A o \in Ops : req[o].new \in open \cup {None}
        /\ \A o, p \in Ops : req[o].new = req[p].new /\ req[o].new # None => o = p
    BY DEF OwnerInv
  <2>6. req' = req /\ open' = open
    BY <1>3
  <2> QED BY <2>1, <2>2, <2>3, <2>4, <2>5, <2>6 DEF OwnerInv
<1>8. RequestInv'
  BY <1>3 DEF RequestInv
<1>9. AttachedInv'
  <2> SUFFICES ASSUME Tame, NEW k \in Objects
               PROVE  obj'[k].attached = IF Valid(k)' THEN port'[obj'[k].handle] ELSE None
    BY DEF AttachedInv, Tame
  <2>1. port' = port
    BY <1>3
  <2>2. CASE k = f
    BY <1>4, <1>5, <2>2 DEF Valid
  <2>3. CASE k # f /\ k = g
    BY <1>2, <1>4, <2>1, <2>3 DEF AttachedInv, Valid
  <2>4. CASE k # f /\ k # g
    BY <1>4, <2>1, <2>4 DEF AttachedInv, Valid
  <2> QED BY <2>2, <2>3, <2>4
<1>10. PortInv'
  BY <1>3 DEF PortInv
<1> QED BY <1>6, <1>7, <1>8, <1>9, <1>10

\* close(): operations on the handle stay outstanding, without it.
LEMMA CloseOwns ==
  ASSUME HandlesInv, NEW x \in Contexts, NEW f \in Objects, Close(x, f)
  PROVE  /\ OwnInv'
         /\ \A o \in Ops : UNCHANGED <<req[o].st, req[o].ctx, req[o].port>>
<1> USE DEF HandlesInv, OwnInv
<1> DEFINE h == obj[f].handle
<1>1. h \in open /\ h \in Handles /\ h # None
  BY DEF Close, OwnerInv, TypeInv
<1>2. /\ obj' = [obj EXCEPT ![f] = Empty] /\ open' = open \ {h}
      /\ port' = [port EXCEPT ![h] = None]
      /\ req' = [o \in Ops |-> IF req[o].h = h THEN [req[o] EXCEPT !.h = None] ELSE req[o]]
      /\ UNCHANGED <<ioNum, packets>>
  BY DEF Close, Closed
<1>3. \A o \in Ops : /\ UNCHANGED <<req[o].st, req[o].ctx, req[o].obj, req[o].new, req[o].port>>
                     /\ req'[o] \in Requests
                     /\ req[o].h # h => req'[o] = req[o]
  <2> SUFFICES ASSUME NEW o \in Ops
               PROVE /\ UNCHANGED <<req[o].st, req[o].ctx, req[o].obj, req[o].new, req[o].port>>
                     /\ req'[o] \in Requests
                     /\ req[o].h # h => req'[o] = req[o]
    OBVIOUS
  <2>1. req[o] \in Requests /\ None \in Handles \cup {None}
    BY DEF TypeInv
  <2>2. CASE req[o].h = h
    <3>1. req'[o] = [req[o] EXCEPT !.h = None]
      BY <1>2, <2>2
    <3> HIDE DEF h
    <3> QED BY <2>1, <2>2, <3>1 DEF Requests
  <2>3. CASE req[o].h # h
    BY <1>2, <2>1, <2>3
  <2> QED BY <2>2, <2>3
<1>4. /\ obj'[f] = Empty /\ Empty.handle = None /\ Empty.attached = None
      /\ \A k \in Objects : k # f => obj'[k] = obj[k]
  BY <1>2 DEF TypeInv, Empty
<1>5. /\ \A k \in Objects : k # f => obj[k].handle # h
      /\ \A o \in Ops : req[o].new # h
  BY <1>1 DEF OwnerInv, Valid
<1> HIDE DEF h
<1>6. TypeInv'
  <2>1. Empty \in ObjectValues
    BY DEF Empty, ObjectValues
  <2>2. req' \in [Ops -> Requests]
    BY <1>2, <1>3
  <2> QED BY <1>1, <1>2, <2>1, <2>2 DEF TypeInv
<1>7. OwnerInv'
  <2>1. \A k \in Objects : obj'[k].handle \in open' \cup {None}
    BY <1>2, <1>4, <1>5 DEF OwnerInv
  <2>2. \A k, l \in Objects : obj'[k].handle = obj'[l].handle /\ Valid(k)' => k = l
    BY <1>4 DEF OwnerInv, Valid
  <2>3. \A k \in Objects, o \in Ops : Valid(k)' => obj'[k].handle # req'[o].new
    BY <1>3, <1>4 DEF OwnerInv, Valid
  <2>4. \A o \in Ops : req'[o].new \in open' \cup {None}
    BY <1>2, <1>3, <1>5 DEF OwnerInv
  <2>5. \A o, p \in Ops : req'[o].new = req'[p].new /\ req'[o].new # None => o = p
    BY <1>3 DEF OwnerInv
  <2>6. ASSUME Careful, NEW i \in open'
        PROVE  (\E k \in Objects : obj'[k].handle = i) \/ (\E o \in Ops : req'[o].new = i)
    <3>1. i \in open /\ i # h
      BY <1>2, <2>6
    <3>2. CASE \E o \in Ops : req[o].new = i
      BY <1>3, <3>2
    <3>3. CASE \E k \in Objects : obj[k].handle = i
      BY <1>4, <3>1, <3>3 DEF h
    <3> QED BY <2>6, <3>1, <3>2, <3>3 DEF OwnerInv
  <2> QED BY <2>1, <2>2, <2>3, <2>4, <2>5, <2>6 DEF OwnerInv
<1>8. RequestInv'
  <2> SUFFICES ASSUME NEW o \in Ops
               PROVE  /\ req'[o].st = "free" => req'[o] = Free
                      /\ req'[o].new # None => req'[o].obj \in Acceptors
                      /\ Tame => req'[o].port = req'[o].ctx
    BY DEF RequestInv, Tame
  <2>1. ASSUME req'[o].st = "free" PROVE req'[o] = Free
    <3>1. req[o] = Free /\ Free.h = None
      BY <1>3, <2>1 DEF RequestInv, Free
    <3> QED BY <1>1, <1>3, <3>1
  <2> QED BY <1>3, <2>1 DEF RequestInv
<1>9. AttachedInv'
  <2>1. ASSUME NEW k \in Objects, k # f, Valid(k) PROVE port'[obj[k].handle] = port[obj[k].handle]
    BY <1>2, <1>5, <2>1 DEF OwnerInv, Valid, TypeInv
  <2> QED BY <1>4, <2>1 DEF AttachedInv, Valid, Tame
<1>10. PortInv'
  BY <1>2, <1>3, <1>5 DEF PortInv, TypeInv, OwnerInv
<1> QED BY <1>3, <1>6, <1>7, <1>8, <1>9, <1>10

\* attach_context() of an object that may be used here: its handle has this
\* context's port then, if attached_ was true, and nothing else changes.
LEMMA Attaches ==
  ASSUME OwnInv, NEW x \in Contexts, NEW f \in Objects, MayUse(x, f),
         port' = Ports(x, f), AttachContext(x, f)
  PROVE  /\ port' \in [Handles -> Contexts \cup {None}] /\ obj' \in [Objects -> ObjectValues]
         /\ \A g \in Objects : obj'[g].handle = obj[g].handle
         /\ AttachedInv'
         /\ Tame /\ Valid(f) => port'[obj[f].handle] = x
         /\ \A h \in Handles : h # obj[f].handle => port'[h] = port[h]
<1> USE DEF OwnInv
<1>1. CASE ~Valid(f)
  <2>1. port' = port /\ obj' = obj
    BY <1>1 DEF Ports, AttachContext
  <2>2. AttachedInv'
    BY <2>1 DEF AttachedInv, Valid, Tame
  <2> QED BY <1>1, <2>1, <2>2 DEF TypeInv
<1>2. CASE Valid(f)
  <2> DEFINE h == obj[f].handle
  <2>1. h \in Handles /\ h # None /\ x # None
    BY <1>2, IocpAssumption DEF TypeInv, OwnerInv, Valid
  <2>2. port' = port \/ port' = [port EXCEPT ![h] = x]
    BY DEF Ports, Attached
  <2>3. Tame => port' = [port EXCEPT ![h] = x]
    <3> SUFFICES ASSUME Tame PROVE port' = [port EXCEPT ![h] = x]
      OBVIOUS
    <3>1. obj[f].attached = port[h] /\ port[h] \in {None, x}
      BY <1>2 DEF AttachedInv, MayUse
    <3>2. CASE port[h] = None
      BY <1>2, <3>1, <3>2 DEF Ports, Attached
    <3>3. CASE port[h] = x
      <4>1. port' = port
        BY <1>2, <2>1, <3>1, <3>3 DEF Ports
      <4> HIDE DEF h
      <4> QED BY <2>1, <3>3, <4>1 DEF TypeInv
    <3> QED BY <3>1, <3>2, <3>3
  <2>4. obj' = [obj EXCEPT ![f].attached = x]
    BY <1>2 DEF AttachContext
  <2>5. /\ obj'[f].handle = h /\ obj'[f].attached = x /\ obj'[f] \in ObjectValues
        /\ \A g \in Objects : g # f => obj'[g] = obj[g]
    <3>1. obj[f] \in ObjectValues
      BY DEF TypeInv
    <3>2. obj'[f] = [obj[f] EXCEPT !.attached = x]
      BY <2>4 DEF TypeInv
    <3> QED BY <2>4, <3>1, <3>2 DEF ObjectValues, TypeInv
  <2>6. \A g \in Objects : g # f /\ Valid(g) => obj[g].handle # h /\ obj[g].handle \in Handles
    BY <1>2 DEF OwnerInv, Valid, TypeInv
  <2> HIDE DEF h
  <2>7. /\ port' \in [Handles -> Contexts \cup {None}]
        /\ \A i \in Handles : i # h => port'[i] = port[i]
    BY <2>1, <2>2 DEF TypeInv
  <2>11. Tame => port'[h] = x
    BY <2>1, <2>3 DEF TypeInv
  <2>8. \A g \in Objects : obj'[g].handle = obj[g].handle
    BY <2>5 DEF h
  <2>9. obj' \in [Objects -> ObjectValues]
    BY <2>4, <2>5 DEF TypeInv
  <2>10. ASSUME Tame, NEW g \in Objects
         PROVE  obj'[g].attached = IF Valid(g)' THEN port'[obj'[g].handle] ELSE None
    <3>1. CASE g = f
      BY <2>1, <2>5, <2>10, <2>11, <3>1 DEF Valid
    <3>2. CASE g # f /\ Valid(g)
      BY <2>5, <2>6, <2>7, <2>10, <3>2 DEF AttachedInv, Valid
    <3>3. CASE g # f /\ ~Valid(g)
      BY <2>5, <2>10, <3>3 DEF AttachedInv, Valid
    <3> QED BY <3>1, <3>2, <3>3
  <2> QED BY <2>7, <2>8, <2>9, <2>10, <2>11 DEF AttachedInv, Tame, h
<1> QED BY <1>1, <1>2

\* A submission: the operation will complete here, and owns the socket that
\* accept() opened for it.
LEMMA SubmitOwns ==
  ASSUME HandlesInv, NEW x \in Contexts, NEW f \in Objects, NEW o \in Ops,
         NEW off \in Nat, NEW new \in Handles \cup {None},
         MayUse(x, f), Submit(x, o, f, obj[f].handle, off, new, Ports(x, f)), AttachContext(x, f),
         new # None => f \in Acceptors /\ new \notin open,
         open' = open \cup ({new} \ {None})
  PROVE  OwnInv' /\ PacketInv' /\ CoverInv'
<1> USE DEF HandlesInv, OwnInv
<1> DEFINE r == [st |-> "kernel", ctx |-> x, obj |-> f, h |-> obj[f].handle, off |-> off,
                 new |-> new, port |-> Ports(x, f)[obj[f].handle]]
<1>1. /\ req[o].st = "free" /\ Valid(f) /\ req' = [req EXCEPT ![o] = r]
      /\ ioNum' = [ioNum EXCEPT ![x] = @ + 1] /\ port' = Ports(x, f)
      /\ packets' = packets
  BY DEF Submit, Valid
<1>2. /\ port' \in [Handles -> Contexts \cup {None}] /\ obj' \in [Objects -> ObjectValues]
      /\ \A g \in Objects : obj'[g].handle = obj[g].handle
      /\ AttachedInv'
      /\ Tame /\ Valid(f) => port'[obj[f].handle] = x
      /\ \A i \in Handles : i # obj[f].handle => port'[i] = port[i]
  BY <1>1, Attaches
<1>3. Tame => r.port = x
  BY <1>1, <1>2
<1>4. obj[f].handle \in open
  BY <1>1 DEF OwnerInv, Valid
<1>5. r \in Requests
  BY <1>1, <1>2, <1>4 DEF Requests, ObjectValues, TypeInv
<1>6. /\ r.st = "kernel" /\ r.ctx = x /\ r.obj = f /\ r.new = new
  OBVIOUS
<1> HIDE DEF r
<1>7. req'[o] = r /\ \A p \in Ops : p # o => req'[p] = req[p]
  BY <1>1 DEF TypeInv
<1>8. req[o].new = None
  BY <1>1 DEF RequestInv, Free
<1>9. TypeInv'
  BY <1>1, <1>2, <1>5 DEF TypeInv
<1>10. OwnerInv'
  <2>1. \A g \in Objects : obj'[g].handle \in open' \cup {None}
    BY <1>2 DEF OwnerInv
  <2>2. \A p \in Ops : req'[p].new \in open' \cup {None}
    BY <1>6, <1>7 DEF OwnerInv
  <2>3. \A g, k \in Objects : obj'[g].handle = obj'[k].handle /\ Valid(g)' => g = k
    BY <1>2 DEF OwnerInv, Valid
  <2>4. \A p, q \in Ops : req'[p].new = req'[q].new /\ req'[p].new # None => p = q
    <3>1. \A p \in Ops : p # o /\ new # None => req[p].new # new
      BY DEF OwnerInv
    <3> QED BY <1>6, <1>7, <3>1 DEF OwnerInv
  <2>5. \A g \in Objects, p \in Ops : Valid(g)' => obj'[g].handle # req'[p].new
    <3>1. \A g \in Objects : Valid(g) => obj[g].handle # new
      BY DEF OwnerInv, Valid
    <3> QED BY <1>2, <1>6, <1>7, <3>1 DEF OwnerInv, Valid
  <2>6. ASSUME Careful, NEW i \in open'
        PROVE  (\E g \in Objects : obj'[g].handle = i) \/ (\E p \in Ops : req'[p].new = i)
    <3>1. CASE i = new
      BY <1>6, <1>7, <3>1
    <3>2. CASE i # new
      <4>1. i \in open /\ i # None
        BY <2>6, <3>2, IocpAssumption DEF TypeInv
      <4> QED BY <1>2, <1>7, <1>8, <2>6, <4>1 DEF OwnerInv
    <3> QED BY <3>1, <3>2
  <2> QED BY <2>1, <2>2, <2>3, <2>4, <2>5, <2>6 DEF OwnerInv
<1>11. RequestInv'
  <2> SUFFICES ASSUME NEW p \in Ops
               PROVE  /\ req'[p].st = "free" => req'[p] = Free
                      /\ req'[p].new # None => req'[p].obj \in Acceptors
                      /\ Tame => req'[p].port = req'[p].ctx
    BY DEF RequestInv, Tame
  <2> QED BY <1>3, <1>6, <1>7 DEF RequestInv
<1>12. PortInv'
  <2>1. ASSUME NEW i \in Handles, i \notin open' PROVE port'[i] = None
    BY <1>2, <1>4, <2>1 DEF PortInv
  <2>2. ASSUME NEW p \in Ops, req'[p].new # None PROVE port'[req'[p].new] = None
    <3>1. CASE p = o
      BY <1>2, <1>4, <1>6, <1>7, <2>2, <3>1 DEF PortInv
    <3>2. CASE p # o
      <4>1. req[p].new # obj[f].handle /\ req[p].new \in Handles /\ port[req[p].new] = None
        BY <1>1, <1>7, <2>2, <3>2 DEF OwnerInv, PortInv, TypeInv, Requests
      <4> QED BY <1>2, <1>7, <3>2, <4>1
    <3> QED BY <3>1, <3>2
  <2> QED BY <2>1, <2>2 DEF PortInv
<1>13. PacketInv'
  BY <1>1, <1>7, PacketsStay
<1>14. CoverInv'
  <2> SUFFICES ASSUME Tame PROVE IoNumCovers'
    BY DEF CoverInv, Tame
  <2>1. req'[o].ctx = x  BY <1>6, <1>7
  <2>2. \A p \in Ops : p # o => req'[p].st = req[p].st /\ req'[p].ctx = req[p].ctx
    BY <1>7
  <2>3. req[o].st = "free" /\ ioNum' = [ioNum EXCEPT ![x] = @ + 1]  BY <1>1
  <2> QED BY <2>1, <2>2, <2>3, CoverGrows DEF CoverInv
<1> QED BY <1>2, <1>9, <1>10, <1>11, <1>12, <1>13, <1>14

\* A submission that fails at once: only the handle may have become attached.
LEMMA RefusedOwns ==
  ASSUME HandlesInv, NEW x \in Contexts, NEW f \in Objects, Refused(x, f)
  PROVE  HandlesInv'
<1> USE DEF HandlesInv, OwnInv
<1>1. /\ MayUse(x, f) /\ port' = Ports(x, f) /\ AttachContext(x, f)
      /\ ioNum' = [ioNum EXCEPT ![x] = @ + 1]
      /\ UNCHANGED <<req, open, packets>>
  BY DEF Refused, SubmitFails
<1>2. /\ port' \in [Handles -> Contexts \cup {None}] /\ obj' \in [Objects -> ObjectValues]
      /\ \A g \in Objects : obj'[g].handle = obj[g].handle
      /\ AttachedInv'
      /\ \A i \in Handles : i # obj[f].handle => port'[i] = port[i]
  BY <1>1, Attaches
<1>3. TypeInv'
  BY <1>1, <1>2 DEF TypeInv
<1>4. OwnerInv'
  BY <1>1, <1>2 DEF OwnerInv, Valid
<1>5. RequestInv'
  BY <1>1 DEF RequestInv, Tame
<1>6. PortInv'
  <2>1. ASSUME NEW i \in Handles, i \notin open PROVE port'[i] = None
    <3>1. i # obj[f].handle
      BY <2>1, IocpAssumption DEF OwnerInv
    <3> QED BY <1>2, <2>1, <3>1 DEF PortInv
  <2>2. ASSUME NEW p \in Ops, req[p].new # None PROVE port'[req[p].new] = None
    <3>1. req[p].new # obj[f].handle /\ req[p].new \in Handles /\ port[req[p].new] = None
      BY <2>2, IocpAssumption DEF OwnerInv, PortInv, TypeInv, Requests, Valid
    <3> QED BY <1>2, <3>1
  <2> QED BY <1>1, <2>1, <2>2 DEF PortInv
<1>7. PacketInv'
  BY <1>1, PacketsStay
<1>8. CoverInv'
  <2>1. ioNum' \in [Contexts -> Int] /\ \A y \in Contexts : ioNum'[y] >= ioNum[y]
    BY <1>1 DEF TypeInv
  <2> QED BY <1>1, <2>1, CoverStays DEF CoverInv, Tame
<1> QED BY <1>2, <1>3, <1>4, <1>5, <1>6, <1>7, <1>8

\* Where the callback of o runs, o was outstanding, in this context if Tame.
LEMMA CompletionIsOwn ==
  ASSUME HandlesInv, NEW x \in Contexts, NEW o \in Ops, HandleOp(x, o)
  PROVE  /\ req[o].st # "free" /\ (Tame => req[o].ctx = x)
         /\ req' = [req EXCEPT ![o] = Free]
         /\ UNCHANGED port
         /\ ioNum' \in [Contexts -> Int] /\ packets' \in [Contexts -> Seq(Ops \cup {Wake})]
         /\ PacketInv' /\ CoverInv'
<1> USE DEF HandlesInv, OwnInv
<1>1. /\ packets[x] # <<>> /\ Head(packets[x]) = o
      /\ packets' = [packets EXCEPT ![x] = Tail(@)]
      /\ ioNum' = [ioNum EXCEPT ![x] = @ - 1]
      /\ req' = [req EXCEPT ![o] = Free]
      /\ UNCHANGED port
  BY DEF HandleOp, Taken
<1>2. packets[x][1] = o /\ 1 \in 1 .. Len(packets[x])
  BY <1>1 DEF TypeInv
<1>3. req[o].st \in {"ok", "err"} /\ req[o].port = x
  BY <1>2 DEF PacketInv
<1>4. req[o].st # "free" /\ (Tame => req[o].ctx = x)
  BY <1>3 DEF RequestInv
<1>5. req'[o].st = "free" /\ \A p \in Ops : p # o => req'[p] = req[p]
  BY <1>1 DEF TypeInv, Free
<1>6. PacketInv' /\ packets' \in [Contexts -> Seq(Ops \cup {Wake})]
  BY <1>1, <1>5, PacketTaken
<1>7. CoverInv'
  BY <1>1, <1>4, <1>5, CoverShrinks DEF CoverInv, Tame
<1> QED BY <1>1, <1>4, <1>6, <1>7 DEF TypeInv

\* The callback leaves the handles of the objects alone; the socket of an
\* accept(), if there is one, is closed.
LEMMA DropOwns ==
  ASSUME HandlesInv, NEW o \in Ops,
         req' = [req EXCEPT ![o] = Free], UNCHANGED port,
         obj' \in [Objects -> ObjectValues], ioNum' \in [Contexts -> Int],
         packets' \in [Contexts -> Seq(Ops \cup {Wake})],
         \A g \in Objects : UNCHANGED <<obj[g].handle, obj[g].attached>>,
         open' = open \ {req[o].new}
  PROVE  OwnInv'
<1> USE DEF HandlesInv, OwnInv
<1>1. /\ req'[o] = Free /\ Free.new = None /\ Free.st = "free" /\ Free.port = Free.ctx
      /\ \A p \in Ops : p # o => req'[p] = req[p]
  BY DEF TypeInv, Free
<1>2. Free \in Requests
  BY DEF Free, Requests
<1>3. TypeInv'
  BY <1>2 DEF TypeInv
<1>4. OwnerInv'
  <2>1. \A g \in Objects : obj'[g].handle \in open' \cup {None}
    BY DEF OwnerInv, Valid
  <2>2. \A p \in Ops : req'[p].new \in open' \cup {None}
    BY <1>1 DEF OwnerInv
  <2>3. \A g, k \in Objects : obj'[g].handle = obj'[k].handle /\ Valid(g)' => g = k
    BY DEF OwnerInv, Valid
  <2>4. \A p, q \in Ops : req'[p].new = req'[q].new /\ req'[p].new # None => p = q
    BY <1>1 DEF OwnerInv
  <2>5. \A g \in Objects, p \in Ops : Valid(g)' => obj'[g].handle # req'[p].new
    BY <1>1 DEF OwnerInv, Valid
  <2>6. ASSUME Careful, NEW i \in open'
        PROVE  (\E g \in Objects : obj'[g].handle = i) \/ (\E p \in Ops : req'[p].new = i)
    <3>1. i \in open /\ i # req[o].new
      BY <2>6
    <3>2. CASE \E g \in Objects : obj[g].handle = i
      BY <3>2
    <3>3. CASE \E p \in Ops : req[p].new = i
      BY <1>1, <3>1, <3>3
    <3> QED BY <2>6, <3>1, <3>2, <3>3 DEF OwnerInv
  <2> QED BY <2>1, <2>2, <2>3, <2>4, <2>5, <2>6 DEF OwnerInv
<1>5. RequestInv'
  BY <1>1 DEF RequestInv, Tame
<1>6. AttachedInv'
  BY DEF AttachedInv, Valid, Tame
<1>7. PortInv'
  <2>1. ASSUME NEW h \in Handles, h \notin open' PROVE port[h] = None
    <3>1. h \notin open \/ (h = req[o].new /\ h # None)
      BY <2>1, IocpAssumption
    <3> QED BY <3>1 DEF PortInv
  <2>2. \A p \in Ops : req'[p].new # None => port[req'[p].new] = None
    BY <1>1 DEF PortInv
  <2> QED BY <2>1, <2>2 DEF PortInv
<1> QED BY <1>3, <1>4, <1>5, <1>6, <1>7

\* The callback puts the accepted socket into an object; what that had is lost.
LEMMA GiveOwns ==
  ASSUME HandlesInv, NEW o \in Ops, NEW s \in Sockets,
         req' = [req EXCEPT ![o] = Free], UNCHANGED port,
         ioNum' \in [Contexts -> Int], packets' \in [Contexts -> Seq(Ops \cup {Wake})],
         Give(req[o].new, s)
  PROVE  OwnInv'
<1> USE DEF HandlesInv, OwnInv
<1> DEFINE new == req[o].new
<1>1. /\ req'[o] = Free /\ Free.new = None /\ Free.st = "free" /\ Free.port = Free.ctx
      /\ \A p \in Ops : p # o => req'[p] = req[p]
  BY DEF TypeInv, Free
<1>2. Free \in Requests
  BY DEF Free, Requests
<1>3. s \in Objects /\ s \notin RandomFiles
  BY HandlesAssumption DEF Objects
<1>4. /\ Careful => obj[s].handle = None
      /\ new \in open \cup {None} /\ new \in Handles \cup {None}
  BY <1>3 DEF Give, MayAssign, OwnerInv, TypeInv, Requests
<1>5. /\ obj' = [obj EXCEPT ![s] = [handle |-> new, attached |-> None, offset |-> 0]]
      /\ open' = open
  <2>1. [Empty EXCEPT !.handle = new] = [handle |-> new, attached |-> None, offset |-> 0]
    BY DEF Empty
  <2> QED BY <1>3, <2>1 DEF Give
<1>6. /\ obj'[s].handle = new /\ obj'[s].attached = None
      /\ \A g \in Objects : g # s => obj'[g] = obj[g]
  BY <1>3, <1>5 DEF TypeInv
<1>7. TypeInv'
  <2>1. [handle |-> new, attached |-> None, offset |-> 0] \in ObjectValues
    BY <1>4 DEF ObjectValues
  <2> QED BY <1>2, <1>5, <2>1 DEF TypeInv
<1>8. /\ \A p \in Ops : p # o /\ new # None => req[p].new # new
      /\ \A g \in Objects : Valid(g) => obj[g].handle # new
      /\ new # None => port[new] = None
  BY DEF OwnerInv, PortInv
<1> HIDE DEF new
<1>9. OwnerInv'
  <2>1. \A g \in Objects : obj'[g].handle \in open' \cup {None}
    BY <1>4, <1>5, <1>6 DEF OwnerInv
  <2>2. \A p \in Ops : req'[p].new \in open' \cup {None}
    BY <1>1, <1>5 DEF OwnerInv
  <2>3. \A g, k \in Objects : obj'[g].handle = obj'[k].handle /\ Valid(g)' => g = k
    BY <1>6, <1>8 DEF OwnerInv, Valid
  <2>4. \A p, q \in Ops : req'[p].new = req'[q].new /\ req'[p].new # None => p = q
    BY <1>1 DEF OwnerInv
  <2>5. \A g \in Objects, p \in Ops : Valid(g)' => obj'[g].handle # req'[p].new
    <3> SUFFICES ASSUME NEW g \in Objects, NEW p \in Ops, Valid(g)'
                 PROVE  obj'[g].handle # req'[p].new
      OBVIOUS
    <3>1. CASE p = o
      BY <1>1, <3>1 DEF Valid
    <3>2. CASE p # o /\ g = s
      BY <1>1, <1>6, <1>8, <3>2 DEF Valid
    <3>3. CASE p # o /\ g # s
      BY <1>1, <1>6, <3>3 DEF OwnerInv, Valid
    <3> QED BY <3>1, <3>2, <3>3
  <2>6. ASSUME Careful, NEW i \in open'
        PROVE  (\E g \in Objects : obj'[g].handle = i) \/ (\E p \in Ops : req'[p].new = i)
    <3>1. i \in open /\ i # None
      BY <1>5, <2>6, IocpAssumption DEF TypeInv
    <3>2. CASE i = new
      BY <1>3, <1>6, <3>2
    <3>3. CASE i # new /\ \E g \in Objects : obj[g].handle = i
      BY <1>4, <1>6, <2>6, <3>1, <3>3
    <3>4. CASE i # new /\ \E p \in Ops : req[p].new = i
      BY <1>1, <3>4 DEF new
    <3> QED BY <2>6, <3>1, <3>2, <3>3, <3>4 DEF OwnerInv
  <2> QED BY <2>1, <2>2, <2>3, <2>4, <2>5, <2>6 DEF OwnerInv
<1>10. RequestInv'
  BY <1>1 DEF RequestInv, Tame
<1>11. AttachedInv'
  <2> SUFFICES ASSUME Tame, NEW k \in Objects
               PROVE  obj'[k].attached = IF Valid(k)' THEN port[obj'[k].handle] ELSE None
    BY DEF AttachedInv, Tame
  <2>1. CASE k = s
    BY <1>6, <1>8, <2>1 DEF Valid
  <2>2. CASE k # s
    BY <1>6, <2>2 DEF AttachedInv, Valid
  <2> QED BY <2>1, <2>2
<1>12. PortInv'
  BY <1>1, <1>5 DEF PortInv
<1> QED BY <1>7, <1>9, <1>10, <1>11, <1>12

LEMMA CallbackOwns ==
  ASSUME HandlesInv, NEW x \in Contexts, NEW o \in Ops, Callback(x, o)
  PROVE  HandlesInv'
<1> USE DEF HandlesInv
<1> DEFINE f == req[o].obj
<1>1. HandleOp(x, o)
  BY DEF Callback
<1>2. /\ req' = [req EXCEPT ![o] = Free]
      /\ UNCHANGED port
      /\ ioNum' \in [Contexts -> Int] /\ packets' \in [Contexts -> Seq(Ops \cup {Wake})]
      /\ PacketInv' /\ CoverInv'
  BY <1>1, CompletionIsOwn
<1>3. f \notin Acceptors => open \ {req[o].new} = open
  BY IocpAssumption DEF OwnInv, TypeInv, RequestInv
<1>4. ASSUME f \in Files, NEW n \in Nat, Advance(f, req[o].h, req[o].off, n)
      PROVE  OwnInv'
  <2>1. f \in Objects /\ f \notin Acceptors
    BY <1>4, HandlesAssumption DEF Objects
  <2>2. obj[f] \in ObjectValues
    BY <2>1 DEF OwnInv, TypeInv
  <2>3. obj' = [obj EXCEPT ![f] = [obj[f] EXCEPT !.offset = @ + n]] /\ open' = open
    BY <1>4 DEF Advance
  <2> HIDE DEF f
  <2>4. [obj[f] EXCEPT !.offset = @ + n] \in ObjectValues
    BY <2>2 DEF ObjectValues
  <2>5. obj' \in [Objects -> ObjectValues]
    BY <2>1, <2>3, <2>4 DEF OwnInv, TypeInv
  <2>6. \A g \in Objects : UNCHANGED <<obj[g].handle, obj[g].attached>>
    BY <2>1, <2>2, <2>3 DEF OwnInv, TypeInv, ObjectValues
  <2>7. open' = open \ {req[o].new}
    BY <1>3, <2>1, <2>3
  <2> QED BY <1>2, <2>5, <2>6, <2>7, DropOwns
<1>5. ASSUME f \in Acceptors, Drop(req[o].new) PROVE OwnInv'
  <2>1. obj' = obj /\ open' = open \ {req[o].new}
    BY <1>5 DEF Drop
  <2>2. obj' \in [Objects -> ObjectValues] /\ \A g \in Objects : UNCHANGED <<obj[g].handle, obj[g].attached>>
    BY <2>1 DEF OwnInv, TypeInv
  <2> QED BY <1>2, <2>1, <2>2, DropOwns
<1>6. ASSUME NEW s \in Sockets, Give(req[o].new, s) PROVE OwnInv'
  BY <1>2, <1>6, GiveOwns
<1>7. ASSUME f \in RandomFiles \cup Sockets, UNCHANGED objectVars PROVE OwnInv'
  <2>1. f \notin Acceptors
    BY <1>7, HandlesAssumption
  <2>2. obj' = obj /\ open' = open \ {req[o].new}
    BY <1>3, <1>7, <2>1 DEF objectVars
  <2>3. obj' \in [Objects -> ObjectValues] /\ \A g \in Objects : UNCHANGED <<obj[g].handle, obj[g].attached>>
    BY <2>2 DEF OwnInv, TypeInv
  <2> QED BY <1>2, <2>2, <2>3, DropOwns
<1>8. OwnInv'
  <2>1. CASE f \in Files /\ \E n \in Readable(req[o].off) : Advance(f, req[o].h, req[o].off, n)
    <3>1. PICK n \in Nat : Advance(f, req[o].h, req[o].off, n)
      BY <2>1, HandlesAssumption DEF Readable
    <3> QED BY <1>4, <2>1, <3>1
  <2> QED BY <1>5, <1>6, <1>7, <2>1 DEF Callback
<1> QED BY <1>2, <1>8

-----------------------------------------------------------------------------
(***************************************************************************)
(* The steps of the specification.                                         *)
(***************************************************************************)
LEMMA InitHandlesInv == HandlesInit => HandlesInv
  BY NothingInv DEF HandlesInit, IocpInit, Each, Nothing

LEMMA FatalOwns ==
  ASSUME NEW x \in Contexts, NEW f \in Objects, Fatal(x, f)
  PROVE  HandlesInv'
<1>1. Nothing'
  BY DEF Fatal, Ended, Each, Nothing
<1>2. Nothing' => HandlesInv'
  BY NothingInv, PTL
<1> QED BY <1>1, <1>2

LEMMA UserStepOwns ==
  ASSUME HandlesInv, NEW x \in Contexts, UserStep(x)
  PROVE  HandlesInv'
<1>1. ASSUME NEW f \in Objects, NEW h \in Handles, Open(x, f, h) PROVE HandlesInv'
  <2>1. OwnInv'
    BY <1>1, OpenOwns
  <2>2. UNCHANGED <<packets, req, ioNum>>
    BY <1>1 DEF Open, iocpVars
  <2>3. PacketInv'
    BY <2>2, PacketsStay DEF HandlesInv, OwnInv
  <2>4. CoverInv'
    BY <2>2 DEF HandlesInv, CoverInv, IoNumCovers, InFlight, Tame
  <2> QED BY <2>1, <2>3, <2>4 DEF HandlesInv
<1>2. ASSUME NEW kind \in Kinds, NEW f \in kind, NEW g \in kind, Move(x, f, g) PROVE HandlesInv'
  <2>1. f \in Objects /\ g \in Objects /\ (f \in RandomFiles) = (g \in RandomFiles)
    BY HandlesAssumption DEF Kinds, Objects
  <2>2. OwnInv'
    BY <1>2, <2>1, MoveOwns
  <2>3. UNCHANGED <<packets, req, ioNum>>
    BY <1>2 DEF Move, iocpVars
  <2>4. PacketInv'
    BY <2>3, PacketsStay DEF HandlesInv, OwnInv
  <2>5. CoverInv'
    BY <2>3 DEF HandlesInv, CoverInv, IoNumCovers, InFlight, Tame
  <2> QED BY <2>2, <2>4, <2>5 DEF HandlesInv
<1>3. ASSUME NEW f \in Objects, Close(x, f) PROVE HandlesInv'
  <2>1. OwnInv' /\ \A o \in Ops : UNCHANGED <<req[o].st, req[o].ctx, req[o].port>>
    BY <1>3, CloseOwns
  <2>2. UNCHANGED <<packets, ioNum>>
    BY <1>3 DEF Close
  <2>3. PacketInv'
    BY <2>1, <2>2, PacketsStay DEF HandlesInv, OwnInv
  <2>4. CoverInv'
    BY <2>1, <2>2, CoverStays DEF HandlesInv, OwnInv, TypeInv, CoverInv, Tame
  <2> QED BY <2>1, <2>3, <2>4 DEF HandlesInv
<1>4. ASSUME NEW f \in Objects, NEW o \in Ops, Start(x, f, o) PROVE HandlesInv'
  <2>1. /\ MayUse(x, f) /\ Submit(x, o, f, obj[f].handle, obj[f].offset, None, Ports(x, f))
        /\ AttachContext(x, f) /\ open' = open \cup ({None} \ {None}) /\ obj[f].offset \in Nat
    BY <1>4 DEF Start, HandlesInv, OwnInv, TypeInv, ObjectValues
  <2> QED BY <2>1, SubmitOwns DEF HandlesInv
<1>5. ASSUME NEW f \in Objects, NEW o \in Ops, NEW new \in Handles, Accept(x, f, o, new)
      PROVE  HandlesInv'
  <2>1. /\ MayUse(x, f) /\ Submit(x, o, f, obj[f].handle, 0, new, Ports(x, f))
        /\ AttachContext(x, f) /\ open' = open \cup ({new} \ {None})
        /\ f \in Acceptors /\ new \notin open
    BY <1>5, IocpAssumption DEF Accept, Fresh
  <2> QED BY <2>1, SubmitOwns DEF HandlesInv
<1> QED BY <1>1, <1>2, <1>3, <1>4, <1>5, RefusedOwns, FatalOwns DEF UserStep

LEMMA PortStepOwns ==
  ASSUME HandlesInv, NEW x \in Contexts, PollStep(x) \/ WakeUp(x), UNCHANGED objectVars
  PROVE  HandlesInv'
<1> USE DEF HandlesInv
<1>1. UNCHANGED <<req, port, ioNum, obj, open>>
  BY DEF PollStep, PollEnters, HandleWake, CallbackReturns, WaitEnds, LookEnds, WakeUp, objectVars
<1>2. PacketInv' /\ packets' \in [Contexts -> Seq(Ops \cup {Wake})]
  <2>1. CASE packets' = packets
    BY <1>1, <2>1, PacketsStay DEF OwnInv, TypeInv
  <2>2. CASE HandleWake(x)
    <3>1. packets[x] # <<>> /\ packets' = [packets EXCEPT ![x] = Tail(@)]
      BY <2>2 DEF HandleWake, Taken
    <3> QED BY <1>1, <3>1, PacketTaken DEF OwnInv
  <2>3. CASE WakeUp(x)
    <3>1. packets' = [packets EXCEPT ![x] = Append(@, Wake)] /\ Wake \notin Ops
      BY <2>3, IocpAssumption DEF WakeUp
    <3> QED BY <1>1, <3>1, PacketAdded DEF OwnInv
  <2> QED BY <2>1, <2>2, <2>3 DEF PollStep, PollEnters, CallbackReturns, WaitEnds, LookEnds
<1>3. OwnInv'
  <2>1. TypeInv'
    BY <1>1, <1>2 DEF OwnInv, TypeInv
  <2>2. OwnerInv' /\ RequestInv' /\ AttachedInv' /\ PortInv'
    BY <1>1 DEF OwnInv, OwnerInv, RequestInv, AttachedInv, PortInv, Valid, Tame
  <2> QED BY <2>1, <2>2 DEF OwnInv
<1>4. CoverInv'
  BY <1>1 DEF CoverInv, IoNumCovers, InFlight, Tame
<1> QED BY <1>2, <1>3, <1>4

LEMMA CompleteOwns ==
  ASSUME HandlesInv, NEW o \in Ops, Complete(o), UNCHANGED objectVars
  PROVE  HandlesInv'
<1> USE DEF HandlesInv, OwnInv
<1>1. PICK result \in {"ok", "err"} : req' = [req EXCEPT ![o].st = result]
  BY DEF Complete
<1> DEFINE x == req[o].port
<1>2. /\ req[o].st = "kernel" /\ x \in Contexts
      /\ packets' = [packets EXCEPT ![x] = Append(@, o)]
      /\ UNCHANGED <<port, ioNum, obj, open>>
  BY DEF Complete, objectVars, TypeInv, Requests
<1>3. /\ req'[o] = [req[o] EXCEPT !.st = result] /\ req[o] \in Requests
      /\ \A p \in Ops : p # o => req'[p] = req[p]
  BY <1>1 DEF TypeInv
<1>4. /\ req'[o].st = result /\ req'[o] \in Requests
      /\ \A p \in Ops : UNCHANGED <<req[p].ctx, req[p].obj, req[p].new, req[p].port>>
  BY <1>3 DEF Requests
<1>5. PacketInv' /\ packets' \in [Contexts -> Seq(Ops \cup {Wake})]
  <2>1. req'[o].st \in {"ok", "err"} /\ req'[o].port = x
    BY <1>4
  <2>2. \A p \in Ops : p # o => req'[p].st = req[p].st /\ req'[p].port = req[p].port
    BY <1>3
  <2> HIDE DEF x
  <2> QED BY <1>2, <2>1, <2>2, PacketAdded
<1>6. TypeInv'
  BY <1>1, <1>2, <1>4, <1>5 DEF TypeInv
<1>7. OwnerInv'
  BY <1>2, <1>4 DEF OwnerInv, Valid
<1>8. RequestInv'
  <2> SUFFICES ASSUME NEW p \in Ops
               PROVE  /\ req'[p].st = "free" => req'[p] = Free
                      /\ req'[p].new # None => req'[p].obj \in Acceptors
                      /\ Tame => req'[p].port = req'[p].ctx
    BY DEF RequestInv, Tame
  <2>1. req'[p].st = "free" => req'[p] = Free
    <3>1. CASE p = o
      BY <1>4, <3>1
    <3>2. CASE p # o
      BY <1>3, <3>2 DEF RequestInv
    <3> QED BY <3>1, <3>2
  <2>2. req'[p].new # None => req'[p].obj \in Acceptors
    BY <1>4 DEF RequestInv
  <2>3. Tame => req'[p].port = req'[p].ctx
    BY <1>4 DEF RequestInv
  <2> QED BY <2>1, <2>2, <2>3
<1>9. AttachedInv' /\ PortInv'
  BY <1>2, <1>4 DEF AttachedInv, PortInv, Valid, Tame
<1>10. CoverInv'
  <2>1. \A p \in Ops : (req'[p].st = "free") = (req[p].st = "free") /\ req'[p].ctx = req[p].ctx
    BY <1>2, <1>3, <1>4
  <2> QED BY <1>2, <2>1, CoverStays DEF TypeInv, CoverInv, Tame
<1> QED BY <1>5, <1>6, <1>7, <1>8, <1>9, <1>10

LEMMA NextHandlesInv == HandlesInv /\ [HandlesNext]_handleVars => HandlesInv'
<1> SUFFICES ASSUME HandlesInv, [HandlesNext]_handleVars PROVE HandlesInv'
  OBVIOUS
<1>1. CASE UNCHANGED handleVars
  <2>1. UNCHANGED <<req, port, ioNum, obj, open, packets>>
    BY <1>1 DEF handleVars, iocpVars, objectVars
  <2>2. TypeInv' /\ OwnerInv' /\ RequestInv' /\ AttachedInv' /\ PortInv'
    BY <2>1 DEF HandlesInv, OwnInv, TypeInv, OwnerInv, RequestInv, AttachedInv, PortInv, Valid, Tame
  <2>3. PacketInv' /\ CoverInv'
    BY <2>1 DEF HandlesInv, PacketInv, CoverInv, IoNumCovers, InFlight, Tame
  <2> QED BY <2>2, <2>3 DEF HandlesInv, OwnInv
<1>2. ASSUME NEW x \in Contexts, UserStep(x) PROVE HandlesInv'
  BY <1>2, UserStepOwns
<1>3. ASSUME NEW x \in Contexts, NEW o \in Ops, Callback(x, o) PROVE HandlesInv'
  BY <1>3, CallbackOwns
<1>4. ASSUME NEW x \in Contexts, PollStep(x) \/ WakeUp(x), UNCHANGED objectVars PROVE HandlesInv'
  BY <1>4, PortStepOwns
<1>5. ASSUME NEW o \in Ops, Complete(o), UNCHANGED objectVars PROVE HandlesInv'
  BY <1>5, CompleteOwns
<1> QED BY <1>1, <1>2, <1>3, <1>4, <1>5 DEF HandlesNext

LEMMA HandlesAlwaysInv == HandlesSpec => []HandlesInv
<1>1. HandlesInv /\ [HandlesNext]_handleVars => HandlesInv'
  BY NextHandlesInv
<1> QED BY InitHandlesInv, <1>1, PTL DEF HandlesSpec

-----------------------------------------------------------------------------
(***************************************************************************)
(* What follows for the user of files and sockets.                         *)
(***************************************************************************)
\* Every operation completes in the port of the context that submitted it,
\* whatever was moved between threads, however often: only the attached_ of a
\* RandomAccessFile that was moved after its first use can make it go astray.
THEOREM OperationsCompleteAtHome ==
  ASSUME Careful \/ RandomFiles = {}
  PROVE  HandlesSpec => []CompletesAtHome
<1>1. HandlesInv => CompletesAtHome
  BY DEF HandlesInv, OwnInv, RequestInv, CompletesAtHome, InFlight, Tame
<1> QED BY HandlesAlwaysInv, <1>1, PTL

\* io_num never falls below what is outstanding: poll(0) never returns without
\* a look at a port that will get a completion, and the count does not wrap.
THEOREM IoNumAlwaysCovers ==
  ASSUME Careful \/ RandomFiles = {}
  PROVE  HandlesSpec => []IoNumCovers
<1>1. HandlesInv => IoNumCovers
  BY DEF HandlesInv, CoverInv, Tame
<1> QED BY HandlesAlwaysInv, <1>1, PTL

\* One owner makes a set of one.
LEMMA OwnersCounted ==
  ASSUME HandlesInv, NEW h \in Handles
  PROVE  /\ Cardinality(Owners(h)) \in 0 .. (IF h \in open THEN 1 ELSE 0)
         /\ Careful => Cardinality(Owners(h)) = IF h \in open THEN 1 ELSE 0
<1> USE DEF HandlesInv, OwnInv
<1>1. h # None
  BY IocpAssumption
<1>2. \A o \in Ops : req[o].new = h => o \in InFlight
  BY <1>1 DEF InFlight, RequestInv, Free
<1>3. CASE Owners(h) = {}
  <2>1. Cardinality(Owners(h)) = 0
    BY <1>3, FS_EmptySet, Zenon
  <2>2. Careful => h \notin open
    BY <1>2, <1>3 DEF Owners, OwnerInv
  <2> QED BY <2>1, <2>2
<1>4. CASE \E f \in Objects : obj[f].handle = h
  <2>1. PICK f \in Objects : obj[f].handle = h
    BY <1>4
  <2>2. Owners(h) = {f} /\ h \in open
    BY <1>1, <2>1 DEF Owners, OwnerInv, InFlight, Valid
  <2>3. Cardinality(Owners(h)) = 1
    BY <2>2, FS_Singleton, Zenon
  <2> QED BY <2>2, <2>3
<1>5. CASE \E o \in Ops : req[o].new = h
  <2>1. PICK o \in Ops : req[o].new = h
    BY <1>5
  <2>2. Owners(h) = {o} /\ h \in open
    BY <1>1, <1>2, <2>1 DEF Owners, OwnerInv, InFlight, Valid
  <2>3. Cardinality(Owners(h)) = 1
    BY <2>2, FS_Singleton, Zenon
  <2> QED BY <2>2, <2>3
<1>6. Owners(h) = {} \/ (\E f \in Objects : obj[f].handle = h) \/ (\E o \in Ops : req[o].new = h)
  BY DEF Owners, InFlight
<1> QED BY <1>3, <1>4, <1>5, <1>6

\* With careful users an open handle has exactly one owner and a closed one
\* none: none leaks, none is closed twice, accepted sockets on their way
\* included.
THEOREM HandlesAreOwnedOnce == ASSUME Careful PROVE HandlesSpec => []OwnedOnce
<1>1. HandlesInv => OwnedOnce
  BY OwnersCounted DEF OwnedOnce
<1> QED BY HandlesAlwaysInv, <1>1, PTL

\* Whatever is moved, overwritten or closed with operations outstanding, no
\* handle has two owners that would both close it, and a closed one has none.
THEOREM HandlesAreNotShared == HandlesSpec => []ClosedOnce
<1>1. HandlesInv => ClosedOnce
  <2> SUFFICES ASSUME HandlesInv, NEW h \in Handles
               PROVE  Cardinality(Owners(h)) <= IF h \in open THEN 1 ELSE 0
    BY DEF ClosedOnce
  <2>1. Cardinality(Owners(h)) \in 0 .. (IF h \in open THEN 1 ELSE 0)  BY OwnersCounted
  <2> QED BY <2>1
<1> QED BY HandlesAlwaysInv, <1>1, PTL

-----------------------------------------------------------------------------
(***************************************************************************)
(* The read offset.  It is true because a File with an operation that may  *)
(* still read has the handle and the offset that this was given: nobody    *)
(* moves it, opens it or starts another operation on it in between, and    *)
(* close() leaves both without a handle.                                   *)
(***************************************************************************)
OffsetInv ==
    /\ done \in [Handles -> SUBSET Int]
    /\ OffsetsTrue
    /\ \A o \in Ops : req[o].st # "free" /\ req[o].obj \in Files =>
           /\ req[o].h = obj[req[o].obj].handle
           /\ req[o].h # None => req[o].off = obj[req[o].obj].offset
           /\ \A p \in Ops : req[p].st # "free" /\ req[p].obj = req[o].obj => p = o

\* Steps that read nothing, give no File a handle and start nothing on one.
LEMMA OffsetsKept ==
  ASSUME OffsetInv, done' = done,
         \A f \in Files : UNCHANGED <<obj[f].handle, obj[f].offset>>,
         \A o \in Ops : req'[o].st # "free" /\ req'[o].obj \in Files =>
             /\ req'[o].h = req[o].h /\ req'[o].off = req[o].off
             /\ req'[o].obj = req[o].obj /\ req[o].st # "free"
  PROVE  OffsetInv'
<1>1. OffsetsTrue'
  BY DEF OffsetInv, OffsetsTrue, Valid
<1>2. ASSUME NEW o \in Ops, req'[o].st # "free", req'[o].obj \in Files
      PROVE  /\ req'[o].h = obj'[req'[o].obj].handle
             /\ req'[o].h # None => req'[o].off = obj'[req'[o].obj].offset
             /\ \A p \in Ops : req'[p].st # "free" /\ req'[p].obj = req'[o].obj => p = o
  BY <1>2 DEF OffsetInv
<1> QED BY <1>1, <1>2 DEF OffsetInv

LEMMA OpenOffset ==
  ASSUME Careful, HandlesInv, OffsetInv, NEW x \in Contexts, NEW f \in Objects, NEW h \in Handles,
         Open(x, f, h)
  PROVE  OffsetInv'
<1>1. PICK v \in Values(f, [Empty EXCEPT !.handle = h]) : obj' = [obj EXCEPT ![f] = v]
  BY DEF Open
<1>2. done' = [done EXCEPT ![h] = {}] /\ req' = req /\ h \notin open /\ ~Busy(f)
  BY DEF Open, Fresh, MayAssign, iocpVars
<1>3. f \in Files => obj'[f].handle = h /\ obj'[f].offset = 0
  <2> SUFFICES ASSUME f \in Files PROVE obj'[f].handle = h /\ obj'[f].offset = 0
    OBVIOUS
  <2>1. v = [Empty EXCEPT !.handle = h]
    BY <1>1, HandlesAssumption DEF Values
  <2>2. obj'[f] = v
    BY <1>1 DEF HandlesInv, OwnInv, TypeInv
  <2> QED BY <2>1, <2>2 DEF Empty
<1>4. /\ \A g \in Objects \ {f} : obj'[g] = obj[g] /\ obj[g].handle # h
      /\ done' \in [Handles -> SUBSET Int] /\ done'[h] = {}
      /\ \A i \in Handles \ {h} : done'[i] = done[i]
      /\ \A g \in Objects : obj[g].handle \in open \cup {None} /\ open \subseteq Handles
  BY <1>1, <1>2, IocpAssumption DEF HandlesInv, OwnInv, OwnerInv, TypeInv, OffsetInv
<1>5. \A o \in Ops : req[o].st # "free" => req[o].obj # f
  BY <1>2 DEF Busy, InFlight
<1>6. Files \subseteq Objects
  BY DEF Objects
<1>7. OffsetsTrue'
  <2> SUFFICES ASSUME NEW g \in Files, Valid(g)'
               PROVE  done'[obj'[g].handle] = 0 .. obj'[g].offset - 1
    BY DEF OffsetsTrue
  <2>1. CASE g = f
    <3>1. done'[obj'[g].handle] = {} /\ obj'[g].offset = 0
      BY <1>3, <1>4, <2>1
    <3> QED BY <3>1
  <2>2. CASE g # f
    <3>1. obj'[g] = obj[g] /\ obj[g].handle \in Handles \ {h} /\ Valid(g)
      BY <1>4, <1>6, <2>2 DEF Valid
    <3> QED BY <1>4, <3>1 DEF OffsetInv, OffsetsTrue
  <2> QED BY <2>1, <2>2
<1>8. \A o \in Ops : req[o].st # "free" /\ req[o].obj \in Files =>
         obj'[req[o].obj] = obj[req[o].obj]
  BY <1>4, <1>5, <1>6
<1> QED BY <1>2, <1>4, <1>7, <1>8 DEF OffsetInv

LEMMA MoveOffset ==
  ASSUME Careful, HandlesInv, OffsetInv, NEW x \in Contexts, NEW f \in Objects, NEW g \in Objects,
         f \in Files <=> g \in Files, Move(x, f, g)
  PROVE  OffsetInv'
<1>1. PICK v \in Values(g, obj[f]) : obj' = [obj EXCEPT ![g] = v, ![f] = Empty]
  BY DEF Move
<1>2. done' = done /\ req' = req /\ ~Busy(f) /\ ~Busy(g)
  BY DEF Move, MayMove, MayAssign, iocpVars
<1>3. /\ \A k \in Objects \ {f, g} : obj'[k] = obj[k]
      /\ f # g => obj'[g] = v
      /\ obj'[f].handle = None
  BY <1>1 DEF HandlesInv, OwnInv, TypeInv, Empty
<1>4. g \in Files => v = obj[f]
  BY <1>1, HandlesAssumption DEF Values
<1>5. \A o \in Ops : req[o].st # "free" => req[o].obj \notin {f, g}
  BY <1>2 DEF Busy, InFlight
<1>6. Files \subseteq Objects
  BY DEF Objects
<1>7. OffsetsTrue'
  <2> SUFFICES ASSUME NEW k \in Files, Valid(k)'
               PROVE  done[obj'[k].handle] = 0 .. obj'[k].offset - 1
    BY <1>2 DEF OffsetsTrue
  <2>1. k # f
    BY <1>3 DEF Valid
  <2>2. CASE k = g
    <3>1. obj'[k] = obj[f] /\ f \in Files
      BY <1>3, <1>4, <2>1, <2>2
    <3> QED BY <3>1 DEF OffsetInv, OffsetsTrue, Valid
  <2>3. CASE k # g
    <3>1. obj'[k] = obj[k]
      BY <1>3, <1>6, <2>1, <2>3
    <3> QED BY <3>1 DEF OffsetInv, OffsetsTrue, Valid
  <2> QED BY <2>2, <2>3
<1>8. \A o \in Ops : req[o].st # "free" /\ req[o].obj \in Files =>
         obj'[req[o].obj] = obj[req[o].obj]
  BY <1>3, <1>5, <1>6
<1> QED BY <1>2, <1>7, <1>8 DEF OffsetInv

LEMMA CloseOffset ==
  ASSUME HandlesInv, OffsetInv, NEW x \in Contexts, NEW f \in Objects, Close(x, f)
  PROVE  OffsetInv'
<1> DEFINE h == obj[f].handle
<1>1. /\ h # None /\ done' = [done EXCEPT ![h] = {}] /\ obj' = [obj EXCEPT ![f] = Empty]
      /\ req' = [o \in Ops |-> IF req[o].h = h THEN [req[o] EXCEPT !.h = None] ELSE req[o]]
  BY DEF Close, Closed
<1>2. ASSUME NEW o \in Ops
      PROVE  /\ req'[o].st = req[o].st /\ req'[o].obj = req[o].obj /\ req'[o].off = req[o].off
             /\ req'[o].h = IF req[o].h = h THEN None ELSE req[o].h
  <2>1. req[o] \in Requests
    BY DEF HandlesInv, OwnInv, TypeInv
  <2> HIDE DEF h
  <2> QED BY <1>1, <2>1 DEF Requests
<1>3. /\ obj'[f].handle = None
      /\ \A g \in Objects \ {f} : obj'[g] = obj[g] /\ obj[g].handle # h
  BY <1>1 DEF HandlesInv, OwnInv, OwnerInv, TypeInv, Empty, Valid
<1>4. /\ Files \subseteq Objects
      /\ \A g \in Objects : obj[g].handle \in Handles \cup {None}
  BY DEF Objects, HandlesInv, OwnInv, TypeInv, ObjectValues
<1>5. /\ done' \in [Handles -> SUBSET Int]
      /\ \A i \in Handles : i # h => done'[i] = done[i]
  BY <1>1 DEF OffsetInv
<1> HIDE DEF h
<1>6. OffsetsTrue'
  <2> SUFFICES ASSUME NEW g \in Files, Valid(g)'
               PROVE  done'[obj'[g].handle] = 0 .. obj'[g].offset - 1
    BY DEF OffsetsTrue
  <2>1. g # f
    BY <1>3 DEF Valid
  <2>2. obj'[g] = obj[g] /\ obj[g].handle # h /\ Valid(g)
    BY <1>3, <1>4, <2>1 DEF Valid
  <2>3. obj[g].handle \in Handles
    BY <1>4, <2>2 DEF Valid
  <2> QED BY <1>5, <2>2, <2>3 DEF OffsetInv, OffsetsTrue
<1>7. ASSUME NEW o \in Ops, req[o].st # "free", req[o].obj \in Files
      PROVE  /\ req'[o].h = obj'[req[o].obj].handle
             /\ req'[o].h # None => req[o].off = obj'[req[o].obj].offset
  <2>1. /\ req[o].h = obj[req[o].obj].handle
        /\ req[o].h # None => req[o].off = obj[req[o].obj].offset
    BY <1>7 DEF OffsetInv
  <2>2. CASE req[o].obj = f
    BY <1>2, <1>3, <2>1, <2>2 DEF h
  <2>3. CASE req[o].obj # f
    BY <1>2, <1>3, <1>4, <1>7, <2>1, <2>3
  <2> QED BY <2>2, <2>3
<1>8. \A o, p \in Ops :
         req[o].st # "free" /\ req[o].obj \in Files /\ req[p].st # "free" /\ req[p].obj = req[o].obj
         => p = o
  BY DEF OffsetInv
<1> QED BY <1>2, <1>5, <1>6, <1>7, <1>8 DEF OffsetInv

\* attach_context() changes no handle and no offset.
LEMMA AttachOffset ==
  ASSUME HandlesInv, NEW x \in Contexts, NEW f \in Objects, AttachContext(x, f)
  PROVE  \A g \in Objects : UNCHANGED <<obj[g].handle, obj[g].offset>>
<1>1. CASE ~Valid(f)
  BY <1>1 DEF AttachContext
<1>2. CASE Valid(f)
  <2>1. obj' = [obj EXCEPT ![f] = [obj[f] EXCEPT !.attached = x]]
    BY <1>2 DEF AttachContext
  <2>2. obj[f] \in ObjectValues
    BY DEF HandlesInv, OwnInv, TypeInv
  <2> QED BY <2>1, <2>2 DEF HandlesInv, OwnInv, TypeInv, ObjectValues
<1> QED BY <1>1, <1>2

\* An operation that starts on a File is the only one and gets its offset.
LEMMA SubmitOffset ==
  ASSUME Careful, HandlesInv, OffsetInv, NEW x \in Contexts, NEW f \in Objects, NEW o \in Ops,
         Start(x, f, o) \/ \E new \in Handles : Accept(x, f, o, new)
  PROVE  OffsetInv'
<1>1. PICK new, off : /\ Submit(x, o, f, obj[f].handle, off, new, Ports(x, f))
                      /\ f \in Files => off = obj[f].offset /\ ~Busy(f)
  BY HandlesAssumption DEF Start, Accept
<1>2. done' = done /\ AttachContext(x, f)
  BY DEF Start, Accept
<1>3. \A g \in Objects : UNCHANGED <<obj[g].handle, obj[g].offset>>
  BY <1>2, AttachOffset
<1>4. /\ req'[o].obj = f /\ req'[o].h = obj[f].handle /\ req'[o].off = off
      /\ \A p \in Ops \ {o} : req'[p] = req[p]
  BY <1>1 DEF Submit, HandlesInv, OwnInv, TypeInv
<1>5. Files \subseteq Objects
  BY DEF Objects
<1>6. OffsetsTrue'
  BY <1>2, <1>3, <1>5 DEF OffsetInv, OffsetsTrue, Valid
<1>7. f \in Files => \A p \in Ops : req[p].st # "free" => req[p].obj # f
  BY <1>1 DEF Busy, InFlight
<1>8. ASSUME NEW q \in Ops, req'[q].st # "free", req'[q].obj \in Files
      PROVE  /\ req'[q].h = obj'[req'[q].obj].handle
             /\ req'[q].h # None => req'[q].off = obj'[req'[q].obj].offset
             /\ \A p \in Ops : req'[p].st # "free" /\ req'[p].obj = req'[q].obj => p = q
  <2>1. CASE q = o
    BY <1>1, <1>3, <1>4, <1>7, <1>8, <2>1
  <2>2. CASE q # o
    <3>1. /\ req[q].h = obj[req[q].obj].handle
          /\ req[q].h # None => req[q].off = obj[req[q].obj].offset
          /\ \A p \in Ops : req[p].st # "free" /\ req[p].obj = req[q].obj => p = q
      BY <1>4, <1>8, <2>2 DEF OffsetInv
    <3> QED BY <1>3, <1>4, <1>5, <1>7, <1>8, <2>2, <3>1
  <2> QED BY <2>1, <2>2
<1> QED BY <1>2, <1>6, <1>8 DEF OffsetInv

LEMMA CallbackOffset ==
  ASSUME HandlesInv, OffsetInv, NEW x \in Contexts, NEW o \in Ops, Callback(x, o)
  PROVE  OffsetInv'
<1> DEFINE f == req[o].obj
<1>1. HandleOp(x, o)
  BY DEF Callback
<1>2. /\ req' = [req EXCEPT ![o] = Free] /\ packets[x] # <<>> /\ Head(packets[x]) = o
  BY <1>1 DEF HandleOp, Taken
<1>3. req[o].st # "free"
  <2>1. packets[x] \in Seq(Ops \cup {Wake}) /\ 1 \in 1 .. Len(packets[x]) /\ packets[x][1] = o
    BY <1>2 DEF HandlesInv, OwnInv, TypeInv
  <2> QED BY <2>1 DEF HandlesInv, PacketInv
<1>4. req'[o].st = "free" /\ \A p \in Ops \ {o} : req'[p] = req[p]
  BY <1>2 DEF HandlesInv, OwnInv, TypeInv, Free
<1>5. Files \subseteq Objects
  BY DEF Objects
<1>6. ASSUME done' = done, \A g \in Files : UNCHANGED <<obj[g].handle, obj[g].offset>>
      PROVE  OffsetInv'
  BY <1>4, <1>6, OffsetsKept
<1>7. ASSUME f \in Files, NEW n \in Nat, Advance(f, req[o].h, req[o].off, n)
      PROVE  OffsetInv'
  <2>1. /\ req[o].h = obj[f].handle
        /\ req[o].h # None => req[o].off = obj[f].offset
        /\ \A p \in Ops \ {o} : req[p].st # "free" => req[p].obj # f
    BY <1>3, <1>7 DEF OffsetInv
  <2> HIDE DEF f
  <2>2. f \in Objects /\ obj[f].offset \in Nat /\ obj[f].handle \in Handles \cup {None}
    BY <1>5, <1>7 DEF HandlesInv, OwnInv, TypeInv, ObjectValues
  <2>3. /\ obj'[f].handle = obj[f].handle /\ obj'[f].offset = obj[f].offset + n
        /\ \A g \in Objects \ {f} : obj'[g] = obj[g]
    <3>1. obj' = [obj EXCEPT ![f] = [obj[f] EXCEPT !.offset = @ + n]]
      BY <1>7 DEF Advance
    <3>2. obj[f] \in ObjectValues /\ obj \in [Objects -> ObjectValues]
      BY <2>2 DEF HandlesInv, OwnInv, TypeInv
    <3> QED BY <2>2, <3>1, <3>2 DEF ObjectValues
  <2>4. CASE Valid(f)
    <3>1. /\ done' = [done EXCEPT ![obj[f].handle] = @ \cup (obj[f].offset .. obj[f].offset + n - 1)]
          /\ obj[f].handle \in Handles
      BY <1>7, <2>1, <2>2, <2>4 DEF Advance, Valid
    <3>2. /\ done' \in [Handles -> SUBSET Int]
          /\ done'[obj[f].handle] = 0 .. obj[f].offset + n - 1
          /\ \A h \in Handles : h # obj[f].handle => done'[h] = done[h]
      <4>1. done \in [Handles -> SUBSET Int] /\ done[obj[f].handle] = 0 .. obj[f].offset - 1
        BY <1>7, <2>4 DEF OffsetInv, OffsetsTrue
      <4>2. (0 .. obj[f].offset - 1) \cup (obj[f].offset .. obj[f].offset + n - 1)
              = 0 .. obj[f].offset + n - 1
        BY <2>2
      <4>3. done'[obj[f].handle] = done[obj[f].handle] \cup (obj[f].offset .. obj[f].offset + n - 1)
        BY <3>1, <4>1
      <4>4. \A h \in Handles : done'[h] \in SUBSET Int /\ (h # obj[f].handle => done'[h] = done[h])
        <5>1. obj[f].offset .. obj[f].offset + n - 1 \subseteq Int
          BY <2>2
        <5> QED BY <3>1, <4>1, <5>1
      <4> QED BY <3>1, <4>2, <4>1, <4>3, <4>4
    <3>3. ASSUME NEW g \in Files, Valid(g)' PROVE done'[obj'[g].handle] = 0 .. obj'[g].offset - 1
      <4>1. CASE g = f
        <5>1. obj'[g].handle = obj[f].handle /\ obj'[g].offset = obj[f].offset + n
          BY <2>3, <4>1
        <5>2. obj'[g].offset - 1 = obj[f].offset + n - 1
          BY <2>2, <5>1
        <5>3. done'[obj'[g].handle] = done'[obj[f].handle]
          BY <5>1
        <5>4. done'[obj[f].handle] = 0 .. obj[f].offset + n - 1
          BY <3>2
        <5> QED BY <5>2, <5>3, <5>4
      <4>2. CASE g # f
        <5>1. obj'[g] = obj[g] /\ Valid(g)
          BY <1>5, <2>3, <3>3, <4>2 DEF Valid
        <5>2. obj[g].handle # obj[f].handle /\ obj[g].handle \in Handles
          BY <1>5, <2>2, <4>2, <5>1
             DEF Valid, HandlesInv, OwnInv, OwnerInv, TypeInv, ObjectValues
        <5> QED BY <3>2, <5>1, <5>2 DEF OffsetInv, OffsetsTrue
      <4> QED BY <4>1, <4>2
    <3> QED BY <1>4, <1>5, <2>1, <2>3, <3>2, <3>3 DEF OffsetInv, OffsetsTrue
  <2>5. CASE ~Valid(f)
    <3>1. done' = done
      BY <1>7, <2>1, <2>5 DEF Advance, Valid
    <3>2. OffsetsTrue'
      BY <1>5, <2>3, <2>5, <3>1 DEF OffsetInv, OffsetsTrue, Valid
    <3> QED BY <1>4, <1>5, <2>1, <2>3, <3>1, <3>2 DEF OffsetInv
  <2> QED BY <2>4, <2>5
<1>8. ASSUME NEW s \in Sockets, Give(req[o].new, s) PROVE OffsetInv'
  <2>1. s \in Objects /\ s \notin Files /\ done' = done
    BY <1>8, HandlesAssumption DEF Objects, Give
  <2>2. \A g \in Objects \ {s} : obj'[g] = obj[g]
    BY <1>8 DEF Give, HandlesInv, OwnInv, TypeInv
  <2> QED BY <1>5, <1>6, <2>1, <2>2
<1>9. CASE f \in Files /\ \E n \in Readable(req[o].off) : Advance(f, req[o].h, req[o].off, n)
  <2>1. PICK n \in Readable(req[o].off) : Advance(f, req[o].h, req[o].off, n)
    BY <1>9
  <2>2. n \in Nat
    BY <2>1, HandlesAssumption DEF Readable
  <2> QED BY <1>7, <1>9, <2>1, <2>2
<1>10. CASE Drop(req[o].new) \/ UNCHANGED objectVars
  <2>1. done' = done /\ obj' = obj
    BY <1>10 DEF Drop, objectVars
  <2> QED BY <1>6, <2>1
<1> QED BY <1>8, <1>9, <1>10 DEF Callback

LEMMA NextOffsetInv ==
  ASSUME Careful
  PROVE  HandlesInv /\ OffsetInv /\ [HandlesNext]_handleVars => OffsetInv'
<1> SUFFICES ASSUME HandlesInv, OffsetInv, [HandlesNext]_handleVars PROVE OffsetInv'
  OBVIOUS
<1>1. Files \subseteq Objects
  BY DEF Objects
<1>2. ASSUME NEW x \in Contexts, NEW kind \in Kinds, NEW f \in kind, NEW g \in kind, Move(x, f, g)
      PROVE  OffsetInv'
  <2>1. f \in Objects /\ g \in Objects /\ (f \in Files <=> g \in Files)
    BY HandlesAssumption DEF Kinds, Objects
  <2> QED BY <1>2, <2>1, MoveOffset
<1>3. ASSUME NEW x \in Contexts, NEW f \in Objects, Refused(x, f) PROVE OffsetInv'
  <2>1. done' = done /\ req' = req /\ AttachContext(x, f)
    BY <1>3 DEF Refused, SubmitFails
  <2> QED BY <1>1, <2>1, AttachOffset, OffsetsKept
<1>4. ASSUME NEW x \in Contexts, NEW f \in Objects, Fatal(x, f) PROVE OffsetInv'
  <2>1. /\ obj' = [g \in Objects |-> Empty] /\ done' = [h \in Handles |-> {}]
        /\ req' = [o \in Ops |-> Free]
    BY <1>4 DEF Fatal, Ended
  <2> QED BY <1>1, <2>1 DEF OffsetInv, OffsetsTrue, Valid, Empty, Free
<1>5. ASSUME NEW x \in Contexts, UserStep(x) PROVE OffsetInv'
  BY <1>2, <1>3, <1>4, <1>5, OpenOffset, CloseOffset, SubmitOffset DEF UserStep
<1>6. ASSUME NEW x \in Contexts, PollStep(x) \/ WakeUp(x), UNCHANGED objectVars PROVE OffsetInv'
  <2>1. req' = req /\ done' = done /\ obj' = obj
    BY <1>6 DEF PollStep, PollEnters, HandleWake, CallbackReturns, WaitEnds, LookEnds, WakeUp, objectVars
  <2> QED BY <2>1, OffsetsKept
<1>7. ASSUME NEW o \in Ops, Complete(o), UNCHANGED objectVars PROVE OffsetInv'
  <2>1. PICK result \in {"ok", "err"} : req' = [req EXCEPT ![o].st = result]
    BY <1>7 DEF Complete
  <2>2. req[o].st = "kernel" /\ done' = done /\ obj' = obj
    BY <1>7 DEF Complete, objectVars
  <2>3. \A p \in Ops : /\ req'[p].h = req[p].h /\ req'[p].obj = req[p].obj /\ req'[p].off = req[p].off
                       /\ p # o => req'[p] = req[p]
    BY <2>1 DEF HandlesInv, OwnInv, TypeInv, Requests
  <2> QED BY <2>2, <2>3, OffsetsKept
<1>8. CASE UNCHANGED handleVars
  <2>1. req' = req /\ done' = done /\ obj' = obj
    BY <1>8 DEF handleVars, iocpVars, objectVars
  <2> QED BY <2>1, OffsetsKept
<1> QED BY <1>5, <1>6, <1>7, <1>8, CallbackOffset DEF HandlesNext

\* The bytes below read_offset_ were read through the file, each by the one
\* operation that was given its offset, for any files and operations, however
\* they are moved between threads and closed with reads outstanding.
THEOREM ReadOffsetsAreTrue == ASSUME Careful PROVE HandlesSpec => []OffsetsTrue
<1>1. HandlesInit => OffsetInv
  BY DEF HandlesInit, IocpInit, OffsetInv, OffsetsTrue, Valid, Empty, Free, Objects
<1>2. HandlesInv /\ OffsetInv /\ [HandlesNext]_handleVars => OffsetInv'
  BY NextOffsetInv
<1>3. OffsetInv => OffsetsTrue
  BY DEF OffsetInv
<1> QED BY HandlesAlwaysInv, <1>1, <1>2, <1>3, PTL DEF HandlesSpec

-----------------------------------------------------------------------------
(***************************************************************************)
(* Type correctness.  Where a thread is in poll() says how many packets it *)
(* may still take, and the kernel reads no byte that the file has not.     *)
(***************************************************************************)
PollInv ==
    /\ at \in [Contexts -> {"user", "wait", "look", "callback"}]
    /\ left \in [Contexts -> 0 .. Batch]
    /\ dead \in BOOLEAN

DoneInv == done \in [Handles -> SUBSET (0 .. MaxBytes - 1)]

LEMMA NextPollInv == PollInv /\ [HandlesNext]_handleVars => PollInv'
<1> SUFFICES ASSUME PollInv, [HandlesNext]_handleVars PROVE PollInv'
  OBVIOUS
<1>1. 0 \in 0 .. Batch /\ Batch \in 0 .. Batch  BY IocpAssumption
<1>2. ASSUME NEW x \in Contexts, Taken(x) PROVE left' \in [Contexts -> 0 .. Batch]
  <2>1. left[x] \in 0 .. Batch /\ left[x] > 0 /\ left' = [left EXCEPT ![x] = @ - 1]
    BY <1>2 DEF Taken, PollInv
  <2>2. left[x] - 1 \in 0 .. Batch  BY <2>1, IocpAssumption
  <2> QED  BY <2>1, <2>2 DEF PollInv
<1>3. ASSUME NEW x \in Contexts, PollStep(x), UNCHANGED objectVars PROVE PollInv'
  <2>1. dead' = dead  BY <1>3 DEF objectVars
  <2>2. CASE \E zero \in BOOLEAN : PollEnters(x, zero)
    BY <1>1, <2>1, <2>2 DEF PollEnters, PollInv
  <2>3. CASE HandleWake(x)
    BY <1>2, <2>1, <2>3 DEF HandleWake, PollInv
  <2>4. CASE CallbackReturns(x)
    BY <2>1, <2>4 DEF CallbackReturns, PollInv
  <2>5. CASE WaitEnds(x) \/ LookEnds(x)
    BY <1>1, <2>1, <2>5 DEF WaitEnds, LookEnds, PollInv
  <2> QED  BY <1>3, <2>2, <2>3, <2>4, <2>5 DEF PollStep
<1>4. ASSUME NEW x \in Contexts, NEW o \in Ops, Callback(x, o) PROVE PollInv'
  <2>1. HandleOp(x, o) /\ dead' = dead
    BY <1>4 DEF Callback, Advance, Drop, Give, objectVars
  <2> QED  BY <1>2, <2>1 DEF HandleOp, PollInv
<1>5. ASSUME NEW x \in Contexts, NEW f \in Objects, Fatal(x, f) PROVE PollInv'
  BY <1>1, <1>5 DEF Fatal, Ended, Each, PollInv
<1>6. ASSUME NEW x \in Contexts, UserStep(x) PROVE PollInv'
  <2>1. ASSUME NEW f \in Objects, Refused(x, f) PROVE UNCHANGED <<at, left, dead>>
    BY <2>1 DEF Refused, SubmitFails
  <2>2. ASSUME NEW f \in Objects, NEW o \in Ops,
               Start(x, f, o) \/ \E new \in Handles : Accept(x, f, o, new)
        PROVE  UNCHANGED <<at, left, dead>>
    BY <2>2 DEF Start, Accept, Submit
  <2>3. ASSUME NEW f, \/ \E h \in Handles : Open(x, f, h)
                      \/ \E g : Move(x, f, g)
                      \/ Close(x, f)
        PROVE  UNCHANGED <<at, left, dead>>
    BY <2>3 DEF Open, Move, Close, iocpVars
  <2> QED  BY <1>5, <1>6, <2>1, <2>2, <2>3 DEF UserStep, PollInv
<1>7. ASSUME NEW o \in Ops, Complete(o), UNCHANGED objectVars PROVE PollInv'
  BY <1>7 DEF Complete, objectVars, PollInv
<1>8. ASSUME NEW x \in Contexts, WakeUp(x), UNCHANGED objectVars PROVE PollInv'
  BY <1>8 DEF WakeUp, objectVars, PollInv
<1>9. CASE UNCHANGED handleVars
  BY <1>9 DEF handleVars, iocpVars, objectVars, PollInv
<1> QED  BY <1>3, <1>4, <1>6, <1>7, <1>8, <1>9 DEF HandlesNext


LEMMA NextDoneInv == HandlesInv /\ DoneInv /\ [HandlesNext]_handleVars => DoneInv'
<1> SUFFICES ASSUME HandlesInv, DoneInv, [HandlesNext]_handleVars PROVE DoneInv'
  OBVIOUS
<1>1. ASSUME NEW h, done' = [done EXCEPT ![h] = {}] PROVE DoneInv'
  BY <1>1 DEF DoneInv
<1>2. ASSUME done' = done PROVE DoneInv'
  BY <1>2 DEF DoneInv
<1>3. ASSUME NEW x \in Contexts, UserStep(x) PROVE DoneInv'
  <2>1. ASSUME NEW f, NEW h, Open(x, f, h) PROVE DoneInv'
    BY <1>1, <2>1 DEF Open
  <2>2. ASSUME NEW f, NEW g, Move(x, f, g) PROVE DoneInv'
    BY <1>2, <2>2 DEF Move
  <2>3. ASSUME NEW f, Close(x, f) PROVE DoneInv'
    BY <1>1, <2>3 DEF Close
  <2>4. ASSUME NEW f, Refused(x, f) PROVE DoneInv'
    BY <1>2, <2>4 DEF Refused
  <2>5. ASSUME NEW f, Fatal(x, f) PROVE DoneInv'
    BY <2>5 DEF Fatal, DoneInv
  <2>6. ASSUME NEW f, NEW o, Start(x, f, o) \/ \E new : Accept(x, f, o, new) PROVE DoneInv'
    BY <1>2, <2>6 DEF Start, Accept
  <2> QED BY <1>3, <2>1, <2>2, <2>3, <2>4, <2>5, <2>6 DEF UserStep
<1>4. ASSUME NEW x \in Contexts, NEW o \in Ops, Callback(x, o) PROVE DoneInv'
  <2>1. CASE \E n \in Readable(req[o].off) : Advance(req[o].obj, req[o].h, req[o].off, n)
    <3>1. PICK n \in Readable(req[o].off) : Advance(req[o].obj, req[o].h, req[o].off, n)
      BY <2>1
    <3>2. req[o].off \in Nat
      BY DEF HandlesInv, OwnInv, TypeInv, Requests
    <3>3. req[o].off .. req[o].off + n - 1 \subseteq 0 .. MaxBytes - 1
      BY <3>2, HandlesAssumption DEF Readable
    <3>4. \/ done' = done
          \/ done' = [done EXCEPT ![req[o].h] = @ \cup (req[o].off .. req[o].off + n - 1)]
      BY <3>1 DEF Advance
    <3> QED BY <3>3, <3>4 DEF DoneInv
  <2>2. CASE Drop(req[o].new) \/ (\E s \in Sockets : Give(req[o].new, s)) \/ UNCHANGED objectVars
    BY <1>2, <2>2 DEF Drop, Give, objectVars
  <2> QED BY <1>4, <2>1, <2>2 DEF Callback
<1>5. ASSUME UNCHANGED objectVars PROVE DoneInv'
  BY <1>2, <1>5 DEF objectVars
<1> QED BY <1>3, <1>4, <1>5 DEF HandlesNext, handleVars

\* The variables keep their types.  What is not in the declarations: io_num is
\* a natural number although every packet of an operation decrements it, which
\* needs an attached_ that is true, and poll() takes no more packets than its
\* limit.
THEOREM HandlesTypeCorrect == ASSUME Tame PROVE HandlesSpec => []HandlesTypeOK
<1>1. HandlesInit => PollInv /\ DoneInv
  <2>1. 0 \in 0 .. Batch
    BY IocpAssumption
  <2> QED BY <2>1 DEF HandlesInit, IocpInit, Each, PollInv, DoneInv
<1>2. HandlesInv /\ PollInv /\ DoneInv => HandlesTypeOK
  <2> SUFFICES ASSUME HandlesInv, PollInv, DoneInv PROVE HandlesTypeOK
    OBVIOUS
  <2>1. ASSUME NEW x \in Contexts PROVE ioNum[x] \in Nat
    <3>1. ioNum[x] \in Int /\ ioNum[x] >= Cardinality(Outstanding(x))
      BY DEF HandlesInv, OwnInv, TypeInv, CoverInv, IoNumCovers, Outstanding
    <3>2. Cardinality(Outstanding(x)) \in Nat
      BY OutstandingFinite
    <3> QED BY <3>1, <3>2
  <2>2. IocpTypeOK
    BY <2>1 DEF HandlesInv, OwnInv, TypeInv, Requests, PollInv, IocpTypeOK
  <2>3. \A f \in Objects : obj[f] \in ObjectValues
    BY DEF HandlesInv, OwnInv, TypeInv
  <2> QED
    BY <2>2, <2>3 DEF HandlesInv, OwnInv, TypeInv, ObjectValues, PollInv, DoneInv, HandlesTypeOK
<1> QED
  BY HandlesAlwaysInv, NextPollInv, NextDoneInv, <1>1, <1>2, PTL DEF HandlesSpec
=============================================================================
