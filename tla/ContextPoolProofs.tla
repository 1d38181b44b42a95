-------------------------- MODULE ContextPoolProofs --------------------------
(***************************************************************************)
(* What holds of the pool of contexts for every number of contexts and     *)
(* every set of tasks: the wait groups of the constructor and of           *)
(* start_all() keep every thread and every caller away from a context that *)
(* is not there.                                                           *)
(***************************************************************************)
EXTENDS ContextPool, QueueFacts, FiniteSetTheorems

\* The threads that have not called build_ctx_wg_.done().
Unreported == {i \in Workers : pc[i] \in {"none", "build", "report"}}

\* The wait group counts them, and a context is there from the moment its
\* thread is about to report it until the destructor has joined the threads.
PhaseInv ==
    /\ pc[0] \in {"construct", "building", "idle", "start", "loop", "destroy", "done"}
    /\ \A i \in Workers :
          /\ pc[i] \in {"none", "build", "report", "start", "loop", "exited"}
          /\ pc[i] = "none" <=> pc[0] = "construct"
          /\ pc[0] = "done" => pc[i] = "exited"
    /\ buildLeft = Cardinality(Unreported)
    /\ pc[0] \notin {"construct", "building"} => buildLeft = 0
    /\ pc[0] \notin {"construct", "done"} =>
          built = {0} \cup {i \in Workers : pc[i] \in {"report", "start", "loop", "exited"}}

\* No loop runs before start_all(), so that no task is there to use the pool
\* while it is under construction; and nothing outlives its thread's loop.
GateInv ==
    /\ pc[0] \in {"construct", "building"} => startLeft = 1
    /\ \A x \in Contexts : pc[x] \in {"loop", "exited"} => startLeft = 0
    /\ \A x \in Contexts : busy[x] # NoTask => pc[x] = "loop"
    /\ \A a \in Contexts : reg[a] # <<>> => busy[a] # NoTask \/ (a = 0 /\ pc[0] = "idle")
    /\ pc[0] \in {"construct", "building", "done"} => \A x \in Contexts : queue[x] = <<>>

CPoolInv == ContextPoolTypeOK /\ PhaseInv /\ GateInv

\* Context 0 is the owner's, the others are the workers'.
LEMMA ContextSplit ==
  /\ 0 \in Contexts /\ 0 \notin Workers /\ Contexts = {0} \cup Workers
  /\ IsFiniteSet(Workers) /\ Cardinality(Workers) = Num - 1
<1>1. 0 \in Contexts /\ 0 \notin Workers /\ Contexts = {0} \cup Workers
  BY ContextPoolAssumption DEF Contexts, Workers
<1>2. IsFiniteSet(1 .. Num - 1) /\ Cardinality(1 .. Num - 1) = Num - 1
  BY ContextPoolAssumption, FS_Interval
<1> QED  BY <1>1, <1>2 DEF Workers

LEMMA UnreportedFinite == IsFiniteSet(Unreported) /\ Cardinality(Unreported) \in Nat
<1>1. Unreported \in SUBSET Workers  BY DEF Unreported
<1> QED  BY <1>1, ContextSplit, FS_Subset, FS_CardinalityType

\* When everyone has reported, every context is there.
LEMMA AllBuilt ==
  ASSUME PhaseInv, pc[0] \notin {"construct", "building", "done"}
  PROVE  built = Contexts
<1>1. Cardinality(Unreported) = 0  BY DEF PhaseInv
<1>2. Unreported = {}  BY <1>1, UnreportedFinite, FS_EmptySet
<1> QED  BY <1>2, ContextSplit DEF PhaseInv, Unreported

LEMMA UseIsSafe == CPoolInv => BuiltBeforeUse
<1> SUFFICES ASSUME CPoolInv PROVE BuiltBeforeUse
  OBVIOUS
<1> USE DEF CPoolInv
<1>1. pc[0] \notin {"construct", "building", "done"} => built = Contexts
  BY AllBuilt
<1>2. ASSUME NEW x \in Contexts, queue[x] # <<>> PROVE x \in built
  BY <1>1, <1>2 DEF GateInv
<1>3. ASSUME NEW x \in Contexts, busy[x] # NoTask PROVE x \in built
  <2>1. pc[x] = "loop"  BY <1>3 DEF GateInv
  <2>2. x = 0 \/ x \in Workers  BY ContextSplit
  <2> QED  BY <2>1, <2>2, <1>1 DEF PhaseInv
<1> QED  BY <1>1, <1>2, <1>3 DEF BuiltBeforeUse

LEMMA InitCPoolInv == ContextPoolInit => CPoolInv
<1> SUFFICES ASSUME ContextPoolInit PROVE CPoolInv
  OBVIOUS
<1> USE ContextSplit, ContextPoolAssumption DEF ContextPoolInit
<1>1. ContextPoolTypeOK
  <2>1. buildLeft \in 0 .. Num - 1 /\ nextIdx \in Contexts  OBVIOUS
  <2>2. queue \in [Contexts -> Seq(Tasks \cup {StopTask})]  BY EmptySeq
  <2>3. reg \in [Contexts -> Seq(Contexts)]  BY EmptySeq
  <2> QED  BY <2>1, <2>2, <2>3 DEF ContextPoolTypeOK
<1>2. PhaseInv
  <2>1. Unreported = Workers  BY DEF Unreported
  <2> QED  BY <2>1 DEF PhaseInv
<1>3. GateInv  BY DEF GateInv
<1> QED  BY <1>1, <1>2, <1>3 DEF CPoolInv

(***************************************************************************)
(* The constructor and the threads.                                        *)
(***************************************************************************)
LEMMA SpawnCPool == ASSUME CPoolInv, SpawnThreads PROVE CPoolInv'
<1> USE ContextSplit DEF CPoolInv
<1>1. ContextPoolTypeOK'  BY DEF SpawnThreads, ContextPoolTypeOK
<1>2. PhaseInv'
  <2>1. \A i \in Workers : pc[i] = "none" /\ pc'[i] = "build"
    BY DEF SpawnThreads, PhaseInv
  <2>2. pc'[0] = "building" /\ built' = {0} /\ buildLeft' = buildLeft
    BY DEF SpawnThreads
  <2>3. Unreported' = Unreported  BY <2>1 DEF Unreported
  <2> QED  BY <2>1, <2>2, <2>3 DEF PhaseInv
<1>3. GateInv'
  <2>1. startLeft = 1 /\ \A x \in Contexts : pc'[x] \in {"building", "build"} /\ busy[x] = NoTask
    BY DEF SpawnThreads, PhaseInv, GateInv
  <2> QED  BY <2>1 DEF SpawnThreads, GateInv
<1> QED  BY <1>1, <1>2, <1>3

LEMMA BuildCPool == ASSUME CPoolInv, NEW i \in Workers, Build(i) PROVE CPoolInv'
<1> USE ContextSplit DEF CPoolInv
<1>0. buildLeft \in Nat /\ pc \in [Contexts -> {"construct", "building", "idle", "none", "build",
                                     "report", "start", "loop", "exited", "destroy", "done"}]
  BY ContextPoolAssumption DEF ContextPoolTypeOK
<1>1. GateInv'
  BY <1>0 DEF Build, Goto, ContextPoolTypeOK, GateInv
<1>2. CASE pc[i] = "build"
  <2>1. pc' = [pc EXCEPT ![i] = "report"] /\ built' = built \cup {i} /\ buildLeft' = buildLeft
    BY <1>2 DEF Build, Goto
  <2>2. ContextPoolTypeOK'  BY <1>2, <2>1 DEF Build, ContextPoolTypeOK
  <2>3. Unreported' = Unreported  BY <1>0, <1>2, <2>1 DEF Unreported
  <2>4. pc[0] # "construct" /\ pc[0] # "done"  BY <1>2 DEF PhaseInv
  <2>5. PhaseInv'  BY <1>0, <1>2, <2>1, <2>3, <2>4 DEF PhaseInv
  <2> QED  BY <1>1, <2>2, <2>5
<1>3. CASE pc[i] = "report"
  <2>1. pc' = [pc EXCEPT ![i] = "start"] /\ built' = built /\ buildLeft' = Done(buildLeft)
    BY <1>3 DEF Build, Goto
  <2>2. buildLeft' \in 0 .. Num - 1
    BY <2>1, ContextPoolAssumption DEF Done, ContextPoolTypeOK
  <2>3. ContextPoolTypeOK'  BY <1>3, <2>1, <2>2 DEF Build, ContextPoolTypeOK
  <2>4. i \in Unreported /\ Unreported' = Unreported \ {i}
    BY <1>0, <1>3, <2>1 DEF Unreported
  <2>5. Cardinality(Unreported) # 0  BY <2>4, UnreportedFinite, FS_EmptySet
  <2>6. Cardinality(Unreported \ {i}) = Cardinality(Unreported) - 1
    BY <2>4, UnreportedFinite, FS_RemoveElement
  <2>7. buildLeft' = Cardinality(Unreported')
    BY <2>1, <2>4, <2>5, <2>6 DEF Done, PhaseInv
  <2>8. pc[0] \notin {"construct", "done"} /\ pc[0] = "building"
    BY <1>3, <2>5 DEF PhaseInv
  <2>9. PhaseInv'  BY <1>0, <1>3, <2>1, <2>7, <2>8 DEF PhaseInv
  <2> QED  BY <1>1, <2>3, <2>9
<1> QED  BY <1>2, <1>3 DEF Build

\* The other steps leave what is built, and who has reported.
LEMMA SamePhase ==
  ASSUME CPoolInv, NEW x \in Contexts, NEW step,
         pc' = [pc EXCEPT ![x] = step], UNCHANGED <<built, buildLeft>>,
         \/ x = 0 /\ pc[0] \notin {"construct", "done"}
            /\ step \in {"idle", "start", "loop", "destroy"}
            /\ (pc[0] = "building" => buildLeft = 0)
         \/ x \in Workers /\ pc[x] \in {"start", "loop"} /\ step \in {"loop", "exited"}
  PROVE  PhaseInv'
<1> USE ContextSplit DEF CPoolInv
<1>0. pc \in [Contexts -> {"construct", "building", "idle", "none", "build",
                           "report", "start", "loop", "exited", "destroy", "done"}]
  BY DEF ContextPoolTypeOK
<1>1. Unreported' = Unreported  BY <1>0 DEF Unreported
<1>2. CASE x = 0
  <2>1. pc'[0] = step /\ \A i \in Workers : pc'[i] = pc[i]  BY <1>0, <1>2
  <2> QED  BY <1>1, <1>2, <2>1 DEF PhaseInv
<1>3. CASE x \in Workers
  <2>1. pc'[0] = pc[0] /\ pc[0] # "done" /\ pc'[x] = step
        /\ \A i \in Workers \ {x} : pc'[i] = pc[i]
    BY <1>0, <1>3 DEF PhaseInv
  <2>2. {i \in Workers : pc'[i] \in {"report", "start", "loop", "exited"}}
          = {i \in Workers : pc[i] \in {"report", "start", "loop", "exited"}}
    BY <1>3, <2>1
  <2> QED  BY <1>1, <1>3, <2>1, <2>2 DEF PhaseInv
<1> QED  BY <1>2, <1>3

LEMMA StepCPool ==
  ASSUME CPoolInv,
         \/ Constructed \/ StartAll \/ Destroy
         \/ \E x \in Contexts : Start(x) \/ Leave(x)
  PROVE  CPoolInv'
<1> USE ContextSplit DEF CPoolInv
<1>0. pc \in [Contexts -> {"construct", "building", "idle", "none", "build",
                           "report", "start", "loop", "exited", "destroy", "done"}]
  BY DEF ContextPoolTypeOK
<1>1. CASE Constructed \/ StartAll \/ Destroy
  <2>1. PhaseInv'
    BY <1>1, SamePhase DEF Constructed, StartAll, Destroy, Goto
  <2>2. ContextPoolTypeOK'
    <3>1. CASE Constructed  BY <3>1 DEF Constructed, Goto, ContextPoolTypeOK
    <3>2. CASE StartAll
      <4>1. startLeft' \in {0, 1}  BY <3>2 DEF StartAll, Done, ContextPoolTypeOK
      <4> QED  BY <3>2, <4>1 DEF StartAll, Goto, ContextPoolTypeOK
    <3>3. CASE Destroy  BY <3>3 DEF Destroy, Goto, ContextPoolTypeOK
    <3> QED  BY <1>1, <3>1, <3>2, <3>3
  <2>3. GateInv'
    BY <1>0, <1>1 DEF Constructed, StartAll, Destroy, Goto, Done, ContextPoolTypeOK, GateInv
  <2> QED  BY <2>1, <2>2, <2>3
<1>2. ASSUME NEW x \in Contexts, Start(x) PROVE CPoolInv'
  <2>1. PhaseInv'  BY <1>2, SamePhase DEF Start, Goto
  <2>2. ContextPoolTypeOK'  BY <1>2 DEF Start, Goto, ContextPoolTypeOK
  <2>3. GateInv'  BY <1>0, <1>2 DEF Start, Goto, GateInv
  <2> QED  BY <2>1, <2>2, <2>3
<1>3. ASSUME NEW x \in Contexts, Leave(x) PROVE CPoolInv'
  <2>1. PhaseInv'  BY <1>3, SamePhase DEF Leave, Goto
  <2>2. ContextPoolTypeOK'  BY <1>3 DEF Leave, Goto, ContextPoolTypeOK
  <2>3. GateInv'  BY <1>0, <1>3 DEF Leave, Goto, GateInv
  <2> QED  BY <2>1, <2>2, <2>3
<1> QED  BY <1>1, <1>2, <1>3

(***************************************************************************)
(* The loops, next_context() and get().                                    *)
(***************************************************************************)
LEMMA TaskCPool ==
  ASSUME CPoolInv, NEW x \in Contexts, Take(x) \/ Stop(x) \/ Return(x)
  PROVE  CPoolInv'
<1> USE ContextSplit DEF CPoolInv
<1>1. PhaseInv'
  BY DEF Take, Stop, Return, PhaseInv, Unreported
<1>2. ASSUME Take(x) PROVE ContextPoolTypeOK' /\ GateInv'
  <2>1. queue[x] \in Seq(Tasks \cup {StopTask}) /\ queue[x] # <<>>
    BY <1>2 DEF Take, ContextPoolTypeOK
  <2>2. Head(queue[x]) \in Tasks \cup {StopTask} /\ Tail(queue[x]) \in Seq(Tasks \cup {StopTask})
    BY <2>1, PopQueue
  <2>3. Head(queue[x]) # NoTask  BY <2>2, ContextPoolAssumption
  <2>4. ContextPoolTypeOK'  BY <1>2, <2>2 DEF Take, ContextPoolTypeOK
  <2>5. pc[0] \notin {"construct", "building", "done"}  BY <1>2, <2>1 DEF GateInv
  <2>6. GateInv'  BY <1>2, <2>3, <2>5 DEF Take, GateInv, ContextPoolTypeOK
  <2> QED  BY <2>4, <2>6
<1>3. ASSUME Stop(x) PROVE ContextPoolTypeOK' /\ GateInv'
  BY <1>3 DEF Stop, ContextPoolTypeOK, GateInv
<1>4. ASSUME Return(x) PROVE ContextPoolTypeOK' /\ GateInv'
  BY <1>4 DEF Return, ContextPoolTypeOK, GateInv
<1> QED  BY <1>1, <1>2, <1>3, <1>4

\* A caller of the pool is a task in a loop or the owner, and both are there
\* only when the contexts are.
LEMMA CallerIsLate ==
  ASSUME CPoolInv, NEW a \in Contexts, MayCall(a) \/ reg[a] # <<>>
  PROVE  pc[0] \notin {"construct", "building", "done"}
<1> USE ContextSplit, ContextPoolAssumption DEF CPoolInv
<1>1. CASE a = 0 /\ pc[0] = "idle"  BY <1>1
<1>2. CASE ~(a = 0 /\ pc[0] = "idle")
  <2>1. busy[a] # NoTask  BY <1>2 DEF MayCall, GateInv
  <2>2. pc[a] = "loop" /\ startLeft = 0  BY <2>1 DEF GateInv
  <2>3. a = 0 \/ a \in Workers  OBVIOUS
  <2> QED  BY <2>2, <2>3 DEF PhaseInv, GateInv
<1> QED  BY <1>1, <1>2

LEMMA PushType ==
  ASSUME CPoolInv, NEW x \in Contexts, NEW t \in Tasks \cup {StopTask}, Push(x, t)
  PROVE  queue' \in [Contexts -> Seq(Tasks \cup {StopTask})]
<1>1. queue[x] \in Seq(Tasks \cup {StopTask})  BY DEF CPoolInv, ContextPoolTypeOK
<1>2. Append(queue[x], t) \in Seq(Tasks \cup {StopTask})  BY <1>1, AppendQueue
<1> QED  BY <1>2 DEF Push, CPoolInv, ContextPoolTypeOK

LEMMA CallCPool ==
  ASSUME CPoolInv, NEW a \in Contexts,
         \/ ReadNext(a) \/ StoreNext(a)
         \/ \E t \in Tasks, x \in Contexts : Execute(a, x, t)
  PROVE  CPoolInv'
<1> USE ContextSplit DEF CPoolInv
<1>1. PhaseInv'
  BY DEF ReadNext, StoreNext, Execute, PhaseInv, Unreported
<1>2. pc[0] \notin {"construct", "building", "done"}
  <2>1. CASE ReadNext(a) \/ \E t \in Tasks, x \in Contexts : Execute(a, x, t)
    BY <2>1, CallerIsLate DEF ReadNext, Execute
  <2>2. CASE StoreNext(a)
    <3>1. reg[a] # <<>>  BY <2>2, EmptySeq DEF StoreNext, ContextPoolTypeOK
    <3> QED  BY <3>1, CallerIsLate
  <2> QED  BY <2>1, <2>2
<1>3. ASSUME ReadNext(a) PROVE ContextPoolTypeOK' /\ GateInv'
  <2>1. Append(reg[a], nextIdx) \in Seq(Contexts)
    <3>1. reg[a] \in Seq(Contexts) /\ nextIdx \in Contexts  BY DEF ContextPoolTypeOK
    <3> QED  BY <3>1, AppendQueue
  <2>2. ContextPoolTypeOK'  BY <1>3, <2>1 DEF ReadNext, ContextPoolTypeOK
  <2>3. busy[a] # NoTask \/ (a = 0 /\ pc[0] = "idle")
    BY <1>3, ContextPoolAssumption DEF ReadNext, MayCall
  <2>4. GateInv'  BY <1>2, <1>3, <2>3 DEF ReadNext, GateInv, ContextPoolTypeOK
  <2> QED  BY <2>2, <2>4
<1>4. ASSUME StoreNext(a) PROVE ContextPoolTypeOK' /\ GateInv'
  <2>1. reg[a] \in Seq(Contexts) /\ Len(reg[a]) = 2  BY <1>4 DEF StoreNext, ContextPoolTypeOK
  <2>2. reg[a][1] \in Contexts /\ reg[a][2] \in Contexts  BY <2>1, ElementOfSeq
  <2>3. nextIdx' \in Contexts
    BY <1>4, <2>2, ContextPoolAssumption DEF StoreNext, Succ, Contexts
  <2>4. queue' \in [Contexts -> Seq(Tasks \cup {StopTask})]
    BY <1>4, <2>2, PushType DEF StoreNext, ContextPoolTypeOK
  <2>5. <<>> \in Seq(Contexts)  BY EmptySeq
  <2>6. ContextPoolTypeOK'
    BY <1>4, <2>3, <2>4, <2>5 DEF StoreNext, ContextPoolTypeOK
  <2>7. GateInv'  BY <1>2, <1>4 DEF StoreNext, GateInv, ContextPoolTypeOK
  <2> QED  BY <2>6, <2>7
<1>5. ASSUME NEW t \in Tasks, NEW x \in Contexts, Execute(a, x, t)
      PROVE  ContextPoolTypeOK' /\ GateInv'
  <2>1. queue' \in [Contexts -> Seq(Tasks \cup {StopTask})]
    BY <1>5, PushType DEF Execute
  <2>2. ContextPoolTypeOK'  BY <1>5, <2>1 DEF Execute, ContextPoolTypeOK
  <2>3. GateInv'  BY <1>2, <1>5 DEF Execute, GateInv
  <2> QED  BY <2>2, <2>3
<1> QED  BY <1>1, <1>3, <1>4, <1>5

(***************************************************************************)
(* The destructor.                                                         *)
(***************************************************************************)
LEMMA SendStopCPool == ASSUME CPoolInv, NEW i \in Workers, SendStop(i) PROVE CPoolInv'
<1> USE ContextSplit DEF CPoolInv
<1>1. PhaseInv'  BY DEF SendStop, PhaseInv, Unreported
<1>2. queue' \in [Contexts -> Seq(Tasks \cup {StopTask})]  BY PushType DEF SendStop
<1>3. ContextPoolTypeOK'  BY <1>2 DEF SendStop, ContextPoolTypeOK
<1>4. GateInv'  BY DEF SendStop, GateInv
<1> QED  BY <1>1, <1>3, <1>4

LEMMA JoinCPool == ASSUME CPoolInv, Join PROVE CPoolInv'
<1> USE ContextSplit DEF CPoolInv
<1>0. pc' = [pc EXCEPT ![0] = "done"] /\ pc[0] = "destroy" /\ \A i \in Workers : pc[i] = "exited"
  BY DEF Join, Goto
<1>1. ContextPoolTypeOK'
  <2>1. queue' \in [Contexts -> Seq(Tasks \cup {StopTask})]  BY EmptySeq DEF Join
  <2> QED  BY <1>0, <2>1 DEF Join, ContextPoolTypeOK
<1>2. pc'[0] = "done" /\ \A i \in Workers : pc'[i] = pc[i]
  BY <1>0 DEF ContextPoolTypeOK
<1>3. PhaseInv'
  <2>1. Unreported' = Unreported  BY <1>2 DEF Unreported
  <2> QED  BY <1>0, <1>2, <2>1 DEF Join, PhaseInv
<1>4. GateInv'
  <2>1. \A x \in Contexts : busy[x] = NoTask /\ reg[x] = <<>>
    BY <1>0 DEF GateInv
  <2> QED  BY <1>0, <1>2, <2>1 DEF Join, GateInv
<1> QED  BY <1>1, <1>3, <1>4

LEMMA NextCPoolInv == CPoolInv /\ [ContextPoolNext]_contextPoolVars => CPoolInv'
<1> SUFFICES ASSUME CPoolInv, [ContextPoolNext]_contextPoolVars PROVE CPoolInv'
  OBVIOUS
<1>1. ASSUME UNCHANGED contextPoolVars PROVE CPoolInv'
  BY <1>1 DEF contextPoolVars, CPoolInv, ContextPoolTypeOK, PhaseInv, GateInv, Unreported
<1>2. ASSUME OwnerStep PROVE CPoolInv'
  BY <1>2, SpawnCPool, StepCPool, SendStopCPool, JoinCPool DEF OwnerStep
<1> QED
  BY <1>1, <1>2, BuildCPool, StepCPool, TaskCPool, CallCPool DEF ContextPoolNext

LEMMA CPoolInvHolds == ContextPoolSpec => []CPoolInv
  BY InitCPoolInv, NextCPoolInv, PTL DEF ContextPoolSpec

\* The variables of the pool keep their shape: in particular the two wait
\* groups never go below zero, and next_idx_ names a context however the calls
\* of next_context() race.
THEOREM ContextPoolTypeCorrect == ContextPoolSpec => []ContextPoolTypeOK
<1>1. CPoolInv => ContextPoolTypeOK  BY DEF CPoolInv
<1> QED  BY <1>1, CPoolInvHolds, PTL

\* No call reaches a context before its thread has built it or after the
\* destructor took it down, for every number of contexts.
THEOREM PoolIsBuiltBeforeUse == ContextPoolSpec => []BuiltBeforeUse
  BY UseIsSafe, CPoolInvHolds, PTL
=============================================================================
