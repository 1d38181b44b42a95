-------------------------- MODULE ThreadPoolProofs --------------------------
(***************************************************************************)
(* What holds of ThreadPool for any numbers of workers, callers and tasks. *)
(* The argument for NoSleepingOnWork: while the pool runs, every worker    *)
(* was launched and none has left, so that a thread that finds nobody to   *)
(* wake finds a worker that is awake.  None has left because the state     *)
(* PendingDestroy is final: once the destructor was entered, no caller is  *)
(* on its way to make the pool run again.                                  *)
(***************************************************************************)
EXTENDS ThreadPool, QueueFacts, FiniteSetTheorems, TLAPS

WorkerSteps == {"none", "test", "asleep", "run", "notify", "exited"}
CallerSteps == {"idle", "starting", "notify", "notifyAll", "waiting", "rewait",
                "destroy", "join", "done"}

RolesInv ==
    /\ \A w \in Workers : pc[w] \in WorkerSteps
    /\ \A c \in Callers : pc[c] \in CallerSteps

Launched == \A w \in Workers : pc[w] # "none"

LaunchInv ==
    /\ \A c \in Callers : pc[c] = "starting" => Launched
    /\ state = "Running" => Launched

DestroyInv ==
    /\ destroying => \A c \in Callers :
          IF c = Owner THEN pc[c] \notin {"starting", "notify"} ELSE pc[c] = "idle"
    /\ pc[Owner] = "destroy" => destroying
    /\ state = "PendingDestroy" => destroying
    /\ \A w \in Workers : pc[w] = "exited" => state = "PendingDestroy"

PoolInv == PoolTypeOK /\ RolesInv /\ LaunchInv /\ DestroyInv /\ NoSleepingOnWork

LEMMA InitPoolInv == PoolInit => PoolInv
<1> SUFFICES ASSUME PoolInit PROVE PoolInv
  OBVIOUS
<1>1. PoolTypeOK
  <2>1. tasks \in Seq(Tasks)
    BY DEF PoolInit
  <2>2. \A w \in Workers : job[w] = NoTask /\ pc[w] = "none"
    BY PoolAssumption DEF PoolInit
  <2>3. job \in [Workers -> Tasks \cup {NoTask}]
    BY DEF PoolInit
  <2> QED  BY <2>1, <2>2, <2>3 DEF PoolInit, PoolTypeOK
<1>2. RolesInv /\ LaunchInv /\ DestroyInv /\ NoSleepingOnWork
  BY PoolAssumption DEF PoolInit, RolesInv, LaunchInv, DestroyInv, NoSleepingOnWork,
                        WorkerSteps, CallerSteps
<1> QED  BY <1>1, <1>2 DEF PoolInv

(***************************************************************************)
(* Steps of a thread outside the pool.                                     *)
(***************************************************************************)
LEMMA CallerKeeps ==
  ASSUME PoolInv, NEW c \in Callers,
         \/ StartThreads(c) \/ SetRunning(c) \/ NotifyAll(c) \/ Stop(c)
         \/ Wait(c) \/ Rewait(c)
  PROVE  PoolInv'
<1> USE PoolAssumption DEF PoolInv, WorkerSteps, CallerSteps, Goto, At, Free, WakeAll
<1>1. CASE StartThreads(c)
  <2>1. PoolTypeOK'        BY <1>1 DEF StartThreads, PoolTypeOK, RolesInv
  <2>2. RolesInv'          BY <1>1 DEF StartThreads, PoolTypeOK, RolesInv
  <2>3. LaunchInv'         BY <1>1 DEF StartThreads, PoolTypeOK, LaunchInv, Launched
  <2>4. DestroyInv'        BY <1>1 DEF StartThreads, PoolTypeOK, DestroyInv
  <2>5. NoSleepingOnWork'  BY <1>1 DEF StartThreads, PoolTypeOK, NoSleepingOnWork, Busy, Notifying
  <2> QED  BY <2>1, <2>2, <2>3, <2>4, <2>5
<1>2. CASE SetRunning(c)
  <2>1. PoolTypeOK'        BY <1>2 DEF SetRunning, PoolTypeOK
  <2>2. RolesInv'          BY <1>2 DEF SetRunning, PoolTypeOK, RolesInv
  <2>3. LaunchInv'         BY <1>2 DEF SetRunning, PoolTypeOK, LaunchInv, Launched
  <2>4. ~destroying        BY <1>2 DEF SetRunning, DestroyInv
  <2>5. DestroyInv'        BY <1>2, <2>4 DEF SetRunning, PoolTypeOK, DestroyInv
  <2>6. NoSleepingOnWork'  BY <1>2 DEF SetRunning, PoolTypeOK, NoSleepingOnWork, Notifying
  <2> QED  BY <2>1, <2>2, <2>3, <2>5, <2>6
<1>3. CASE NotifyAll(c)
  <2>1. PoolTypeOK'        BY <1>3 DEF NotifyAll, PoolTypeOK, RolesInv
  <2>2. RolesInv'          BY <1>3 DEF NotifyAll, PoolTypeOK, RolesInv
  <2>3. LaunchInv'         BY <1>3 DEF NotifyAll, PoolTypeOK, LaunchInv, Launched
  <2>4. DestroyInv'        BY <1>3 DEF NotifyAll, PoolTypeOK, DestroyInv
  <2>5. NoSleepingOnWork'
    <3>1. PICK w \in Workers : TRUE  OBVIOUS
    <3>2. state = "Running" => Busy(w)'
      BY <1>3 DEF NotifyAll, PoolTypeOK, RolesInv, LaunchInv, Launched, DestroyInv, Busy
    <3> QED  BY <1>3, <3>2 DEF NotifyAll, NoSleepingOnWork
  <2> QED  BY <2>1, <2>2, <2>3, <2>4, <2>5
<1>4. CASE Stop(c)
  BY <1>4 DEF Stop, PoolTypeOK, RolesInv, LaunchInv, Launched, DestroyInv, NoSleepingOnWork
<1>5. CASE Wait(c) \/ Rewait(c)
  <2>1. PICK to \in {"idle", "waiting", "destroy"} :
           /\ pc' = [pc EXCEPT ![c] = to]
           /\ to = "destroy" => destroying
           /\ destroying => to # "idle"
    BY <1>5 DEF Wait, Rewait, AfterWait
  <2>2. /\ pc[c] \in {"idle", "rewait"} /\ (pc[c] = "idle" => ~destroying)
        /\ waitFlag' \in BOOLEAN /\ UNCHANGED <<state, started, tasks, job, destroying>>
    BY <1>5 DEF Wait, Rewait, PoolTypeOK
  <2>3. PoolTypeOK'        BY <2>1, <2>2 DEF PoolTypeOK
  <2>4. RolesInv'          BY <2>1, <2>2 DEF PoolTypeOK, RolesInv
  <2>5. LaunchInv'         BY <2>1, <2>2 DEF PoolTypeOK, LaunchInv, Launched
  <2>6. DestroyInv'        BY <2>1, <2>2 DEF PoolTypeOK, DestroyInv
  <2>7. NoSleepingOnWork'  BY <2>1, <2>2 DEF PoolTypeOK, NoSleepingOnWork, Busy, Notifying
  <2> QED  BY <2>3, <2>4, <2>5, <2>6, <2>7
<1> QED  BY <1>1, <1>2, <1>3, <1>4, <1>5

LEMMA OwnerKeeps ==
  ASSUME PoolInv, Destroy \/ SetPendingDestroy \/ Join
  PROVE  PoolInv'
<1> USE PoolAssumption DEF PoolInv, WorkerSteps, CallerSteps, Goto, At, Free
<1>1. CASE Destroy
  <2>1. PICK to \in {"waiting", "destroy"} : pc' = [pc EXCEPT ![Owner] = to]
    BY <1>1 DEF Destroy
  <2>2. PoolTypeOK'        BY <1>1, <2>1 DEF Destroy, PoolTypeOK
  <2>3. RolesInv'          BY <1>1, <2>1 DEF Destroy, PoolTypeOK, RolesInv
  <2>4. LaunchInv'         BY <1>1, <2>1 DEF Destroy, PoolTypeOK, LaunchInv, Launched
  <2>5. DestroyInv'        BY <1>1, <2>1 DEF Destroy, PoolTypeOK, DestroyInv
  <2>6. NoSleepingOnWork'  BY <1>1, <2>1 DEF Destroy, PoolTypeOK, NoSleepingOnWork, Busy, Notifying
  <2> QED  BY <2>2, <2>3, <2>4, <2>5, <2>6
<1>2. CASE SetPendingDestroy
  <2>1. PoolTypeOK'        BY <1>2 DEF SetPendingDestroy, PoolTypeOK
  <2>2. RolesInv'          BY <1>2 DEF SetPendingDestroy, PoolTypeOK, RolesInv
  <2>3. LaunchInv'         BY <1>2 DEF SetPendingDestroy, PoolTypeOK, LaunchInv, Launched
  <2>4. DestroyInv'        BY <1>2 DEF SetPendingDestroy, PoolTypeOK, DestroyInv
  <2>5. NoSleepingOnWork'  BY <1>2 DEF SetPendingDestroy, NoSleepingOnWork
  <2> QED  BY <2>1, <2>2, <2>3, <2>4, <2>5
<1>3. CASE Join
  <2>1. PoolTypeOK'        BY <1>3 DEF Join, PoolTypeOK
  <2>2. RolesInv'          BY <1>3 DEF Join, PoolTypeOK, RolesInv
  <2>3. LaunchInv'         BY <1>3 DEF Join, PoolTypeOK, LaunchInv, Launched
  <2>4. DestroyInv'        BY <1>3 DEF Join, PoolTypeOK, DestroyInv
  <2>5. NoSleepingOnWork'  BY <1>3 DEF Join, NoSleepingOnWork
  <2> QED  BY <2>1, <2>2, <2>3, <2>4, <2>5
<1> QED  BY <1>1, <1>2, <1>3

(***************************************************************************)
(* Steps of a worker, and the steps that workers and callers share.        *)
(***************************************************************************)
LEMMA WorkerKeeps ==
  ASSUME PoolInv, NEW w \in Workers,
         TestEmpty(w) \/ TestHeld(w) \/ Take(w) \/ Return(w)
  PROVE  PoolInv'
<1> USE PoolAssumption DEF PoolInv, WorkerSteps, CallerSteps, Goto, At
<1>1. CASE TestEmpty(w)
  <2> DEFINE to == IF state = "PendingDestroy" THEN "exited" ELSE "asleep"
  <2>1. /\ pc[w] = "test" /\ tasks = <<>> /\ waitFlag' = FALSE
        /\ UNCHANGED <<state, started, tasks, job, destroying>>
    BY <1>1 DEF TestEmpty
  <2>2. /\ pc' \in [Workers \cup Callers -> {pc[a] : a \in Workers \cup Callers} \cup {"rewait", to}]
        /\ pc'[w] = to
        /\ \A a \in (Workers \cup Callers) \ {w} :
              pc'[a] = pc[a] \/ (pc[a] = "waiting" /\ pc'[a] = "rewait")
    BY <1>1 DEF TestEmpty, WakeAll, PoolTypeOK
  <2> HIDE DEF to
  <2>3. to \in {"exited", "asleep"} /\ (to = "exited" => state = "PendingDestroy")
    BY DEF to
  <2>4. PoolTypeOK'        BY <2>1, <2>2, <2>3 DEF PoolTypeOK, RolesInv
  <2>5. RolesInv'          BY <2>1, <2>2, <2>3 DEF RolesInv
  <2>6. LaunchInv'         BY <2>1, <2>2, <2>3 DEF LaunchInv, Launched
  <2>7. DestroyInv'        BY <2>1, <2>2, <2>3 DEF DestroyInv
  <2>8. NoSleepingOnWork'  BY <2>1 DEF NoSleepingOnWork
  <2> QED  BY <2>4, <2>5, <2>6, <2>7, <2>8
<1>2. CASE TestHeld(w)
  <2>1. PoolTypeOK'        BY <1>2 DEF TestHeld, PoolTypeOK
  <2>2. RolesInv'          BY <1>2 DEF TestHeld, PoolTypeOK, RolesInv
  <2>3. LaunchInv'         BY <1>2 DEF TestHeld, PoolTypeOK, LaunchInv, Launched
  <2>4. DestroyInv'        BY <1>2 DEF TestHeld, PoolTypeOK, DestroyInv
  <2>5. NoSleepingOnWork'  BY <1>2 DEF TestHeld, NoSleepingOnWork
  <2> QED  BY <2>1, <2>2, <2>3, <2>4, <2>5
<1>3. CASE Take(w)
  <2>1. Head(tasks) \in Tasks /\ Tail(tasks) \in Seq(Tasks)
    BY <1>3 DEF Take, PoolTypeOK
  <2>2. Head(tasks) # NoTask
    BY <2>1
  <2>3. /\ job' = [job EXCEPT ![w] = Head(tasks)] /\ pc' = [pc EXCEPT ![w] = "run"]
        /\ tasks' = Tail(tasks) /\ pc[w] = "test"
        /\ UNCHANGED <<state, started, waitFlag, destroying>>
    BY <1>3 DEF Take
  <2>4. PoolTypeOK'        BY <2>1, <2>2, <2>3 DEF PoolTypeOK
  <2>5. RolesInv'          BY <2>3 DEF PoolTypeOK, RolesInv
  <2>6. LaunchInv'         BY <2>3 DEF PoolTypeOK, LaunchInv, Launched
  <2>7. DestroyInv'        BY <2>3 DEF PoolTypeOK, DestroyInv
  <2>8. Busy(w)'           BY <2>3 DEF PoolTypeOK, Busy
  <2> QED  BY <2>4, <2>5, <2>6, <2>7, <2>8 DEF NoSleepingOnWork
<1>4. CASE Return(w)
  <2>1. PoolTypeOK'        BY <1>4 DEF Return, PoolTypeOK
  <2>2. RolesInv'          BY <1>4 DEF Return, PoolTypeOK, RolesInv
  <2>3. LaunchInv'         BY <1>4 DEF Return, PoolTypeOK, LaunchInv, Launched
  <2>4. DestroyInv'        BY <1>4 DEF Return, PoolTypeOK, DestroyInv
  <2>5. Busy(w)'           BY <1>4 DEF Return, PoolTypeOK, Busy
  <2> QED  BY <2>1, <2>2, <2>3, <2>4, <2>5 DEF NoSleepingOnWork
<1> QED  BY <1>1, <1>2, <1>3, <1>4

LEMMA SharedKeeps ==
  ASSUME PoolInv, NEW a \in Workers \cup Callers,
         Notify(a) \/ SpuriousWake(a) \/ \E t \in Tasks : Execute(a, t)
  PROVE  PoolInv'
<1> USE PoolAssumption DEF PoolInv, WorkerSteps, CallerSteps, Goto, At
<1>1. CASE Notify(a)
  <2> DEFINE back == IF a \in Workers THEN "run" ELSE "idle"
             Sleeping == {w \in Workers : pc[w] = "asleep"}
  <2>1. pc[a] = "notify" /\ UNCHANGED <<state, started, waitFlag, tasks, job, destroying>>
    BY <1>1 DEF Notify
  <2>2. CASE Sleeping = {} /\ pc' = [pc EXCEPT ![a] = back]
    <3>1. PoolTypeOK'        BY <2>1, <2>2 DEF PoolTypeOK
    <3>2. RolesInv'          BY <2>1, <2>2 DEF PoolTypeOK, RolesInv
    <3>3. LaunchInv'         BY <2>1, <2>2 DEF PoolTypeOK, LaunchInv, Launched
    <3>4. DestroyInv'        BY <2>1, <2>2 DEF PoolTypeOK, DestroyInv
    <3>5. NoSleepingOnWork'
      <4>1. PICK w \in Workers : TRUE  OBVIOUS
      <4>2. state = "Running" => pc[w] \in {"test", "run", "notify"}
        BY <2>2 DEF RolesInv, LaunchInv, Launched, DestroyInv
      <4>3. state = "Running" => Busy(w)'
        BY <2>1, <2>2, <4>2 DEF PoolTypeOK, Busy
      <4> QED  BY <2>1, <4>3 DEF NoSleepingOnWork
    <3> QED  BY <3>1, <3>2, <3>3, <3>4, <3>5
  <2>3. ASSUME NEW w \in Sleeping, pc' = [pc EXCEPT ![w] = "test", ![a] = back]
        PROVE  PoolInv'
    <3>1. w \in Workers /\ w # a /\ pc[w] = "asleep"
      BY <2>1
    <3>2. PoolTypeOK'        BY <2>1, <2>3, <3>1 DEF PoolTypeOK
    <3>3. RolesInv'          BY <2>1, <2>3, <3>1 DEF PoolTypeOK, RolesInv
    <3>4. LaunchInv'         BY <2>1, <2>3, <3>1 DEF PoolTypeOK, LaunchInv, Launched
    <3>5. DestroyInv'        BY <2>1, <2>3, <3>1 DEF PoolTypeOK, DestroyInv
    <3>6. Busy(w)'           BY <2>1, <2>3, <3>1 DEF PoolTypeOK, Busy
    <3> QED  BY <3>1, <3>2, <3>3, <3>4, <3>5, <3>6 DEF NoSleepingOnWork
  <2> QED  BY <1>1, <2>2, <2>3 DEF Notify
<1>2. CASE SpuriousWake(a)
  <2>1. PoolTypeOK'        BY <1>2 DEF SpuriousWake, PoolTypeOK, RolesInv
  <2>2. RolesInv'          BY <1>2 DEF SpuriousWake, PoolTypeOK, RolesInv
  <2>3. LaunchInv'         BY <1>2 DEF SpuriousWake, PoolTypeOK, LaunchInv, Launched
  <2>4. DestroyInv'        BY <1>2 DEF SpuriousWake, PoolTypeOK, DestroyInv
  <2>5. NoSleepingOnWork'
    BY <1>2 DEF SpuriousWake, PoolTypeOK, NoSleepingOnWork, Busy, Notifying
  <2> QED  BY <2>1, <2>2, <2>3, <2>4, <2>5
<1>3. ASSUME NEW t \in Tasks, Execute(a, t)
      PROVE  PoolInv'
  <2>1. /\ tasks' = Append(tasks, t) /\ pc' = [pc EXCEPT ![a] = "notify"]
        /\ UNCHANGED <<state, started, waitFlag, job, destroying>>
    BY <1>3 DEF Execute
  <2>2. IF a \in Workers THEN pc[a] = "run" ELSE pc[a] = "idle" /\ ~destroying
    BY <1>3 DEF Execute, MayExecute, Free
  <2>3. PoolTypeOK'        BY <2>1, <2>2 DEF PoolTypeOK
  <2>4. RolesInv'          BY <2>1, <2>2 DEF PoolTypeOK, RolesInv
  <2>5. LaunchInv'         BY <2>1, <2>2 DEF PoolTypeOK, LaunchInv, Launched
  <2>6. DestroyInv'        BY <2>1, <2>2 DEF PoolTypeOK, DestroyInv
  <2>7. pc'[a] = "notify"  BY <2>1 DEF PoolTypeOK
  <2> QED  BY <2>3, <2>4, <2>5, <2>6, <2>7 DEF NoSleepingOnWork, Busy, Notifying
<1> QED  BY <1>1, <1>2, <1>3

LEMMA NextPoolInv == PoolInv /\ [PoolNext]_poolVars => PoolInv'
<1> SUFFICES ASSUME PoolInv, [PoolNext]_poolVars PROVE PoolInv'
  OBVIOUS
<1>1. ASSUME NEW c \in Callers, CallerStep(c) \/ StartThreads(c) \/ Stop(c) \/ Wait(c)
      PROVE  PoolInv'
  BY <1>1, CallerKeeps, SharedKeeps DEF CallerStep
<1>2. ASSUME NEW w \in Workers, WorkerStep(w) \/ Return(w)
      PROVE  PoolInv'
  BY <1>2, WorkerKeeps, SharedKeeps DEF WorkerStep
<1>3. ASSUME NEW a \in Workers \cup Callers, SpuriousWake(a) \/ \E t \in Tasks : Execute(a, t)
      PROVE  PoolInv'
  BY <1>3, SharedKeeps
<1>4. CASE OwnerStep \/ Destroy
  BY <1>4, OwnerKeeps DEF OwnerStep
<1>5. CASE UNCHANGED poolVars
  BY <1>5 DEF poolVars, PoolInv, PoolTypeOK, RolesInv, LaunchInv, Launched, DestroyInv,
              NoSleepingOnWork, Busy, Notifying
<1> QED  BY <1>1, <1>2, <1>3, <1>4, <1>5 DEF PoolNext

(***************************************************************************)
(* UsesAllWorkers is inductive, given the types: a notification and a      *)
(* worker under way to the queue are counted alike, so that notify_one()   *)
(* only replaces the one by the other.  The count grows with execute() and *)
(* shrinks when a worker takes a task.                                     *)
(***************************************************************************)
Coming(f) == {a \in Workers \cup Callers : f[a] \in {"test", "notify"}}

LEMMA ComingFinite ==
  ASSUME NEW f
  PROVE  IsFiniteSet(Coming(f)) /\ Cardinality(Coming(f)) \in Nat
<1>1. IsFiniteSet(Workers \cup Callers)
  BY PoolAssumption, FS_Union
<1>2. Coming(f) \subseteq Workers \cup Callers
  BY DEF Coming
<1> QED  BY <1>1, <1>2, FS_Subset, FS_CardinalityType

LEMMA ComingMonotone ==
  ASSUME NEW f, NEW g, Coming(f) \subseteq Coming(g)
  PROVE  Cardinality(Coming(f)) <= Cardinality(Coming(g))
  BY ComingFinite, FS_Subset

LEMMA ComingAdd ==
  ASSUME NEW f, NEW g, NEW a, a \notin Coming(f), Coming(g) = Coming(f) \cup {a}
  PROVE  Cardinality(Coming(g)) = Cardinality(Coming(f)) + 1
  BY ComingFinite, FS_AddElement

LEMMA UsesAllWorkersInductive ==
  PoolInv /\ UsesAllWorkers /\ [PoolNext]_poolVars => UsesAllWorkers'
<1> DEFINE Quiet(f) == \A c \in Callers : f[c] # "notifyAll"
           Sleepers(f) == {w \in Workers : f[w] = "asleep"}
           Enough(q, f) == Len(q) <= Cardinality(Coming(f))
<1>1. UsesAllWorkers <=>
         (state = "Running" /\ Quiet(pc) /\ Sleepers(pc) # {} => Enough(tasks, pc))
  BY DEF UsesAllWorkers, At, Coming
<1>2. UsesAllWorkers' <=>
         (state' = "Running" /\ Quiet(pc') /\ Sleepers(pc') # {} => Enough(tasks', pc'))
  BY DEF UsesAllWorkers, At, Coming
<1> SUFFICES ASSUME PoolInv, [PoolNext]_poolVars,
                    state = "Running" /\ Quiet(pc) /\ Sleepers(pc) # {} => Enough(tasks, pc),
                    state' = "Running", Quiet(pc'), Sleepers(pc') # {}
             PROVE  Enough(tasks', pc')
  BY <1>1, <1>2
<1> USE PoolAssumption DEF Goto, At, Free
<1>3. /\ pc \in [Workers \cup Callers -> WorkerSteps \cup CallerSteps] /\ RolesInv
      /\ tasks \in Seq(Tasks) /\ Len(tasks) \in Nat
      /\ Cardinality(Coming(pc)) \in Nat /\ Cardinality(Coming(pc')) \in Nat
  BY ComingFinite DEF PoolInv, PoolTypeOK, WorkerSteps, CallerSteps
<1>4. ASSUME state = "Running", Quiet(pc), Sleepers(pc) # {},
             Len(tasks') <= Len(tasks), Len(tasks') \in Nat, Coming(pc) \subseteq Coming(pc')
      PROVE  Enough(tasks', pc')
  BY <1>3, <1>4, ComingMonotone
<1>5. ASSUME NEW c \in Callers, StartThreads(c) \/ Stop(c) \/ Wait(c) \/ Rewait(c)
      PROVE  Enough(tasks', pc')
  <2>1. CASE StartThreads(c)
    <3>1. /\ tasks' = tasks /\ state' = state /\ pc[c] = "idle"
          /\ \A a \in Workers \cup Callers : pc'[a] =
                IF a = c THEN "starting" ELSE IF pc[a] = "none" THEN "test" ELSE pc[a]
      BY <1>3, <2>1 DEF StartThreads, WakeAll
    <3>2. Quiet(pc) /\ Sleepers(pc) # {} /\ Coming(pc) \subseteq Coming(pc')
      BY <3>1 DEF Coming
    <3> QED  BY <1>3, <1>4, <3>1, <3>2
  <2>2. CASE Stop(c)
    BY <2>2 DEF Stop
  <2>3. CASE Wait(c) \/ Rewait(c)
    <3>1. PICK to \in {"idle", "waiting", "destroy"} : pc' = [pc EXCEPT ![c] = to]
      BY <2>3 DEF Wait, Rewait, AfterWait
    <3>2. tasks' = tasks /\ state' = state /\ pc[c] \in {"idle", "rewait"}
      BY <2>3 DEF Wait, Rewait
    <3>3. Quiet(pc) /\ Sleepers(pc) # {} /\ Coming(pc) \subseteq Coming(pc')
      BY <1>3, <3>1, <3>2 DEF Coming
    <3> QED  BY <1>3, <1>4, <3>2, <3>3
  <2> QED  BY <1>5, <2>1, <2>2, <2>3
<1>6. ASSUME NEW c \in Callers, SetRunning(c) \/ NotifyAll(c)
      PROVE  Enough(tasks', pc')
  BY <1>3, <1>6 DEF SetRunning, NotifyAll, WakeAll, WorkerSteps, CallerSteps
<1>7. ASSUME NEW a \in Workers \cup Callers, Notify(a)
      PROVE  Enough(tasks', pc')
  <2> DEFINE back == IF a \in Workers THEN "run" ELSE "idle"
  <2>1. pc[a] = "notify" /\ tasks' = tasks /\ state' = state
    BY <1>7 DEF Notify
  <2>2. CASE Sleepers(pc) = {} /\ pc' = [pc EXCEPT ![a] = back]
    BY <1>3, <2>2
  <2>3. ASSUME NEW w \in Sleepers(pc), pc' = [pc EXCEPT ![w] = "test", ![a] = back]
        PROVE  Enough(tasks', pc')
    <3>1. w # a /\ pc[w] = "asleep" /\ Quiet(pc)
      BY <1>3, <2>1, <2>3
    <3> DEFINE f == [pc EXCEPT ![w] = "test"]
    <3>2. Coming(f) = Coming(pc) \cup {w} /\ w \notin Coming(pc)
      BY <1>3, <2>3, <3>1 DEF Coming
    <3>3. Coming(f) = Coming(pc') \cup {a} /\ a \notin Coming(pc')
      BY <1>3, <2>1, <2>3, <3>1 DEF Coming
    <3>4. Cardinality(Coming(f)) = Cardinality(Coming(pc)) + 1
      BY <3>2, ComingAdd
    <3>5. Cardinality(Coming(f)) = Cardinality(Coming(pc')) + 1
      BY <3>3, ComingAdd
    <3>6. Cardinality(Coming(pc')) = Cardinality(Coming(pc))
      BY <1>3, <3>4, <3>5
    <3> QED  BY <2>1, <2>3, <3>1, <3>6
  <2> QED  BY <1>7, <2>2, <2>3 DEF Notify
<1>8. ASSUME NEW a \in Workers \cup Callers, SpuriousWake(a)
      PROVE  Enough(tasks', pc')
  <2>1. PICK to \in {"test", "rewait"} : pc' = [pc EXCEPT ![a] = to]
    BY <1>8 DEF SpuriousWake
  <2>2. tasks' = tasks /\ state' = state /\ pc[a] \in {"asleep", "waiting"}
    BY <1>8 DEF SpuriousWake
  <2>3. Quiet(pc) /\ Sleepers(pc) # {} /\ Coming(pc) \subseteq Coming(pc')
    BY <1>3, <2>1, <2>2 DEF Coming
  <2> QED  BY <1>3, <1>4, <2>2, <2>3
<1>9. ASSUME NEW a \in Workers \cup Callers, NEW t \in Tasks, Execute(a, t)
      PROVE  Enough(tasks', pc')
  <2>1. /\ tasks' = Append(tasks, t) /\ pc' = [pc EXCEPT ![a] = "notify"]
        /\ state' = state /\ pc[a] \in {"run", "idle"}
    BY <1>9 DEF Execute, MayExecute
  <2>2. Quiet(pc) /\ Sleepers(pc) # {}
    BY <1>3, <2>1
  <2>3. Coming(pc') = Coming(pc) \cup {a} /\ a \notin Coming(pc)
    BY <1>3, <2>1 DEF Coming
  <2>4. Cardinality(Coming(pc')) = Cardinality(Coming(pc)) + 1
    BY <2>3, ComingAdd
  <2>5. Len(tasks') = Len(tasks) + 1
    BY <1>3, <2>1, AppendQueue
  <2> QED  BY <1>3, <2>1, <2>2, <2>4, <2>5
<1>10. ASSUME NEW w \in Workers, TestEmpty(w) \/ TestHeld(w)
       PROVE  Enough(tasks', pc')
  <2>1. CASE TestEmpty(w)
    <3>1. Len(tasks') = 0
      BY <2>1 DEF TestEmpty
    <3> QED  BY <1>3, <3>1
  <2>2. CASE TestHeld(w)
    BY <2>2 DEF TestHeld
  <2> QED  BY <1>10, <2>1, <2>2
<1>11. ASSUME NEW w \in Workers, Take(w)
       PROVE  Enough(tasks', pc')
  <2>1. /\ tasks # <<>> /\ tasks' = Tail(tasks) /\ pc' = [pc EXCEPT ![w] = "run"]
        /\ state' = state /\ pc[w] = "test"
    BY <1>11 DEF Take
  <2>2. Quiet(pc) /\ Sleepers(pc) # {}
    BY <1>3, <2>1
  <2>3. Coming(pc) = Coming(pc') \cup {w} /\ w \notin Coming(pc')
    BY <1>3, <2>1 DEF Coming
  <2>4. Cardinality(Coming(pc)) = Cardinality(Coming(pc')) + 1
    BY <2>3, ComingAdd
  <2>5. Len(tasks') = Len(tasks) - 1
    BY <1>3, <2>1, PopQueue
  <2> QED  BY <1>3, <2>1, <2>2, <2>4, <2>5
<1>12. ASSUME NEW w \in Workers, Return(w)
       PROVE  Enough(tasks', pc')
  <2>1. /\ tasks' = tasks /\ pc' = [pc EXCEPT ![w] = "test"]
        /\ state' = state /\ pc[w] = "run"
    BY <1>12 DEF Return
  <2>2. Quiet(pc) /\ Sleepers(pc) # {} /\ Coming(pc) \subseteq Coming(pc')
    BY <1>3, <2>1 DEF Coming
  <2>3. Len(tasks') <= Len(tasks) /\ Len(tasks') \in Nat /\ state = "Running"
    BY <1>3, <2>1
  <2> QED  BY <1>4, <2>2, <2>3
<1>13. CASE Destroy
  <2>1. PICK to \in {"waiting", "destroy"} : pc' = [pc EXCEPT ![Owner] = to]
    BY <1>13 DEF Destroy
  <2>2. tasks' = tasks /\ state' = state /\ pc[Owner] = "idle"
    BY <1>13 DEF Destroy
  <2>3. Quiet(pc) /\ Sleepers(pc) # {} /\ Coming(pc) \subseteq Coming(pc')
    BY <1>3, <2>1, <2>2 DEF Coming
  <2> QED  BY <1>3, <1>4, <2>2, <2>3
<1>14. CASE OwnerStep
  <2>1. Join
    BY <1>14 DEF OwnerStep, SetPendingDestroy
  <2>2. Len(tasks') = 0
    BY <2>1 DEF Join
  <2> QED  BY <1>3, <2>2
<1>15. CASE UNCHANGED poolVars
  BY <1>3, <1>15 DEF poolVars
<1> QED
  BY <1>5, <1>6, <1>7, <1>8, <1>9, <1>10, <1>11, <1>12, <1>13, <1>14, <1>15
     DEF PoolNext, CallerStep, WorkerStep

(***************************************************************************)
(* The end of the pool.  A worker leaves only when it finds the queue      *)
(* empty, and whoever hands over a task is a worker that has not left or   *)
(* a caller that comes before the destructor: so a queue that holds        *)
(* something has a worker left for it, and join() returns on an empty one. *)
(***************************************************************************)
EndInv ==
    /\ started => Launched
    /\ pc[Owner] \in {"join", "done"} => destroying
    /\ tasks # <<>> => \E w \in Workers : pc[w] # "exited"
    /\ pc[Owner] = "done" => tasks = <<>> /\ \A w \in Workers : pc[w] \in {"none", "exited"}

\* Nobody but the destructor's own thread gets to "done", and that by Join.
LEMMA OnlyJoinEnds ==
  ASSUME PoolInv, EndInv, [PoolNext]_poolVars, ~Join
  PROVE  pc'[Owner] = "done" <=> pc[Owner] = "done"
<1> USE PoolAssumption DEF PoolInv, Goto, At, Free
<1>1. pc \in [Workers \cup Callers -> WorkerSteps \cup CallerSteps] /\ RolesInv
  BY DEF PoolTypeOK, WorkerSteps, CallerSteps
<1>2. ASSUME NEW c \in Callers, CallerStep(c) \/ StartThreads(c) \/ Stop(c) \/ Wait(c)
      PROVE  pc'[Owner] = "done" <=> pc[Owner] = "done"
  BY <1>1, <1>2 DEF CallerStep, SetRunning, NotifyAll, Notify, Rewait, StartThreads, Stop, Wait,
                    WakeAll, AfterWait, RolesInv, WorkerSteps, CallerSteps
<1>3. ASSUME NEW w \in Workers, WorkerStep(w) \/ Return(w)
      PROVE  pc'[Owner] = "done" <=> pc[Owner] = "done"
  BY <1>1, <1>3 DEF WorkerStep, Notify, TestEmpty, TestHeld, Take, Return, WakeAll, RolesInv,
                    WorkerSteps, CallerSteps
<1>4. ASSUME NEW a \in Workers \cup Callers, SpuriousWake(a) \/ \E t \in Tasks : Execute(a, t)
      PROVE  pc'[Owner] = "done" <=> pc[Owner] = "done"
  BY <1>1, <1>4 DEF SpuriousWake, Execute, MayExecute, RolesInv
<1>5. CASE SetPendingDestroy \/ Destroy
  BY <1>1, <1>5 DEF SetPendingDestroy, Destroy
<1>6. CASE UNCHANGED poolVars
  BY <1>6 DEF poolVars
<1> QED  BY <1>2, <1>3, <1>4, <1>5, <1>6 DEF PoolNext, OwnerStep

LEMMA NextEndInv == PoolInv /\ EndInv /\ [PoolNext]_poolVars => EndInv'
<1> SUFFICES ASSUME PoolInv, EndInv, [PoolNext]_poolVars PROVE EndInv'
  OBVIOUS
<1> USE PoolAssumption DEF PoolInv, Goto, At, Free
<1>1. pc \in [Workers \cup Callers -> WorkerSteps \cup CallerSteps] /\ RolesInv
  BY DEF PoolTypeOK, WorkerSteps, CallerSteps
<1>2. (started => Launched)'
  <2>1. CASE \E c \in Callers : StartThreads(c)
    BY <1>1, <2>1 DEF StartThreads, WakeAll, Launched
  <2>2. CASE ~\E c \in Callers : StartThreads(c)
    <3>1. started' = started
      BY <2>2 DEF PoolNext, CallerStep, WorkerStep, OwnerStep, SetRunning, NotifyAll, Notify, Rewait,
                  Stop, Wait, TestEmpty, TestHeld, Take, Return, SpuriousWake, Execute, Destroy,
                  SetPendingDestroy, Join, poolVars
    <3>2. ASSUME NEW w \in Workers, pc[w] # "none" PROVE pc'[w] # "none"
      BY <1>1, <2>2, <3>2
         DEF PoolNext, CallerStep, WorkerStep, OwnerStep, SetRunning, NotifyAll, Notify, Rewait,
             Stop, Wait, TestEmpty, TestHeld, Take, Return, SpuriousWake, Execute, Destroy,
             SetPendingDestroy, Join, poolVars, WakeAll, AfterWait
    <3> QED  BY <3>1, <3>2 DEF EndInv, Launched
  <2> QED  BY <2>1, <2>2
<1>3. (pc[Owner] \in {"join", "done"} => destroying)'
  <2>1. CASE Join
    BY <2>1 DEF Join, EndInv
  <2>2. CASE ~Join
    <3>1. destroying => destroying'
      BY DEF PoolNext, CallerStep, WorkerStep, OwnerStep, SetRunning, NotifyAll, Notify, Rewait,
             StartThreads, Stop, Wait, TestEmpty, TestHeld, Take, Return, SpuriousWake, Execute,
             Destroy, SetPendingDestroy, Join, poolVars
    <3>2. ASSUME pc'[Owner] = "join", pc[Owner] # "join" PROVE destroying
      <4>1. \/ \E c \in Callers : NotifyAll(c)
            \/ SetPendingDestroy
        <5>1. ASSUME NEW w \in Workers, WorkerStep(w) \/ Return(w) PROVE FALSE
          BY <1>1, <3>2, <5>1
             DEF WorkerStep, Notify, TestEmpty, TestHeld, Take, Return, WakeAll, AfterWait,
                 RolesInv, WorkerSteps, CallerSteps
        <5>2. ASSUME NEW c \in Callers, CallerStep(c) \/ StartThreads(c) \/ Stop(c) \/ Wait(c)
              PROVE  NotifyAll(c)
          BY <1>1, <3>2, <5>2
             DEF CallerStep, SetRunning, StartThreads, Notify, Rewait, Stop, Wait, WakeAll,
                 AfterWait, RolesInv, WorkerSteps, CallerSteps
        <5>3. ASSUME NEW a \in Workers \cup Callers,
                     SpuriousWake(a) \/ \E t \in Tasks : Execute(a, t)
              PROVE  FALSE
          BY <1>1, <3>2, <5>3 DEF SpuriousWake, Execute, RolesInv, WorkerSteps, CallerSteps
        <5>4. CASE OwnerStep \/ Destroy
          BY <1>1, <3>2, <5>4
             DEF OwnerStep, Destroy, Join, RolesInv, WorkerSteps, CallerSteps
        <5>5. CASE UNCHANGED poolVars
          BY <3>2, <5>5 DEF poolVars
        <5> QED  BY <5>1, <5>2, <5>3, <5>4, <5>5 DEF PoolNext
      <4> QED  BY <1>1, <3>2, <4>1 DEF NotifyAll, SetPendingDestroy, DestroyInv, WakeAll
    <3> QED  BY <2>2, <3>1, <3>2, OnlyJoinEnds DEF EndInv
  <2> QED  BY <2>1, <2>2
<1>4. (tasks # <<>> => \E w \in Workers : pc[w] # "exited")'
  <2>1. ASSUME NEW a \in Workers \cup Callers, NEW t \in Tasks, Execute(a, t)
        PROVE  \E w \in Workers : pc'[w] # "exited"
    <3>1. CASE a \in Workers
      BY <1>1, <2>1, <3>1 DEF Execute
    <3>2. CASE a \notin Workers
      <4>1. PICK w \in Workers : TRUE  OBVIOUS
      <4>2. ~destroying  BY <2>1, <3>2 DEF Execute, MayExecute
      <4>3. pc[w] # "exited"  BY <4>2 DEF DestroyInv
      <4> QED  BY <1>1, <2>1, <3>2, <4>3 DEF Execute
    <3> QED  BY <3>1, <3>2
  <2>2. ASSUME NEW w \in Workers, TestEmpty(w)
        PROVE  tasks' = <<>>
    BY <2>2 DEF TestEmpty
  <2>3. ASSUME ~\E a \in Workers \cup Callers, t \in Tasks : Execute(a, t)
        PROVE  tasks' # <<>> => tasks # <<>>
    BY <2>3, EmptySeq
       DEF PoolNext, CallerStep, WorkerStep, OwnerStep, SetRunning, NotifyAll, Notify, Rewait,
           StartThreads, Stop, Wait, TestEmpty, TestHeld, Take, Return, SpuriousWake, Destroy,
           SetPendingDestroy, Join, poolVars
  <2>4. ASSUME ~\E w \in Workers : TestEmpty(w), NEW w \in Workers, pc[w] # "exited"
        PROVE  pc'[w] # "exited"
    BY <1>1, <2>4
       DEF PoolNext, CallerStep, WorkerStep, OwnerStep, SetRunning, NotifyAll, Notify, Rewait,
           StartThreads, Stop, Wait, TestHeld, Take, Return, SpuriousWake, Execute, Destroy,
           SetPendingDestroy, Join, poolVars, WakeAll, AfterWait
  <2> QED  BY <2>1, <2>2, <2>3, <2>4 DEF EndInv
<1>5. (pc[Owner] = "done" => tasks = <<>> /\ \A w \in Workers : pc[w] \in {"none", "exited"})'
  <2>1. CASE Join
    BY <1>1, <2>1 DEF Join
  <2>2. ASSUME ~Join, pc[Owner] = "done"
        PROVE  tasks' = <<>> /\ \A w \in Workers : pc'[w] \in {"none", "exited"}
    <3>1. /\ destroying /\ tasks = <<>>
          /\ \A w \in Workers : pc[w] \in {"none", "exited"}
          /\ \A c \in Callers : pc[c] \in {"idle", "done"}
      BY <2>2 DEF EndInv, DestroyInv
    <3>2. UNCHANGED poolVars
      BY <2>2, <3>1
         DEF PoolNext, CallerStep, WorkerStep, OwnerStep, SetRunning, NotifyAll, Notify, Rewait,
             StartThreads, Stop, Wait, TestEmpty, TestHeld, Take, Return, SpuriousWake, Execute,
             MayExecute, Destroy, SetPendingDestroy
    <3> QED  BY <3>1, <3>2 DEF poolVars
  <2> QED  BY <2>1, <2>2, OnlyJoinEnds
<1> QED  BY <1>2, <1>3, <1>4, <1>5 DEF EndInv

(***************************************************************************)
(* The pool as an executor: a closure is in one place, in the queue or in  *)
(* the hands of one worker.                                                *)
(***************************************************************************)
JobsInv ==
    /\ Distinct(tasks)
    /\ \A w \in Workers : job[w] \notin ToSet(tasks)
    /\ \A v, w \in Workers : v # w /\ job[v] = job[w] => job[v] = NoTask

Running == {job[w] : w \in Workers} \ {NoTask}

\* The steps that the executor does not see.
LEMMA SilentSteps ==
  ASSUME [PoolNext]_poolVars, ~Join,
         \A w \in Workers : ~Take(w) /\ ~Return(w),
         \A a \in Workers \cup Callers, t \in Tasks : ~Execute(a, t)
  PROVE  job' = job /\ tasks' = tasks
<1>1. ASSUME NEW c \in Callers, CallerStep(c) \/ StartThreads(c) \/ Stop(c) \/ Wait(c)
      PROVE  job' = job /\ tasks' = tasks
  BY <1>1 DEF CallerStep, SetRunning, NotifyAll, Notify, Rewait, StartThreads, Stop, Wait
<1>2. ASSUME NEW w \in Workers, Notify(w) \/ TestEmpty(w) \/ TestHeld(w)
      PROVE  job' = job /\ tasks' = tasks
  BY <1>2 DEF Notify, TestEmpty, TestHeld
<1>3. ASSUME NEW a \in Workers \cup Callers, SpuriousWake(a)
      PROVE  job' = job /\ tasks' = tasks
  BY <1>3 DEF SpuriousWake
<1>4. CASE SetPendingDestroy \/ Destroy \/ UNCHANGED poolVars
  BY <1>4 DEF SetPendingDestroy, Destroy, poolVars
<1> QED  BY <1>1, <1>2, <1>3, <1>4 DEF PoolNext, WorkerStep, OwnerStep

LEMMA NextJobsInv == PoolInv /\ JobsInv /\ [PoolNext]_poolVars => JobsInv'
<1> SUFFICES ASSUME PoolInv, JobsInv, [PoolNext]_poolVars PROVE JobsInv'
  OBVIOUS
<1>1. tasks \in Seq(Tasks) /\ job \in [Workers -> Tasks \cup {NoTask}] /\ NoTask \notin Tasks
  BY PoolAssumption DEF PoolInv, PoolTypeOK
<1>2. ASSUME NEW a \in Workers \cup Callers, NEW t \in Tasks, Execute(a, t)
      PROVE  JobsInv'
  <2>1. /\ tasks' = Append(tasks, t) /\ job' = job
        /\ t \notin ToSet(tasks) /\ \A w \in Workers : job[w] # t
    BY <1>2 DEF Execute, Fresh
  <2>2. ToSet(tasks') = ToSet(tasks) \cup {t} /\ Distinct(tasks')
    BY <1>1, <2>1, AppendQueue DEF JobsInv
  <2> QED  BY <2>1, <2>2 DEF JobsInv
<1>3. ASSUME NEW w \in Workers, Take(w)
      PROVE  JobsInv'
  <2>1. /\ tasks # <<>> /\ tasks' = Tail(tasks) /\ job' = [job EXCEPT ![w] = Head(tasks)]
    BY <1>3 DEF Take
  <2>2. /\ ToSet(tasks) = ToSet(tasks') \cup {Head(tasks)}
        /\ Distinct(tasks') /\ Head(tasks) \notin ToSet(tasks')
    BY <1>1, <2>1, PopQueue DEF JobsInv
  <2> QED  BY <1>1, <2>1, <2>2 DEF JobsInv
<1>4. ASSUME NEW w \in Workers, Return(w)
      PROVE  JobsInv'
  <2>1. tasks' = tasks /\ job' = [job EXCEPT ![w] = NoTask]
    BY <1>4 DEF Return
  <2>2. NoTask \notin ToSet(tasks)
    BY <1>1, QueueType
  <2> QED  BY <1>1, <2>1, <2>2 DEF JobsInv
<1>5. CASE Join
  BY <1>5, EmptyQueue DEF Join, JobsInv
<1>6. CASE /\ ~Join /\ \A w \in Workers : ~Take(w) /\ ~Return(w)
           /\ \A a \in Workers \cup Callers, t \in Tasks : ~Execute(a, t)
  <2>1. job' = job /\ tasks' = tasks
    BY <1>6, SilentSteps
  <2> QED  BY <2>1 DEF JobsInv
<1> QED  BY <1>2, <1>3, <1>4, <1>5, <1>6

\* Execute hands over, Take starts the oldest, Return finishes and Join closes;
\* every other step stutters.
LEMMA PoolStepIsExecutorStep ==
  PoolInv /\ EndInv /\ JobsInv /\ [PoolNext]_poolVars => [Exec!ExecutorNext]_(Exec!executorVars)
<1> SUFFICES ASSUME PoolInv, EndInv, JobsInv, [PoolNext]_poolVars
             PROVE  Exec!ExecutorNext \/ UNCHANGED Exec!executorVars
  OBVIOUS
<1>1. /\ tasks \in Seq(Tasks) /\ job \in [Workers -> Tasks \cup {NoTask}] /\ NoTask \notin Tasks
      /\ pc \in [Workers \cup Callers -> WorkerSteps \cup CallerSteps] /\ Owner \in Callers
      /\ \A w \in Workers : job[w] # NoTask <=> pc[w] \in {"run", "notify"}
  BY PoolAssumption DEF PoolInv, PoolTypeOK, WorkerSteps, CallerSteps
<1>2. ASSUME NEW a \in Workers \cup Callers, NEW t \in Tasks, Execute(a, t)
      PROVE  Exec!ExecutorNext
  <2>1. /\ tasks' = Append(tasks, t) /\ job' = job
        /\ t \notin ToSet(tasks) /\ \A w \in Workers : job[w] # t
    BY <1>2 DEF Execute, Fresh
  <2>2. pc[Owner] # "done"
    BY <1>2 DEF EndInv, Execute, MayExecute, Free, At
  <2>3. ~Join
    BY <1>1, <2>1, AppendQueue DEF Join
  <2>4. pc'[Owner] # "done"
    BY <2>2, <2>3, OnlyJoinEnds
  <2>5. Exec!Fresh(t)
    BY <2>1 DEF Exec!Fresh, Exec!ToSet, ToSet
  <2>6. Running' = Running
    BY <2>1 DEF Running
  <2>7. Exec!Execute(t)
    BY <2>1, <2>2, <2>4, <2>5, <2>6 DEF Exec!Execute, Running
  <2> QED  BY <2>2, <2>7 DEF Exec!ExecutorNext
<1>3. ASSUME NEW w \in Workers, Take(w)
      PROVE  Exec!ExecutorNext
  <2>1. /\ tasks # <<>> /\ tasks' = Tail(tasks) /\ job' = [job EXCEPT ![w] = Head(tasks)]
        /\ pc[w] = "test"
    BY <1>3 DEF Take, At
  <2>2. pc[Owner] # "done"
    BY <2>1 DEF EndInv
  <2>3. ~Join
    BY <2>1, <1>3, PoolAssumption DEF Join, At
  <2>4. pc'[Owner] # "done"
    BY <2>2, <2>3, OnlyJoinEnds
  <2>5. job[w] = NoTask /\ Head(tasks) \in Tasks
    BY <1>1, <2>1, PopQueue
  <2>6. Running' = Running \cup {Head(tasks)}
    BY <1>1, <2>1, <2>5 DEF Running
  <2>7. Exec!StartOldest
    BY <2>1, <2>2, <2>4, <2>6 DEF Exec!StartOldest, Running
  <2> QED  BY <2>2, <2>7 DEF Exec!ExecutorNext
<1>4. ASSUME NEW w \in Workers, Return(w)
      PROVE  Exec!ExecutorNext
  <2>1. tasks' = tasks /\ job' = [job EXCEPT ![w] = NoTask] /\ pc[w] = "run"
    BY <1>4 DEF Return, At
  <2>2. pc[Owner] # "done" /\ ~Join
    BY <2>1 DEF EndInv, Join
  <2>3. pc'[Owner] # "done"
    BY <2>2, OnlyJoinEnds
  <2>4. PICK t \in Tasks : t = job[w]
    BY <1>1, <2>1
  <2>5. Running' = Running \ {t}
    BY <1>1, <2>1, <2>4 DEF Running, JobsInv
  <2>6. t \in Running
    BY <1>1, <2>4 DEF Running
  <2>7. Exec!Finish(t)
    BY <2>1, <2>2, <2>3, <2>5, <2>6 DEF Exec!Finish, Running
  <2> QED  BY <2>2, <2>7 DEF Exec!ExecutorNext
<1>5. CASE Join
  <2>1. tasks' = <<>> /\ job' = job /\ pc[Owner] = "join" /\ pc'[Owner] = "done"
    BY <1>1, <1>5 DEF Join, At, Goto
  <2>2. Exec!Close
    BY <2>1 DEF Exec!Close
  <2> QED  BY <2>1, <2>2 DEF Exec!ExecutorNext
<1>6. CASE /\ ~Join /\ \A w \in Workers : ~Take(w) /\ ~Return(w)
           /\ \A a \in Workers \cup Callers, t \in Tasks : ~Execute(a, t)
  <2>1. job' = job /\ tasks' = tasks /\ (pc'[Owner] = "done" <=> pc[Owner] = "done")
    BY <1>6, SilentSteps, OnlyJoinEnds
  <2> QED  BY <2>1 DEF Exec!executorVars
<1> QED  BY <1>2, <1>3, <1>4, <1>5, <1>6

(***************************************************************************)
(* The theorems.                                                           *)
(***************************************************************************)
LEMMA PoolInvHolds == PoolSpec => []PoolInv
<1> QED  BY InitPoolInv, NextPoolInv, PTL DEF PoolSpec

LEMMA InitEndInv == PoolInit => EndInv /\ JobsInv /\ UsesAllWorkers /\ Exec!ExecutorInit
<1> SUFFICES ASSUME PoolInit PROVE EndInv /\ JobsInv /\ UsesAllWorkers /\ Exec!ExecutorInit
  OBVIOUS
<1>1. /\ tasks = <<>> /\ state = "Stopping" /\ started = FALSE /\ pc[Owner] = "idle"
      /\ \A w \in Workers : job[w] = NoTask
  BY PoolAssumption DEF PoolInit
<1>2. EndInv /\ UsesAllWorkers
  BY <1>1 DEF EndInv, UsesAllWorkers
<1>3. JobsInv
  BY <1>1, EmptyQueue DEF JobsInv
<1>4. Exec!ExecutorInit
  BY <1>1 DEF Exec!ExecutorInit
<1> QED  BY <1>2, <1>3, <1>4

LEMMA EndInvHolds == PoolSpec => [](EndInv /\ JobsInv /\ UsesAllWorkers)
<1> QED
  BY PoolInvHolds, InitEndInv, NextEndInv, NextJobsInv, UsesAllWorkersInductive, PTL DEF PoolSpec

\* Type correctness of ThreadPool: among others, a worker has a task in hand
\* exactly while it runs one.
THEOREM PoolTypeCorrect == PoolSpec => []PoolTypeOK
<1>1. PoolInv => PoolTypeOK
  BY DEF PoolInv
<1> QED  BY <1>1, PoolInvHolds, PTL

\* For any numbers of workers, callers and tasks, and for tasks that hand over
\* tasks: start(), execute() and run_in_background() never let every worker of
\* a running pool sleep while tasks_ holds something and no thread is about to
\* notify.
THEOREM PoolNeverSleepsOnWork == PoolSpec => []NoSleepingOnWork
<1>1. PoolInv => NoSleepingOnWork
  BY DEF PoolInv
<1> QED  BY <1>1, PoolInvHolds, PTL

\* For any numbers of workers, callers and tasks: a running pool does not let a
\* worker sleep while more tasks are queued than there are workers under way to
\* the queue and notify_one() calls still to come; the notifications of
\* execute() are never lost on workers that were awake anyway.
THEOREM PoolUsesAllWorkers == PoolSpec => []UsesAllWorkers
<1> QED  BY EndInvHolds, PTL

\* For any numbers of workers, callers and tasks: when ~ThreadPool() of a pool
\* that was started returns, tasks_ is empty, whatever was handed over while the
\* destructor waited and joined.
THEOREM PoolDropsNothing == PoolSpec => NoneDropped
<1>1. PoolInv /\ EndInv /\ [PoolNext]_poolVars => [started /\ pc'[Owner] = "done" => tasks = <<>>]_poolVars
  <2> SUFFICES ASSUME PoolInv, EndInv, [PoolNext]_poolVars, started, pc'[Owner] = "done"
               PROVE  tasks = <<>>
    OBVIOUS
  <2>1. CASE Join
    <3>1. Launched /\ \A w \in Workers : pc[w] \in {"none", "exited"}
      BY <2>1 DEF Join, EndInv
    <3> QED  BY <3>1 DEF EndInv, Launched
  <2>2. CASE ~Join
    BY <2>2, OnlyJoinEnds DEF EndInv
  <2> QED  BY <2>1, <2>2
<1> QED  BY <1>1, PoolInvHolds, EndInvHolds, PTL DEF PoolSpec, NoneDropped

\* ThreadPool implements Executor for any numbers of workers, callers and tasks:
\* each closure is started by one worker, once, in the order of the calls of
\* execute(), and nothing is handed over or started after the destructor.
THEOREM PoolImplementsExecutor == PoolSpec => ImplementsExecutor
<1> QED
  BY PoolInvHolds, EndInvHolds, InitEndInv, PoolStepIsExecutorStep, PTL
     DEF PoolSpec, ImplementsExecutor, Exec!ExecutorSpec
=============================================================================
