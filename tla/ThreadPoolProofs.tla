-------------------------- MODULE ThreadPoolProofs --------------------------
(***************************************************************************)
(* The thread pool loses no wakeup and implements TaskExecutor, and both   *)
(* programs shut down in order, for every number of threads and tasks,     *)
(* with and without a health checker.                                      *)
(*                                                                         *)
(* A step of the program is a step of the thread pool or leaves it alone,  *)
(* so all that is proved of the pool holds in the program.  The rest is an *)
(* induction over where main() is: what each stage of the destructor       *)
(* relies on was done by an earlier one and is not undone by the others.   *)
(***************************************************************************)
EXTENDS Lifecycle, QueueLemmas, FiniteSetTheorems, TLAPS

USE PoolTaskAssumption, PoolThreadAssumption
USE DEF Push, OwnerGoes, WakeOne, ThreadGoes, Pop

-----------------------------------------------------------------------------
(* The inductive invariant *)

HeldTasks == {task[t] : t \in Threads} \ {NoTask}
RanTasks  == {x \in Tasks : ran[x] > 0}

\* A thread has a task exactly while it executes it.
HoldsWhileRunning == \A t \in Threads : tpc[t] = "task" <=> task[t] # NoTask

\* Every task ever enqueued is in the queue, held by a thread, or has run; none is
\* in two of these places, or twice in one.
Conserved ==
    /\ enqueued = Elements(queue_) \cup HeldTasks \cup RanTasks
    /\ Elements(queue_) \cap HeldTasks = {}
    /\ Elements(queue_) \cap RanTasks = {}
    /\ HeldTasks \cap RanTasks = {}
    /\ Distinct(queue_)
    /\ \A s, t \in Threads : task[s] = task[t] => s = t \/ task[s] = NoTask
    /\ \A x \in Tasks : ran[x] <= 1

\* Threads return only from a pool that is being destroyed and has no tasks left.
Shutdown ==
    /\ stop_ <=> owner \in {"stopping", "joining", "gone"}
    /\ \A t \in Threads : tpc[t] = "exited" => stop_ /\ queue_ = <<>>
    /\ owner = "gone" => \A t \in Threads : tpc[t] = "exited"

PoolInv == PoolTypeOK /\ HoldsWhileRunning /\ Conserved /\ Shutdown

\* A freshly constructed pool satisfies the invariant.
LEMMA InitPoolInv == PoolInit => PoolInv
<1> SUFFICES ASSUME PoolInit PROVE PoolInv
  OBVIOUS
<1>0. Shutdown
  <2>1. stop_ = FALSE /\ owner = "open" /\ \A t \in Threads : tpc[t] = "lock"
    BY DEF PoolInit
  <2>2. QED
    BY <2>1 DEF Shutdown
<1>1. PoolTypeOK /\ HoldsWhileRunning
  <2>1. stop_ \in BOOLEAN
    BY Zenon DEF PoolInit
  <2>2. /\ tpc \in [Threads -> {"lock", "asleep", "task", "exited"}]
        /\ task \in [Threads -> Tasks \cup {NoTask}]
        /\ queue_ \in Seq(Tasks) /\ enqueued \in SUBSET Tasks /\ ran \in [Tasks -> Nat]
        /\ owner \in {"open", "notify", "stopping", "joining", "gone"}
    BY DEF PoolInit
  <2>3. HoldsWhileRunning
    BY DEF PoolInit, HoldsWhileRunning
  <2>4. QED
    BY <2>1, <2>2, <2>3 DEF PoolTypeOK
<1>2. Elements(queue_) = {} /\ HeldTasks = {} /\ RanTasks = {} /\ Distinct(queue_)
  BY DEF PoolInit, Elements, HeldTasks, RanTasks, Distinct
<1>3. Conserved
  BY <1>2 DEF PoolInit, Conserved
<1>4. QED
  BY <1>0, <1>1, <1>3 DEF PoolInv

\* Steps that move threads between "lock", "asleep" and "exited" only.
LEMMA SchedulingStep ==
  ASSUME PoolInv, UNCHANGED <<task, queue_, stop_, enqueued, ran>>,
         tpc' \in [Threads -> {"lock", "asleep", "task", "exited"}],
         owner' \in {"open", "notify", "stopping", "joining", "gone"},
         \A t \in Threads : tpc'[t] = "task" <=> tpc[t] = "task"
  PROVE  PoolTypeOK' /\ HoldsWhileRunning' /\ Conserved'
  BY DEF PoolInv, PoolTypeOK, HoldsWhileRunning, Conserved, HeldTasks, RanTasks

\* Every step of the pool preserves the invariant.
LEMMA NextPoolInv ==
  ASSUME PoolInv, [PoolNext]_poolVars
  PROVE  PoolInv'
<1>t. /\ tpc \in [Threads -> {"lock", "asleep", "task", "exited"}]
      /\ task \in [Threads -> Tasks \cup {NoTask}]
      /\ queue_ \in Seq(Tasks) /\ Distinct(queue_)
      /\ ran \in [Tasks -> Nat]
      /\ enqueued \in SUBSET Tasks
  BY DEF PoolInv, PoolTypeOK, Conserved
<1>1. ASSUME NEW x \in Tasks, Enqueue(x) PROVE PoolInv'
  <2>1. /\ queue_' = Append(queue_, x) /\ enqueued' = enqueued \cup {x} /\ x \notin enqueued
        /\ UNCHANGED <<tpc, task, stop_, ran>> /\ owner = "open" /\ owner' = "notify"
    BY <1>1 DEF Enqueue
  <2>2. queue_' \in Seq(Tasks)
    BY <1>t, <2>1, AppendInSeq, Zenon
  <2>3. x \notin Elements(queue_) /\ x \notin HeldTasks /\ x \notin RanTasks
    BY <2>1 DEF PoolInv, Conserved
  <2>4. Elements(queue_') = Elements(queue_) \cup {x} /\ Distinct(queue_')
    BY <1>t, <2>1, <2>3, QueueOps, Zenon
  <2>5. HeldTasks' = HeldTasks /\ RanTasks' = RanTasks
    BY <2>1 DEF HeldTasks, RanTasks
  <2>6. Conserved'
    BY <2>1, <2>3, <2>4, <2>5 DEF PoolInv, Conserved
  <2>7. PoolTypeOK' /\ HoldsWhileRunning'
    BY <2>1, <2>2 DEF PoolInv, PoolTypeOK, HoldsWhileRunning
  <2>8. Shutdown'
    BY <2>1 DEF PoolInv, Shutdown
  <2>9. QED
    BY <2>6, <2>7, <2>8 DEF PoolInv
<1>2. CASE NotifyOne
  <2>1. PoolTypeOK' /\ HoldsWhileRunning' /\ Conserved'
    BY <1>2, <1>t, SchedulingStep DEF NotifyOne, Asleep
  <2>2. Shutdown'
    BY <1>2, <1>t DEF NotifyOne, Asleep, PoolInv, Shutdown
  <2>3. QED
    BY <2>1, <2>2 DEF PoolInv
<1>3. CASE SetStop
  <2>1. Shutdown'
    BY <1>3 DEF SetStop, PoolInv, Shutdown
  <2>2. PoolTypeOK' /\ HoldsWhileRunning' /\ Conserved'
    BY <1>3 DEF SetStop, PoolInv, PoolTypeOK, HoldsWhileRunning, Conserved, HeldTasks, RanTasks
  <2>3. QED
    BY <2>1, <2>2 DEF PoolInv
<1>4. CASE NotifyAll
  <2>1. PoolTypeOK' /\ HoldsWhileRunning' /\ Conserved'
    BY <1>4, <1>t, SchedulingStep DEF NotifyAll, Asleep
  <2>2. Shutdown'
    BY <1>4, <1>t DEF NotifyAll, Asleep, PoolInv, Shutdown
  <2>3. QED
    BY <2>1, <2>2 DEF PoolInv
<1>5. CASE JoinAll
  <2>1. PoolTypeOK' /\ HoldsWhileRunning' /\ Conserved'
    BY <1>5, <1>t, SchedulingStep DEF JoinAll
  <2>2. Shutdown'
    BY <1>5 DEF JoinAll, PoolInv, Shutdown
  <2>3. QED
    BY <2>1, <2>2 DEF PoolInv
<1>6. ASSUME NEW t \in Threads, GoToSleep(t) \/ SpuriousWakeup(t) \/ ThreadReturns(t)
      PROVE  PoolInv'
  <2>0. owner' \in {"open", "notify", "stopping", "joining", "gone"}
    BY <1>6 DEF GoToSleep, SpuriousWakeup, ThreadReturns, PoolInv, PoolTypeOK
  <2>1. PoolTypeOK' /\ HoldsWhileRunning' /\ Conserved'
    BY <1>6, <1>t, <2>0, SchedulingStep DEF GoToSleep, SpuriousWakeup, ThreadReturns
  <2>2. Shutdown'
    BY <1>6, <1>t DEF GoToSleep, SpuriousWakeup, ThreadReturns, PoolInv, Shutdown
  <2>3. QED
    BY <2>1, <2>2 DEF PoolInv
<1>7. ASSUME NEW t \in Threads, PopTask(t) PROVE PoolInv'
  <2> DEFINE h == Head(queue_)
  <2>1. /\ queue_ # <<>> /\ queue_' = Tail(queue_) /\ tpc[t] = "lock"
        /\ tpc' = [tpc EXCEPT ![t] = "task"] /\ task' = [task EXCEPT ![t] = h]
        /\ UNCHANGED <<stop_, owner, enqueued, ran>>
    BY <1>7 DEF PopTask
  <2>2. /\ Elements(queue_') = Elements(queue_) \ {h} /\ h \in Elements(queue_)
        /\ Distinct(queue_')
    BY <1>t, <2>1, QueueOps, Zenon
  <2>3. h \in Tasks /\ h # NoTask /\ queue_' \in Seq(Tasks)
    BY <1>t, <2>1
  <2>4. task[t] = NoTask
    BY <2>1 DEF PoolInv, HoldsWhileRunning
  <2>5. HeldTasks' = HeldTasks \cup {h}
    BY <1>t, <2>1, <2>3, <2>4 DEF HeldTasks
  <2>6. RanTasks' = RanTasks
    BY <2>1 DEF RanTasks
  <2>7. \A s \in Threads : task[s] # h
    BY <2>2, <2>3 DEF PoolInv, Conserved, HeldTasks
  <2>8. Conserved'
    BY <1>t, <2>1, <2>2, <2>5, <2>6, <2>7 DEF PoolInv, Conserved
  <2>9. PoolTypeOK' /\ HoldsWhileRunning'
    BY <1>t, <2>1, <2>3 DEF PoolInv, PoolTypeOK, HoldsWhileRunning
  <2>10. Shutdown'
    BY <1>t, <2>1 DEF PoolInv, Shutdown
  <2>11. QED
    BY <2>8, <2>9, <2>10 DEF PoolInv
<1>8. ASSUME NEW t \in Threads, TaskReturns(t) PROVE PoolInv'
  <2> DEFINE x == task[t]
  <2>1. /\ tpc[t] = "task" /\ tpc' = [tpc EXCEPT ![t] = "lock"]
        /\ task' = [task EXCEPT ![t] = NoTask] /\ ran' = [ran EXCEPT ![x] = @ + 1]
        /\ UNCHANGED <<queue_, stop_, owner, enqueued>>
    BY <1>8 DEF TaskReturns
  <2>2. x \in Tasks /\ x \in HeldTasks
    BY <1>t, <2>1 DEF PoolInv, HoldsWhileRunning, HeldTasks
  <2>3. ran[x] = 0
    BY <1>t, <2>2 DEF PoolInv, Conserved, RanTasks
  <2>4. HeldTasks' = HeldTasks \ {x}
    BY <1>t, <2>1, <2>2 DEF PoolInv, Conserved, HeldTasks
  <2>5. RanTasks' = RanTasks \cup {x}
    BY <1>t, <2>1, <2>2, <2>3 DEF RanTasks
  <2>6. \A y \in Tasks : ran'[y] <= 1
    BY <1>t, <2>1, <2>2, <2>3 DEF PoolInv, Conserved
  <2>7. Conserved'
    BY <1>t, <2>1, <2>2, <2>4, <2>5, <2>6 DEF PoolInv, Conserved
  <2>8. PoolTypeOK' /\ HoldsWhileRunning'
    BY <1>t, <2>1, <2>2 DEF PoolInv, PoolTypeOK, HoldsWhileRunning
  <2>9. Shutdown'
    BY <1>t, <2>1 DEF PoolInv, Shutdown
  <2>10. QED
    BY <2>7, <2>8, <2>9 DEF PoolInv
<1>9. CASE UNCHANGED poolVars
  BY <1>9 DEF poolVars, PoolInv, PoolTypeOK, HoldsWhileRunning, Conserved, HeldTasks, RanTasks,
              Shutdown
<1>10. QED
  BY <1>1, <1>2, <1>3, <1>4, <1>5, <1>6, <1>7, <1>8, <1>9 DEF PoolNext, OwnerStep, ThreadStep

\* The thread pool keeps its types.
THEOREM PoolTypeCorrect == PoolSpec => []PoolTypeOK
<1>1. PoolInv => PoolTypeOK
  BY DEF PoolInv
<1>2. QED
  BY <1>1, InitPoolInv, NextPoolInv, PTL DEF PoolSpec

\* ~ThreadPool() leaves no task behind: every task that was enqueued has run,
\* exactly once, when the last thread has been joined.
THEOREM PoolDrains == PoolSpec => []DrainedOnDestruction
<1>1. ASSUME PoolInv PROVE DrainedOnDestruction
  <2> SUFFICES ASSUME owner = "gone"
               PROVE  /\ \A x \in Tasks : ran[x] = IF x \in enqueued THEN 1 ELSE 0
                      /\ \A t \in Threads : tpc[t] = "exited"
    BY DEF DrainedOnDestruction
  <2>1. \A t \in Threads : tpc[t] = "exited"
    BY <1>1 DEF PoolInv, Shutdown
  <2>2. queue_ = <<>>
    BY <1>1, <2>1 DEF PoolInv, Shutdown
  <2>3. Elements(queue_) = {}
    BY <2>2 DEF Elements
  <2>4. HeldTasks = {}
    BY <1>1, <2>1 DEF PoolInv, HoldsWhileRunning, HeldTasks
  <2>5. enqueued = RanTasks
    BY <1>1, <2>3, <2>4 DEF PoolInv, Conserved
  <2>6. ran \in [Tasks -> Nat] /\ \A x \in Tasks : ran[x] <= 1
    BY <1>1 DEF PoolInv, PoolTypeOK, Conserved
  <2>7. \A x \in Tasks : ran[x] = IF x \in enqueued THEN 1 ELSE 0
    BY <2>5, <2>6 DEF RanTasks
  <2>8. QED
    BY <2>1, <2>7
<1>2. QED
  BY <1>1, InitPoolInv, NextPoolInv, PTL DEF PoolSpec

-----------------------------------------------------------------------------
(* No lost wakeup *)

\* Moving one thread changes the number of threads on their way to the queue by one.
LEMMA AwakeCount ==
  ASSUME PoolTypeOK, NEW t \in Threads, NEW l, tpc' = [tpc EXCEPT ![t] = l]
  PROVE  /\ IsFiniteSet(Awake) /\ Cardinality(Awake) \in Nat
         /\ tpc[t] = "lock" /\ l # "lock" =>
               Awake' = Awake \ {t} /\ Cardinality(Awake') = Cardinality(Awake) - 1
         /\ tpc[t] # "lock" /\ l = "lock" =>
               Awake' = Awake \cup {t} /\ Cardinality(Awake') = Cardinality(Awake) + 1
<1>t. tpc \in [Threads -> {"lock", "asleep", "task", "exited"}]
  BY DEF PoolTypeOK
<1>1. IsFiniteSet(Awake) /\ Cardinality(Awake) \in Nat
  <2>1. Awake \in SUBSET Threads
    BY DEF Awake
  <2>2. IsFiniteSet(Awake)
    BY <2>1, FS_Subset
  <2>3. QED
    BY <2>2, FS_CardinalityType
<1>2. ASSUME tpc[t] = "lock", l # "lock"
      PROVE  Awake' = Awake \ {t} /\ Cardinality(Awake') = Cardinality(Awake) - 1
  <2>1. Awake' = Awake \ {t} /\ t \in Awake
    BY <1>t, <1>2 DEF Awake
  <2>2. QED
    BY <1>1, <2>1, FS_RemoveElement
<1>3. ASSUME tpc[t] # "lock", l = "lock"
      PROVE  Awake' = Awake \cup {t} /\ Cardinality(Awake') = Cardinality(Awake) + 1
  <2>1. Awake' = Awake \cup {t} /\ t \notin Awake
    BY <1>t, <1>3 DEF Awake
  <2>2. QED
    BY <1>1, <2>1, FS_AddElement
<1>4. QED
  BY <1>1, <1>2, <1>3

\* A push is followed by its notify_one(); a thread goes to sleep only when the
\* queue is empty; one that takes a task leaves the queue shorter.
LEMMA NextNoLostWakeup ==
  ASSUME PoolInv, NoLostWakeup, [PoolNext]_poolVars
  PROVE  NoLostWakeup'
<1>t. /\ PoolTypeOK
      /\ tpc \in [Threads -> {"lock", "asleep", "task", "exited"}]
      /\ queue_ \in Seq(Tasks) /\ Len(queue_) \in Nat
  BY DEF PoolInv, PoolTypeOK
<1>f. IsFiniteSet(Awake) /\ Cardinality(Awake) \in Nat
  <2>1. Awake \in SUBSET Threads
    BY DEF Awake
  <2>2. IsFiniteSet(Awake)
    BY <2>1, FS_Subset
  <2>3. QED
    BY <2>2, FS_CardinalityType
<1>1. ASSUME NEW x \in Tasks, Enqueue(x) PROVE NoLostWakeup'
  <2>1. /\ Asleep' = Asleep /\ Awake' = Awake /\ owner = "open" /\ owner' = "notify"
        /\ Len(queue_') = Len(queue_) + 1
    BY <1>1, <1>t DEF Enqueue, Asleep, Awake
  <2>2. QED
    BY <1>f, <1>t, <2>1 DEF NoLostWakeup
<1>2. CASE NotifyOne
  <2>1. CASE Asleep = {} /\ UNCHANGED tpc
    BY <2>1 DEF NoLostWakeup, Asleep
  <2>2. ASSUME NEW t \in Asleep, tpc' = [tpc EXCEPT ![t] = "lock"] PROVE NoLostWakeup'
    <3>1. t \in Threads /\ tpc[t] = "asleep" /\ Asleep # {}
      BY <2>2 DEF Asleep
    <3>2. Cardinality(Awake') = Cardinality(Awake) + 1
      BY <1>t, <2>2, <3>1, AwakeCount
    <3>3. owner = "notify" /\ owner' = "open" /\ queue_' = queue_
      BY <1>2 DEF NotifyOne
    <3>4. QED
      BY <1>f, <1>t, <3>1, <3>2, <3>3 DEF NoLostWakeup
  <2>3. QED
    BY <1>2, <2>1, <2>2 DEF NotifyOne
<1>3. CASE SetStop \/ JoinAll
  BY <1>3 DEF SetStop, JoinAll, NoLostWakeup, Asleep, Awake
<1>4. CASE NotifyAll
  BY <1>4, <1>t DEF NotifyAll, NoLostWakeup, Asleep
<1>5. ASSUME NEW t \in Threads, GoToSleep(t) PROVE NoLostWakeup'
  <2>1. queue_' = <<>>
    BY <1>5 DEF GoToSleep
  <2>2. IsFiniteSet(Awake') /\ Cardinality(Awake') \in Nat
    <3>1. Awake' \in SUBSET Threads
      BY DEF Awake
    <3>2. IsFiniteSet(Awake')
      BY <3>1, FS_Subset
    <3>3. QED
      BY <3>2, FS_CardinalityType
  <2>3. QED
    BY <2>1, <2>2 DEF NoLostWakeup
<1>6. ASSUME NEW t \in Threads, SpuriousWakeup(t) PROVE NoLostWakeup'
  <2>1. tpc[t] = "asleep" /\ tpc' = [tpc EXCEPT ![t] = "lock"] /\ UNCHANGED <<queue_, owner>>
    BY <1>6 DEF SpuriousWakeup
  <2>2. Cardinality(Awake') = Cardinality(Awake) + 1
    BY <1>t, <2>1, AwakeCount
  <2>3. Asleep # {}
    BY <2>1 DEF Asleep
  <2>4. QED
    BY <1>f, <1>t, <2>1, <2>2, <2>3 DEF NoLostWakeup
<1>7. ASSUME NEW t \in Threads, ThreadReturns(t) PROVE NoLostWakeup'
  <2>1. queue_' = <<>>
    BY <1>7 DEF ThreadReturns
  <2>2. IsFiniteSet(Awake') /\ Cardinality(Awake') \in Nat
    <3>1. Awake' \in SUBSET Threads
      BY DEF Awake
    <3>2. IsFiniteSet(Awake')
      BY <3>1, FS_Subset
    <3>3. QED
      BY <3>2, FS_CardinalityType
  <2>3. QED
    BY <2>1, <2>2 DEF NoLostWakeup
<1>8. ASSUME NEW t \in Threads, PopTask(t) PROVE NoLostWakeup'
  <2>1. /\ tpc[t] = "lock" /\ tpc' = [tpc EXCEPT ![t] = "task"] /\ owner' = owner
        /\ Len(queue_') = Len(queue_) - 1
    BY <1>8, <1>t DEF PopTask
  <2>2. Cardinality(Awake') = Cardinality(Awake) - 1
    <3>1. "task" # "lock"
      OBVIOUS
    <3>2. QED
      BY <1>t, <2>1, <3>1, AwakeCount, Zenon
  <2>3. Asleep' = Asleep
    BY <1>t, <2>1 DEF Asleep
  <2>4. QED
    BY <1>f, <1>t, <2>1, <2>2, <2>3 DEF NoLostWakeup
<1>9. ASSUME NEW t \in Threads, TaskReturns(t) PROVE NoLostWakeup'
  <2>1. /\ tpc[t] = "task" /\ tpc' = [tpc EXCEPT ![t] = "lock"] /\ owner' = owner
        /\ queue_' = queue_
    BY <1>9 DEF TaskReturns
  <2>2. Cardinality(Awake') = Cardinality(Awake) + 1
    BY <1>t, <2>1, AwakeCount
  <2>3. Asleep' = Asleep
    BY <1>t, <2>1 DEF Asleep
  <2>4. QED
    BY <1>f, <1>t, <2>1, <2>2, <2>3 DEF NoLostWakeup
<1>10. CASE UNCHANGED poolVars
  BY <1>10 DEF poolVars, NoLostWakeup, Asleep, Awake
<1>11. QED
  BY <1>1, <1>2, <1>3, <1>4, <1>5, <1>6, <1>7, <1>8, <1>9, <1>10
     DEF PoolNext, OwnerStep, ThreadStep

\* notify_one() after the unlock in enqueue() is enough: no interleaving of pushes,
\* pops, spurious wakeups and sleepers leaves a task behind with everybody asleep,
\* for any number of threads.
THEOREM WakeupsAreNotLost == PoolSpec => []NoLostWakeup
<1>1. PoolInit => NoLostWakeup
  BY DEF PoolInit, NoLostWakeup, Asleep
<1>2. QED
  BY <1>1, InitPoolInv, NextPoolInv, NextNoLostWakeup, PTL DEF PoolSpec

-----------------------------------------------------------------------------
(* Refinement *)

\* Every step of the pool is a step of the executor or changes nothing of it.
LEMMA StepImplements ==
  ASSUME PoolInv, [PoolNext]_poolVars
  PROVE  [Executor!ExecNext]_(Executor!execVars)
<1> USE DEF Executor!ExecNext, Executor!execVars
<1>t. /\ tpc \in [Threads -> {"lock", "asleep", "task", "exited"}]
      /\ task \in [Threads -> Tasks \cup {NoTask}]
      /\ queue_ \in Seq(Tasks)
      /\ ran \in [Tasks -> Nat]
  BY DEF PoolInv, PoolTypeOK
<1>1. ASSUME NEW x \in Tasks, Enqueue(x) PROVE Executor!Submit(x)
  BY <1>1 DEF Enqueue, Executor!Submit
<1>2. CASE NotifyOne \/ SetStop \/ NotifyAll
  BY <1>2 DEF NotifyOne, SetStop, NotifyAll
<1>3. CASE JoinAll
  <2>1. \A t \in Threads : tpc[t] = "exited"
    BY <1>3 DEF JoinAll
  <2>2. queue_ = <<>>
    BY <2>1 DEF PoolInv, Shutdown
  <2>3. Elements(queue_) = {}
    BY <2>2 DEF Elements
  <2>4. HeldTasks = {}
    BY <2>1 DEF PoolInv, HoldsWhileRunning, HeldTasks
  <2>5. {x \in Tasks : ran[x] > 0} = enqueued
    BY <2>3, <2>4 DEF PoolInv, Conserved, RanTasks
  <2>6. Executor!Destroy
    BY <1>3, <2>5 DEF JoinAll, Executor!Destroy
  <2>7. QED
    BY <2>6
<1>4. ASSUME NEW t \in Threads, GoToSleep(t) \/ SpuriousWakeup(t) \/ ThreadReturns(t)
      PROVE  UNCHANGED Executor!execVars
  BY <1>4 DEF GoToSleep, SpuriousWakeup, ThreadReturns
<1>5. ASSUME NEW t \in Threads, PopTask(t) PROVE Executor!Start(t)
  <2>1. task[t] = NoTask
    BY <1>5 DEF PopTask, PoolInv, HoldsWhileRunning
  <2>2. QED
    BY <1>5, <2>1 DEF PopTask, Executor!Start
<1>6. ASSUME NEW t \in Threads, TaskReturns(t) PROVE Executor!Finish(t)
  <2>1. task[t] # NoTask /\ task[t] \in Tasks
    BY <1>6, <1>t DEF TaskReturns, PoolInv, HoldsWhileRunning
  <2>2. {x \in Tasks : ran'[x] > 0} = {x \in Tasks : ran[x] > 0} \cup {task[t]}
    BY <1>6, <1>t, <2>1 DEF TaskReturns
  <2>3. QED
    BY <1>6, <2>1, <2>2 DEF TaskReturns, Executor!Finish
<1>7. CASE UNCHANGED poolVars
  BY <1>7 DEF poolVars
<1>8. QED
  BY <1>1, <1>2, <1>3, <1>4, <1>5, <1>6, <1>7 DEF PoolNext, OwnerStep, ThreadStep

\* net::ThreadPool implements TaskExecutor: each task is started exactly once, in
\* order, and the pool outlives all of them.
THEOREM PoolImplementsExecutor == PoolSpec => ImplementsExecutor
<1>1. PoolInit => Executor!ExecInit
  BY DEF PoolInit, Executor!ExecInit
<1>2. QED
  BY <1>1, InitPoolInv, NextPoolInv, StepImplements, PTL
     DEF PoolSpec, ImplementsExecutor, Executor!ExecSpec

-----------------------------------------------------------------------------
(* Where main() is, and what the stages of shutting down rely on *)

USE CheckerAssumption

\* Where main() is, from the time it is alone with the server.
Stopping    == {"stop", "hc_stop", "hc_join", "destroy", "join_pool", "exited"}
Stopped     == {"hc_stop", "hc_join", "destroy", "join_pool", "exited"}
CheckerTold == {"hc_join", "destroy", "join_pool", "exited"}
Destroying  == {"destroy", "join_pool", "exited"}

CheckerLabels == {"start_checker", "spawn_checker", "hc_stop", "hc_join"}

\* The server has no health checker, or main() has one and uses it.
WithoutChecker ==
    ~HasChecker => /\ pc.main \notin CheckerLabels
                   /\ pc.watcher \notin CheckerLabels
                   /\ ~hcRunning
                   /\ checker = "none"

\* What the stages of the destructor have established.
StagesHold ==
    /\ pc.main \in Stopping => pc.watcher = "exited"
    /\ pc.main \in Stopped => ~running_
    /\ pc.main \in CheckerTold => ~hcRunning
    /\ pc.main \in Destroying => checker \in {"none", "joined"}
    /\ pc.main = "exited" => owner = "gone"

LifeInv == LifeTypeOK /\ WithoutChecker /\ StagesHold

-----------------------------------------------------------------------------
(* The program and its thread pool *)

\* Whatever the program does, its thread pool sees one of its own steps or nothing.
LEMMA LifeStepIsPoolStep ==
    ASSUME [LifeNext]_lifeVars
    PROVE  [PoolNext]_poolVars
<1> USE DEF Passes, Goes, poolVars
<1>1. CASE UNCHANGED lifeVars \/ Signal \/ CheckerReturns
  BY <1>1 DEF lifeVars, Signal, CheckerReturns
<1>2. CASE \/ Bind \/ StartChecker \/ SpawnChecker \/ SetRunning
           \/ BeginTurn \/ EndTurn \/ LeaveLoop \/ TellWatcher \/ JoinWatcher
           \/ DestroyShared \/ DestroyRest \/ Poll \/ Decide
  BY <1>2 DEF Bind, StartChecker, SpawnChecker, SetRunning, BeginTurn, EndTurn, LeaveLoop,
              TellWatcher, JoinWatcher, DestroyShared, DestroyRest, Poll, Decide
<1>3. ASSUME NEW t, StopStep(t) PROVE UNCHANGED poolVars
  BY <1>3 DEF StopStep, StopRunning, StopChecker, JoinChecker
<1>4. CASE Dispatch \/ Dispatched \/ DestroyPool
  <2>1. OwnerStep
    BY <1>4 DEF Dispatch, Dispatched, DestroyPool, OwnerStep
  <2> QED
    BY <2>1 DEF PoolNext
<1>5. ASSUME NEW t \in Threads, WorkerThread(t) \/ (UsesPool /\ SpuriousWakeup(t))
      PROVE  PoolNext
  BY <1>5 DEF WorkerThread, PoolNext
<1> QED
  BY <1>1, <1>2, <1>3, <1>4, <1>5 DEF LifeNext, MainStep, WatcherStep

\* The program runs its thread pool as ThreadPool.tla describes it, so that every
\* theorem of ThreadPoolProofs is one about HttpServer and LoadBalancer.
THEOREM ProgramRunsPool == LifeSpec => PoolSpec
<1>1. LifeInit => PoolInit
  BY DEF LifeInit
<1> QED
  BY <1>1, LifeStepIsPoolStep, PTL DEF LifeSpec, PoolSpec

-----------------------------------------------------------------------------
(* The stages of shut-down *)

\* main() starts with a server that was never run.
LEMMA InitLifeInv == LifeInit => LifeInv
<1> SUFFICES ASSUME LifeInit PROVE LifeInv
  OBVIOUS
<1>1. /\ pc = [main |-> "bind", watcher |-> "poll"]
      /\ checker = "none" /\ owner = "open"
  BY DEF LifeInit, PoolInit
<1>2. /\ running_ \in BOOLEAN /\ g_stopRequested \in BOOLEAN /\ watcherShouldExit \in BOOLEAN
      /\ hcRunning \in BOOLEAN /\ shared \in BOOLEAN /\ ~running_ /\ ~hcRunning
  BY Zenon DEF LifeInit
<1>3. LifeTypeOK
  BY <1>1, <1>2 DEF LifeTypeOK, MainLabels, WatcherLabels
<1> QED
  BY <1>1, <1>2, <1>3 DEF LifeInv, WithoutChecker, StagesHold, Stopping, Stopped, CheckerTold,
                          Destroying, CheckerLabels

\* A step of main() or of the watcher, as far as it moves pc.
LEMMA PcMoves ==
    ASSUME LifeTypeOK, NEW t \in {"main", "watcher"}, NEW from, NEW to, Goes(t, from, to),
           t = "main" => to \in MainLabels, t = "watcher" => to \in WatcherLabels
    PROVE  /\ pc' \in [main : MainLabels, watcher : WatcherLabels]
           /\ t = "main" => pc.main = from /\ pc'.main = to /\ pc'.watcher = pc.watcher
           /\ t = "watcher" => pc.watcher = from /\ pc'.watcher = to /\ pc'.main = pc.main
<1>1. pc \in [main : MainLabels, watcher : WatcherLabels]
  BY DEF LifeTypeOK
<1> QED
  BY <1>1, SMT DEF Goes, At

\* Every step keeps the stages.
LEMMA NextLifeInv ==
    ASSUME LifeInv, [LifeNext]_lifeVars
    PROVE  LifeInv'
<1> USE DEF LifeInv, WithoutChecker, StagesHold, Stopping, Stopped, CheckerTold, Destroying,
            CheckerLabels, flagVars, checkerVars, poolVars
<1>t. /\ LifeTypeOK
      /\ pc \in [main : MainLabels, watcher : WatcherLabels]
      /\ running_ \in BOOLEAN /\ g_stopRequested \in BOOLEAN /\ watcherShouldExit \in BOOLEAN
      /\ hcRunning \in BOOLEAN /\ shared \in BOOLEAN
      /\ checker \in {"none", "running", "returned", "joined"}
  BY DEF LifeTypeOK
<1>b. TRUE \in BOOLEAN /\ FALSE \in BOOLEAN
  OBVIOUS
<1>1. CASE UNCHANGED lifeVars
  BY <1>1 DEF lifeVars, LifeTypeOK
<1>2. CASE Signal
  BY <1>2, <1>t, <1>b DEF Signal, LifeTypeOK
<1>3. CASE Bind
  <2>1. CASE Passes("main", "bind", "run_returns")
    <3>1. pc' \in [main : MainLabels, watcher : WatcherLabels] /\ pc'.main = "run_returns"
          /\ pc'.watcher = pc.watcher
      BY <2>1, <1>t, PcMoves DEF Passes, MainLabels
    <3> QED
      BY <2>1, <3>1, <1>t DEF Passes, LifeTypeOK
  <2>2. CASE Passes("main", "bind", IF HasChecker THEN "start_checker" ELSE "set_running")
    <3> DEFINE to == IF HasChecker THEN "start_checker" ELSE "set_running"
    <3>1. to \in MainLabels /\ (~HasChecker => to = "set_running") /\ to \notin Stopping
      BY DEF MainLabels
    <3>2. Passes("main", "bind", to)
      BY <2>2
    <3> HIDE DEF to
    <3>3. /\ pc' \in [main : MainLabels, watcher : WatcherLabels] /\ pc'.main = to
          /\ pc'.watcher = pc.watcher
      BY <3>1, <3>2, <1>t, PcMoves DEF Passes
    <3> QED
      BY <3>1, <3>2, <3>3, <1>t DEF Passes, LifeTypeOK
  <2> QED
    BY <1>3, <2>1, <2>2 DEF Bind
<1>4. CASE StartChecker
  <2>1. /\ pc' \in [main : MainLabels, watcher : WatcherLabels] /\ pc.main = "start_checker"
        /\ pc'.main = "spawn_checker" /\ pc'.watcher = pc.watcher
    BY <1>4, <1>t, PcMoves DEF StartChecker, MainLabels
  <2> QED
    BY <1>4, <2>1, <1>t, <1>b DEF StartChecker, LifeTypeOK
<1>5. CASE SpawnChecker
  <2>1. /\ pc' \in [main : MainLabels, watcher : WatcherLabels] /\ pc.main = "spawn_checker"
        /\ pc'.main = "set_running" /\ pc'.watcher = pc.watcher
    BY <1>5, <1>t, PcMoves DEF SpawnChecker, MainLabels
  <2> QED
    BY <1>5, <2>1, <1>t, <1>b DEF SpawnChecker, LifeTypeOK
<1>6. CASE SetRunning
  <2>1. /\ pc' \in [main : MainLabels, watcher : WatcherLabels]
        /\ pc'.main = "loop" /\ pc'.watcher = pc.watcher
    BY <1>6, <1>t, PcMoves DEF SetRunning, MainLabels
  <2> QED
    BY <1>6, <2>1, <1>t, <1>b DEF SetRunning, LifeTypeOK
<1>7. CASE BeginTurn \/ EndTurn \/ LeaveLoop
  <2>1. PICK to \in {"turn", "loop", "run_returns"} : \E from : Passes("main", from, to)
    BY <1>7 DEF BeginTurn, EndTurn, LeaveLoop
  <2>2. /\ pc' \in [main : MainLabels, watcher : WatcherLabels]
        /\ pc'.main = to /\ pc'.watcher = pc.watcher
    BY <2>1, <1>t, PcMoves DEF Passes, MainLabels
  <2> QED
    BY <2>1, <2>2, <1>t DEF Passes, LifeTypeOK
<1>8. CASE Dispatch \/ Dispatched
  BY <1>8, <1>t DEF Dispatch, Dispatched, UsesPool, At, LifeTypeOK
<1>9. CASE TellWatcher
  <2>1. /\ pc' \in [main : MainLabels, watcher : WatcherLabels]
        /\ pc'.main = "join_watcher" /\ pc'.watcher = pc.watcher
    BY <1>9, <1>t, PcMoves DEF TellWatcher, MainLabels
  <2> QED
    BY <1>9, <2>1, <1>t, <1>b DEF TellWatcher, LifeTypeOK
<1>10. CASE JoinWatcher
  <2>1. /\ pc' \in [main : MainLabels, watcher : WatcherLabels]
        /\ pc'.main = "stop" /\ pc'.watcher = pc.watcher
    BY <1>10, <1>t, PcMoves DEF JoinWatcher, Passes, MainLabels
  <2> QED
    BY <1>10, <2>1, <1>t DEF JoinWatcher, Passes, At, LifeTypeOK
<1>11. CASE Poll
  <2>1. /\ pc' \in [main : MainLabels, watcher : WatcherLabels]
        /\ pc.watcher = "poll" /\ pc'.watcher = "decide" /\ pc'.main = pc.main
    BY <1>11, <1>t, PcMoves DEF Poll, Passes, WatcherLabels
  <2> QED
    BY <1>11, <2>1, <1>t DEF Poll, Passes, LifeTypeOK
<1>12. CASE Decide
  <2> DEFINE to == IF g_stopRequested THEN "stop" ELSE "exited"
  <2>1. to \in WatcherLabels /\ to \notin CheckerLabels
    BY DEF WatcherLabels
  <2>2. Passes("watcher", "decide", to)
    BY <1>12 DEF Decide
  <2> HIDE DEF to
  <2>3. /\ pc' \in [main : MainLabels, watcher : WatcherLabels]
        /\ pc.watcher = "decide" /\ pc'.watcher = to /\ pc'.main = pc.main
    BY <2>1, <2>2, <1>t, PcMoves DEF Passes
  <2> QED
    BY <2>1, <2>2, <2>3, <1>t DEF Passes, LifeTypeOK
<1>13. ASSUME NEW t \in {"main", "watcher"}, StopStep(t) PROVE LifeInv'
  <2>a. /\ AfterStop(t) \notin CheckerLabels
        /\ t = "main" => AfterStop(t) = "destroy"
        /\ t = "watcher" => AfterStop(t) = "exited"
        /\ AfterStop(t) \in MainLabels /\ AfterStop(t) \in WatcherLabels \cup {"destroy"}
    BY DEF AfterStop, MainLabels, WatcherLabels
  <2>1. CASE StopRunning(t)
    <3> DEFINE to == IF HasChecker THEN "hc_stop" ELSE AfterStop(t)
    <3>1. /\ to \in {"hc_stop", "destroy", "exited"} /\ (~HasChecker => to = AfterStop(t))
          /\ t = "main" => to \in MainLabels \cap {"hc_stop", "destroy"}
          /\ t = "watcher" => to \in WatcherLabels
          /\ HasChecker => to = "hc_stop"
      BY <2>a DEF MainLabels, WatcherLabels
    <3>2. Goes(t, "stop", to)
      BY <2>1 DEF StopRunning
    <3> HIDE DEF to
    <3>3. /\ pc' \in [main : MainLabels, watcher : WatcherLabels]
          /\ t = "main" => pc.main = "stop" /\ pc'.main = to /\ pc'.watcher = pc.watcher
          /\ t = "watcher" => pc.watcher = "stop" /\ pc'.watcher = to /\ pc'.main = pc.main
      BY <3>1, <3>2, <1>t, PcMoves
    <3>4. LifeTypeOK'
      BY <2>1, <3>3, <1>t, <1>b DEF StopRunning, LifeTypeOK
    <3> QED
      BY <2>1, <2>a, <3>1, <3>3, <3>4, <1>t DEF StopRunning
  <2>2. CASE StopChecker(t)
    <3>3. /\ pc' \in [main : MainLabels, watcher : WatcherLabels]
          /\ t = "main" => pc.main = "hc_stop" /\ pc'.main = "hc_join" /\ pc'.watcher = pc.watcher
          /\ t = "watcher" => pc.watcher = "hc_stop" /\ pc'.watcher = "hc_join" /\ pc'.main = pc.main
      BY <2>2, <1>t, PcMoves DEF StopChecker, MainLabels, WatcherLabels
    <3>4. LifeTypeOK'
      BY <2>2, <3>3, <1>t, <1>b DEF StopChecker, LifeTypeOK
    <3> QED
      BY <2>2, <3>3, <3>4, <1>t DEF StopChecker
  <2>3. CASE JoinChecker(t)
    <3>3. /\ pc' \in [main : MainLabels, watcher : WatcherLabels]
          /\ t = "main" => pc.main = "hc_join" /\ pc'.main = "destroy" /\ pc'.watcher = pc.watcher
          /\ t = "watcher" => pc.watcher = "hc_join" /\ pc'.watcher = "exited" /\ pc'.main = pc.main
      BY <2>3, <2>a, <1>t, PcMoves DEF JoinChecker
    <3>4. LifeTypeOK' /\ checker' \in {"none", "joined"}
      BY <2>3, <3>3, <1>t, <1>b DEF JoinChecker, LifeTypeOK
    <3> QED
      BY <2>3, <3>3, <3>4, <1>t DEF JoinChecker
  <2> QED
    BY <1>13, <2>1, <2>2, <2>3 DEF StopStep
<1>14. CASE CheckerReturns
  BY <1>14, <1>t DEF CheckerReturns, LifeTypeOK
<1>15. CASE DestroyShared
  <2>1. /\ pc' \in [main : MainLabels, watcher : WatcherLabels] /\ pc.main = "destroy"
        /\ pc'.main = "join_pool" /\ pc'.watcher = pc.watcher
    BY <1>15, <1>t, PcMoves DEF DestroyShared, MainLabels
  <2> QED
    BY <1>15, <2>1, <1>t, <1>b DEF DestroyShared, LifeTypeOK
<1>16. CASE DestroyPool
  BY <1>16, <1>t DEF DestroyPool, UsesPool, At, LifeTypeOK
<1>17. CASE DestroyRest
  <2>1. /\ pc' \in [main : MainLabels, watcher : WatcherLabels] /\ pc.main = "join_pool"
        /\ pc'.main = "exited" /\ pc'.watcher = pc.watcher
    BY <1>17, <1>t, PcMoves DEF DestroyRest, Passes, MainLabels
  <2> QED
    BY <1>17, <2>1, <1>t DEF DestroyRest, Passes, LifeTypeOK
<1>18. ASSUME NEW t \in Threads, WorkerThread(t) \/ (UsesPool /\ SpuriousWakeup(t)) PROVE LifeInv'
  <2>1. UsesPool /\ UNCHANGED owner
    BY <1>18 DEF WorkerThread, ThreadStep, GoToSleep, ThreadReturns, PopTask, TaskReturns,
                 SpuriousWakeup, ThreadGoes, Pop
  <2> QED
    BY <2>1, <1>t DEF UsesPool, LifeTypeOK
<1> QED
  BY <1>1, <1>2, <1>3, <1>4, <1>5, <1>6, <1>7, <1>8, <1>9, <1>10, <1>11, <1>12, <1>13, <1>14,
     <1>15, <1>16, <1>17, <1>18 DEF LifeNext, MainStep, WatcherStep

-----------------------------------------------------------------------------

\* main(), the watcher and the checker are always at a step of their code.
THEOREM LifeTypeCorrect == LifeSpec => []LifeTypeOK
<1>1. LifeInv => LifeTypeOK
  BY DEF LifeInv
<1> QED
  BY <1>1, InitLifeInv, NextLifeInv, PTL DEF LifeSpec

\* From the time the destructor calls stop(), the watcher thread has returned: stop()
\* never has two callers and no thread calls a member of an object that is gone.
THEOREM OneCallerOfStop == LifeSpec => []StopHasOneCaller
<1>1. LifeInv => StopHasOneCaller
  BY DEF LifeInv, StagesHold, StopHasOneCaller, Stopping
<1> QED
  BY <1>1, InitLifeInv, NextLifeInv, PTL DEF LifeSpec

\* When the destructor is through, the checker has been joined or was never started,
\* every worker thread has returned, and both running_ flags are off.
THEOREM ServerOutlivesThreads == LifeSpec => []NoThreadOutlivesServer
<1>1. LifeInv /\ PoolInv => NoThreadOutlivesServer
  BY DEF LifeInv, StagesHold, NoThreadOutlivesServer, At, Stopped, CheckerTold, Destroying,
         PoolInv, Shutdown
<1>2. LifeInit => PoolInv
  BY InitPoolInv DEF LifeInit
<1>3. PoolInv /\ [LifeNext]_lifeVars => PoolInv'
  BY LifeStepIsPoolStep, NextPoolInv
<1> QED
  BY <1>1, <1>2, <1>3, InitLifeInv, NextLifeInv, PTL DEF LifeSpec

=============================================================================
