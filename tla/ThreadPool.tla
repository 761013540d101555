----------------------------- MODULE ThreadPool -----------------------------
(***************************************************************************)
(* net::ThreadPool: worker threads that sleep on a condition variable, the *)
(* owner that enqueues tasks and in the end runs the destructor.           *)
(*                                                                         *)
(* mutex_ is held for one step at a time: evaluating the predicate of      *)
(* cv_.wait() and going to sleep, or taking a task, is one step, and so is *)
(* a push.  notify_one() and notify_all() are steps of their own because   *)
(* the code calls them after unlocking.                                    *)
(***************************************************************************)
EXTENDS Naturals, Sequences, FiniteSets

CONSTANTS
    Tasks,    \* std::function objects, each enqueued at most once
    NoTask,   \* a thread that executes nothing
    Threads   \* workers_, at least one: the constructor turns 0 into 1

ASSUME PoolTaskAssumption   == NoTask \notin Tasks
ASSUME PoolThreadAssumption == IsFiniteSet(Threads) /\ Threads # {}

VARIABLES
    tpc,       \* each worker: "lock" (about to take mutex_ and evaluate the
               \* predicate), "asleep" in cv_.wait(), "task", or "exited"
    task,      \* the local variable task of workerLoop()
    queue_,    \* queue_
    stop_,     \* stop_
    owner,     \* the owner: "open", "notify" (in enqueue() after the unlock),
               \* "stopping" (in the destructor after the unlock), "joining", "gone"
    enqueued,  \* tasks enqueue() has been called with
    ran        \* how often each task has been executed

poolVars == <<tpc, task, queue_, stop_, owner, enqueued, ran>>

PoolTypeOK ==
    /\ tpc \in [Threads -> {"lock", "asleep", "task", "exited"}]
    /\ task \in [Threads -> Tasks \cup {NoTask}]
    /\ queue_ \in Seq(Tasks)
    /\ stop_ \in BOOLEAN
    /\ owner \in {"open", "notify", "stopping", "joining", "gone"}
    /\ enqueued \in SUBSET Tasks
    /\ ran \in [Tasks -> Nat]

\* The constructor has started every thread.
PoolInit ==
    /\ tpc = [t \in Threads |-> "lock"]
    /\ task = [t \in Threads |-> NoTask]
    /\ queue_ = <<>>
    /\ stop_ = FALSE
    /\ owner = "open"
    /\ enqueued = {}
    /\ ran = [x \in Tasks |-> 0]

Asleep == {t \in Threads : tpc[t] = "asleep"}
Awake  == {t \in Threads : tpc[t] = "lock"}

-----------------------------------------------------------------------------
(* The owner *)

Push(x, f, then) ==
    /\ owner = "open"
    /\ x \notin enqueued
    /\ enqueued' = enqueued \cup {x}
    /\ queue_' = Append(queue_, f)
    /\ owner' = then
    /\ UNCHANGED <<tpc, task, stop_, ran>>

\* Mutants of Enqueue: a function that has been moved from is pushed; no
\* notify_one() follows.
EnqueueMovedFrom(x) == Push(x, NoTask, "notify")
EnqueueSilently(x) == Push(x, x, "open")

\* enqueue(): push_back() under mutex_ ...
Enqueue(x) == Push(x, x, "notify")

OwnerGoes(from, to) ==
    /\ owner = from
    /\ owner' = to
    /\ UNCHANGED <<task, queue_, enqueued, ran>>

WakeOne ==
    \/ Asleep = {} /\ UNCHANGED tpc
    \/ \E t \in Asleep : tpc' = [tpc EXCEPT ![t] = "lock"]

\* Mutant of NotifyOne: nobody is woken.
NotifyNobody == OwnerGoes("notify", "open") /\ UNCHANGED <<tpc, stop_>>

\* ... then notify_one(), which wakes one sleeper if there is any.
NotifyOne == OwnerGoes("notify", "open") /\ WakeOne /\ UNCHANGED stop_

\* The destructor sets stop_ under mutex_ ...
SetStop == OwnerGoes("open", "stopping") /\ stop_' = TRUE /\ UNCHANGED tpc

\* Mutant of NotifyAll: notify_one() in the destructor.
NotifyOneOnStop == OwnerGoes("stopping", "joining") /\ WakeOne /\ UNCHANGED stop_

\* ... wakes everybody ...
NotifyAll ==
    /\ OwnerGoes("stopping", "joining")
    /\ tpc' = [t \in Threads |-> IF t \in Asleep THEN "lock" ELSE tpc[t]]
    /\ UNCHANGED stop_

\* ... and joins every thread.
JoinAll ==
    /\ OwnerGoes("joining", "gone")
    /\ \A t \in Threads : tpc[t] = "exited"
    /\ UNCHANGED <<tpc, stop_>>

-----------------------------------------------------------------------------
(* workerLoop() *)

ThreadGoes(t, from, to) ==
    /\ tpc[t] = from
    /\ tpc' = [tpc EXCEPT ![t] = to]
    /\ UNCHANGED <<stop_, owner, enqueued>>

GoToSleep(t) ==
    /\ ThreadGoes(t, "lock", "asleep")
    /\ ~stop_ /\ queue_ = <<>>
    /\ UNCHANGED <<task, queue_, ran>>

\* A condition variable may wake a thread that nobody notified.
SpuriousWakeup(t) == ThreadGoes(t, "asleep", "lock") /\ UNCHANGED <<task, queue_, ran>>

\* Mutant of ThreadReturns: a stopped pool does not look at its queue.
ThreadReturnsAtOnce(t) ==
    ThreadGoes(t, "lock", "exited") /\ stop_ /\ UNCHANGED <<task, queue_, ran>>

ThreadReturns(t) ==
    /\ ThreadGoes(t, "lock", "exited")
    /\ stop_ /\ queue_ = <<>>
    /\ UNCHANGED <<task, queue_, ran>>

Pop(t, x, rest) ==
    /\ ThreadGoes(t, "lock", "task")
    /\ queue_ # <<>>
    /\ task' = [task EXCEPT ![t] = x]
    /\ queue_' = rest
    /\ UNCHANGED ran

\* Mutant of PopTask: the newest task is taken.
PopNewestTask(t) == Pop(t, queue_[Len(queue_)], SubSeq(queue_, 1, Len(queue_) - 1))

PopTask(t) == Pop(t, Head(queue_), Tail(queue_))

\* task() has returned, and the variable goes out of scope.
TaskReturns(t) ==
    /\ ThreadGoes(t, "task", "lock")
    /\ task' = [task EXCEPT ![t] = NoTask]
    /\ ran' = [ran EXCEPT ![task[t]] = @ + 1]
    /\ UNCHANGED queue_

-----------------------------------------------------------------------------

OwnerStep ==
    \/ \E x \in Tasks : Enqueue(x)
    \/ NotifyOne
    \/ SetStop
    \/ NotifyAll
    \/ JoinAll

ThreadStep(t) == GoToSleep(t) \/ ThreadReturns(t) \/ PopTask(t) \/ TaskReturns(t)

PoolNext == OwnerStep \/ \E t \in Threads : ThreadStep(t) \/ SpuriousWakeup(t)

PoolSpec == PoolInit /\ [][PoolNext]_poolVars

\* A thread is scheduled while it is not asleep, and a call of enqueue() or of the
\* destructor that has begun goes on; nobody has to call either, and no spurious
\* wakeup has to happen.
PoolFairness ==
    /\ \A t \in Threads : WF_poolVars(ThreadStep(t))
    /\ WF_poolVars(NotifyOne \/ NotifyAll \/ JoinAll)

FairPoolSpec == PoolSpec /\ PoolFairness

-----------------------------------------------------------------------------
(* Properties *)

\* No lost wakeup: while a thread sleeps there is, for every task in the queue, a
\* thread on its way to the queue or a notify_one() still to come.
NoLostWakeup ==
    Asleep # {} =>
        Len(queue_) <= Cardinality(Awake)
                         + (IF owner = "notify" THEN 1 ELSE 0)

\* What test_thread_pool checks for one schedule: when the pool is gone, every task
\* that was enqueued has run exactly once, and no thread is left.
DrainedOnDestruction ==
    owner = "gone" => /\ \A x \in Tasks : ran[x] = IF x \in enqueued THEN 1 ELSE 0
                      /\ \A t \in Threads : tpc[t] = "exited"

\* The pool implements what the reactors rely on.
Executor == INSTANCE TaskExecutor WITH
    submitted <- enqueued,
    waiting   <- queue_,
    running   <- task,
    finished  <- {x \in Tasks : ran[x] > 0},
    open      <- owner # "gone"

ImplementsExecutor == Executor!ExecSpec

\* A task that has been enqueued is executed, whether or not the pool is destroyed
\* in the meantime.
EveryTaskRuns == \A x \in Tasks : x \in enqueued ~> ran[x] = 1

\* The destructor returns: no thread sleeps through notify_all().
DestructorReturns == owner = "stopping" ~> owner = "gone"

=============================================================================
