----------------------------- MODULE Lifecycle -----------------------------
(***************************************************************************)
(* Start-up and shut-down of both programs: main() and its watcher thread, *)
(* the signal handler, run(), stop(), and the destructors of HttpServer    *)
(* or LoadBalancer with the order in which they destroy the members.       *)
(*                                                                         *)
(* It is composed with ThreadPool.tla: main() is the pool's owner, which   *)
(* enqueues tasks in reactorLoop() and runs ~ThreadPool() as a part of the *)
(* destructor.  What a task does is in HttpServer.tla and LoadBalancer.tla *)
(***************************************************************************)
EXTENDS ThreadPool

CONSTANT HasChecker  \* TRUE for the load balancer, which owns a HealthChecker

ASSUME CheckerAssumption == HasChecker \in BOOLEAN

VARIABLES
    pc,                 \* where main() and the watcher thread are
    running_,           \* HttpServer::running_ or LoadBalancer::running_
    g_stopRequested,    \* set by the signal handler
    watcherShouldExit,  \* set by main() when run() has returned
    hcRunning,          \* HealthChecker::running_
    checker,            \* HealthChecker::thread_
    shared              \* connections_, pendingRearms_ and their mutexes exist

flagVars    == <<running_, g_stopRequested, watcherShouldExit>>
checkerVars == <<hcRunning, checker>>
lifeVars    == <<pc, flagVars, checkerVars, shared, poolVars>>

MainLabels == {"bind", "start_checker", "spawn_checker", "set_running", "loop", "turn",
               "run_returns", "join_watcher", "stop", "hc_stop", "hc_join", "destroy",
               "join_pool", "exited"}
WatcherLabels == {"poll", "decide", "stop", "hc_stop", "hc_join", "exited"}

LifeTypeOK ==
    /\ pc \in [main : MainLabels, watcher : WatcherLabels]
    /\ running_ \in BOOLEAN
    /\ g_stopRequested \in BOOLEAN
    /\ watcherShouldExit \in BOOLEAN
    /\ hcRunning \in BOOLEAN
    /\ checker \in {"none", "running", "returned", "joined"}
    /\ shared \in BOOLEAN

\* main() has constructed the server, installed the handlers and started the watcher.
LifeInit ==
    /\ PoolInit
    /\ pc = [main |-> "bind", watcher |-> "poll"]
    /\ running_ = FALSE
    /\ g_stopRequested = FALSE
    /\ watcherShouldExit = FALSE
    /\ hcRunning = FALSE
    /\ checker = "none"
    /\ shared = TRUE

At(t, label) == pc[t] = label
Goes(t, from, to) == At(t, from) /\ pc' = [pc EXCEPT ![t] = to]

\* A step that touches pc and nothing else.
Passes(t, from, to) == Goes(t, from, to) /\ UNCHANGED <<flagVars, checkerVars, shared, poolVars>>

\* A call on the pool, made where main() is.
UsesPool == UNCHANGED <<pc, flagVars, checkerVars, shared>>

-----------------------------------------------------------------------------
(* Signals *)

\* SIGINT or SIGTERM: the handler touches one flag.
Signal ==
    /\ ~At("main", "exited")
    /\ g_stopRequested' = TRUE
    /\ UNCHANGED <<pc, running_, watcherShouldExit, checkerVars, shared, poolVars>>

-----------------------------------------------------------------------------
(* main() in run() *)

\* createListenSocket() works, or run() returns at once.
Bind ==
    \/ Passes("main", "bind", IF HasChecker THEN "start_checker" ELSE "set_running")
    \/ Passes("main", "bind", "run_returns")

\* HealthChecker::start(): running_ = true ...
StartChecker ==
    /\ Goes("main", "start_checker", "spawn_checker")
    /\ hcRunning' = TRUE
    /\ UNCHANGED <<flagVars, checker, shared, poolVars>>

\* ... then the thread is created and stored in thread_.
SpawnChecker ==
    /\ Goes("main", "spawn_checker", "set_running")
    /\ checker' = "running"
    /\ UNCHANGED <<flagVars, hcRunning, shared, poolVars>>

SetRunning ==
    /\ Goes("main", "set_running", "loop")
    /\ running_' = TRUE
    /\ UNCHANGED <<g_stopRequested, watcherShouldExit, checkerVars, shared, poolVars>>

\* reactorLoop() looks at running_ once per turn; in a turn it hands any number of
\* connections to the pool, each enqueue() followed by its notify_one().
BeginTurn == running_ /\ Passes("main", "loop", "turn")
Dispatch == At("main", "turn") /\ UsesPool /\ \E x \in Tasks : Enqueue(x)
Dispatched == At("main", "turn") /\ UsesPool /\ NotifyOne
EndTurn == owner = "open" /\ Passes("main", "turn", "loop")

\* while (running_) ends, and run() returns.
LeaveLoop == ~running_ /\ Passes("main", "loop", "run_returns")

\* watcherShouldExit = true.
TellWatcher ==
    /\ Goes("main", "run_returns", "join_watcher")
    /\ watcherShouldExit' = TRUE
    /\ UNCHANGED <<running_, g_stopRequested, checkerVars, shared, poolVars>>

\* Mutant of JoinWatcher: the watcher is detached.
DetachWatcher == Passes("main", "join_watcher", "stop")

\* stopWatcher.join(), then main() leaves its scope: the destructor calls stop().
JoinWatcher == At("watcher", "exited") /\ Passes("main", "join_watcher", "stop")

-----------------------------------------------------------------------------
(* The watcher thread *)

\* One look at the flags.  The 50 ms of sleep in between change nothing.
Poll == (g_stopRequested \/ watcherShouldExit) /\ Passes("watcher", "poll", "decide")

Decide == Passes("watcher", "decide", IF g_stopRequested THEN "stop" ELSE "exited")

-----------------------------------------------------------------------------
(* stop(), called by the watcher and by the destructor *)

\* Mutant of AfterStop: whoever has stopped the server destroys it.
AlwaysDestroys(t) == "destroy"

AfterStop(t) == IF t = "main" THEN "destroy" ELSE "exited"

StopRunning(t) ==
    /\ Goes(t, "stop", IF HasChecker THEN "hc_stop" ELSE AfterStop(t))
    /\ running_' = FALSE
    /\ UNCHANGED <<g_stopRequested, watcherShouldExit, checkerVars, shared, poolVars>>

\* Mutant of StopChecker: the flag is left set.
StopCheckerKeepsFlag(t) == Passes(t, "hc_stop", "hc_join")

\* HealthChecker::stop(): running_ = false ...
StopChecker(t) ==
    /\ Goes(t, "hc_stop", "hc_join")
    /\ hcRunning' = FALSE
    /\ UNCHANGED <<flagVars, checker, shared, poolVars>>

\* Mutant of JoinChecker: the thread is detached.
DetachChecker(t) == Passes(t, "hc_join", AfterStop(t))

\* ... then join() if thread_ is joinable.
JoinChecker(t) ==
    /\ Goes(t, "hc_join", AfterStop(t))
    /\ \/ checker \in {"none", "joined"} /\ UNCHANGED checker
       \/ checker = "returned" /\ checker' = "joined"
    /\ UNCHANGED <<flagVars, hcRunning, shared, poolVars>>

\* HealthChecker::loop() sees running_ = false and returns.
CheckerReturns ==
    /\ checker = "running"
    /\ ~hcRunning
    /\ checker' = "returned"
    /\ UNCHANGED <<pc, flagVars, hcRunning, shared, poolVars>>

-----------------------------------------------------------------------------
(* Destruction of the members, in the reverse of their declaration order *)

\* running_, pendingRearms_, rearmMutex_, connections_ and connectionsMutex_ are
\* declared after pool_ and go first.
DestroyShared ==
    /\ Goes("main", "destroy", "join_pool")
    /\ shared' = FALSE
    /\ UNCHANGED <<flagVars, checkerVars, poolVars>>

DestroyPool == At("main", "join_pool") /\ UsesPool /\ (SetStop \/ NotifyAll \/ JoinAll)

\* eventLoop_, listenSock_, healthChecker_ (stopped already) and upstreamPool_ follow.
DestroyRest == owner = "gone" /\ Passes("main", "join_pool", "exited")

-----------------------------------------------------------------------------

StopStep(t) == StopRunning(t) \/ StopChecker(t) \/ JoinChecker(t)

MainStep ==
    \/ Bind \/ StartChecker \/ SpawnChecker \/ SetRunning
    \/ BeginTurn \/ Dispatch \/ Dispatched \/ EndTurn \/ LeaveLoop
    \/ TellWatcher \/ JoinWatcher \/ StopStep("main")
    \/ DestroyShared \/ DestroyPool \/ DestroyRest

WatcherStep == Poll \/ Decide \/ StopStep("watcher")

WorkerThread(t) == UsesPool /\ ThreadStep(t)

LifeNext ==
    \/ Signal
    \/ MainStep
    \/ WatcherStep
    \/ CheckerReturns
    \/ \E t \in Threads : WorkerThread(t) \/ (UsesPool /\ SpuriousWakeup(t))

LifeSpec == LifeInit /\ [][LifeNext]_lifeVars

\* Every thread is scheduled; no signal has to arrive, no client has to connect, and
\* no spurious wakeup has to happen.  CheckerReturns assumes that a probe ends, which
\* the 500 ms per recv() give for an upstream that does not send byte by byte forever.
FairLifeSpec ==
    /\ LifeSpec
    /\ WF_lifeVars(MainStep)
    /\ WF_lifeVars(WatcherStep)
    /\ WF_lifeVars(CheckerReturns)
    /\ \A t \in Threads : WF_lifeVars(WorkerThread(t))

-----------------------------------------------------------------------------
(* Properties *)

\* stop() and HealthChecker::stop() are not written for two callers: the watcher is
\* never inside them once main() destroys the object, so it neither joins thread_ a
\* second time nor stops a server that is gone.
StopHasOneCaller ==
    pc.main \in {"stop", "hc_stop", "hc_join", "destroy", "join_pool", "exited"}
        => pc.watcher = "exited"

\* When the last member is destroyed no thread is left that could use it: a joinable
\* std::thread would end the process, and the checker would probe a freed pool.
NoThreadOutlivesServer ==
    At("main", "exited") => /\ checker \in {"none", "joined"}
                            /\ \A t \in Threads : tpc[t] = "exited"
                            /\ ~running_ /\ ~hcRunning

\* A signal that arrives while the server is serving ends the program.
SignalEndsServing ==
    [](At("main", "loop") /\ ~g_stopRequested =>
          [](g_stopRequested => <>At("main", "exited")))

\* The comment on run(): it blocks until stop() is called, so after a call of stop()
\* run() returns and the program ends.
RunReturnsAfterStop == At("watcher", "stop") ~> At("main", "exited")

\* The comment in handleConnectionEvent(): the Connection outlives the call.
HandlersUseLiveMembers == (\E t \in Threads : tpc[t] = "task") => shared

=============================================================================
