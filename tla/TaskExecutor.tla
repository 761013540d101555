---------------------------- MODULE TaskExecutor ----------------------------
(***************************************************************************)
(* What net::ThreadPool promises to the reactors that use it: a submitted  *)
(* task is started exactly once, in the order of submission, on one of a   *)
(* fixed set of threads, and the pool is gone only when every task it      *)
(* accepted has finished.  Reactor.tla uses the pool at this level.        *)
(***************************************************************************)
EXTENDS Sequences

CONSTANTS Tasks, NoTask, Threads

VARIABLES
    submitted,  \* every task ever accepted
    waiting,    \* accepted and not started, oldest first
    running,    \* what each thread executes
    finished,   \* tasks that have returned
    open        \* FALSE once the pool is destroyed

execVars == <<submitted, waiting, running, finished, open>>

ExecInit ==
    /\ submitted = {}
    /\ waiting = <<>>
    /\ running = [t \in Threads |-> NoTask]
    /\ finished = {}
    /\ open = TRUE

Submit(x) ==
    /\ open
    /\ x \notin submitted
    /\ submitted' = submitted \cup {x}
    /\ waiting' = Append(waiting, x)
    /\ UNCHANGED <<running, finished, open>>

Start(t) ==
    /\ running[t] = NoTask
    /\ waiting # <<>>
    /\ waiting' = Tail(waiting)
    /\ running' = [running EXCEPT ![t] = Head(waiting)]
    /\ UNCHANGED <<submitted, finished, open>>

Finish(t) ==
    /\ running[t] # NoTask
    /\ running' = [running EXCEPT ![t] = NoTask]
    /\ finished' = finished \cup {running[t]}
    /\ UNCHANGED <<submitted, waiting, open>>

Destroy ==
    /\ open
    /\ finished = submitted
    /\ open' = FALSE
    /\ UNCHANGED <<submitted, waiting, running, finished>>

ExecNext ==
    \/ \E x \in Tasks : Submit(x)
    \/ \E t \in Threads : Start(t) \/ Finish(t)
    \/ Destroy

ExecSpec == ExecInit /\ [][ExecNext]_execVars

=============================================================================
