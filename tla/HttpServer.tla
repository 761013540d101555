----------------------------- MODULE HttpServer -----------------------------
(***************************************************************************)
(* server::HttpServer: the reactor core with the request handler that      *)
(* dispatches a complete request to the router.                            *)
(***************************************************************************)
EXTENDS Reactor

\* dispatch() and serialize(): the response is queued with the keep-alive
\* decision that its Connection header announces.
ServeRequest(w) ==
    /\ worker[w].pc = "serve"
    /\ LET c == worker[w].conn
           k == conn[c].parser.keepAlive
       IN  conn' = [conn EXCEPT ![c] = QueueResponse(@, k, ConnectionHeader(k))]
    /\ Goto(w, "flush")
    /\ UNCHANGED <<reactorVars, pendingRearms, queue, sock, client, proc>>

\* req is a reference into the parser, and reset() runs before the handler
\* reads req.keepAlive to choose the re-arm action.
FinishRequest(w) == FinishWith(w, "request", FreshParser, FreshParser.keepAlive)

WorkerStep(w) ==
    /\ proc = "up"
    /\ CommonWorkerStep(w) \/ ServeRequest(w) \/ FinishRequest(w)

Next ==
    \/ ReactorStep
    \/ \E w \in Workers : WorkerStep(w)
    \/ \E c \in Conns : ClientStep(c)

Spec == Init /\ [][Next]_vars

\* The OS schedules the reactor thread and every worker; a client that is still
\* there reads what has been sent to it.
Fairness ==
    /\ WF_vars(ReactorStep)
    /\ \A w \in Workers : WF_vars(WorkerStep(w))
    /\ \A c \in Conns : WF_vars(ClientReads(c) /\ ClientStep(c))

FairSpec == Spec /\ Fairness

=============================================================================
