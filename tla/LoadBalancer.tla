---------------------------- MODULE LoadBalancer ----------------------------
(***************************************************************************)
(* lb::LoadBalancer: the reactor core with the handler that forwards a     *)
(* complete request to an upstream over a blocking socket of its own and   *)
(* relays the answer.                                                      *)
(*                                                                         *)
(* pickNext() is used at the level of its result, an upstream or nullptr;  *)
(* UpstreamPool.tla has it in detail.  What happens on the upstream socket *)
(* is visible to nobody else, so connect(), sendAll() and the recv() loop  *)
(* are one step with one of three outcomes; the descriptor is taken from   *)
(* the number space that accept() uses and is held for the whole exchange. *)
(***************************************************************************)
EXTENDS Reactor

CONSTANTS
    UpstreamFaults,   \* what may go wrong behind the balancer
    UpstreamHeaders   \* Connection headers of upstream responses; "none": without one

ASSUME UpstreamAssumption ==
    /\ UpstreamFaults \subseteq {"unhealthy", "fails", "broken_pipe"}
    /\ UpstreamHeaders \subseteq {"none", "close", "keep-alive"}

-----------------------------------------------------------------------------
(* proxyRequest() *)

\* A 502 that ends the connection.
Refuse(w, header) ==
    /\ worker[w].pc = "serve"
    /\ LET c == worker[w].conn
       IN  conn' = [conn EXCEPT ![c] = QueueResponse(conn[c], FALSE, header)]
    /\ Goto(w, "flush")
    /\ UNCHANGED <<reactorVars, pendingRearms, queue, sock, client, proc>>

\* Mutant of RefuseRequest: resp.keepAlive keeps its default.
RefuseAnnouncesKeepAlive(w) == Refuse(w, ConnectionHeader(TRUE))

RefuseRequest(w) == Refuse(w, ConnectionHeader(FALSE))

\* pickNext() returned nullptr.
NoHealthyUpstream(w) == "unhealthy" \in UpstreamFaults /\ RefuseRequest(w)

\* socket() failed: the process is out of descriptors.
NoDescriptor(w) == FreeFds = {} /\ RefuseRequest(w)

OpenUpstream(w) ==
    /\ worker[w].pc = "serve"
    /\ \E f \in FreeFds : worker' = [worker EXCEPT ![w].pc = "exchange", ![w].ufd = f]
    /\ UNCHANGED <<reactorVars, pendingRearms, queue, conn, sock, client, proc>>

\* close(ufd); the response goes out under the client's keep-alive decision, with
\* the Connection header it brought or else the one serialize() adds.
CloseAndAnswer(w, brought, left) ==
    /\ worker[w].pc = "exchange"
    /\ LET c == worker[w].conn
           k == conn[c].parser.keepAlive
           h == IF brought = "none" THEN ConnectionHeader(k) ELSE brought
       IN  conn' = [conn EXCEPT ![c] = QueueResponse(conn[c], k, h)]
    /\ worker' = [worker EXCEPT ![w].pc = "flush", ![w].ufd = left]
    /\ UNCHANGED <<reactorVars, pendingRearms, queue, sock, client, proc>>

\* The response parser reported Complete.
RelayResponse(w) == \E h \in UpstreamHeaders : CloseAndAnswer(w, h, NoFd)

\* Mutants of UpstreamFails: the error path returns without close(ufd), or without
\* queueing a response.
UpstreamFailsLeaks(w) == "fails" \in UpstreamFaults /\ CloseAndAnswer(w, "none", worker[w].ufd)
UpstreamFailsSilently(w) ==
    /\ worker[w].pc = "exchange"
    /\ worker' = [worker EXCEPT ![w].pc = "flush", ![w].ufd = NoFd]
    /\ UNCHANGED <<reactorVars, pendingRearms, queue, conn, sock, client, proc>>

\* connect() or send() failed, recv() failed, timed out or ended early, or the
\* response is malformed: 502, and the client's connection goes on.
UpstreamFails(w) == "fails" \in UpstreamFaults /\ CloseAndAnswer(w, "none", NoFd)

\* sendAll() to an upstream that has closed its end: flags 0, as in Connection.
UpstreamSigpipe(w) ==
    /\ "broken_pipe" \in UpstreamFaults
    /\ worker[w].pc = "exchange"
    /\ proc' = "killed"
    /\ UNCHANGED <<reactorVars, pendingRearms, queue, worker, conn, sock, client>>

ProxyRequest(w) ==
    \/ NoHealthyUpstream(w) \/ NoDescriptor(w) \/ OpenUpstream(w)
    \/ RelayResponse(w) \/ UpstreamFails(w) \/ UpstreamSigpipe(w)

-----------------------------------------------------------------------------
(* The two kinds of thread *)

\* Mutant of FinishProxied: the request is asked after reset(), as the server does.
FinishAsksRequest(w) == FinishWith(w, "request", FreshParser, FreshParser.keepAlive)

\* handleClientEvent() after proxyRequest(): unlike the server it asks the
\* connection, not the request that reset() has cleared.
FinishProxied(w) ==
    FinishWith(w, "request", FreshParser, conn[worker[w].conn].pendingKeepAlive)

\* handleClientEvent() is handleConnectionEvent() but for the request itself.
HandleClientEvent(w) == proc = "up" /\ (CommonWorkerStep(w) \/ ProxyRequest(w) \/ FinishProxied(w))

\* reactorLoop(), handleAccept() and applyPendingRearms() are statement for
\* statement those of HttpServer.
BalancerReactor == ReactorStep

BalancerNext ==
    \/ BalancerReactor
    \/ \E w \in Workers : HandleClientEvent(w)
    \/ \E c \in Conns : ClientStep(c)

BalancerSpec == Init /\ [][BalancerNext]_vars

\* As for the server.  A worker in an exchange goes on as well: every call on the
\* upstream socket returns within 2 s, and it is assumed that an upstream does not
\* send one response for ever.
FairBalancerSpec ==
    /\ BalancerSpec
    /\ WF_vars(BalancerReactor)
    /\ \A w \in Workers : WF_vars(HandleClientEvent(w))
    /\ \A c \in Conns : WF_vars(ClientReads(c) /\ ClientStep(c))

-----------------------------------------------------------------------------
(* Properties *)

\* Descriptor numbers go back and forth between clients and upstreams.  The number
\* of an upstream socket is not a key of connections_, not registered and in nobody's
\* queue, so no event, task or re-arm meant for a client reaches it; and it is given
\* back before the answer is sent.
UpstreamSocketIsPrivate ==
    \A w \in Workers :
        worker[w].ufd # NoFd =>
            LET f == worker[w].ufd
            IN  /\ worker[w].pc = "exchange"
                /\ connections[f] = NoConn /\ interest[f] = "none"
                /\ Custodians(f) = {}
                /\ \A e \in events : e.fd # f

=============================================================================
