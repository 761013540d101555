------------------------------ MODULE Reactor ------------------------------
(***************************************************************************)
(* The concurrency core that server::HttpServer and lb::LoadBalancer share *)
(* line for line: one reactor thread that owns the event loop and the      *)
(* connections_ map, a pool of worker threads fed through a task queue,    *)
(* and the pendingRearms_ deque through which workers ask the reactor to   *)
(* wait for an fd again or to close it.                                    *)
(*                                                                         *)
(* The kernel and the remote clients are part of the model as far as the   *)
(* code can see them: what is readable, what fits in a send buffer, who    *)
(* has shut down or reset the connection, and which events epoll or kqueue *)
(* report for a registered fd.                                             *)
(*                                                                         *)
(* HttpServer.tla and LoadBalancer.tla add their request handlers and the  *)
(* next-state relations; the properties both owe their clients are here.   *)
(***************************************************************************)
EXTENDS Naturals, Sequences, FiniteSets

CONSTANTS
    Fds,         \* descriptor numbers accept() can return
    NoFd,        \* "no descriptor": what an idle worker holds
    Conns,       \* client connections, each also naming its net::Connection object
    NoConn,      \* an fd that is not a key of connections_
    Workers,     \* threads of net::ThreadPool
    Backend,     \* the event loop compiled in: "epoll" or "kqueue"
    RespLen,     \* units of response bytes that one request produces
    SndBuf,      \* units the kernel send buffer of a socket holds
    MaxReqs,     \* bound: requests one client sends on its connection
    PeerFaults   \* what clients may do to a connection besides using it

ASSUME NoFdAssumption    == NoFd \notin Fds
ASSUME NoConnAssumption  == NoConn \notin Conns
ASSUME BackendAssumption == Backend \in {"epoll", "kqueue"}
ASSUME SizeAssumption    == /\ RespLen \in Nat \ {0}
                            /\ SndBuf  \in Nat \ {0}
                            /\ MaxReqs \in Nat
ASSUME FaultAssumption   == PeerFaults \subseteq {"fin", "reset", "fin_reset"}

VARIABLES
    rpc,            \* reactor: in applyPendingRearms(), in handleAccept(), or at an event
    rearms,         \* reactor: the deque swapped out of pendingRearms_
    events,         \* reactor: rest of the batch that EventLoop::wait() returned
    connections,    \* connections_: fd -> Connection object
    interest,       \* the event loop's interest in each fd
    pendingRearms,  \* pendingRearms_
    queue,          \* the task queue of net::ThreadPool: fds to handle
    worker,         \* stack of each worker thread
    conn,           \* net::Connection objects (parser, write buffer, keep-alive)
    sock,           \* kernel and peer side of each connection
    client,         \* what each client has asked for and received
    proc            \* "up", or "killed" by a signal

\* What only the reactor thread writes.
reactorVars == <<rpc, rearms, events, connections, interest>>

vars == <<reactorVars, pendingRearms, queue, worker, conn, sock, client, proc>>

-----------------------------------------------------------------------------
(* Data *)

\* A request reaches the server in segments: any number of bytes that do not
\* complete it, then the segment that completes it, whose kind says what the
\* parser makes of the whole request.
FinalSegments == {"keep", "close", "bad"}
Segments == {"part"} \cup FinalSegments

RearmActions == {"WaitReadable", "WaitWritable", "Close"}
PendingRearm == [fd : Fds, action : RearmActions]

\* "none": not registered; "off": registered with interest mask 0.
Interests == {"none", "off", "Readable", "Writable"}

ListenEvent == [fd |-> NoFd, error |-> FALSE]
IoEvent == [fd : Fds, error : BOOLEAN] \cup {ListenEvent}

\* State of net::HttpParser: State::RequestLine, Headers and Body are all
\* "Incomplete"; req_.keepAlive is kept because it is read after reset().
FreshParser == [state |-> "Incomplete", keepAlive |-> TRUE]
NewConnection == [parser |-> FreshParser, unsent |-> 0, pendingKeepAlive |-> TRUE,
                  header |-> "keep-alive"]

IdleWorker == [pc |-> "idle", fd |-> NoFd, conn |-> NoConn, seg |-> "part", path |-> "request",
               ufd |-> NoFd]

PeerStates == {"open", "fin", "reset", "fin_reset"}

\* Local variables of a worker thread: where it is in the handler, its fd and
\* Connection*, the bytes recv() returned, the branch it is in and, in the load
\* balancer, the socket to the upstream.
WorkerRec ==
    [pc   : {"idle", "lookup", "ready", "parse", "serve", "exchange", "flush", "finish"},
     fd   : Fds \cup {NoFd},
     conn : Conns \cup {NoConn},
     seg  : Segments,
     path : {"request", "resume", "bad"},
     ufd  : Fds \cup {NoFd}]

ParserRec == [state : {"Incomplete", "Complete", "Error"}, keepAlive : BOOLEAN]
\* header: what the response that was queued last says in its Connection header.
ConnectionRec == [parser : ParserRec, unsent : Nat, pendingKeepAlive : BOOLEAN,
                  header : {"keep-alive", "close"}]

SocketRec ==
    [link : {"none", "backlog", "open", "closed"},
     peer : PeerStates,
     inq  : Seq(Segments),
     outq : 0..SndBuf]

ClientRec == [phase : {"idle", "mid", "last"}, asked : 0..MaxReqs, got : Nat]

TypeOK ==
    /\ rpc \in {"rearms", "events", "accept"}
    /\ rearms \in Seq(PendingRearm)
    /\ events \in SUBSET IoEvent
    /\ connections \in [Fds -> Conns \cup {NoConn}]
    /\ interest \in [Fds -> Interests]
    /\ pendingRearms \in Seq(PendingRearm)
    /\ queue \in Seq(Fds)
    /\ worker \in [Workers -> WorkerRec]
    /\ conn \in [Conns -> ConnectionRec]
    /\ sock \in [Conns -> SocketRec]
    /\ client \in [Conns -> ClientRec]
    /\ proc \in {"up", "killed"}

Init ==
    /\ rpc = "events"
    /\ rearms = <<>>
    /\ events = {}
    /\ connections = [f \in Fds |-> NoConn]
    /\ interest = [f \in Fds |-> "none"]
    /\ pendingRearms = <<>>
    /\ queue = <<>>
    /\ worker = [w \in Workers |-> IdleWorker]
    /\ conn = [c \in Conns |-> NewConnection]
    /\ sock = [c \in Conns |-> [link |-> "none", peer |-> "open", inq |-> <<>>, outq |-> 0]]
    /\ client = [c \in Conns |-> [phase |-> "idle", asked |-> 0, got |-> 0]]
    /\ proc = "up"

-----------------------------------------------------------------------------
(* The kernel's side of a socket *)

WasReset(c) == sock[c].peer \in {"reset", "fin_reset"}
IsReadable(c) == sock[c].inq # <<>> \/ sock[c].peer # "open"
IsWritable(c) == sock[c].outq < SndBuf \/ WasReset(c)

-----------------------------------------------------------------------------
(* The event loop.  A registered fd is reported by wait() in the form of   *)
(* an IoEvent; the reactor looks at its fd and its error flag only.        *)

\* epoll reports EPOLLERR and EPOLLHUP whatever the interest mask is, 0 included.
EpollEvents(f) ==
    LET c == connections[f]
    IN  IF /\ interest[f] # "none"
           /\ \/ interest[f] = "Readable" /\ IsReadable(c)
              \/ interest[f] = "Writable" /\ IsWritable(c)
              \/ WasReset(c)
        THEN {[fd |-> f, error |-> WasReset(c)]}
        ELSE {}

\* modify(fd, 0) deletes the kqueue filters, so nothing is reported for the fd;
\* EV_EOF is reported, as an error, as soon as the peer has stopped sending.
KqueueEvents(f) ==
    LET c == connections[f]
    IN  IF interest[f] = "Readable" /\ IsReadable(c)
        THEN {[fd |-> f, error |-> sock[c].peer # "open"]}
        ELSE IF interest[f] = "Writable" /\ IsWritable(c)
        THEN {[fd |-> f, error |-> WasReset(c)]}
        ELSE {}

Backlog == {c \in Conns : sock[c].link = "backlog"}

ReadyEvents ==
    (UNION {IF Backend = "epoll" THEN EpollEvents(f) ELSE KqueueEvents(f) : f \in Fds})
      \cup (IF Backlog # {} THEN {ListenEvent} ELSE {})

-----------------------------------------------------------------------------
(* Reactor thread *)

\* Top of reactorLoop(): applyPendingRearms() swaps the shared deque out under
\* rearmMutex_.
SwapRearms ==
    /\ rpc = "events"
    /\ events = {}
    /\ rpc' = "rearms"
    /\ rearms' = pendingRearms
    /\ pendingRearms' = <<>>
    /\ UNCHANGED <<events, connections, interest, queue, worker, conn, sock, client, proc>>

\* remove() from the event loop, then erase() from connections_: the Connection
\* object is destroyed and its Socket closes the fd.
EraseConnection(f) ==
    /\ connections' = [connections EXCEPT ![f] = NoConn]
    /\ interest' = [interest EXCEPT ![f] = "none"]
    /\ sock' = [sock EXCEPT ![connections[f]].link = "closed"]

ApplyRearm ==
    /\ rpc = "rearms"
    /\ rearms # <<>>
    /\ rearms' = Tail(rearms)
    /\ LET r == Head(rearms)
       IN  \/ /\ connections[r.fd] = NoConn
              /\ UNCHANGED <<connections, interest, sock>>
           \/ /\ connections[r.fd] # NoConn
              /\ r.action = "WaitReadable"
              /\ interest' = [interest EXCEPT ![r.fd] = "Readable"]
              /\ UNCHANGED <<connections, sock>>
           \/ /\ connections[r.fd] # NoConn
              /\ r.action = "WaitWritable"
              /\ interest' = [interest EXCEPT ![r.fd] = "Writable"]
              /\ UNCHANGED <<connections, sock>>
           \/ /\ connections[r.fd] # NoConn
              /\ r.action = "Close"
              /\ EraseConnection(r.fd)
    /\ UNCHANGED <<rpc, events, pendingRearms, queue, worker, conn, client, proc>>

\* eventLoop_->wait(events, 100): the batch is empty when the timeout expires.
WaitEvents ==
    /\ rpc = "rearms"
    /\ rearms = <<>>
    /\ rpc' = "events"
    /\ events' = ReadyEvents
    /\ UNCHANGED <<rearms, connections, interest, pendingRearms, queue, worker, conn, sock, client, proc>>

FreeFds == {f \in Fds : connections[f] = NoConn /\ \A w \in Workers : worker[w].ufd # f}

\* One turn of the loop in handleAccept(): acceptNonBlocking() returned a socket.
AcceptOne ==
    /\ rpc \in {"events", "accept"}
    /\ ListenEvent \in events
    /\ rpc' = "accept"
    /\ \E c \in Backlog, f \in FreeFds :
          /\ connections' = [connections EXCEPT ![f] = c]
          /\ interest' = [interest EXCEPT ![f] = "Readable"]
          /\ sock' = [sock EXCEPT ![c].link = "open"]
          /\ conn' = [conn EXCEPT ![c] = NewConnection]
    /\ UNCHANGED <<rearms, events, pendingRearms, queue, worker, client, proc>>

\* A turn in which acceptNonBlocking() returned no socket: it is the last one, and
\* the rest of the batch is next.
AcceptLast ==
    /\ rpc \in {"events", "accept"}
    /\ ListenEvent \in events
    /\ rpc' = "events"
    /\ events' = events \ {ListenEvent}
    /\ UNCHANGED <<rearms, connections, interest, pendingRearms, queue, worker, conn, client, proc>>

\* Mutant of AcceptDone: only wouldBlock ends the loop, another failure is tried again.
AcceptDoneRetries ==
    \/ AcceptLast /\ Backlog = {} /\ UNCHANGED sock
    \/ /\ rpc \in {"events", "accept"}
       /\ ListenEvent \in events
       /\ Backlog # {} /\ FreeFds = {}
       /\ rpc' = "accept"
       /\ UNCHANGED <<rearms, events, connections, interest, pendingRearms, queue, worker, conn, sock, client, proc>>

\* Nothing left to accept (wouldBlock), or accept() failed because the process is out
\* of descriptors.
AcceptDone == AcceptLast /\ (Backlog = {} \/ FreeFds = {}) /\ UNCHANGED sock

\* accept() failed with ECONNABORTED: the client at the head of the backlog had
\* already reset its connection.
AcceptAborted ==
    /\ AcceptLast
    /\ \E c \in Backlog : WasReset(c) /\ sock' = [sock EXCEPT ![c].link = "closed"]

\* One turn of the event loop body for a client fd: skip it, drop it on error,
\* or leave it with the given interest and hand it to the pool.
DispatchEvent(e, i) ==
    /\ rpc = "events"
    /\ e \in events \ {ListenEvent}
    /\ events' = events \ {e}
    /\ \/ /\ connections[e.fd] = NoConn
          /\ UNCHANGED <<connections, interest, sock, queue>>
       \/ /\ connections[e.fd] # NoConn
          /\ e.error
          /\ EraseConnection(e.fd)
          /\ UNCHANGED queue
       \/ /\ connections[e.fd] # NoConn
          /\ ~e.error
          /\ interest' = [interest EXCEPT ![e.fd] = i]
          /\ queue' = Append(queue, e.fd)
          /\ UNCHANGED <<connections, sock>>
    /\ UNCHANGED <<rpc, rearms, pendingRearms, worker, conn, client, proc>>

\* Mutant of HandleEvent: the fd is handed to the pool without modify(fd, 0).
HandleEventStaysArmed(e) == DispatchEvent(e, interest[e.fd])

\* modify(fd, 0) before enqueue().
HandleEvent(e) == DispatchEvent(e, "off")

ReactorStep ==
    /\ proc = "up"
    /\ \/ SwapRearms
       \/ ApplyRearm
       \/ WaitEvents
       \/ AcceptOne
       \/ AcceptDone
       \/ AcceptAborted
       \/ \E e \in events : HandleEvent(e)

-----------------------------------------------------------------------------
(* Worker threads: ThreadPool::workerLoop() running handleConnectionEvent() *)

Goto(w, label) == worker' = [worker EXCEPT ![w].pc = label]
Return(w) == worker' = [worker EXCEPT ![w] = IdleWorker]

PostRearm(f, a) == pendingRearms' = Append(pendingRearms, [fd |-> f, action |-> a])

\* A worker pops the oldest task.
TakeTask(w) ==
    /\ worker[w].pc = "idle"
    /\ queue # <<>>
    /\ queue' = Tail(queue)
    /\ worker' = [worker EXCEPT ![w].pc = "lookup", ![w].fd = Head(queue)]
    /\ UNCHANGED <<reactorVars, pendingRearms, conn, sock, client, proc>>

\* find() under connectionsMutex_; the Connection* is used after the unlock.
LookupConnection(w) ==
    /\ worker[w].pc = "lookup"
    /\ LET c == connections[worker[w].fd]
       IN  IF c = NoConn
           THEN Return(w)
           ELSE worker' = [worker EXCEPT ![w].pc = "ready", ![w].conn = c]
    /\ UNCHANGED <<reactorVars, pendingRearms, queue, conn, sock, client, proc>>

\* hasPendingWrite(): carry on with the response that did not fit before.
ResumeFlush(w) ==
    /\ worker[w].pc = "ready"
    /\ conn[worker[w].conn].unsent > 0
    /\ worker' = [worker EXCEPT ![w].pc = "flush", ![w].path = "resume"]
    /\ UNCHANGED <<reactorVars, pendingRearms, queue, conn, sock, client, proc>>

\* recv(fd) returned bytes.  It reads whatever socket has the number fd now.
RecvData(w) ==
    /\ worker[w].pc = "ready"
    /\ conn[worker[w].conn].unsent = 0
    /\ LET s == connections[worker[w].fd]
       IN  /\ s # NoConn
           /\ \E k \in 1..Len(sock[s].inq) :
                 /\ sock' = [sock EXCEPT ![s].inq = SubSeq(@, k + 1, Len(@))]
                 /\ worker' = [worker EXCEPT ![w].pc = "parse", ![w].seg = sock[s].inq[k]]
    /\ UNCHANGED <<reactorVars, pendingRearms, queue, conn, client, proc>>

\* recv(fd) returned EAGAIN: wait again.
RecvAgain(w) ==
    /\ worker[w].pc = "ready"
    /\ conn[worker[w].conn].unsent = 0
    /\ LET s == connections[worker[w].fd]
       IN  s # NoConn /\ ~IsReadable(s)
    /\ PostRearm(worker[w].fd, "WaitReadable")
    /\ Return(w)
    /\ UNCHANGED <<reactorVars, queue, conn, sock, client, proc>>

\* recv(fd) returned 0 (the peer is done sending) or an error (reset, or the fd
\* is not open any more).
RecvEnds(w, a) ==
    /\ worker[w].pc = "ready"
    /\ conn[worker[w].conn].unsent = 0
    /\ LET s == connections[worker[w].fd]
       IN  \/ s = NoConn
           \/ sock[s].peer = "fin" /\ sock[s].inq = <<>>
           \/ WasReset(s)
    /\ PostRearm(worker[w].fd, a)
    /\ Return(w)
    /\ UNCHANGED <<reactorVars, queue, conn, sock, client, proc>>

\* Mutant of RecvClosed: the end of input is treated like EAGAIN.
RecvClosedWaits(w) == RecvEnds(w, "WaitReadable")

RecvClosed(w) == RecvEnds(w, "Close")

\* HttpParser::consume() as far as the handler can tell.  A parser that already
\* finished, well or badly, reports Complete whatever it is fed.
Consume(p, seg) ==
    IF p.state # "Incomplete" \/ seg = "part" THEN p
    ELSE IF seg = "bad" THEN [p EXCEPT !.state = "Error"]
    ELSE [state |-> "Complete", keepAlive |-> seg = "keep"]

ConsumeStatus(p, seg) ==
    IF p.state # "Incomplete" THEN "Complete"
    ELSE IF seg = "part" THEN "NeedMoreData"
    ELSE IF seg = "bad" THEN "Error"
    ELSE "Complete"

ParseMore(w) ==
    /\ worker[w].pc = "parse"
    /\ LET c == worker[w].conn
       IN  /\ ConsumeStatus(conn[c].parser, worker[w].seg) = "NeedMoreData"
           /\ conn' = [conn EXCEPT ![c].parser = Consume(@, worker[w].seg)]
    /\ PostRearm(worker[w].fd, "WaitReadable")
    /\ Return(w)
    /\ UNCHANGED <<reactorVars, queue, sock, client, proc>>

\* serialize() announces the keep-alive decision unless the response brings a
\* Connection header of its own.
ConnectionHeader(keepAlive) == IF keepAlive THEN "keep-alive" ELSE "close"

\* setPendingKeepAlive() and queueWrite().
QueueResponse(k, keepAlive, header) ==
    [k EXCEPT !.pendingKeepAlive = keepAlive, !.unsent = @ + RespLen, !.header = header]

\* The 400 response: queued with Connection: close.
ParseError(w) ==
    /\ worker[w].pc = "parse"
    /\ LET c == worker[w].conn
           k == [conn[c] EXCEPT !.parser = Consume(conn[c].parser, worker[w].seg)]
       IN  /\ ConsumeStatus(conn[c].parser, worker[w].seg) = "Error"
           /\ conn' = [conn EXCEPT ![c] = QueueResponse(k, FALSE, "close")]
    /\ worker' = [worker EXCEPT ![w].pc = "flush", ![w].path = "bad"]
    /\ UNCHANGED <<reactorVars, pendingRearms, queue, sock, client, proc>>

ParseComplete(w) ==
    /\ worker[w].pc = "parse"
    /\ LET c == worker[w].conn
       IN  /\ ConsumeStatus(conn[c].parser, worker[w].seg) = "Complete"
           /\ conn' = [conn EXCEPT ![c].parser = Consume(@, worker[w].seg)]
    /\ worker' = [worker EXCEPT ![w].pc = "serve", ![w].path = "request"]
    /\ UNCHANGED <<reactorVars, pendingRearms, queue, sock, client, proc>>

\* Units that the kernel takes from one send().
Taken(c) == IF conn[c].unsent <= SndBuf - sock[c].outq
            THEN conn[c].unsent ELSE SndBuf - sock[c].outq

\* One send() in flushWrite() that the kernel takes bytes from; writeOffset_
\* advances by n.
SendCounting(w, n) ==
    /\ worker[w].pc = "flush"
    /\ LET c == worker[w].conn
       IN  /\ ~WasReset(c)
           /\ sock[c].outq < SndBuf
           /\ conn' = [conn EXCEPT ![c].unsent = @ - n]
           /\ sock' = [sock EXCEPT ![c].outq = @ + Taken(c)]
           /\ Goto(w, IF n = conn[c].unsent THEN "finish" ELSE "flush")
    /\ UNCHANGED <<reactorVars, pendingRearms, queue, client, proc>>

\* Mutant of SendSome: writeOffset_ is advanced one unit too far.
SendSomeOvercounts(w) == SendCounting(w, Taken(worker[w].conn) + 1)

\* Mutant of SendSome: writeOffset_ += where its old value is counted already.
SendSomeFromStart(w) ==
    SendCounting(w, Taken(worker[w].conn) + (RespLen - conn[worker[w].conn].unsent))

SendSome(w) == SendCounting(w, Taken(worker[w].conn))

\* send() returned EAGAIN: flushWrite() is false.
SendBlocked(w, a) ==
    /\ worker[w].pc = "flush"
    /\ LET c == worker[w].conn
       IN  ~WasReset(c) /\ sock[c].outq = SndBuf
    /\ PostRearm(worker[w].fd, a)
    /\ Return(w)
    /\ UNCHANGED <<reactorVars, queue, conn, sock, client, proc>>

\* Mutant of SendAgain: the wrong interest is asked for.
SendAgainWaitsReadable(w) == SendBlocked(w, "WaitReadable")

SendAgain(w) == SendBlocked(w, "WaitWritable")

\* send() failed: the rest of the buffer is skipped and flushWrite() is true.
SendFails(w) ==
    /\ worker[w].pc = "flush"
    /\ sock[worker[w].conn].peer = "reset"
    /\ conn' = [conn EXCEPT ![worker[w].conn].unsent = 0]
    /\ Goto(w, "finish")
    /\ UNCHANGED <<reactorVars, pendingRearms, queue, sock, client, proc>>

\* send() on a connection that the peer closed and then answered with a reset
\* raises SIGPIPE: no MSG_NOSIGNAL, no handler installed by main().  After a reset
\* alone Linux reports ECONNRESET; the BSDs may already raise the signal.
SendRaisesSigpipe(w) ==
    /\ worker[w].pc = "flush"
    /\ LET peer == sock[worker[w].conn].peer
       IN  peer = "fin_reset" \/ (Backend = "kqueue" /\ peer = "reset")
    /\ proc' = "killed"
    /\ UNCHANGED <<reactorVars, pendingRearms, queue, worker, conn, sock, client>>

\* After flushWrite(): what the resumed branch and the 400 branch do last.
RearmAfter(keepAlive) == IF keepAlive THEN "WaitReadable" ELSE "Close"

\* The response is out: leave the parser as given and re-arm.
FinishWith(w, branch, parser, keepAlive) ==
    /\ worker[w].pc = "finish"
    /\ worker[w].path = branch
    /\ conn' = [conn EXCEPT ![worker[w].conn].parser = parser]
    /\ PostRearm(worker[w].fd, RearmAfter(keepAlive))
    /\ Return(w)
    /\ UNCHANGED <<reactorVars, queue, sock, client, proc>>

\* Mutant of FinishResume: the parser is not reset.
FinishResumeKeepsParser(w) ==
    FinishWith(w, "resume", conn[worker[w].conn].parser, conn[worker[w].conn].pendingKeepAlive)

FinishResume(w) ==
    FinishWith(w, "resume", FreshParser, conn[worker[w].conn].pendingKeepAlive)

FinishBad(w) ==
    /\ worker[w].pc = "finish"
    /\ worker[w].path = "bad"
    /\ PostRearm(worker[w].fd, "Close")
    /\ Return(w)
    /\ UNCHANGED <<reactorVars, queue, conn, sock, client, proc>>

\* The worker steps that do not depend on how a complete request is served.
CommonWorkerStep(w) ==
    \/ TakeTask(w)
    \/ LookupConnection(w)
    \/ ResumeFlush(w)
    \/ RecvData(w)
    \/ RecvAgain(w)
    \/ RecvClosed(w)
    \/ ParseMore(w)
    \/ ParseError(w)
    \/ ParseComplete(w)
    \/ SendSome(w)
    \/ SendAgain(w)
    \/ SendFails(w)
    \/ SendRaisesSigpipe(w)
    \/ FinishResume(w)
    \/ FinishBad(w)

-----------------------------------------------------------------------------
(* Clients.  They do not pipeline: a request is sent when the response to  *)
(* the one before it has been read, and only if that did not announce the  *)
(* end of the connection.                                                  *)

ClientConnects(c) ==
    /\ sock[c].link = "none"
    /\ sock' = [sock EXCEPT ![c].link = "backlog"]
    /\ UNCHANGED client

CanSend(c) ==
    /\ sock[c].link \in {"backlog", "open"}
    /\ sock[c].peer = "open"
    /\ client[c].asked < MaxReqs
    /\ client[c].got = client[c].asked * RespLen
    /\ conn[c].header = "keep-alive"

ClientSendsPart(c) ==
    /\ CanSend(c)
    /\ client[c].phase = "idle"
    /\ sock' = [sock EXCEPT ![c].inq = Append(@, "part")]
    /\ client' = [client EXCEPT ![c].phase = "mid"]

ClientSendsFinal(c) ==
    /\ CanSend(c)
    /\ client[c].phase # "last"
    /\ \E s \in FinalSegments :
          /\ sock' = [sock EXCEPT ![c].inq = Append(@, s)]
          /\ client' = [client EXCEPT ![c].phase = IF s = "keep" THEN "idle" ELSE "last",
                                      ![c].asked = @ + 1]

ClientReads(c) ==
    /\ sock[c].peer \in {"open", "fin"}
    /\ sock[c].outq > 0
    /\ sock' = [sock EXCEPT ![c].outq = @ - 1]
    /\ client' = [client EXCEPT ![c].got = @ + 1]

\* shutdown(SHUT_WR) or close() by the client.
ClientFin(c) ==
    /\ "fin" \in PeerFaults
    /\ sock[c].link \in {"backlog", "open"}
    /\ sock[c].peer = "open"
    /\ sock' = [sock EXCEPT ![c].peer = "fin"]
    /\ UNCHANGED client

\* A reset by the client, of an open connection or after its FIN.
ClientReset(c) ==
    /\ sock[c].link \in {"backlog", "open"}
    /\ \/ /\ "reset" \in PeerFaults
          /\ sock[c].peer = "open"
          /\ sock' = [sock EXCEPT ![c].peer = "reset"]
       \/ /\ "fin_reset" \in PeerFaults
          /\ sock[c].peer = "fin"
          /\ sock' = [sock EXCEPT ![c].peer = "fin_reset"]
    /\ UNCHANGED client

ClientStep(c) ==
    /\ \/ ClientConnects(c)
       \/ ClientSendsPart(c)
       \/ ClientSendsFinal(c)
       \/ ClientReads(c)
       \/ ClientFin(c)
       \/ ClientReset(c)
    /\ UNCHANGED <<reactorVars, pendingRearms, queue, worker, conn, proc>>

-----------------------------------------------------------------------------
(* Properties of both programs *)

\* A worker that holds a Connection* and will still dereference it.
Holding(w) == worker[w].pc \in {"ready", "parse", "serve", "exchange", "flush", "finish"}

\* handleConnectionEvent() uses its Connection* without a lock: the object it
\* found under connectionsMutex_ must stay in the map, under the same fd, until
\* the handler returns.
ConnectionOutlivesHandler ==
    \A w \in Workers : Holding(w) => connections[worker[w].fd] = worker[w].conn

\* Positions of an fd in the three places that hand it from thread to thread.
QueuedAt(f)  == {i \in DOMAIN queue : queue[i] = f}
RearmsAt(f)  == {i \in DOMAIN rearms : rearms[i].fd = f}
PendingAt(f) == {i \in DOMAIN pendingRearms : pendingRearms[i].fd = f}
HandledBy(f) == {w \in Workers : worker[w].fd = f}

Custodians(f) ==
    ({"queue"} \X QueuedAt(f)) \cup ({"rearms"} \X RearmsAt(f))
      \cup ({"pending"} \X PendingAt(f)) \cup ({"worker"} \X HandledBy(f))

\* The dispatch protocol: an fd whose interest is off is in exactly one place
\* (task queue, a worker, the posted or the swapped re-arm deque), so it is
\* neither dispatched twice nor forgotten; an armed or closed fd is in none.
SingleCustodian ==
    \A f \in Fds :
        IF interest[f] = "off"
        THEN \E p \in Custodians(f) : Custodians(f) = {p}
        ELSE Custodians(f) = {}

\* A connection waits for Writable only while part of a response is unsent, and
\* for Readable only when nothing is: otherwise it stalls or spins.
ArmedForWhatIsNeeded ==
    \A f \in Fds :
        /\ interest[f] = "Readable" => conn[connections[f]].unsent = 0
        /\ interest[f] = "Writable" => conn[connections[f]].unsent > 0

\* consume() is only called on a parser that can still make progress; one that
\* is Complete or in Error would answer Complete for bytes it never looked at.
ParserIsFed ==
    \A w \in Workers :
        worker[w].pc = "parse" => conn[worker[w].conn].parser.state = "Incomplete"

\* The server never waits for input while it owes a response: when it waits for
\* Readable and has read all there is, every request has been answered in full,
\* once.
NothingOwedWhileReading ==
    \A f \in Fds :
        LET c == connections[f]
        IN  interest[f] = "Readable" /\ sock[c].inq = <<>> /\ ~WasReset(c)
              => client[c].got + sock[c].outq = client[c].asked * RespLen

\* Every request a client completes is answered in full unless the client resets
\* the connection or SIGPIPE has ended the process.  It may have been sent from the
\* backlog: when accept() fails for want of a descriptor, handleAccept() leaves its loop
\* and the client gets its turn later, unless from some time on clients that do not
\* leave hold every descriptor.
RequestAnswered ==
    \A c \in Conns : \A n \in 1..MaxReqs :
        client[c].asked = n
            ~> \/ client[c].got >= n * RespLen \/ WasReset(c) \/ proc = "killed"
               \/ [](/\ sock[c].link = "backlog"
                     /\ \A f \in Fds : connections[f] # NoConn /\ sock[connections[f]].peer = "open")

\* A connection whose client is gone is eventually closed, so its descriptor
\* comes back, unless the process has ended.
DepartedPeerReleased ==
    \A c \in Conns :
        sock[c].link = "open" /\ sock[c].peer # "open"
            ~> sock[c].link = "closed" \/ proc = "killed"

\* The program ends the connection of a client that is still there only after every
\* request has been answered in full, with no byte left in its write buffer, and only
\* when the client expects it: the last response says Connection: close or the client's
\* last request asked for it or was malformed.  A relayed response may say keep-alive
\* just before the close (proxyRequest() passes the upstream's own header on), so
\* neither half of the "or" is enough.
EndIsExpected ==
    \A c \in Conns :
        sock[c].link = "closed" /\ sock[c].peer = "open" =>
            /\ client[c].got + sock[c].outq = client[c].asked * RespLen
            /\ conn[c].header = "close" \/ client[c].phase = "last"

\* Connection: close and malformed requests end the connection: it is never
\* armed for reading again once such a response has been queued.
CloseIsHonoured ==
    \A f \in Fds :
        interest[f] = "Readable" => conn[connections[f]].pendingKeepAlive

\* A client that goes away costs its own connection, not the process.
ProcessSurvivesClients == proc = "up"

=============================================================================
