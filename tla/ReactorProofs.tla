--------------------------- MODULE ReactorProofs ---------------------------
(***************************************************************************)
(* The dispatch protocol that server and load balancer share, for any      *)
(* number of descriptors, connections and workers: as long as the event    *)
(* loop reports nothing for a disarmed fd, every handler's Connection*     *)
(* stays valid and no fd is dispatched twice or forgotten.                 *)
(*                                                                         *)
(* The lemmas are about CoreNext, of which the next-state relations of     *)
(* both programs are special cases; the theorems are in ProgramProofs.     *)
(***************************************************************************)
EXTENDS Reactor, QueueLemmas, TLAPS

-----------------------------------------------------------------------------
(* What the two programs have in common.  Each adds to CommonWorkerStep    *)
(* its way to serve a request; all that the proofs need to know of it is   *)
(* that it queues one response, may hold an upstream socket meanwhile, and *)
(* re-arms or closes the connection when the response is out.              *)

Queues(w) ==
    /\ worker[w].pc \in {"serve", "exchange"}
    /\ \E k \in BOOLEAN, h \in {"keep-alive", "close"} :
          conn' = [conn EXCEPT ![worker[w].conn] = QueueResponse(conn[worker[w].conn], k, h)]
    /\ \E u \in {worker[w].ufd, NoFd} :
          worker' = [worker EXCEPT ![w] = [worker[w] EXCEPT !.pc = "flush", !.ufd = u]]
    /\ UNCHANGED <<reactorVars, pendingRearms, queue, sock, client, proc>>

Connects(w) ==
    /\ worker[w].pc = "serve"
    /\ \E f \in FreeFds :
          worker' = [worker EXCEPT ![w] = [worker[w] EXCEPT !.pc = "exchange", !.ufd = f]]
    /\ UNCHANGED <<reactorVars, pendingRearms, queue, conn, sock, client, proc>>

Finishes(w) == \E b \in BOOLEAN : FinishWith(w, "request", FreshParser, b)

Dies ==
    /\ proc' = "killed"
    /\ UNCHANGED <<reactorVars, pendingRearms, queue, worker, conn, sock, client>>

CoreWorkerStep(w) == CommonWorkerStep(w) \/ Queues(w) \/ Connects(w) \/ Finishes(w) \/ Dies

CoreNext ==
    \/ ReactorStep
    \/ \E w \in Workers : CoreWorkerStep(w)
    \/ \E c \in Conns : ClientStep(c)

-----------------------------------------------------------------------------
(* Type correctness *)

\* A worker that is not idle was given a descriptor by TakeTask, and one that
\* is past the lookup holds a Connection.
WorkerLocals ==
    \A w \in Workers : /\ worker[w].pc # "idle" => worker[w].fd \in Fds
                       /\ Holding(w) => worker[w].conn \in Conns

TypeInv == TypeOK /\ WorkerLocals

USE NoFdAssumption, NoConnAssumption, BackendAssumption, SizeAssumption, FaultAssumption
USE DEF reactorVars

\* Both programs start in a well-typed state.
LEMMA InitTypeInv == Init => TypeInv
  BY DEF Init, TypeInv, TypeOK, WorkerLocals, Holding, IdleWorker, NewConnection, FreshParser,
         Interests, IoEvent, PendingRearm, PeerStates, Segments, FinalSegments, WorkerRec,
         ConnectionRec, ParserRec, SocketRec, ClientRec

\* Closing a descriptor changes the link of its socket and nothing else of it.
LEMMA EraseTypes ==
  ASSUME connections \in [Fds -> Conns \cup {NoConn}], interest \in [Fds -> Interests],
         sock \in [Conns -> SocketRec], NEW f \in Fds, EraseConnection(f)
  PROVE  /\ connections' \in [Fds -> Conns \cup {NoConn}]
         /\ interest' \in [Fds -> Interests]
         /\ sock' \in [Conns -> SocketRec]
<1>1. connections' \in [Fds -> Conns \cup {NoConn}] /\ interest' \in [Fds -> Interests]
  BY DEF EraseConnection, Interests
<1>2. \A c \in Conns : [sock[c] EXCEPT !.link = "closed"] \in SocketRec
  BY DEF SocketRec
<1>3. sock' \in [Conns -> SocketRec]
  BY <1>2 DEF EraseConnection
<1>4. QED
  BY <1>1, <1>3

\* What wait() reports for a client fd is one event, for a registered fd; kqueue
\* reports it only for an armed fd, epoll also for a disarmed one that was reset.
LEMMA ReadyEventsShape ==
  ASSUME NEW e \in ReadyEvents
  PROVE  \/ e = ListenEvent
         \/ /\ e \in [fd : Fds, error : BOOLEAN]
            /\ \/ interest[e.fd] \in {"Readable", "Writable"}
               \/ Backend = "epoll" /\ interest[e.fd] # "none" /\ WasReset(connections[e.fd])
            /\ e = [fd |-> e.fd, error |-> IF Backend = "kqueue" /\ interest[e.fd] = "Readable"
                                            THEN sock[connections[e.fd]].peer # "open"
                                            ELSE WasReset(connections[e.fd])]
<1>1. CASE e \in UNION {IF Backend = "epoll" THEN EpollEvents(f) ELSE KqueueEvents(f) : f \in Fds}
  <2>1. PICK f \in Fds : e \in IF Backend = "epoll" THEN EpollEvents(f) ELSE KqueueEvents(f)
    BY <1>1
  <2>2. CASE Backend = "epoll"
    <3>1. /\ e = [fd |-> f, error |-> WasReset(connections[f])]
          /\ interest[f] # "none"
          /\ interest[f] \in {"Readable", "Writable"} \/ WasReset(connections[f])
      BY <2>1, <2>2 DEF EpollEvents
    <3>2. WasReset(connections[f]) \in BOOLEAN
      BY DEF WasReset
    <3>3. QED
      BY <3>1, <3>2, <2>2
  <2>3. CASE Backend = "kqueue"
    <3>1. CASE /\ interest[f] = "Readable"
               /\ e = [fd |-> f, error |-> sock[connections[f]].peer # "open"]
      BY <2>3, <3>1
    <3>2. CASE /\ interest[f] = "Writable"
               /\ e = [fd |-> f, error |-> WasReset(connections[f])]
      <4>1. WasReset(connections[f]) \in BOOLEAN
        BY DEF WasReset
      <4>2. QED
        BY <2>3, <3>2, <4>1
    <3>3. QED
      BY <2>1, <2>3, <3>1, <3>2 DEF KqueueEvents
  <2>4. QED
    BY <2>2, <2>3
<1>2. CASE e \in (IF Backlog # {} THEN {ListenEvent} ELSE {})
  BY <1>2
<1>3. QED
  BY <1>1, <1>2 DEF ReadyEvents

\* applyPendingRearms(), wait(), handleAccept() and the event loop body keep
\* every variable well typed.
LEMMA ReactorTypeInv ==
  ASSUME TypeInv, ReactorStep
  PROVE  TypeInv'
<1> USE DEF TypeInv, TypeOK
<1>0. WorkerLocals'
  BY DEF ReactorStep, SwapRearms, ApplyRearm, WaitEvents, AcceptOne, AcceptDone, AcceptAborted, AcceptLast, HandleEvent, DispatchEvent,
         WorkerLocals, Holding
<1>1. CASE SwapRearms
  BY <1>0, <1>1 DEF SwapRearms
<1>2. CASE ApplyRearm
  <2>1. rearms' \in Seq(PendingRearm) /\ Head(rearms) \in PendingRearm
    BY <1>2 DEF ApplyRearm
  <2>2. Head(rearms).fd \in Fds
    BY <2>1 DEF PendingRearm
  <2>3. /\ connections' \in [Fds -> Conns \cup {NoConn}]
        /\ interest' \in [Fds -> Interests]
        /\ sock' \in [Conns -> SocketRec]
    BY <1>2, <2>2, EraseTypes DEF ApplyRearm, Interests
  <2>4. QED
    BY <1>0, <1>2, <2>1, <2>3 DEF ApplyRearm
<1>3. CASE WaitEvents
  <2>1. ReadyEvents \in SUBSET IoEvent
    BY ReadyEventsShape DEF IoEvent
  <2>2. QED
    BY <1>0, <1>3, <2>1 DEF WaitEvents
<1>4. CASE AcceptOne
  <2>1. PICK c \in Conns, f \in Fds :
          /\ connections' = [connections EXCEPT ![f] = c]
          /\ interest' = [interest EXCEPT ![f] = "Readable"]
          /\ sock' = [sock EXCEPT ![c].link = "open"]
          /\ conn' = [conn EXCEPT ![c] = NewConnection]
    BY <1>4 DEF AcceptOne, Backlog, FreeFds
  <2>2. sock' \in [Conns -> SocketRec]
    BY <2>1 DEF SocketRec
  <2>3. conn' \in [Conns -> ConnectionRec]
    BY <2>1 DEF ConnectionRec, ParserRec, NewConnection, FreshParser
  <2>4. QED
    BY <1>0, <1>4, <2>1, <2>2, <2>3 DEF AcceptOne, Interests
<1>5. CASE AcceptDone
  BY <1>0, <1>5 DEF AcceptDone, AcceptLast
<1>a. CASE AcceptAborted
  <2>1. PICK c \in Conns : sock' = [sock EXCEPT ![c].link = "closed"]
    BY <1>a DEF AcceptAborted, Backlog
  <2>2. sock' \in [Conns -> SocketRec]
    BY <2>1 DEF SocketRec
  <2>3. QED
    BY <1>0, <1>a, <2>2 DEF AcceptAborted, AcceptLast
<1>6. ASSUME NEW e \in events, HandleEvent(e) PROVE TypeInv'
  <2>1. e.fd \in Fds
    BY <1>6 DEF HandleEvent, DispatchEvent, IoEvent, ListenEvent
  <2>2. /\ connections' \in [Fds -> Conns \cup {NoConn}]
        /\ interest' \in [Fds -> Interests]
        /\ sock' \in [Conns -> SocketRec]
    <3>1. CASE EraseConnection(e.fd)
      BY <3>1, <2>1, EraseTypes
    <3>2. CASE interest' = [interest EXCEPT ![e.fd] = "off"] /\ UNCHANGED <<connections, sock>>
      BY <3>2, <2>1 DEF Interests
    <3>3. QED
      BY <1>6, <3>1, <3>2 DEF HandleEvent, DispatchEvent
  <2>3. queue' \in Seq(Fds)
    <3>1. queue' = queue \/ queue' = Append(queue, e.fd)
      BY <1>6 DEF HandleEvent, DispatchEvent
    <3>2. Append(queue, e.fd) \in Seq(Fds)
      BY <2>1, AppendInSeq, Zenon
    <3>3. QED
      BY <3>1, <3>2, Zenon
  <2>4. QED
    BY <1>0, <1>6, <2>2, <2>3 DEF HandleEvent, DispatchEvent
<1>7. QED
  BY <1>1, <1>2, <1>3, <1>4, <1>5, <1>a, <1>6 DEF ReactorStep

-----------------------------------------------------------------------------
(* What the steps of a worker have in common.  After the lookup every step *)
(* of handleConnectionEvent() either goes on with the same fd and the same *)
(* Connection, or posts one re-arm for its fd and returns.                 *)

Advances(w) ==
    /\ Holding(w) /\ Holding(w)'
    /\ worker' \in [Workers -> WorkerRec]
    /\ worker'[w].fd = worker[w].fd
    /\ worker'[w].conn = worker[w].conn
    /\ \A v \in Workers \ {w} : worker'[v] = worker[v]
    /\ UNCHANGED <<rpc, rearms, events, connections, interest, pendingRearms, queue>>

Answers(w) ==
    /\ Holding(w)
    /\ Return(w)
    /\ \E a \in RearmActions : PostRearm(worker[w].fd, a)
    /\ UNCHANGED <<rpc, rearms, events, connections, interest, queue>>

\* A step that leaves the threads and what they share alone (SIGPIPE ends them all).
Stops == UNCHANGED <<rpc, rearms, events, connections, interest, pendingRearms, queue, worker>>

\* Steps of a worker that keep its fd and Connection and change its label and
\* locals advance it.
LEMMA AdvanceBy ==
  ASSUME TypeInv, NEW w \in Workers, Holding(w),
         NEW r \in WorkerRec, worker' = [worker EXCEPT ![w] = r],
         r.fd = worker[w].fd, r.conn = worker[w].conn,
         r.pc \in {"ready", "parse", "serve", "exchange", "flush", "finish"},
         UNCHANGED <<rpc, rearms, events, connections, interest, pendingRearms, queue>>
  PROVE  Advances(w)
  BY DEF TypeInv, TypeOK, Advances, Holding

\* Every branch of the handler is one of the shapes above.
LEMMA WorkerShapes ==
  ASSUME TypeInv, NEW w \in Workers, CoreWorkerStep(w)
  PROVE  TakeTask(w) \/ LookupConnection(w) \/ Advances(w) \/ Answers(w) \/ Stops
<1> USE DEF Holding
<1>0. worker[w] \in WorkerRec /\ worker = [worker EXCEPT ![w] = worker[w]]
  BY DEF TypeInv, TypeOK
<1>1. CASE ResumeFlush(w)
  <2>1. [worker[w] EXCEPT !.pc = "flush", !.path = "resume"] \in WorkerRec
    BY <1>0 DEF WorkerRec
  <2>2. worker' = [worker EXCEPT ![w] = [worker[w] EXCEPT !.pc = "flush", !.path = "resume"]]
    BY <1>1 DEF ResumeFlush
  <2>3. Advances(w)
    BY <1>0, <1>1, <2>1, <2>2, AdvanceBy DEF ResumeFlush, WorkerRec
  <2>4. QED
    BY <2>3
<1>2. CASE RecvData(w)
  <2>1. PICK g \in Segments : worker' = [worker EXCEPT ![w] = [worker[w] EXCEPT !.pc = "parse", !.seg = g]]
    <3>1. connections[worker[w].fd] \in Conns
      BY <1>2 DEF RecvData, TypeInv, TypeOK, WorkerLocals
    <3>2. sock[connections[worker[w].fd]].inq \in Seq(Segments)
      BY <3>1 DEF TypeInv, TypeOK, SocketRec
    <3>3. PICK k \in 1..Len(sock[connections[worker[w].fd]].inq) :
            worker' = [worker EXCEPT ![w].pc = "parse",
                                     ![w].seg = sock[connections[worker[w].fd]].inq[k]]
      BY <1>2 DEF RecvData
    <3>4. sock[connections[worker[w].fd]].inq[k] \in Segments
      BY <3>2
    <3>5. QED
      BY <3>3, <3>4
  <2>2. [worker[w] EXCEPT !.pc = "parse", !.seg = g] \in WorkerRec
    BY <1>0 DEF WorkerRec
  <2>3. Advances(w)
    BY <1>0, <1>2, <2>1, <2>2, AdvanceBy DEF RecvData, WorkerRec
  <2>4. QED
    BY <2>3
<1>3. CASE ParseError(w)
  <2>1. [worker[w] EXCEPT !.pc = "flush", !.path = "bad"] \in WorkerRec
    BY <1>0 DEF WorkerRec
  <2>2. worker' = [worker EXCEPT ![w] = [worker[w] EXCEPT !.pc = "flush", !.path = "bad"]]
    BY <1>3 DEF ParseError, QueueResponse
  <2>3. Advances(w)
    BY <1>0, <1>3, <2>1, <2>2, AdvanceBy DEF ParseError, QueueResponse, WorkerRec
  <2>4. QED
    BY <2>3
<1>4. CASE ParseComplete(w)
  <2>1. [worker[w] EXCEPT !.pc = "serve", !.path = "request"] \in WorkerRec
    BY <1>0 DEF WorkerRec
  <2>2. worker' = [worker EXCEPT ![w] = [worker[w] EXCEPT !.pc = "serve", !.path = "request"]]
    BY <1>4 DEF ParseComplete
  <2>3. Advances(w)
    BY <1>0, <1>4, <2>1, <2>2, AdvanceBy DEF ParseComplete, WorkerRec
  <2>4. QED
    BY <2>3
<1>5. CASE SendSome(w) \/ SendFails(w)
  <2>1. PICK l \in {"flush", "finish"} : worker' = [worker EXCEPT ![w] = [worker[w] EXCEPT !.pc = l]]
    BY <1>5 DEF SendSome, SendCounting, Taken, SendFails, Goto
  <2>2. [worker[w] EXCEPT !.pc = l] \in WorkerRec
    BY <1>0 DEF WorkerRec
  <2>3. Advances(w)
    BY <1>0, <1>5, <2>1, <2>2, AdvanceBy DEF SendSome, SendCounting, Taken, SendFails, WorkerRec
  <2>4. QED
    BY <2>3
<1>6. CASE RecvAgain(w) \/ RecvClosed(w) \/ ParseMore(w) \/ SendAgain(w) \/ FinishBad(w)
  BY <1>6 DEF RecvAgain, RecvClosed, RecvEnds, ParseMore, SendAgain, SendBlocked, FinishBad, Answers, RearmActions
<1>7. CASE FinishResume(w) \/ Finishes(w)
  <2>1. \A b : RearmAfter(b) \in RearmActions
    BY DEF RearmAfter, RearmActions
  <2>2. QED
    BY <1>7, <2>1 DEF FinishResume, FinishWith, Finishes, Answers
<1>8. CASE SendRaisesSigpipe(w) \/ Dies
  BY <1>8 DEF SendRaisesSigpipe, Dies, Stops
<1>9. CASE Queues(w)
  <2>1. PICK u \in {worker[w].ufd, NoFd} :
            worker' = [worker EXCEPT ![w] = [worker[w] EXCEPT !.pc = "flush", !.ufd = u]]
    BY <1>9 DEF Queues
  <2>2. [worker[w] EXCEPT !.pc = "flush", !.ufd = u] \in WorkerRec
    BY <1>0, <2>1 DEF WorkerRec
  <2>3. Advances(w)
    BY <1>0, <1>9, <2>1, <2>2, AdvanceBy DEF Queues, WorkerRec
  <2>4. QED
    BY <2>3
<1>10. CASE Connects(w)
  <2>1. PICK f \in FreeFds :
            worker' = [worker EXCEPT ![w] = [worker[w] EXCEPT !.pc = "exchange", !.ufd = f]]
    BY <1>10 DEF Connects
  <2>2. [worker[w] EXCEPT !.pc = "exchange", !.ufd = f] \in WorkerRec
    BY <1>0, <2>1 DEF WorkerRec, FreeFds
  <2>3. Advances(w)
    BY <1>0, <1>10, <2>1, <2>2, AdvanceBy DEF Connects, WorkerRec
  <2>4. QED
    BY <2>3
<1>11. QED
  BY <1>1, <1>2, <1>3, <1>4, <1>5, <1>6, <1>7, <1>8, <1>9, <1>10 DEF CoreWorkerStep, CommonWorkerStep

\* recv(), the parser, queueWrite() and send() keep the Connection objects and the
\* sockets well typed, and none of them changes what the peer has done.
LEMMA WorkerData ==
  ASSUME TypeInv, NEW w \in Workers, CoreWorkerStep(w)
  PROVE  /\ conn' \in [Conns -> ConnectionRec]
         /\ sock' \in [Conns -> SocketRec]
         /\ proc' \in {"up", "killed"}
         /\ client' = client
         /\ \A c \in Conns : sock'[c].peer = sock[c].peer
<1> DEFINE c == worker[w].conn
           Goal == /\ conn' \in [Conns -> ConnectionRec]
                   /\ sock' \in [Conns -> SocketRec]
                   /\ proc' \in {"up", "killed"}
                   /\ client' = client
                   /\ \A d \in Conns : sock'[d].peer = sock[d].peer
<1>t. /\ conn \in [Conns -> ConnectionRec]
      /\ sock \in [Conns -> SocketRec]
      /\ proc \in {"up", "killed"}
      /\ worker[w].fd \in Fds => connections[worker[w].fd] \in Conns \cup {NoConn}
      /\ Holding(w) => c \in Conns
      /\ worker[w].pc # "idle" => worker[w].fd \in Fds
      /\ worker[w].seg \in Segments
  BY DEF TypeInv, TypeOK, WorkerLocals, WorkerRec
<1>p. \A p \in ParserRec : \A g \in Segments : Consume(p, g) \in ParserRec
  BY DEF Consume, ParserRec, Segments, FinalSegments
<1>r. FreshParser \in ParserRec
  BY DEF FreshParser, ParserRec
<1>q. \A k \in ConnectionRec : \A b \in BOOLEAN : \A h \in {"keep-alive", "close"} :
          QueueResponse(k, b, h) \in ConnectionRec
  <2>1. SUFFICES ASSUME NEW k \in ConnectionRec, NEW b \in BOOLEAN,
                        NEW h \in {"keep-alive", "close"}
                 PROVE  QueueResponse(k, b, h) \in ConnectionRec
    OBVIOUS
  <2>2. k.unsent + RespLen \in Nat
    BY DEF ConnectionRec
  <2>3. \A u \in Nat : [k EXCEPT !.pendingKeepAlive = b, !.unsent = u, !.header = h]
                          \in ConnectionRec
    BY DEF ConnectionRec
  <2>4. QED
    BY <2>2, <2>3, Zenon DEF QueueResponse
<1> USE DEF Holding
<1>1. CASE \/ TakeTask(w) \/ LookupConnection(w) \/ ResumeFlush(w) \/ RecvAgain(w)
           \/ RecvClosed(w) \/ SendAgain(w) \/ FinishBad(w) \/ SendRaisesSigpipe(w)
           \/ Connects(w) \/ Dies
  BY <1>1, <1>t DEF TakeTask, LookupConnection, ResumeFlush, RecvAgain, RecvClosed, RecvEnds, SendAgain, SendBlocked,
                    FinishBad, SendRaisesSigpipe, Connects, Dies
<1>2. CASE RecvData(w)
  <2> DEFINE s == connections[worker[w].fd]
  <2>0. s \in Conns
    BY <1>2, <1>t DEF RecvData
  <2>1. PICK k \in 1..Len(sock[s].inq) : sock' = [sock EXCEPT ![s].inq = SubSeq(@, k + 1, Len(@))]
    BY <1>2 DEF RecvData
  <2>2. sock' \in [Conns -> SocketRec] /\ \A d \in Conns : sock'[d].peer = sock[d].peer
    <3>1. sock[s].inq \in Seq(Segments)
      BY <1>t, <2>0 DEF SocketRec
    <3>2. SubSeq(sock[s].inq, k + 1, Len(sock[s].inq)) \in Seq(Segments)
      BY <3>1
    <3>3. QED
      BY <1>t, <2>0, <2>1, <3>2 DEF SocketRec
  <2>3. QED
    BY <1>2, <1>t, <2>2 DEF RecvData
<1>3. CASE ParseMore(w) \/ ParseComplete(w)
  <2>1. conn' = [conn EXCEPT ![c].parser = Consume(@, worker[w].seg)]
    BY <1>3 DEF ParseMore, ParseComplete
  <2>2. c \in Conns /\ conn[c].parser \in ParserRec
    BY <1>3, <1>t DEF ParseMore, ParseComplete, ConnectionRec
  <2>3. conn' \in [Conns -> ConnectionRec]
    BY <2>1, <2>2, <1>t, <1>p DEF ConnectionRec
  <2>4. QED
    BY <1>3, <1>t, <2>3 DEF ParseMore, ParseComplete
<1>4. CASE ParseError(w)
  <2> DEFINE k == [conn[c] EXCEPT !.parser = Consume(conn[c].parser, worker[w].seg)]
  <2>1. conn' = [conn EXCEPT ![c] = QueueResponse(k, FALSE, "close")]
    BY <1>4, Zenon DEF ParseError
  <2>2. c \in Conns /\ conn[c].parser \in ParserRec
    BY <1>4, <1>t DEF ParseError, ConnectionRec
  <2>3. k \in ConnectionRec
    BY <2>2, <1>t, <1>p DEF ConnectionRec
  <2> HIDE DEF k
  <2>4. conn' \in [Conns -> ConnectionRec]
    BY <2>1, <2>2, <2>3, <1>t, <1>q
  <2>5. QED
    BY <1>4, <1>t, <2>4 DEF ParseError
<1>5. CASE SendSome(w)
  <2>1. c \in Conns
    BY <1>5, <1>t DEF SendSome, SendCounting, Taken
  <2> DEFINE n == IF conn[c].unsent <= SndBuf - sock[c].outq
                  THEN conn[c].unsent ELSE SndBuf - sock[c].outq
  <2>2. /\ conn' = [conn EXCEPT ![c].unsent = @ - n]
        /\ sock' = [sock EXCEPT ![c].outq = @ + n]
    BY <1>5 DEF SendSome, SendCounting, Taken
  <2>a. conn[c].unsent \in Nat /\ sock[c].outq \in 0..SndBuf
    BY <2>1, <1>t DEF ConnectionRec, SocketRec
  <2>b. conn[c].unsent - n \in Nat /\ sock[c].outq + n \in 0..SndBuf
    BY <2>a
  <2> HIDE DEF n
  <2>3. conn' \in [Conns -> ConnectionRec]
    BY <2>1, <2>2, <2>b, <1>t DEF ConnectionRec
  <2>4. sock' \in [Conns -> SocketRec] /\ \A d \in Conns : sock'[d].peer = sock[d].peer
    BY <2>1, <2>2, <2>b, <1>t DEF SocketRec
  <2>5. QED
    BY <1>5, <1>t, <2>3, <2>4 DEF SendSome, SendCounting, Taken
<1>6. CASE SendFails(w)
  <2>1. conn' \in [Conns -> ConnectionRec]
    BY <1>6, <1>t DEF SendFails, ConnectionRec
  <2>2. QED
    BY <1>6, <1>t, <2>1 DEF SendFails
<1>7. CASE FinishResume(w) \/ Finishes(w)
  <2>1. conn' = [conn EXCEPT ![c].parser = FreshParser]
    BY <1>7 DEF FinishResume, FinishWith, Finishes
  <2>2. conn' \in [Conns -> ConnectionRec]
    BY <2>1, <1>t, <1>r DEF ConnectionRec
  <2>3. QED
    BY <1>7, <1>t, <2>2 DEF FinishResume, FinishWith, Finishes
<1>8. CASE Queues(w)
  <2>1. PICK b \in BOOLEAN, h \in {"keep-alive", "close"} :
            conn' = [conn EXCEPT ![c] = QueueResponse(conn[c], b, h)]
    BY <1>8 DEF Queues
  <2>2. c \in Conns
    BY <1>8, <1>t DEF Queues
  <2>3. conn' \in [Conns -> ConnectionRec]
    BY <2>1, <2>2, <1>t, <1>q
  <2>4. QED
    BY <1>8, <1>t, <2>3 DEF Queues
<1>9. QED
  BY <1>1, <1>2, <1>3, <1>4, <1>5, <1>6, <1>7, <1>8 DEF CoreWorkerStep, CommonWorkerStep

\* A worker that returns is idle, and the others are as they were.
LEMMA ReturnTypes ==
  ASSUME TypeInv, NEW w \in Workers, Return(w)
  PROVE  worker' \in [Workers -> WorkerRec] /\ WorkerLocals'
<1>1. IdleWorker \in WorkerRec
  BY DEF IdleWorker, WorkerRec, Segments
<1>2. worker' \in [Workers -> WorkerRec]
  BY <1>1 DEF Return, TypeInv, TypeOK
<1>3. \A v \in Workers : worker'[v] = worker[v] \/ worker'[v] = IdleWorker
  BY DEF Return, TypeInv, TypeOK
<1>4. QED
  BY <1>2, <1>3 DEF TypeInv, WorkerLocals, Holding, IdleWorker

\* handleConnectionEvent() and the task queue keep every variable well typed.
LEMMA WorkerTypeInv ==
  ASSUME TypeInv, NEW w \in Workers, CoreWorkerStep(w)
  PROVE  TypeInv'
<1>0. /\ conn' \in [Conns -> ConnectionRec]
      /\ sock' \in [Conns -> SocketRec]
      /\ proc' \in {"up", "killed"}
      /\ client' \in [Conns -> ClientRec]
  BY WorkerData DEF TypeInv, TypeOK
<1>1. CASE TakeTask(w)
  <2>1. Head(queue) \in Fds /\ queue' \in Seq(Fds)
    BY <1>1 DEF TakeTask, TypeInv, TypeOK
  <2>2. worker' \in [Workers -> WorkerRec]
    <3>1. worker \in [Workers -> WorkerRec]
      BY DEF TypeInv, TypeOK
    <3>2. [worker[w] EXCEPT !.pc = "lookup", !.fd = Head(queue)] \in WorkerRec
      BY <2>1, <3>1 DEF WorkerRec
    <3>3. QED
      BY <1>1, <3>1, <3>2 DEF TakeTask
  <2>3. /\ worker'[w].fd = Head(queue) /\ worker'[w].pc = "lookup"
        /\ \A v \in Workers \ {w} : worker'[v] = worker[v]
    BY <1>1 DEF TakeTask, TypeInv, TypeOK, WorkerRec
  <2>4. WorkerLocals'
    BY <2>1, <2>3 DEF TypeInv, WorkerLocals, Holding
  <2>5. QED
    BY <1>0, <1>1, <2>1, <2>2, <2>4 DEF TakeTask, TypeInv, TypeOK
<1>2. CASE LookupConnection(w)
  <2>1. CASE Return(w)
    BY <1>0, <1>2, <2>1, ReturnTypes DEF LookupConnection, TypeInv, TypeOK
  <2>2. CASE /\ connections[worker[w].fd] # NoConn
             /\ worker' = [worker EXCEPT ![w].pc = "ready", ![w].conn = connections[worker[w].fd]]
    <3>1. worker[w].fd \in Fds /\ connections[worker[w].fd] \in Conns
      BY <1>2, <2>2 DEF LookupConnection, TypeInv, TypeOK, WorkerLocals
    <3>2. worker' \in [Workers -> WorkerRec]
      <4>1. worker \in [Workers -> WorkerRec]
        BY DEF TypeInv, TypeOK
      <4>2. [worker[w] EXCEPT !.pc = "ready", !.conn = connections[worker[w].fd]] \in WorkerRec
        BY <3>1, <4>1 DEF WorkerRec
      <4>3. QED
        BY <2>2, <4>1, <4>2
    <3>3. /\ worker'[w].fd \in Fds /\ worker'[w].conn \in Conns
          /\ \A v \in Workers \ {w} : worker'[v] = worker[v]
      BY <2>2, <3>1 DEF TypeInv, TypeOK, WorkerRec
    <3>4. WorkerLocals'
      BY <3>3 DEF TypeInv, WorkerLocals, Holding
    <3>5. QED
      BY <1>0, <1>2, <3>2, <3>4 DEF LookupConnection, TypeInv, TypeOK
  <2>3. QED
    BY <1>2, <2>1, <2>2 DEF LookupConnection
<1>3. CASE Advances(w)
  <2>1. WorkerLocals'
    BY <1>3 DEF Advances, TypeInv, WorkerLocals, Holding
  <2>2. QED
    BY <1>0, <1>3, <2>1 DEF Advances, TypeInv, TypeOK
<1>4. CASE Answers(w)
  <2>1. worker[w].fd \in Fds
    BY <1>4 DEF Answers, Holding, TypeInv, WorkerLocals
  <2>2. PICK a \in RearmActions : PostRearm(worker[w].fd, a)
    BY <1>4 DEF Answers
  <2>3. [fd |-> worker[w].fd, action |-> a] \in PendingRearm
    BY <2>1 DEF PendingRearm
  <2>4. pendingRearms \in Seq(PendingRearm)
    BY DEF TypeInv, TypeOK
  <2>5. pendingRearms' \in Seq(PendingRearm)
    BY <2>2, <2>3, <2>4, AppendInSeq, Zenon DEF PostRearm
  <2>6. QED
    BY <1>0, <1>4, <2>5, ReturnTypes DEF Answers, TypeInv, TypeOK
<1>5. CASE Stops
  BY <1>0, <1>5 DEF Stops, TypeInv, TypeOK, WorkerLocals, Holding
<1>6. QED
  BY <1>1, <1>2, <1>3, <1>4, <1>5, WorkerShapes

\* What clients do keeps the sockets and their own state well typed; it touches
\* nothing of the server.
LEMMA ClientTypeInv ==
  ASSUME TypeInv, NEW c \in Conns, ClientStep(c)
  PROVE  TypeInv'
<1>t. sock \in [Conns -> SocketRec] /\ client \in [Conns -> ClientRec]
  BY DEF TypeInv, TypeOK
<1>s. SUFFICES sock' \in [Conns -> SocketRec] /\ client' \in [Conns -> ClientRec]
  BY DEF ClientStep, TypeInv, TypeOK, WorkerLocals, Holding
<1>a. \A g \in Segments : Append(sock[c].inq, g) \in Seq(Segments)
  BY <1>t DEF SocketRec
<1>1. CASE ClientConnects(c)
  BY <1>t, <1>1 DEF ClientConnects, SocketRec
<1>2. CASE ClientSendsPart(c)
  BY <1>t, <1>a, <1>2 DEF ClientSendsPart, SocketRec, ClientRec, Segments
<1>3. CASE ClientSendsFinal(c)
  <2>1. PICK g \in FinalSegments :
          /\ sock' = [sock EXCEPT ![c].inq = Append(@, g)]
          /\ client' = [client EXCEPT ![c].phase = IF g = "keep" THEN "idle" ELSE "last",
                                      ![c].asked = @ + 1]
    BY <1>3 DEF ClientSendsFinal
  <2>2. sock' \in [Conns -> SocketRec]
    BY <1>t, <1>a, <2>1 DEF SocketRec, Segments
  <2>3. client[c].asked < MaxReqs
    BY <1>3 DEF ClientSendsFinal, CanSend
  <2>4. client' \in [Conns -> ClientRec]
    BY <1>t, <2>1, <2>3 DEF ClientRec
  <2>5. QED
    BY <2>2, <2>4
<1>4. CASE ClientReads(c)
  <2>1. sock[c].outq - 1 \in 0..SndBuf /\ client[c].got + 1 \in Nat
    BY <1>t, <1>4 DEF ClientReads, SocketRec, ClientRec
  <2>2. sock' \in [Conns -> SocketRec]
    BY <1>t, <1>4, <2>1 DEF ClientReads, SocketRec
  <2>3. client' \in [Conns -> ClientRec]
    BY <1>t, <1>4, <2>1 DEF ClientReads, ClientRec
  <2>4. QED
    BY <2>2, <2>3
<1>5. CASE ClientFin(c) \/ ClientReset(c)
  <2>1. PICK p \in PeerStates : sock' = [sock EXCEPT ![c].peer = p]
    BY <1>5 DEF ClientFin, ClientReset, PeerStates
  <2>2. sock' \in [Conns -> SocketRec]
    BY <1>t, <2>1 DEF SocketRec
  <2>3. QED
    BY <1>t, <1>5, <2>2 DEF ClientFin, ClientReset
<1>6. QED
  BY <1>1, <1>2, <1>3, <1>4, <1>5 DEF ClientStep

\* The inductive step of type correctness.
LEMMA NextTypeInv ==
  ASSUME TypeInv, [CoreNext]_vars
  PROVE  TypeInv'
<1>1. CASE ReactorStep
  BY <1>1, ReactorTypeInv
<1>2. ASSUME NEW w \in Workers, CoreWorkerStep(w) PROVE TypeInv'
  BY <1>2, WorkerTypeInv
<1>3. ASSUME NEW c \in Conns, ClientStep(c) PROVE TypeInv'
  BY <1>3, ClientTypeInv
<1>4. CASE UNCHANGED vars
  BY <1>4 DEF vars, TypeInv, TypeOK, WorkerLocals, Holding
<1>5. QED
  BY <1>1, <1>2, <1>3, <1>4 DEF CoreNext

-----------------------------------------------------------------------------
(* The dispatch protocol *)

\* What the protocol needs of the event loop: no event for an fd whose interest
\* mask is 0.  kqueue gives it, having no filter left for the fd; epoll gives it
\* only while no peer resets a connection.
DisarmedIsSilent == Backend = "kqueue" \/ PeerFaults \cap {"reset", "fin_reset"} = {}

-----------------------------------------------------------------------------
(* The inductive invariant *)

\* The descriptors in the task queue, in the two re-arm deques and in the hands
\* of workers.
TaskFds     == Elements(queue)
RearmFds(s) == {s[i].fd : i \in 1..Len(s)}
HandledFds  == {worker[w].fd : w \in Workers} \ {NoFd}
OffFds      == {f \in Fds : interest[f] = "off"}

\* The disarmed descriptors are divided among those four places.
Divided ==
    /\ OffFds = TaskFds \cup RearmFds(rearms) \cup RearmFds(pendingRearms) \cup HandledFds
    /\ TaskFds \cap RearmFds(rearms) = {}
    /\ TaskFds \cap RearmFds(pendingRearms) = {}
    /\ TaskFds \cap HandledFds = {}
    /\ RearmFds(rearms) \cap RearmFds(pendingRearms) = {}
    /\ RearmFds(rearms) \cap HandledFds = {}
    /\ RearmFds(pendingRearms) \cap HandledFds = {}

\* No place holds a descriptor twice.
DistinctFds(s) == \A i, j \in 1..Len(s) : s[i].fd = s[j].fd => i = j

NoDuplicates ==
    /\ Distinct(queue)
    /\ DistinctFds(rearms)
    /\ DistinctFds(pendingRearms)
    /\ \A v, w \in Workers : worker[v].fd = worker[w].fd => v = w \/ worker[v].fd = NoFd

IdleHasNoFd == \A w \in Workers : worker[w].pc = "idle" => worker[w].fd = NoFd

\* connections_ and the event loop know the same descriptors.
Registered == \A f \in Fds : interest[f] = "none" <=> connections[f] = NoConn

\* The reactor is either applying re-arms or working through a batch of events.
OnePhase == /\ rpc = "rearms" => events = {}
            /\ rpc # "rearms" => rearms = <<>>

\* An event not yet looked at is for an fd that is still armed, and is its only one.
EventsArmed ==
    /\ \A e \in events : e = ListenEvent \/ interest[e.fd] \in {"Readable", "Writable"}
    /\ \A e, d \in events : e.fd = d.fd => e = d

NoReset == Backend = "epoll" => \A c \in Conns : ~WasReset(c)

DispatchInv ==
    /\ TypeInv
    /\ Divided
    /\ NoDuplicates
    /\ IdleHasNoFd
    /\ Registered
    /\ OnePhase
    /\ EventsArmed
    /\ NoReset
    /\ ConnectionOutlivesHandler

-----------------------------------------------------------------------------
(* Deques as sets of descriptors *)

\* push_back() and the traversal of a re-arm deque.
LEMMA RearmDequeOps ==
  ASSUME NEW S, NEW s \in Seq(S), DistinctFds(s)
  PROVE  /\ \A x \in S : /\ RearmFds(Append(s, x)) = RearmFds(s) \cup {x.fd}
                         /\ x.fd \notin RearmFds(s) => DistinctFds(Append(s, x))
         /\ s # <<>> => /\ RearmFds(Tail(s)) = RearmFds(s) \ {Head(s).fd}
                        /\ Head(s).fd \in RearmFds(s)
                        /\ DistinctFds(Tail(s))
<1>1. ASSUME NEW x \in S
      PROVE  /\ RearmFds(Append(s, x)) = RearmFds(s) \cup {x.fd}
             /\ x.fd \notin RearmFds(s) => DistinctFds(Append(s, x))
  <2>1. /\ Len(Append(s, x)) = Len(s) + 1
        /\ \A i \in 1..Len(s) : Append(s, x)[i] = s[i]
        /\ Append(s, x)[Len(s) + 1] = x
    OBVIOUS
  <2> DEFINE t == Append(s, x)
  <2> HIDE DEF t
  <2>2. Len(s) \in Nat /\ Len(t) = Len(s) + 1 /\ t[Len(s) + 1] = x
        /\ \A i \in 1..Len(s) : t[i] = s[i]
    BY <2>1 DEF t
  <2>3. RearmFds(t) = RearmFds(s) \cup {x.fd}
    BY <2>2 DEF RearmFds
  <2>4. x.fd \notin RearmFds(s) => DistinctFds(t)
    BY <2>2 DEF DistinctFds, RearmFds
  <2>5. QED
    BY <2>3, <2>4 DEF t
<1>2. ASSUME s # <<>>
      PROVE  /\ RearmFds(Tail(s)) = RearmFds(s) \ {Head(s).fd}
             /\ Head(s).fd \in RearmFds(s)
             /\ DistinctFds(Tail(s))
  <2>1. /\ Len(s) \in Nat \ {0} /\ Len(Tail(s)) = Len(s) - 1
        /\ \A i \in 1..(Len(s) - 1) : Tail(s)[i] = s[i + 1]
        /\ Head(s) = s[1]
    BY <1>2
  <2> DEFINE t == Tail(s)
  <2> HIDE DEF t
  <2>2. /\ Len(s) \in Nat \ {0} /\ Len(t) = Len(s) - 1
        /\ \A i \in 1..(Len(s) - 1) : t[i] = s[i + 1]
        /\ \A i \in 2..Len(s) : i - 1 \in 1..Len(t) /\ t[i - 1] = s[i]
        /\ Head(s) = s[1]
    BY <2>1 DEF t
  <2>3. RearmFds(t) = RearmFds(s) \ {Head(s).fd}
    <3>1. ASSUME NEW i \in 1..Len(t) PROVE t[i].fd \in RearmFds(s) \ {Head(s).fd}
      <4>1. t[i] = s[i + 1] /\ i + 1 \in 1..Len(s) /\ i + 1 # 1 /\ 1 \in 1..Len(s)
        BY <2>2
      <4>2. s[i + 1].fd # s[1].fd
        BY <4>1 DEF DistinctFds
      <4>3. QED
        BY <2>2, <4>1, <4>2 DEF RearmFds
    <3>2. ASSUME NEW i \in 1..Len(s), s[i].fd # Head(s).fd PROVE s[i].fd \in RearmFds(t)
      <4>1. i \in 2..Len(s)
        BY <2>2, <3>2
      <4>2. QED
        BY <2>2, <4>1 DEF RearmFds
    <3>3. QED
      BY <3>1, <3>2 DEF RearmFds
  <2>4. DistinctFds(t) /\ Head(s).fd \in RearmFds(s)
    BY <2>2 DEF RearmFds, DistinctFds
  <2>5. QED
    BY <2>3, <2>4 DEF t
<1>3. QED
  BY <1>1, <1>2

\* A deque that is empty holds no descriptor.
LEMMA EmptyRearms == RearmFds(<<>>) = {} /\ DistinctFds(<<>>)
  BY DEF RearmFds, DistinctFds

\* The fd of a busy worker is among the handled ones.
LEMMA BusyHandles ==
  ASSUME DispatchInv, NEW w \in Workers, worker[w].pc # "idle"
  PROVE  worker[w].fd \in Fds /\ worker[w].fd \in HandledFds
<1>1. worker[w].fd \in Fds
  BY DEF DispatchInv, TypeInv, WorkerLocals
<1>2. QED
  BY <1>1 DEF HandledFds

-----------------------------------------------------------------------------
(* Reactor steps *)

\* Before the first step nothing is registered and nothing is queued.
LEMMA InitDispatch == Init => DispatchInv
<1> SUFFICES ASSUME Init PROVE DispatchInv
  OBVIOUS
<1>1. TypeInv
  BY InitTypeInv
<1>2. Divided /\ NoDuplicates /\ IdleHasNoFd
  BY DEF Init, Divided, NoDuplicates, IdleHasNoFd, TaskFds, RearmFds, Elements, HandledFds,
         OffFds, Distinct, DistinctFds, IdleWorker
<1>3. Registered /\ OnePhase /\ EventsArmed
  BY DEF Init, Registered, OnePhase, EventsArmed
<1>4. NoReset /\ ConnectionOutlivesHandler
  BY DEF Init, NoReset, WasReset, ConnectionOutlivesHandler, Holding, IdleWorker
<1>5. QED
  BY <1>1, <1>2, <1>3, <1>4 DEF DispatchInv

\* The swap moves the posted descriptors to the reactor's deque, which is empty.
LEMMA SwapDispatch ==
  ASSUME DispatchInv, SwapRearms
  PROVE  Divided' /\ NoDuplicates' /\ Registered' /\ OnePhase' /\ EventsArmed'
<1>1. rearms = <<>> /\ rearms' = pendingRearms /\ pendingRearms' = <<>>
  BY DEF SwapRearms, DispatchInv, OnePhase
<1>2. /\ RearmFds(rearms) = {} /\ RearmFds(pendingRearms') = {}
      /\ RearmFds(rearms') = RearmFds(pendingRearms)
  BY <1>1, EmptyRearms
<1>3. TaskFds' = TaskFds /\ HandledFds' = HandledFds /\ OffFds' = OffFds
  BY DEF SwapRearms, TaskFds, HandledFds, OffFds
<1>4. Divided'
  BY <1>2, <1>3 DEF DispatchInv, Divided
<1>5. NoDuplicates'
  BY <1>1, EmptyRearms DEF SwapRearms, DispatchInv, NoDuplicates
<1>6. Registered' /\ OnePhase' /\ EventsArmed'
  BY DEF SwapRearms, DispatchInv, Registered, OnePhase, EventsArmed
<1>7. QED
  BY <1>4, <1>5, <1>6

\* Applying a re-arm arms or closes a disarmed fd that only the reactor's deque
\* holds, so no handler is using its Connection.
LEMMA ApplyDispatch ==
  ASSUME DispatchInv, ApplyRearm
  PROVE  /\ Divided' /\ NoDuplicates' /\ Registered' /\ OnePhase' /\ EventsArmed'
         /\ ConnectionOutlivesHandler'
<1> DEFINE f == Head(rearms).fd
<1>1. rearms \in Seq(PendingRearm) /\ rearms # <<>> /\ rearms' = Tail(rearms) /\ f \in Fds
  <2>1. rearms \in Seq(PendingRearm) /\ rearms # <<>> /\ rearms' = Tail(rearms)
    BY DEF ApplyRearm, DispatchInv, TypeInv, TypeOK
  <2>2. Head(rearms) \in PendingRearm
    BY <2>1
  <2>3. QED
    BY <2>1, <2>2 DEF PendingRearm
<1>2. /\ RearmFds(rearms') = RearmFds(rearms) \ {f} /\ f \in RearmFds(rearms)
      /\ DistinctFds(rearms')
  <2>1. DistinctFds(rearms)
    BY DEF DispatchInv, NoDuplicates
  <2>2. QED
    BY <1>1, <2>1, RearmDequeOps, Zenon
<1>3. interest[f] = "off" /\ connections[f] # NoConn
  BY <1>1, <1>2 DEF DispatchInv, Divided, OffFds, Registered
<1>4. /\ interest \in [Fds -> Interests] /\ connections \in [Fds -> Conns \cup {NoConn}]
  BY DEF DispatchInv, TypeInv, TypeOK
<1>5. \/ /\ \E i \in {"Readable", "Writable"} : interest' = [interest EXCEPT ![f] = i]
         /\ connections' = connections
      \/ /\ interest' = [interest EXCEPT ![f] = "none"]
         /\ connections' = [connections EXCEPT ![f] = NoConn]
  BY <1>3 DEF ApplyRearm, EraseConnection
<1>6. OffFds' = OffFds \ {f}
  BY <1>1, <1>4, <1>5 DEF OffFds
<1>7. TaskFds' = TaskFds /\ HandledFds' = HandledFds /\ pendingRearms' = pendingRearms
  BY DEF ApplyRearm, TaskFds, HandledFds
<1>8. Divided'
  BY <1>2, <1>6, <1>7 DEF DispatchInv, Divided
<1>9. NoDuplicates'
  BY <1>2 DEF ApplyRearm, DispatchInv, NoDuplicates
<1>10. Registered'
  BY <1>1, <1>3, <1>4, <1>5 DEF DispatchInv, Registered
<1>11. OnePhase' /\ EventsArmed'
  BY DEF ApplyRearm, DispatchInv, OnePhase, EventsArmed
<1>12. ConnectionOutlivesHandler'
  <2>1. \A w \in Workers : Holding(w) => worker[w].fd \in Fds /\ worker[w].fd # f
    <3>1. ASSUME NEW w \in Workers, Holding(w) PROVE worker[w].fd \in Fds /\ worker[w].fd # f
      <4>1. worker[w].pc # "idle"
        BY <3>1 DEF Holding
      <4>2. worker[w].fd \in Fds /\ worker[w].fd \in HandledFds
        BY <4>1, BusyHandles
      <4>3. RearmFds(rearms) \cap HandledFds = {}
        BY DEF DispatchInv, Divided
      <4>4. QED
        BY <1>2, <4>2, <4>3
    <3>2. QED
      BY <3>1
  <2>2. \A g \in Fds \ {f} : connections'[g] = connections[g]
    BY <1>1, <1>4, <1>5
  <2>3. worker' = worker
    BY DEF ApplyRearm
  <2>4. QED
    BY <2>1, <2>2, <2>3 DEF DispatchInv, ConnectionOutlivesHandler, Holding
<1>13. QED
  BY <1>8, <1>9, <1>10, <1>11, <1>12

\* wait() reports armed descriptors only, each at most once.
LEMMA WaitDispatch ==
  ASSUME DispatchInv, WaitEvents
  PROVE  Divided' /\ NoDuplicates' /\ Registered' /\ OnePhase' /\ EventsArmed'
<1>1. /\ rearms = <<>> /\ events' = ReadyEvents
      /\ UNCHANGED <<rearms, connections, interest, pendingRearms, queue, worker>>
      /\ rpc' = "events"
  BY DEF WaitEvents
<1>2. Divided' /\ NoDuplicates' /\ Registered' /\ OnePhase'
  BY <1>1 DEF DispatchInv, Divided, NoDuplicates, Registered, OnePhase, TaskFds, HandledFds, OffFds
<1>3. ASSUME NEW e \in ReadyEvents, e # ListenEvent
      PROVE  e.fd \in Fds /\ interest[e.fd] \in {"Readable", "Writable"}
  <2>1. /\ e.fd \in Fds
        /\ \/ interest[e.fd] \in {"Readable", "Writable"}
           \/ Backend = "epoll" /\ interest[e.fd] # "none" /\ WasReset(connections[e.fd])
    BY <1>3, ReadyEventsShape
  <2>2. interest[e.fd] # "none" => connections[e.fd] \in Conns
    BY <2>1 DEF DispatchInv, Registered, TypeInv, TypeOK
  <2>3. QED
    BY <2>1, <2>2 DEF DispatchInv, NoReset
<1>4. ASSUME NEW e \in ReadyEvents, NEW d \in ReadyEvents, e.fd = d.fd PROVE e = d
  <2>1. CASE e = ListenEvent \/ d = ListenEvent
    <3>1. ListenEvent.fd \notin Fds
      BY DEF ListenEvent
    <3>2. QED
      BY <1>3, <1>4, <2>1, <3>1, Zenon
  <2>2. CASE e # ListenEvent /\ d # ListenEvent
    <3> DEFINE Err(f) == IF Backend = "kqueue" /\ interest[f] = "Readable"
                         THEN sock[connections[f]].peer # "open"
                         ELSE WasReset(connections[f])
    <3>1. e = [fd |-> e.fd, error |-> Err(e.fd)]
      BY <2>2, ReadyEventsShape
    <3>2. d = [fd |-> d.fd, error |-> Err(d.fd)]
      BY <2>2, ReadyEventsShape
    <3> HIDE DEF Err
    <3>3. QED
      BY <1>4, <3>1, <3>2, Zenon
  <2>3. QED
    BY <2>1, <2>2
<1>5. EventsArmed'
  BY <1>1, <1>3, <1>4 DEF EventsArmed
<1>6. QED
  BY <1>2, <1>5

\* A connection accepted under a free descriptor is known to nobody but the map
\* and the event loop.
LEMMA AcceptDispatch ==
  ASSUME DispatchInv, AcceptOne
  PROVE  /\ Divided' /\ NoDuplicates' /\ Registered' /\ OnePhase' /\ EventsArmed'
         /\ ConnectionOutlivesHandler'
<1>1. PICK c \in Conns, f \in Fds :
        /\ connections[f] = NoConn
        /\ connections' = [connections EXCEPT ![f] = c]
        /\ interest' = [interest EXCEPT ![f] = "Readable"]
  BY DEF AcceptOne, Backlog, FreeFds
<1>2. /\ interest \in [Fds -> Interests] /\ connections \in [Fds -> Conns \cup {NoConn}]
      /\ interest[f] = "none"
  BY <1>1 DEF DispatchInv, TypeInv, TypeOK, Registered
<1>3. /\ rpc \in {"events", "accept"} /\ rpc' = "accept"
      /\ UNCHANGED <<rearms, events, pendingRearms, queue, worker>>
  BY DEF AcceptOne
<1>4. OffFds' = OffFds
  BY <1>1, <1>2 DEF OffFds
<1>5. TaskFds' = TaskFds /\ HandledFds' = HandledFds
  BY <1>3 DEF TaskFds, HandledFds
<1>6. Divided' /\ NoDuplicates'
  BY <1>3, <1>4, <1>5 DEF DispatchInv, Divided, NoDuplicates
<1>7. Registered' /\ OnePhase'
  BY <1>1, <1>2, <1>3 DEF DispatchInv, Registered, OnePhase
<1>8. EventsArmed'
  BY <1>1, <1>2, <1>3 DEF DispatchInv, EventsArmed
<1>9. ConnectionOutlivesHandler'
  <2>1. ASSUME NEW w \in Workers, Holding(w)
        PROVE  connections'[worker[w].fd] = worker[w].conn
    <3>1. worker[w].conn \in Conns /\ connections[worker[w].fd] = worker[w].conn
      BY <2>1 DEF DispatchInv, TypeInv, WorkerLocals, ConnectionOutlivesHandler
    <3>2. QED
      BY <1>1, <1>2, <3>1
  <2>2. QED
    BY <1>3, <2>1 DEF ConnectionOutlivesHandler, Holding
<1>10. QED
  BY <1>6, <1>7, <1>8, <1>9

\* An event is for an armed fd: dropping it concerns no handler, and handing it to
\* the pool puts it in the task queue and nowhere else.
LEMMA HandleDispatch ==
  ASSUME DispatchInv, NEW e \in events, HandleEvent(e)
  PROVE  /\ Divided' /\ NoDuplicates' /\ Registered' /\ OnePhase' /\ EventsArmed'
         /\ ConnectionOutlivesHandler'
<1> DEFINE f == e.fd
<1>1. f \in Fds /\ interest[f] \in {"Readable", "Writable"} /\ rpc = "events"
  <2>1. e # ListenEvent /\ e \in IoEvent /\ rpc = "events"
    BY DEF HandleEvent, DispatchEvent, DispatchInv, TypeInv, TypeOK
  <2>2. f \in Fds
    BY <2>1 DEF IoEvent
  <2>3. QED
    BY <2>1, <2>2 DEF DispatchInv, EventsArmed
<1>2. /\ interest \in [Fds -> Interests] /\ connections \in [Fds -> Conns \cup {NoConn}]
      /\ queue \in Seq(Fds) /\ Distinct(queue)
      /\ connections[f] # NoConn
  BY <1>1 DEF DispatchInv, TypeInv, TypeOK, Registered, NoDuplicates
<1>3. \/ /\ interest' = [interest EXCEPT ![f] = "none"]
         /\ connections' = [connections EXCEPT ![f] = NoConn]
         /\ queue' = queue
      \/ /\ interest' = [interest EXCEPT ![f] = "off"]
         /\ connections' = connections
         /\ queue' = Append(queue, f)
  BY <1>2 DEF HandleEvent, DispatchEvent, EraseConnection
<1>4. /\ events' = events \ {e}
      /\ UNCHANGED <<rpc, rearms, pendingRearms, worker>>
  BY DEF HandleEvent, DispatchEvent
<1>5. /\ f \notin OffFds /\ f \notin TaskFds /\ f \notin RearmFds(rearms)
      /\ f \notin RearmFds(pendingRearms) /\ f \notin HandledFds
  BY <1>1 DEF DispatchInv, Divided, OffFds
<1>6. HandledFds' = HandledFds
  BY <1>4 DEF HandledFds
<1>7. Divided' /\ NoDuplicates'
  <2>1. CASE queue' = queue /\ interest' = [interest EXCEPT ![f] = "none"]
    <3>1. OffFds' = OffFds /\ TaskFds' = TaskFds
      BY <1>1, <1>2, <2>1 DEF OffFds, TaskFds
    <3>2. QED
      BY <1>4, <1>6, <2>1, <3>1 DEF DispatchInv, Divided, NoDuplicates
  <2>2. CASE queue' = Append(queue, f) /\ interest' = [interest EXCEPT ![f] = "off"]
    <3>1. OffFds' = OffFds \cup {f}
      BY <1>1, <1>2, <2>2 DEF OffFds
    <3>2. TaskFds' = TaskFds \cup {f} /\ Distinct(queue')
      BY <1>1, <1>2, <1>5, <2>2, QueueOps, Zenon DEF TaskFds
    <3>3. Divided'
      BY <1>4, <1>5, <1>6, <3>1, <3>2 DEF DispatchInv, Divided
    <3>4. NoDuplicates'
      BY <1>4, <3>2 DEF DispatchInv, NoDuplicates
    <3>5. QED
      BY <3>3, <3>4
  <2>3. QED
    BY <1>3, <2>1, <2>2
<1>8. Registered' /\ OnePhase'
  BY <1>1, <1>2, <1>3, <1>4 DEF DispatchInv, Registered, OnePhase
<1>9. EventsArmed'
  <2>1. \A d \in events' : d \in events /\ d.fd # f
    BY <1>4 DEF DispatchInv, EventsArmed
  <2>2. \A d \in events' : d # ListenEvent => d.fd \in Fds
    BY <2>1 DEF DispatchInv, TypeInv, TypeOK, IoEvent
  <2>3. \A g \in Fds \ {f} : interest'[g] = interest[g]
    BY <1>1, <1>2, <1>3
  <2>4. QED
    BY <2>1, <2>2, <2>3 DEF DispatchInv, EventsArmed
<1>10. ConnectionOutlivesHandler'
  <2>1. ASSUME NEW w \in Workers, Holding(w)
        PROVE  connections'[worker[w].fd] = worker[w].conn
    <3>1. worker[w].fd \in Fds /\ worker[w].fd \in HandledFds
      BY <2>1, BusyHandles DEF Holding
    <3>2. worker[w].fd # f
      BY <1>5, <3>1
    <3>3. QED
      BY <1>1, <1>2, <1>3, <2>1, <3>1, <3>2 DEF DispatchInv, ConnectionOutlivesHandler
  <2>2. QED
    BY <1>4, <2>1 DEF ConnectionOutlivesHandler, Holding
<1>11. QED
  BY <1>7, <1>8, <1>9, <1>10

-----------------------------------------------------------------------------
(* Worker steps *)

\* Popping a task moves its fd from the queue into the hands of one worker.
LEMMA TakeDispatch ==
  ASSUME DispatchInv, NEW w \in Workers, TakeTask(w)
  PROVE  Divided' /\ NoDuplicates' /\ IdleHasNoFd' /\ ConnectionOutlivesHandler'
<1> DEFINE h == Head(queue)
<1>1. /\ queue \in Seq(Fds) /\ queue # <<>> /\ queue' = Tail(queue) /\ Distinct(queue)
      /\ worker[w].fd = NoFd
      /\ worker \in [Workers -> WorkerRec]
  BY DEF TakeTask, DispatchInv, TypeInv, TypeOK, NoDuplicates, IdleHasNoFd
<1>2. /\ TaskFds' = TaskFds \ {h} /\ h \in TaskFds /\ Distinct(queue')
  BY <1>1, QueueOps, Zenon DEF TaskFds
<1>3. h \in Fds /\ h # NoFd
  BY <1>1
<1>4. /\ worker'[w].fd = h /\ worker'[w].pc = "lookup"
      /\ \A v \in Workers \ {w} : worker'[v] = worker[v]
  BY <1>1 DEF TakeTask, WorkerRec
<1>5. HandledFds' = HandledFds \cup {h}
  BY <1>1, <1>3, <1>4 DEF HandledFds
<1>6. UNCHANGED <<rearms, pendingRearms, interest, connections>> /\ OffFds' = OffFds
  BY DEF TakeTask, OffFds
<1>7. Divided'
  BY <1>2, <1>5, <1>6 DEF DispatchInv, Divided
<1>8. \A v \in Workers : worker[v].fd # h
  BY <1>2, <1>3 DEF DispatchInv, Divided, HandledFds
<1>9. NoDuplicates'
  BY <1>2, <1>4, <1>6, <1>8 DEF DispatchInv, NoDuplicates
<1>10. IdleHasNoFd' /\ ConnectionOutlivesHandler'
  BY <1>4, <1>6 DEF DispatchInv, IdleHasNoFd, ConnectionOutlivesHandler, Holding
<1>11. QED
  BY <1>7, <1>9, <1>10

\* find() under connectionsMutex_ always succeeds: the fd is disarmed, and a
\* disarmed fd is registered.
LEMMA LookupDispatch ==
  ASSUME DispatchInv, NEW w \in Workers, LookupConnection(w)
  PROVE  Divided' /\ NoDuplicates' /\ IdleHasNoFd' /\ ConnectionOutlivesHandler'
<1>1. worker[w].fd \in Fds /\ worker[w].fd \in HandledFds
  BY BusyHandles DEF LookupConnection
<1>2. connections[worker[w].fd] # NoConn
  BY <1>1 DEF DispatchInv, Divided, OffFds, Registered
<1>3. worker \in [Workers -> WorkerRec]
  BY DEF DispatchInv, TypeInv, TypeOK
<1>4. /\ worker'[w].fd = worker[w].fd /\ worker'[w].conn = connections[worker[w].fd]
      /\ worker'[w].pc = "ready"
      /\ \A v \in Workers \ {w} : worker'[v] = worker[v]
  BY <1>2, <1>3 DEF LookupConnection, WorkerRec
<1>5. HandledFds' = HandledFds
  BY <1>4 DEF HandledFds
<1>6. UNCHANGED <<rearms, pendingRearms, interest, connections, queue>>
  BY DEF LookupConnection
<1>7. Divided' /\ NoDuplicates'
  BY <1>4, <1>5, <1>6 DEF DispatchInv, Divided, NoDuplicates, TaskFds, OffFds
<1>8. IdleHasNoFd' /\ ConnectionOutlivesHandler'
  BY <1>4, <1>6 DEF DispatchInv, IdleHasNoFd, ConnectionOutlivesHandler, Holding
<1>9. QED
  BY <1>7, <1>8

\* Within the handler nothing the protocol depends on changes.
LEMMA AdvanceDispatch ==
  ASSUME DispatchInv, NEW w \in Workers, Advances(w)
  PROVE  Divided' /\ NoDuplicates' /\ IdleHasNoFd' /\ ConnectionOutlivesHandler'
<1>1. /\ \A v \in Workers : worker'[v].fd = worker[v].fd /\ worker'[v].conn = worker[v].conn
      /\ \A v \in Workers : Holding(v)' => Holding(v)
      /\ \A v \in Workers : worker'[v].pc = "idle" => worker[v].pc = "idle"
  BY DEF Advances, Holding
<1>2. HandledFds' = HandledFds
  BY <1>1 DEF HandledFds
<1>3. UNCHANGED <<rearms, pendingRearms, interest, connections, queue>>
  BY DEF Advances
<1>4. Divided' /\ NoDuplicates'
  BY <1>1, <1>2, <1>3 DEF DispatchInv, Divided, NoDuplicates, TaskFds, OffFds
<1>5. IdleHasNoFd' /\ ConnectionOutlivesHandler'
  BY <1>1, <1>3 DEF DispatchInv, IdleHasNoFd, ConnectionOutlivesHandler
<1>6. QED
  BY <1>4, <1>5

\* postRearm() followed by the return moves the fd from the worker to the deque.
LEMMA AnswerDispatch ==
  ASSUME DispatchInv, NEW w \in Workers, Answers(w)
  PROVE  Divided' /\ NoDuplicates' /\ IdleHasNoFd' /\ ConnectionOutlivesHandler'
<1> DEFINE f == worker[w].fd
<1>1. f \in Fds /\ f \in HandledFds
  BY BusyHandles DEF Answers, Holding
<1>2. PICK a \in RearmActions : pendingRearms' = Append(pendingRearms, [fd |-> f, action |-> a])
  BY DEF Answers, PostRearm
<1>3. f \notin RearmFds(pendingRearms) /\ f \notin RearmFds(rearms) /\ f \notin TaskFds
  BY <1>1 DEF DispatchInv, Divided
<1>4. /\ RearmFds(pendingRearms') = RearmFds(pendingRearms) \cup {f}
      /\ DistinctFds(pendingRearms')
  <2> DEFINE r == [fd |-> f, action |-> a]
  <2>1. r \in PendingRearm /\ r.fd = f
    BY <1>1 DEF PendingRearm
  <2>2. pendingRearms \in Seq(PendingRearm) /\ DistinctFds(pendingRearms)
    BY DEF DispatchInv, TypeInv, TypeOK, NoDuplicates
  <2> HIDE DEF r
  <2>3. pendingRearms' = Append(pendingRearms, r)
    BY <1>2 DEF r
  <2>4. /\ RearmFds(Append(pendingRearms, r)) = RearmFds(pendingRearms) \cup {r.fd}
        /\ r.fd \notin RearmFds(pendingRearms) => DistinctFds(Append(pendingRearms, r))
    BY <2>1, <2>2, RearmDequeOps, Zenon
  <2>5. QED
    BY <1>3, <2>1, <2>3, <2>4
<1>5. worker \in [Workers -> WorkerRec]
  BY DEF DispatchInv, TypeInv, TypeOK
<1>6. /\ worker'[w] = IdleWorker
      /\ \A v \in Workers \ {w} : worker'[v] = worker[v]
  BY <1>5 DEF Answers, Return
<1>7. HandledFds' = HandledFds \ {f}
  <2>1. \A v \in Workers \ {w} : worker[v].fd # f
    BY <1>1 DEF DispatchInv, NoDuplicates
  <2>2. QED
    BY <1>1, <1>6, <2>1 DEF HandledFds, IdleWorker
<1>8. UNCHANGED <<rearms, interest, connections, queue>>
  BY DEF Answers
<1>9. TaskFds' = TaskFds /\ OffFds' = OffFds
  BY <1>8 DEF TaskFds, OffFds
<1>10. Divided'
  BY <1>1, <1>3, <1>4, <1>7, <1>8, <1>9 DEF DispatchInv, Divided
<1>11. NoDuplicates'
  BY <1>4, <1>6, <1>8 DEF DispatchInv, NoDuplicates, IdleWorker
<1>12. IdleHasNoFd' /\ ConnectionOutlivesHandler'
  BY <1>6, <1>8 DEF DispatchInv, IdleHasNoFd, ConnectionOutlivesHandler, Holding, IdleWorker
<1>13. QED
  BY <1>10, <1>11, <1>12

-----------------------------------------------------------------------------
(* The inductive step *)

\* Only a client resets a connection; with epoll and no resets allowed, none is.
LEMMA NextNoReset ==
  ASSUME DisarmedIsSilent, DispatchInv, [CoreNext]_vars
  PROVE  NoReset'
<1>t. sock \in [Conns -> SocketRec]
  BY DEF DispatchInv, TypeInv, TypeOK
<1>k. ASSUME \A c \in Conns : sock'[c].peer = sock[c].peer PROVE NoReset'
  BY <1>k DEF DispatchInv, NoReset, WasReset
<1>1. CASE ReactorStep
  <2>1. \/ sock' = sock
        \/ \E c : \E l \in {"open", "closed"} : sock' = [sock EXCEPT ![c].link = l]
    BY <1>1 DEF ReactorStep, SwapRearms, ApplyRearm, WaitEvents, AcceptOne, AcceptDone, AcceptAborted, AcceptLast, HandleEvent, DispatchEvent,
                EraseConnection
  <2>2. \A c \in Conns : sock'[c].peer = sock[c].peer
    BY <1>t, <2>1 DEF SocketRec
  <2>3. QED
    BY <1>k, <2>2
<1>2. ASSUME NEW w \in Workers, CoreWorkerStep(w) PROVE NoReset'
  BY <1>2, <1>k, WorkerData DEF DispatchInv
<1>3. ASSUME NEW c \in Conns, ClientStep(c) PROVE NoReset'
  <2>1. CASE ClientConnects(c) \/ ClientSendsPart(c) \/ ClientSendsFinal(c) \/ ClientReads(c)
    <3>1. \A d \in Conns : sock'[d].peer = sock[d].peer
      <4>1. CASE ClientConnects(c)
        BY <1>t, <4>1 DEF ClientConnects, SocketRec
      <4>0. CASE ClientReads(c)
        <5>1. PICK n : sock' = [sock EXCEPT ![c].outq = n]
          BY <4>0 DEF ClientReads
        <5>2. QED
          BY <1>t, <5>1 DEF SocketRec
      <4>2. CASE ClientSendsPart(c) \/ ClientSendsFinal(c)
        <5>1. PICK q : sock' = [sock EXCEPT ![c].inq = q]
          BY <4>2 DEF ClientSendsPart, ClientSendsFinal
        <5>2. QED
          BY <1>t, <5>1 DEF SocketRec
      <4>3. QED
        BY <2>1, <4>0, <4>1, <4>2
    <3>2. QED
      BY <1>k, <3>1
  <2>2. CASE ClientFin(c)
    BY <1>t, <2>2 DEF ClientFin, DispatchInv, NoReset, WasReset, SocketRec
  <2>3. CASE ClientReset(c)
    BY <2>3 DEF ClientReset, DisarmedIsSilent, NoReset
  <2>4. QED
    BY <1>3, <2>1, <2>2, <2>3 DEF ClientStep
<1>4. CASE UNCHANGED vars
  BY <1>4, <1>k DEF vars
<1>5. QED
  BY <1>1, <1>2, <1>3, <1>4 DEF CoreNext

\* The inductive step of the dispatch protocol.
LEMMA NextDispatch ==
  ASSUME DisarmedIsSilent, DispatchInv, [CoreNext]_vars
  PROVE  DispatchInv'
<1>0. TypeInv' /\ NoReset'
  BY NextTypeInv, NextNoReset DEF DispatchInv
<1>1. CASE ReactorStep
  <2>0. IdleHasNoFd'
    BY <1>1 DEF ReactorStep, SwapRearms, ApplyRearm, WaitEvents, AcceptOne, AcceptDone, AcceptAborted, AcceptLast, HandleEvent, DispatchEvent,
                DispatchInv, IdleHasNoFd
  <2>1. CASE SwapRearms
    <3>1. ConnectionOutlivesHandler'
      BY <2>1 DEF SwapRearms, DispatchInv, ConnectionOutlivesHandler, Holding
    <3>2. QED
      BY <1>0, <2>0, <2>1, <3>1, SwapDispatch DEF DispatchInv
  <2>2. CASE ApplyRearm
    BY <1>0, <2>0, <2>2, ApplyDispatch DEF DispatchInv
  <2>3. CASE WaitEvents
    <3>1. ConnectionOutlivesHandler'
      BY <2>3 DEF WaitEvents, DispatchInv, ConnectionOutlivesHandler, Holding
    <3>2. QED
      BY <1>0, <2>0, <2>3, <3>1, WaitDispatch DEF DispatchInv
  <2>4. CASE AcceptOne
    BY <1>0, <2>0, <2>4, AcceptDispatch DEF DispatchInv
  <2>5. CASE AcceptDone \/ AcceptAborted
    <3>1. Divided' /\ NoDuplicates' /\ Registered'
      BY <2>5 DEF AcceptDone, AcceptAborted, AcceptLast, DispatchInv, Divided, NoDuplicates, Registered, TaskFds, HandledFds,
                  OffFds
    <3>2. OnePhase' /\ EventsArmed' /\ ConnectionOutlivesHandler'
      BY <2>5 DEF AcceptDone, AcceptAborted, AcceptLast, DispatchInv, OnePhase, EventsArmed,
                  ConnectionOutlivesHandler, Holding
    <3>3. QED
      BY <1>0, <2>0, <3>1, <3>2 DEF DispatchInv
  <2>6. ASSUME NEW e \in events, HandleEvent(e) PROVE DispatchInv'
    BY <1>0, <2>0, <2>6, HandleDispatch DEF DispatchInv
  <2>7. QED
    BY <1>1, <2>1, <2>2, <2>3, <2>4, <2>5, <2>6 DEF ReactorStep
<1>2. ASSUME NEW w \in Workers, CoreWorkerStep(w) PROVE DispatchInv'
  <2>0. UNCHANGED <<rpc, rearms, events, connections, interest>>
    BY <1>2, WorkerShapes DEF DispatchInv, TakeTask, LookupConnection, Advances, Answers, Stops
  <2>1. Registered' /\ OnePhase' /\ EventsArmed'
    BY <2>0 DEF DispatchInv, Registered, OnePhase, EventsArmed
  <2>2. CASE TakeTask(w)
    BY <1>0, <2>1, <2>2, TakeDispatch DEF DispatchInv
  <2>3. CASE LookupConnection(w)
    BY <1>0, <2>1, <2>3, LookupDispatch DEF DispatchInv
  <2>4. CASE Advances(w)
    BY <1>0, <2>1, <2>4, AdvanceDispatch DEF DispatchInv
  <2>5. CASE Answers(w)
    BY <1>0, <2>1, <2>5, AnswerDispatch DEF DispatchInv
  <2>6. CASE Stops
    <3>1. Divided' /\ NoDuplicates' /\ IdleHasNoFd' /\ ConnectionOutlivesHandler'
      BY <2>6 DEF Stops, DispatchInv, Divided, NoDuplicates, IdleHasNoFd, TaskFds, HandledFds,
                  OffFds, ConnectionOutlivesHandler, Holding
    <3>2. QED
      BY <1>0, <2>1, <3>1 DEF DispatchInv
  <2>7. QED
    BY <1>2, <2>2, <2>3, <2>4, <2>5, <2>6, WorkerShapes DEF DispatchInv
<1>3. CASE (\E c \in Conns : ClientStep(c)) \/ UNCHANGED vars
  <2>1. UNCHANGED <<rpc, rearms, events, connections, interest, pendingRearms, queue, worker>>
    BY <1>3 DEF ClientStep, vars
  <2>2. Divided' /\ NoDuplicates' /\ IdleHasNoFd' /\ ConnectionOutlivesHandler'
    BY <2>1 DEF DispatchInv, Divided, NoDuplicates, IdleHasNoFd, TaskFds, HandledFds, OffFds,
                ConnectionOutlivesHandler, Holding
  <2>3. Registered' /\ OnePhase' /\ EventsArmed'
    BY <2>1 DEF DispatchInv, Registered, OnePhase, EventsArmed
  <2>4. QED
    BY <1>0, <2>2, <2>3 DEF DispatchInv
<1>4. QED
  BY <1>1, <1>2, <1>3 DEF CoreNext

\* DispatchInv says of each fd that exactly one place holds it, or none.
LEMMA DispatchImpliesSingleCustodian == DispatchInv => SingleCustodian
<1> SUFFICES ASSUME DispatchInv, NEW f \in Fds
             PROVE  IF interest[f] = "off"
                    THEN \E p \in Custodians(f) : Custodians(f) = {p}
                    ELSE Custodians(f) = {}
  BY DEF SingleCustodian
<1>0. /\ QueuedAt(f) = {i \in 1..Len(queue) : queue[i] = f}
      /\ RearmsAt(f) = {i \in 1..Len(rearms) : rearms[i].fd = f}
      /\ PendingAt(f) = {i \in 1..Len(pendingRearms) : pendingRearms[i].fd = f}
  BY DEF QueuedAt, RearmsAt, PendingAt, DispatchInv, TypeInv, TypeOK
<1>1. /\ f \notin TaskFds => QueuedAt(f) = {}
      /\ f \notin RearmFds(rearms) => RearmsAt(f) = {}
      /\ f \notin RearmFds(pendingRearms) => PendingAt(f) = {}
      /\ f \notin HandledFds => HandledBy(f) = {}
  BY <1>0 DEF TaskFds, Elements, RearmFds, HandledFds, HandledBy
<1>2. CASE interest[f] # "off"
  <2>1. /\ f \notin TaskFds /\ f \notin RearmFds(rearms) /\ f \notin RearmFds(pendingRearms)
        /\ f \notin HandledFds
    BY <1>2 DEF DispatchInv, Divided, OffFds
  <2>2. QED
    BY <1>1, <1>2, <2>1 DEF Custodians
<1>3. CASE interest[f] = "off" /\ f \in TaskFds
  <2>1. /\ f \notin RearmFds(rearms) /\ f \notin RearmFds(pendingRearms) /\ f \notin HandledFds
    BY <1>3 DEF DispatchInv, Divided
  <2>2. PICK i : QueuedAt(f) = {i}
    <3>1. PICK i \in 1..Len(queue) : queue[i] = f
      BY <1>3 DEF TaskFds, Elements
    <3>2. \A j \in 1..Len(queue) : queue[j] = f => j = i
      BY <3>1 DEF DispatchInv, NoDuplicates, Distinct
    <3>3. QueuedAt(f) = {i}
      BY <1>0, <3>1, <3>2
    <3>4. QED
      BY <3>3
  <2>3. Custodians(f) = {<<"queue", i>>}
    BY <1>1, <2>1, <2>2 DEF Custodians
  <2>4. QED
    BY <1>3, <2>3
<1>4. CASE interest[f] = "off" /\ f \in RearmFds(rearms)
  <2>1. /\ f \notin TaskFds /\ f \notin RearmFds(pendingRearms) /\ f \notin HandledFds
    BY <1>4 DEF DispatchInv, Divided
  <2>2. PICK i : RearmsAt(f) = {i}
    <3>1. PICK i \in 1..Len(rearms) : rearms[i].fd = f
      BY <1>4 DEF RearmFds
    <3>2. \A j \in 1..Len(rearms) : rearms[j].fd = f => j = i
      BY <3>1 DEF DispatchInv, NoDuplicates, DistinctFds
    <3>3. RearmsAt(f) = {i}
      BY <1>0, <3>1, <3>2
    <3>4. QED
      BY <3>3
  <2>3. Custodians(f) = {<<"rearms", i>>}
    BY <1>1, <2>1, <2>2 DEF Custodians
  <2>4. QED
    BY <1>4, <2>3
<1>5. CASE interest[f] = "off" /\ f \in RearmFds(pendingRearms)
  <2>1. /\ f \notin TaskFds /\ f \notin RearmFds(rearms) /\ f \notin HandledFds
    BY <1>5 DEF DispatchInv, Divided
  <2>2. PICK i : PendingAt(f) = {i}
    <3>1. PICK i \in 1..Len(pendingRearms) : pendingRearms[i].fd = f
      BY <1>5 DEF RearmFds
    <3>2. \A j \in 1..Len(pendingRearms) : pendingRearms[j].fd = f => j = i
      BY <3>1 DEF DispatchInv, NoDuplicates, DistinctFds
    <3>3. PendingAt(f) = {i}
      BY <1>0, <3>1, <3>2
    <3>4. QED
      BY <3>3
  <2>3. Custodians(f) = {<<"pending", i>>}
    BY <1>1, <2>1, <2>2 DEF Custodians
  <2>4. QED
    BY <1>5, <2>3
<1>6. CASE interest[f] = "off" /\ f \in HandledFds
  <2>1. /\ f \notin TaskFds /\ f \notin RearmFds(rearms) /\ f \notin RearmFds(pendingRearms)
    BY <1>6 DEF DispatchInv, Divided
  <2>2. PICK w : HandledBy(f) = {w}
    <3>1. PICK w \in Workers : worker[w].fd = f
      BY <1>6 DEF HandledFds
    <3>2. \A v \in Workers : worker[v].fd = f => v = w
      BY <3>1 DEF DispatchInv, NoDuplicates
    <3>3. HandledBy(f) = {w}
      BY <3>1, <3>2 DEF HandledBy
    <3>4. QED
      BY <3>3
  <2>3. Custodians(f) = {<<"worker", w>>}
    BY <1>1, <2>1, <2>2 DEF Custodians
  <2>4. QED
    BY <1>6, <2>3
<1>7. QED
  BY <1>2, <1>3, <1>4, <1>5, <1>6 DEF DispatchInv, Divided, OffFds

=============================================================================
