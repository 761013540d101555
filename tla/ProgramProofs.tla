---------------------------- MODULE ProgramProofs ----------------------------
(***************************************************************************)
(* What is proved about the two programs, server::HttpServer and           *)
(* lb::LoadBalancer, for any number of descriptors, connections, workers   *)
(* and requests.  Each is a case of the program that ReactorProofs and     *)
(* ConnectionProofs are about; what the balancer adds is the upstream      *)
(* socket and the header that it relays.                                   *)
(***************************************************************************)
EXTENDS HttpServer, LoadBalancer, ConnectionProofs

USE NoFdAssumption, NoConnAssumption, BackendAssumption, SizeAssumption, FaultAssumption
USE DEF reactorVars

-----------------------------------------------------------------------------
(* What the two programs have in common, beyond what ConnectionProofs asks *)
(* for: a response after which the connection is closed says so or the     *)
(* request asked for it, and only after such a response is it closed.      *)

QueuesHonestly(w) ==
    /\ worker[w].pc \in {"serve", "exchange"}
    /\ \E b \in BOOLEAN, h \in {"keep-alive", "close"} :
          /\ b \/ h = "close" \/ ~conn[worker[w].conn].parser.keepAlive
          /\ conn' = [conn EXCEPT ![worker[w].conn] = QueueResponse(conn[worker[w].conn], b, h)]
    /\ \E u \in {worker[w].ufd, NoFd} :
          worker' = [worker EXCEPT ![w] = [worker[w] EXCEPT !.pc = "flush", !.ufd = u]]
    /\ UNCHANGED <<reactorVars, pendingRearms, queue, sock, client, proc>>

ConcludesHonestly(w) ==
    \E b \in BOOLEAN : /\ b \/ ~conn[worker[w].conn].pendingKeepAlive
                       /\ FinishWith(w, "request", FreshParser, b)

HonestHandler(w) ==
    CommonWorkerStep(w) \/ QueuesHonestly(w) \/ Connects(w) \/ ConcludesHonestly(w) \/ Dies

HonestProgram ==
    \/ ReactorStep
    \/ \E w \in Workers : HonestHandler(w)
    \/ \E c \in Conns : ClientStep(c)

\* Such a program is a case of the one that ConnectionProofs is about.
LEMMA HonestIsProgram ==
  /\ \A w \in Workers : QueuesHonestly(w) => Queues(w)
  /\ \A w \in Workers : HonestHandler(w) => HandlerStep(w, "server")
  /\ [HonestProgram]_vars => [ProgramNext("server")]_vars
<1>1. ASSUME NEW w \in Workers, QueuesHonestly(w) PROVE Queues(w)
  BY <1>1 DEF QueuesHonestly, Queues
<1>2. ASSUME NEW w \in Workers, ConcludesHonestly(w) PROVE Concludes(w, "server")
  BY <1>2 DEF ConcludesHonestly, Concludes
<1>3. \A w \in Workers : HonestHandler(w) => HandlerStep(w, "server")
  BY <1>1, <1>2 DEF HonestHandler, HandlerStep
<1>4. QED
  BY <1>1, <1>3 DEF HonestProgram, ProgramNext

-----------------------------------------------------------------------------
(* The server is a case of the program *)

\* The server queues what the request asks for and concludes by keeping the connection.
LEMMA ServerIsHonest ==
  ASSUME TypeInv, [Next]_vars
  PROVE  [HonestProgram]_vars
<1>1. ASSUME NEW w \in Workers, ServeRequest(w) PROVE QueuesHonestly(w)
  <2> DEFINE c == worker[w].conn
             k == conn[c].parser.keepAlive
  <2>1. worker[w] \in WorkerRec /\ c \in Conns /\ conn[c] \in ConnectionRec
    BY <1>1 DEF ServeRequest, TypeInv, TypeOK, WorkerLocals, Holding
  <2>2. k \in BOOLEAN /\ ConnectionHeader(k) \in {"keep-alive", "close"} /\ (k \/ ~k)
    BY <2>1 DEF ConnectionRec, ParserRec, ConnectionHeader
  <2>3. conn' = [conn EXCEPT ![c] = QueueResponse(conn[c], k, ConnectionHeader(k))]
    BY <1>1 DEF ServeRequest
  <2>4. worker' = [worker EXCEPT ![w] = [worker[w] EXCEPT !.pc = "flush", !.ufd = worker[w].ufd]]
    <3>1. [worker[w] EXCEPT !.pc = "flush", !.ufd = worker[w].ufd] = [worker[w] EXCEPT !.pc = "flush"]
      BY <2>1 DEF WorkerRec
    <3>2. QED
      BY <1>1, <3>1 DEF ServeRequest, Goto
  <2>5. /\ worker[w].pc = "serve"
        /\ UNCHANGED <<reactorVars, pendingRearms, queue, sock, client, proc>>
    BY <1>1 DEF ServeRequest
  <2>6. QED
    BY <2>2, <2>3, <2>4, <2>5, Zenon DEF QueuesHonestly
<1>2. ASSUME NEW w \in Workers, FinishRequest(w) PROVE ConcludesHonestly(w)
  <2>1. FinishWith(w, "request", FreshParser, TRUE)
    BY <1>2 DEF FinishRequest, FreshParser
  <2>2. QED
    BY <2>1 DEF ConcludesHonestly
<1>3. QED
  BY <1>1, <1>2 DEF Next, WorkerStep, HonestProgram, HonestHandler

\* It is a case of the program of ConnectionProofs.
LEMMA ServerIsProgram ==
  ASSUME TypeInv, [Next]_vars
  PROVE  [ProgramNext("server")]_vars
  BY ServerIsHonest, HonestIsProgram

-----------------------------------------------------------------------------
(* The server: type correctness *)

\* Type correctness is an invariant of the server under every fault.
LEMMA TypeInvariant == Spec => []TypeInv
<1>1. TypeInv /\ [Next]_vars => TypeInv'
  BY ServerIsProgram, ProgramIsCore, NextTypeInv
<1>2. QED
  BY <1>1, InitTypeInv, PTL DEF Spec

\* Every reachable state of the server is well typed, whatever its clients do:
\* deques hold only descriptors, a busy worker has an fd and, past the lookup, a
\* Connection, and no send buffer exceeds its size.
THEOREM TypeCorrect == Spec => []TypeOK
<1>1. TypeInv => TypeOK
  BY DEF TypeInv
<1>2. QED
  BY <1>1, TypeInvariant, PTL

-----------------------------------------------------------------------------
(* The server: the dispatch protocol and what connections owe *)

\* The invariants of ReactorProofs and ConnectionProofs hold of the server.
LEMMA ServerInvariant ==
  ASSUME DisarmedIsSilent
  PROVE  Spec => []OwedInv
<1>1. OwedInv /\ [Next]_vars => OwedInv'
  <2>1. OwedInv => TypeInv
    BY DEF OwedInv, ConnectionInv, DispatchInv
  <2>2. QED
    BY <2>1, DisarmedIsSilent, ServerIsProgram, NextOwed
<1>2. QED
  BY <1>1, InitOwed, PTL DEF Spec

\* What the comment in handleConnectionEvent() claims: the Connection that a
\* handler found in connections_ is there, under the same fd, until the handler
\* returns.  It holds when a disarmed fd is silent, for every number of
\* descriptors, connections and workers.
THEOREM HandlerConnectionSafe ==
  ASSUME DisarmedIsSilent
  PROVE  Spec => []ConnectionOutlivesHandler
<1>1. OwedInv => ConnectionOutlivesHandler
  BY DEF OwedInv, ConnectionInv, DispatchInv
<1>2. QED
  BY <1>1, ServerInvariant, PTL

\* The re-arm protocol neither duplicates nor loses a dispatch: a disarmed fd is
\* in exactly one of the task queue, a worker's hands and the two re-arm deques.
THEOREM DispatchedOnce ==
  ASSUME DisarmedIsSilent
  PROVE  Spec => []SingleCustodian
<1>1. OwedInv => SingleCustodian
  BY DispatchImpliesSingleCustodian DEF OwedInv, ConnectionInv
<1>2. QED
  BY <1>1, ServerInvariant, PTL

\* A connection is armed for Writable only while part of a response is unsent, and for
\* Readable only when nothing is: no re-arm of handleConnectionEvent() makes it stall
\* or spin.
THEOREM WaitsForTheRightEvent ==
  ASSUME DisarmedIsSilent
  PROVE  Spec => []ArmedForWhatIsNeeded
<1>1. OwedInv => ArmedForWhatIsNeeded
  BY ConnectionImplies DEF OwedInv
<1>2. QED
  BY <1>1, ServerInvariant, PTL

\* consume() is never called on a parser that has finished: every branch that comes
\* back to recv() has reset it.
THEOREM ParserNeverStale ==
  ASSUME DisarmedIsSilent
  PROVE  Spec => []ParserIsFed
<1>1. OwedInv => ParserIsFed
  BY ConnectionImplies DEF OwedInv
<1>2. QED
  BY <1>1, ServerInvariant, PTL

\* When the server waits for input and has read all there is, every request has been
\* answered in full and once: no unit of a response is lost, repeated or left in the
\* write buffer, however send() splits it and whichever workers send the pieces.
THEOREM AnswersInFull ==
  ASSUME DisarmedIsSilent
  PROVE  Spec => []NothingOwedWhileReading
<1>1. QED
  BY OwedImplies, ServerInvariant, PTL

-----------------------------------------------------------------------------
(* The load balancer is a case of the program *)

USE UpstreamAssumption

\* proxyRequest() queues one response: a refusal says Connection: close, and any other
\* goes by the request.  What an upstream's header says does not change what the balancer
\* does with the connection.
LEMMA ProxyQueues ==
  ASSUME TypeInv, NEW w \in Workers, RefuseRequest(w) \/ RelayResponse(w) \/ UpstreamFails(w)
  PROVE  QueuesHonestly(w)
<1> DEFINE c == worker[w].conn
           k == conn[c].parser.keepAlive
<1>1. worker[w] \in WorkerRec /\ c \in Conns /\ conn[c] \in ConnectionRec /\ k \in BOOLEAN
  <2>1. worker[w].pc \in {"serve", "exchange"}
    BY DEF RefuseRequest, Refuse, RelayResponse, UpstreamFails, CloseAndAnswer
  <2>2. worker[w] \in WorkerRec /\ c \in Conns /\ conn[c] \in ConnectionRec
    BY <2>1 DEF TypeInv, TypeOK, WorkerLocals, Holding
  <2>3. QED
    BY <2>2 DEF ConnectionRec, ParserRec
<1>2. CASE RefuseRequest(w)
  <2>1. worker' = [worker EXCEPT ![w] = [worker[w] EXCEPT !.pc = "flush", !.ufd = worker[w].ufd]]
    <3>1. [worker[w] EXCEPT !.pc = "flush", !.ufd = worker[w].ufd] = [worker[w] EXCEPT !.pc = "flush"]
      BY <1>1 DEF WorkerRec
    <3>2. QED
      BY <1>2, <3>1 DEF RefuseRequest, Refuse, Goto
  <2>2. /\ worker[w].pc = "serve"
        /\ conn' = [conn EXCEPT ![c] = QueueResponse(conn[c], FALSE, "close")]
        /\ UNCHANGED <<reactorVars, pendingRearms, queue, sock, client, proc>>
    BY <1>2 DEF RefuseRequest, Refuse, ConnectionHeader
  <2>3. QED
    BY <2>1, <2>2, Zenon DEF QueuesHonestly
<1>3. CASE RelayResponse(w) \/ UpstreamFails(w)
  <2>1. PICK brought \in UpstreamHeaders \cup {"none"} : CloseAndAnswer(w, brought, NoFd)
    BY <1>3 DEF RelayResponse, UpstreamFails
  <2>2. PICK h : h = IF brought = "none" THEN ConnectionHeader(k) ELSE brought
    OBVIOUS
  <2>3. h \in {"keep-alive", "close"} /\ (k \/ h = "close" \/ ~k)
    BY <2>1, <2>2 DEF ConnectionHeader
  <2>4. conn' = [conn EXCEPT ![c] = QueueResponse(conn[c], k, h)]
    BY <2>1, <2>2, Zenon DEF CloseAndAnswer
  <2>5. /\ worker[w].pc = "exchange"
        /\ worker' = [worker EXCEPT ![w] = [worker[w] EXCEPT !.pc = "flush", !.ufd = NoFd]]
        /\ UNCHANGED <<reactorVars, pendingRearms, queue, sock, client, proc>>
    BY <2>1 DEF CloseAndAnswer
  <2>6. QED
    BY <1>1, <2>3, <2>4, <2>5, Zenon DEF QueuesHonestly
<1>4. QED
  BY <1>2, <1>3
\* The balancer is a program that keeps a connection when its Connection says so.
LEMMA BalancerIsHonest ==
  ASSUME TypeInv, [BalancerNext]_vars
  PROVE  [HonestProgram]_vars /\ [ProgramNext("balancer")]_vars
<1>1. ASSUME NEW w \in Workers, ProxyRequest(w)
      PROVE  QueuesHonestly(w) \/ Connects(w) \/ Dies
  <2>1. OpenUpstream(w) => Connects(w)
    BY DEF OpenUpstream, Connects
  <2>2. UpstreamSigpipe(w) => Dies
    BY DEF UpstreamSigpipe, Dies
  <2>3. QED
    BY <1>1, <2>1, <2>2, ProxyQueues DEF ProxyRequest, NoHealthyUpstream, NoDescriptor
<1>2. ASSUME NEW w \in Workers, FinishProxied(w)
      PROVE  ConcludesHonestly(w) /\ Concludes(w, "balancer")
  <2>1. conn[worker[w].conn].pendingKeepAlive \in BOOLEAN
    BY <1>2 DEF FinishProxied, FinishWith, TypeInv, TypeOK, WorkerLocals, Holding, ConnectionRec
  <2>2. QED
    BY <1>2, <2>1, Zenon DEF FinishProxied, ConcludesHonestly, Concludes
<1>3. \A w \in Workers : HandleClientEvent(w) => HonestHandler(w) /\ HandlerStep(w, "balancer")
  BY <1>1, <1>2, HonestIsProgram DEF HandleClientEvent, HonestHandler, HandlerStep
<1>4. QED
  BY <1>3 DEF BalancerNext, BalancerReactor, HonestProgram, ProgramNext

\* It is a case of the program of ConnectionProofs too.
LEMMA BalancerIsProgram ==
  ASSUME TypeInv, [BalancerNext]_vars
  PROVE  [ProgramNext("balancer")]_vars /\ [ProgramNext("server")]_vars
  BY BalancerIsHonest, HonestIsProgram

-----------------------------------------------------------------------------
(* What the balancer shares with the server *)

\* Type correctness is an invariant of the balancer under every fault.
LEMMA BalancerTypeInvariant == BalancerSpec => []TypeInv
<1>1. TypeInv /\ [BalancerNext]_vars => TypeInv'
  BY BalancerIsProgram, ProgramIsCore, NextTypeInv
<1>2. QED
  BY <1>1, InitTypeInv, PTL DEF BalancerSpec

\* Every reachable state of the balancer is well typed, whatever its clients and
\* upstreams do.
THEOREM BalancerTypeCorrect == BalancerSpec => []TypeOK
<1>1. TypeInv => TypeOK
  BY DEF TypeInv
<1>2. QED
  BY <1>1, BalancerTypeInvariant, PTL

BalancerInv == OwedInv /\ ConnectionInv("balancer")

\* The invariants of ReactorProofs and ConnectionProofs hold of the balancer.
LEMMA BalancerInvariant ==
  ASSUME DisarmedIsSilent
  PROVE  BalancerSpec => []BalancerInv
<1>1. Init => BalancerInv
  BY InitOwed, InitConnection DEF BalancerInv
<1>2. BalancerInv /\ [BalancerNext]_vars => BalancerInv'
  <2>1. BalancerInv => TypeInv
    BY DEF BalancerInv, ConnectionInv, DispatchInv
  <2>2. QED
    BY <2>1, DisarmedIsSilent, BalancerIsProgram, NextOwed, NextConnection DEF BalancerInv
<1>3. QED
  BY <1>1, <1>2, PTL DEF BalancerSpec

\* The Connection that handleClientEvent() found in connections_ is there, under the
\* same fd, until it returns, the exchange with the upstream included.
THEOREM BalancerConnectionSafe ==
  ASSUME DisarmedIsSilent
  PROVE  BalancerSpec => []ConnectionOutlivesHandler
<1>1. BalancerInv => ConnectionOutlivesHandler
  BY DEF BalancerInv, ConnectionInv, DispatchInv
<1>2. QED
  BY <1>1, BalancerInvariant, PTL

\* In the balancer too a disarmed fd is in exactly one of the task queue, a worker's
\* hands and the two re-arm deques.
THEOREM BalancerDispatchesOnce ==
  ASSUME DisarmedIsSilent
  PROVE  BalancerSpec => []SingleCustodian
<1>1. BalancerInv => SingleCustodian
  BY DispatchImpliesSingleCustodian DEF BalancerInv, ConnectionInv
<1>2. QED
  BY <1>1, BalancerInvariant, PTL

\* Nothing is lost or repeated between upstream and client: when the balancer waits for
\* a client's input and has read all there is, every request has been answered in full
\* and once, by the upstream or with a 400 or 502.
THEOREM BalancerAnswersInFull ==
  ASSUME DisarmedIsSilent
  PROVE  BalancerSpec => []NothingOwedWhileReading
<1>1. BalancerInv => NothingOwedWhileReading
  BY OwedImplies DEF BalancerInv
<1>2. QED
  BY <1>1, BalancerInvariant, PTL

\* The balancer honours Connection: close, on every path: the resumed response and the
\* one sent at once, a 400, a 502 and a relayed response.  The server does not; its
\* FinishRequest asks the request that reset() has cleared.
THEOREM BalancerHonoursClose ==
  ASSUME DisarmedIsSilent
  PROVE  BalancerSpec => []CloseIsHonoured
<1>1. BalancerInv => CloseIsHonoured
  BY ConnectionImplies DEF BalancerInv
<1>2. QED
  BY <1>1, BalancerInvariant, PTL

-----------------------------------------------------------------------------
(* Upstream sockets *)

\* An upstream socket exists during the exchange only, and accept() does not return
\* its number.
UpstreamInv ==
    \A w \in Workers : worker[w].ufd # NoFd => /\ worker[w].pc = "exchange"
                                               /\ connections[worker[w].ufd] = NoConn

\* Every branch of handleClientEvent() opens and closes its own upstream socket.
LEMMA HandlerUpstream ==
  ASSUME TypeInv, UpstreamInv, NEW w \in Workers, HandleClientEvent(w)
  PROVE  UpstreamInv'
<1>1. worker \in [Workers -> WorkerRec]
  BY DEF TypeInv, TypeOK
<1>2. connections' = connections
  BY DEF HandleClientEvent, CommonWorkerStep, TakeTask, LookupConnection, ResumeFlush, RecvData,
         RecvAgain, RecvClosed, RecvEnds, ParseMore, ParseError, ParseComplete, SendSome,
         SendCounting, SendAgain, SendBlocked, SendFails, SendRaisesSigpipe, FinishResume,
         FinishBad, FinishWith, ProxyRequest, NoHealthyUpstream, NoDescriptor, RefuseRequest,
         Refuse, OpenUpstream, RelayResponse, UpstreamFails, CloseAndAnswer, UpstreamSigpipe,
         FinishProxied
<1>3. ASSUME NEW r, worker' = [worker EXCEPT ![w] = r],
             r.ufd # NoFd => r.pc = "exchange" /\ connections[r.ufd] = NoConn
      PROVE  UpstreamInv'
  BY <1>1, <1>2, <1>3 DEF UpstreamInv
<1>4. worker[w].pc # "exchange" => worker[w].ufd = NoFd
  BY DEF UpstreamInv
<1>5. CASE worker' = worker
  BY <1>2, <1>5 DEF UpstreamInv
<1>6. CASE Return(w)
  BY <1>3, <1>6 DEF Return, IdleWorker
<1>7. worker[w] \in WorkerRec
  BY <1>1
<1>8. CASE OpenUpstream(w)
  <2>1. PICK f \in FreeFds :
            worker' = [worker EXCEPT ![w] = [worker[w] EXCEPT !.pc = "exchange", !.ufd = f]]
    BY <1>8 DEF OpenUpstream
  <2>2. PICK r : r = [worker[w] EXCEPT !.pc = "exchange", !.ufd = f]
    OBVIOUS
  <2>3. r.ufd = f /\ r.pc = "exchange" /\ connections[f] = NoConn
    BY <1>7, <2>1, <2>2 DEF WorkerRec, FreeFds
  <2>4. QED
    BY <1>3, <2>1, <2>2, <2>3
<1>9. CASE RelayResponse(w) \/ UpstreamFails(w)
  <2>1. worker' = [worker EXCEPT ![w] = [worker[w] EXCEPT !.pc = "flush", !.ufd = NoFd]]
    BY <1>9 DEF RelayResponse, UpstreamFails, CloseAndAnswer
  <2>2. PICK r : r = [worker[w] EXCEPT !.pc = "flush", !.ufd = NoFd]
    OBVIOUS
  <2>3. r.ufd = NoFd
    BY <1>7, <2>2 DEF WorkerRec
  <2>4. QED
    BY <1>3, <2>1, <2>2, <2>3
<1>10. CASE UpstreamSigpipe(w) \/ SendRaisesSigpipe(w)
  BY <1>5, <1>10 DEF UpstreamSigpipe, SendRaisesSigpipe
<1>11. CASE \/ RecvAgain(w) \/ RecvClosed(w) \/ ParseMore(w) \/ SendAgain(w) \/ FinishBad(w)
            \/ FinishResume(w) \/ FinishProxied(w)
  BY <1>6, <1>11 DEF RecvAgain, RecvClosed, RecvEnds, ParseMore, SendAgain, SendBlocked, FinishBad,
                     FinishResume, FinishProxied, FinishWith
<1>12. CASE \/ TakeTask(w) \/ LookupConnection(w) \/ ResumeFlush(w) \/ RecvData(w) \/ ParseError(w)
            \/ ParseComplete(w) \/ SendSome(w) \/ SendFails(w) \/ RefuseRequest(w)
  <2>1. worker[w].pc # "exchange"
    BY <1>12 DEF TakeTask, LookupConnection, ResumeFlush, RecvData, ParseError, ParseComplete,
                 SendSome, SendCounting, SendFails, RefuseRequest, Refuse
  <2>2. CASE Return(w)
    BY <1>6, <2>2
  <2>3. CASE ~Return(w)
    <3>1. \/ \E l : worker' = [worker EXCEPT ![w].pc = l]
          \/ \E l, f : worker' = [worker EXCEPT ![w].pc = l, ![w].fd = f]
          \/ \E l, c : worker' = [worker EXCEPT ![w].pc = l, ![w].conn = c]
          \/ \E l, g : worker' = [worker EXCEPT ![w].pc = l, ![w].seg = g]
          \/ \E l, b : worker' = [worker EXCEPT ![w].pc = l, ![w].path = b]
      BY <1>12, <2>3 DEF TakeTask, LookupConnection, ResumeFlush, RecvData, ParseError,
                   ParseComplete, SendSome, SendCounting, SendFails, RefuseRequest, Refuse, Goto
    <3>2. /\ worker'[w].ufd = worker[w].ufd
          /\ \A v \in Workers \ {w} : worker'[v] = worker[v]
      <4>1. CASE \E l : worker' = [worker EXCEPT ![w].pc = l]
        BY <1>7, <1>1, <4>1 DEF WorkerRec
      <4>2. CASE \E l, f : worker' = [worker EXCEPT ![w].pc = l, ![w].fd = f]
        BY <1>7, <1>1, <4>2 DEF WorkerRec
      <4>3. CASE \E l, c : worker' = [worker EXCEPT ![w].pc = l, ![w].conn = c]
        BY <1>7, <1>1, <4>3 DEF WorkerRec
      <4>4. CASE \E l, g : worker' = [worker EXCEPT ![w].pc = l, ![w].seg = g]
        BY <1>7, <1>1, <4>4 DEF WorkerRec
      <4>5. CASE \E l, b : worker' = [worker EXCEPT ![w].pc = l, ![w].path = b]
        BY <1>7, <1>1, <4>5 DEF WorkerRec
      <4>6. QED
        BY <3>1, <4>1, <4>2, <4>3, <4>4, <4>5
    <3>3. QED
      BY <1>2, <1>4, <2>1, <3>2 DEF UpstreamInv
  <2>4. QED
    BY <2>2, <2>3
<1>13. QED
  BY <1>8, <1>9, <1>10, <1>11, <1>12 DEF HandleClientEvent, CommonWorkerStep, ProxyRequest,
     NoHealthyUpstream, NoDescriptor

\* accept() returns a descriptor that is not an upstream socket, and closing a client's
\* does not touch one.
LEMMA NextUpstream ==
  ASSUME TypeInv, UpstreamInv, [BalancerNext]_vars
  PROVE  UpstreamInv'
<1>1. CASE BalancerReactor
  <2>1. worker' = worker
    BY <1>1 DEF BalancerReactor, ReactorStep, SwapRearms, ApplyRearm, WaitEvents, AcceptOne, AcceptDone, AcceptAborted, AcceptLast, HandleEvent, DispatchEvent
  <2>2. \A w \in Workers : worker[w].ufd # NoFd => worker[w].ufd \in Fds
    BY DEF TypeInv, TypeOK, WorkerRec
  <2>3. connections \in [Fds -> Conns \cup {NoConn}]
    BY DEF TypeInv, TypeOK
  <2>4. CASE AcceptOne
    <3>1. PICK c \in Conns, f \in FreeFds : connections' = [connections EXCEPT ![f] = c]
      BY <2>4 DEF AcceptOne, Backlog
    <3>2. QED
      BY <2>1, <2>2, <2>3, <3>1 DEF UpstreamInv, FreeFds
  <2>5. CASE ~AcceptOne
    <3>1. connections' = connections \/ \E f : connections' = [connections EXCEPT ![f] = NoConn]
      BY <1>1, <2>5 DEF BalancerReactor, ReactorStep, SwapRearms, ApplyRearm, WaitEvents, AcceptDone, AcceptAborted, AcceptLast, HandleEvent, DispatchEvent,
                        EraseConnection
    <3>2. QED
      BY <2>1, <2>2, <2>3, <3>1 DEF UpstreamInv
  <2>6. QED
    BY <2>4, <2>5
<1>2. CASE (\E c \in Conns : ClientStep(c)) \/ UNCHANGED vars
  BY <1>2 DEF ClientStep, vars, UpstreamInv
<1>3. QED
  BY <1>1, <1>2, HandlerUpstream DEF BalancerNext

\* Descriptor numbers go back and forth between clients and upstreams, and a number is
\* never both: no event, task or re-arm meant for a client reaches an upstream socket,
\* and no path out of proxyRequest() leaves one open.
THEOREM UpstreamsStayPrivate ==
  ASSUME DisarmedIsSilent
  PROVE  BalancerSpec => []UpstreamSocketIsPrivate
<1>1. Init => UpstreamInv
  BY DEF Init, UpstreamInv, IdleWorker
<1>2. BalancerSpec => []UpstreamInv
  BY <1>1, NextUpstream, BalancerTypeInvariant, PTL DEF BalancerSpec
<1>3. BalancerInv /\ UpstreamInv => UpstreamSocketIsPrivate
  <2> SUFFICES ASSUME DispatchInv, UpstreamInv, NEW w \in Workers, worker[w].ufd # NoFd
               PROVE  LET f == worker[w].ufd
                      IN  /\ worker[w].pc = "exchange"
                          /\ connections[f] = NoConn /\ interest[f] = "none"
                          /\ Custodians(f) = {}
                          /\ \A e \in events : e.fd # f
    BY DEF BalancerInv, ConnectionInv, UpstreamSocketIsPrivate
  <2>1. PICK f : f = worker[w].ufd
    OBVIOUS
  <2>2. f \in Fds /\ worker[w].pc = "exchange" /\ connections[f] = NoConn
    BY <2>1 DEF UpstreamInv, DispatchInv, TypeInv, TypeOK, WorkerRec
  <2>3. interest[f] = "none"
    BY <2>2 DEF DispatchInv, Registered
  <2>4. Custodians(f) = {}
    BY <2>2, <2>3, DispatchImpliesSingleCustodian DEF SingleCustodian
  <2>5. ASSUME NEW e \in events PROVE e.fd # f
    <3>1. ListenEvent.fd = NoFd
      BY DEF ListenEvent
    <3>2. QED
      BY <2>2, <2>3, <3>1 DEF DispatchInv, EventsArmed
  <2>6. QED
    BY <2>1, <2>2, <2>3, <2>4, <2>5
<1>4. QED
  BY <1>2, <1>3, BalancerInvariant, PTL

-----------------------------------------------------------------------------
(* The end of a connection *)

\* The client knows that the connection is about to end, and will send nothing more.
Expects(c) == conn[c].header = "close" \/ client[c].phase = "last"

\* A connection that is not kept alive has a client that knows and has asked for
\* nothing since; what the parser and the input say about the last request is so.
Parting(c) ==
    /\ conn[c].pendingKeepAlive \/ (Expects(c) /\ (WasReset(c) \/ ~Complete(sock[c].inq)))
    /\ conn[c].parser.keepAlive \/ client[c].phase = "last"
    /\ \A i \in 1..Len(sock[c].inq) :
          sock[c].inq[i] \in {"close", "bad"} => client[c].phase = "last"

\* What a worker has read or queued for its connection.
Knows(w) ==
    /\ worker[w].pc = "parse" /\ worker[w].seg \in {"close", "bad"}
         => client[worker[w].conn].phase = "last"
    /\ worker[w].pc \in {"serve", "exchange"} => worker[w].path = "request"
    /\ worker[w].pc \in {"flush", "finish"} /\ worker[w].path = "bad"
         => ~conn[worker[w].conn].pendingKeepAlive

\* The connection c may be closed: its client is gone or its last response is out.
MayClose(c) == sock[c].peer # "open" \/ (~conn[c].pendingKeepAlive /\ conn[c].unsent = 0)

ClosesFit ==
    \A r \in Elements(rearms) \cup Elements(pendingRearms) :
        r.action = "Close" => MayClose(connections[r.fd])

\* The reactor's error branch closes only what a client has left.
ErrorsFit == \A e \in events : e.error => sock[connections[e.fd]].peer # "open"

PartingInv ==
    /\ OwedInv
    /\ \A c \in Conns : Parting(c)
    /\ \A w \in Workers : Knows(w)
    /\ ClosesFit
    /\ ErrorsFit
    /\ EndIsExpected

\* What is left to show of a worker's step: how it leaves its own connection, what it
\* knows next, and that it asks for a close only when it may.
LEMMA OthersPart ==
  ASSUME PartingInv, OwedInv', NEW w \in Workers, HandlerStep(w, "server"), Holding(w),
         NEW d, d = worker[w].conn, Parting(d)', Knows(w)',
         \/ pendingRearms' = pendingRearms
         \/ \E a \in RearmActions : PostRearm(worker[w].fd, a) /\ (a = "Close" => MayClose(d)')
  PROVE  PartingInv'
<1>0. /\ CoreWorkerStep(w) /\ TypeInv /\ DispatchInv /\ OneFdPerConn /\ ConnectionInv("server")
      /\ \A c \in Conns : Parting(c)
  BY HandlerIsCore DEF PartingInv, OwedInv, ConnectionInv, DispatchInv
<1>1. /\ \A c \in Conns \ {d} : conn'[c] = conn[c] /\ sock'[c] = sock[c]
      /\ client' = client
  BY <1>0, HandlerTouches
<1>2. /\ worker[w].fd \in Fds /\ d \in Conns /\ connections[worker[w].fd] = d
      /\ worker[w].fd \in HandledFds /\ sock[d].link = "open"
  BY <1>0, HoldingFacts DEF OneFdPerConn
<1>3. /\ \A c \in Conns : sock'[c].link = sock[c].link /\ sock'[c].peer = sock[c].peer
  BY <1>0, WorkerKeepsLinks, WorkerData
<1>4. UNCHANGED <<rearms, events, connections, interest>>
  BY <1>0, WorkerShapes DEF TakeTask, LookupConnection, Advances, Answers, Stops
<1>5. \A v \in Workers \ {w} : worker'[v] = worker[v]
  BY <1>0, WorkerShapes DEF TakeTask, LookupConnection, Advances, Answers, Stops, Return, TypeInv, TypeOK
<1>6. \A c \in Conns : Parting(c)'
  <2>1. ASSUME NEW c \in Conns \ {d} PROVE Parting(c)'
    BY <1>0, <1>1, <2>1 DEF Parting, Expects, WasReset
  <2>2. QED
    BY <2>1
<1>7. \A v \in Workers : Knows(v)'
  <2>1. ASSUME NEW v \in Workers \ {w} PROVE Knows(v)'
    <3>1. worker'[v] = worker[v] /\ Knows(v)
      BY <1>5, <2>1 DEF PartingInv
    <3>2. CASE Holding(v)
      <4>1. worker[v].conn \in Conns \ {d}
        BY <1>0, <2>1, <3>2, HoldingFacts, OneWorkerPerConn
      <4>2. QED
        BY <1>1, <3>1, <4>1 DEF Knows
    <3>3. CASE ~Holding(v)
      BY <3>1, <3>3 DEF Knows, Holding
    <3>4. QED
      BY <3>2, <3>3
  <2>2. QED
    BY <2>1
<1>8. ClosesFit'
  <2>1. ASSUME NEW r \in Elements(rearms) \cup Elements(pendingRearms), r.action = "Close"
        PROVE  MayClose(connections[r.fd])'
    <3>1. /\ r.fd \in Fds /\ r.fd # worker[w].fd /\ connections[r.fd] \in Conns
      BY <1>0, <1>2, <2>1, KnownFds
    <3>2. connections[r.fd] # d
      BY <1>0, <1>2, <3>1 DEF OneFdPerConn
    <3>3. MayClose(connections[r.fd])
      BY <2>1 DEF PartingInv, ClosesFit
    <3>4. QED
      BY <1>1, <1>4, <3>1, <3>2, <3>3 DEF MayClose
  <2>2. CASE pendingRearms' = pendingRearms
    BY <1>4, <2>1, <2>2 DEF ClosesFit
  <2>3. CASE pendingRearms' # pendingRearms
    <3>1. PICK a \in RearmActions : /\ PostRearm(worker[w].fd, a)
                                    /\ a = "Close" => MayClose(d)'
      BY <2>3
    <3>2. PICK r0 \in PendingRearm : r0 = [fd |-> worker[w].fd, action |-> a]
      BY <1>2 DEF PendingRearm
    <3>3. Elements(pendingRearms') = Elements(pendingRearms) \cup {r0}
      <4>1. pendingRearms \in Seq(PendingRearm) /\ Distinct(pendingRearms)
        BY <1>0 DEF DispatchInv, TypeInv, TypeOK, NoDuplicates, Distinct, DistinctFds
      <4>2. pendingRearms' = Append(pendingRearms, r0)
        BY <3>1, <3>2 DEF PostRearm
      <4>3. QED
        BY <4>1, <4>2, QueueOps, Zenon
    <3>4. r0.action = "Close" => MayClose(connections[r0.fd])'
      <4>1. r0.action = a /\ connections'[r0.fd] = d
        BY <1>2, <1>4, <3>2
      <4>2. QED
        BY <3>1, <4>1 DEF MayClose
    <3>5. QED
      BY <1>4, <2>1, <3>3, <3>4 DEF ClosesFit
  <2>4. QED
    BY <2>2, <2>3
<1>9. ErrorsFit'
  <2>1. ASSUME NEW e \in events, e.error PROVE sock'[connections[e.fd]].peer # "open"
    <3>1. connections[e.fd] \in Conns
      <4>1. e # ListenEvent
        BY <2>1 DEF ListenEvent
      <4>2. e.fd \in Fds /\ interest[e.fd] # "none"
        BY <1>0, <4>1 DEF DispatchInv, EventsArmed, TypeInv, TypeOK, IoEvent
      <4>3. QED
        BY <1>0, <4>2, KnownFds
    <3>2. QED
      BY <1>3, <2>1, <3>1 DEF PartingInv, ErrorsFit
  <2>2. QED
    BY <1>4, <2>1 DEF ErrorsFit
<1>10. EndIsExpected'
  <2>1. ASSUME NEW c \in Conns, sock'[c].link = "closed" PROVE c \in Conns \ {d}
    BY <1>2, <1>3, <2>1
  <2>2. QED
    BY <1>1, <1>3, <2>1 DEF PartingInv, EndIsExpected
<1>11. QED
  BY <1>6, <1>7, <1>8, <1>9, <1>10 DEF PartingInv

\* The branches of the handler, in the order of the code.
LEMMA HonestOwn ==
  ASSUME PartingInv, OwedInv', NEW w \in Workers, HonestHandler(w),
         HandlerStep(w, "server"), Holding(w)
  PROVE  PartingInv'
<1>d. PICK d : d = worker[w].conn
  OBVIOUS
<1>0. /\ CoreWorkerStep(w) /\ TypeInv /\ DispatchInv /\ OneFdPerConn /\ ConnectionInv("server")
      /\ Accounted(d) /\ Parting(d) /\ Knows(w)
  BY <1>d, HandlerIsCore, HoldingFacts DEF PartingInv, OwedInv, ConnectionInv, DispatchInv
<1>1. PICK k : k = conn[d]
  OBVIOUS
<1>2. /\ conn \in [Conns -> ConnectionRec] /\ sock \in [Conns -> SocketRec]
      /\ worker \in [Workers -> WorkerRec] /\ worker[w] \in WorkerRec /\ worker[w].seg \in Segments
      /\ d \in Conns /\ k \in ConnectionRec /\ k.parser \in ParserRec /\ sock[d] \in SocketRec
      /\ connections[worker[w].fd] = d
  BY <1>0, <1>1, <1>d, HoldingFacts DEF TypeInv, TypeOK, WorkerRec, ConnectionRec
<1>3. Fits(worker[w].pc, k, "server")
  BY <1>0, <1>1, <1>d, HoldingFacts DEF ConnectionInv, HandledInv, WorkerFits
<1>4. client' = client /\ sock'[d].peer = sock[d].peer
  BY <1>0, <1>2, WorkerData
<1>5. Serving(w) => WasReset(d) \/ ~Complete(sock[d].inq)
  BY <1>0, <1>d DEF Accounted, Balance, Served
\* The three ways in which a step leaves the connection.
<1>6. ASSUME sock'[d].inq = sock[d].inq, conn'[d].pendingKeepAlive = k.pendingKeepAlive,
             conn'[d].header = k.header,
             conn'[d].parser.keepAlive \/ ~k.parser.keepAlive \/ client[d].phase = "last"
      PROVE  Parting(d)'
  BY <1>0, <1>1, <1>4, <1>6 DEF Parting, Expects, WasReset
<1>7. ASSUME sock' = sock, Serving(w),
             conn'[d].pendingKeepAlive \/ conn'[d].header = "close" \/ ~k.parser.keepAlive,
             conn'[d].parser.keepAlive = k.parser.keepAlive
      PROVE  Parting(d)'
  BY <1>0, <1>1, <1>4, <1>5, <1>7 DEF Parting, Expects, WasReset
<1>8. ASSUME conn' = conn, sock' = sock PROVE Parting(d)'
  BY <1>1, <1>2, <1>6, <1>8 DEF ConnectionRec, ParserRec
\* A worker that returns knows nothing.
<1>9. ASSUME Return(w) PROVE Knows(w)'
  BY <1>2, <1>9 DEF Return, Knows, IdleWorker
<1>10. CASE ResumeFlush(w)
  <2>1. worker'[w].pc = "flush" /\ worker'[w].path = "resume"
    BY <1>2, <1>10 DEF ResumeFlush, WorkerRec
  <2>2. conn' = conn /\ sock' = sock /\ pendingRearms' = pendingRearms
    BY <1>10 DEF ResumeFlush
  <2>3. Knows(w)'
    BY <2>1 DEF Knows
  <2>4. QED
    BY <1>8, <1>d, <2>2, <2>3, OthersPart
<1>11. CASE RecvData(w)
  <2>1. PICK n \in 1..Len(sock[d].inq) :
          /\ sock' = [sock EXCEPT ![d].inq = SubSeq(sock[d].inq, n + 1, Len(sock[d].inq))]
          /\ worker' = [worker EXCEPT ![w].pc = "parse", ![w].seg = sock[d].inq[n]]
    BY <1>2, <1>11 DEF RecvData
  <2>2. PICK q, g : q = SubSeq(sock[d].inq, n + 1, Len(sock[d].inq)) /\ g = sock[d].inq[n]
    OBVIOUS
  <2>3. sock'[d].inq = q /\ conn' = conn /\ pendingRearms' = pendingRearms
    BY <1>2, <1>11, <2>1, <2>2 DEF SocketRec, RecvData
  <2>4. worker'[w].pc = "parse" /\ worker'[w].seg = g /\ worker'[w].conn = d
    BY <1>2, <1>d, <2>1, <2>2 DEF WorkerRec
  <2>5. sock[d].inq \in Seq(Segments)
    BY <1>2 DEF SocketRec
  <2>6. /\ Complete(q) => Complete(sock[d].inq)
        /\ \A i \in 1..Len(q) : q[i] = sock[d].inq[i + n] /\ i + n \in 1..Len(sock[d].inq)
    <3>1. Complete(q) => Complete(sock[d].inq)
      BY <1>0, <2>2, <2>5, InputOps DEF Accounted
    <3>2. q = [i \in 1..(Len(sock[d].inq) - n) |-> sock[d].inq[i + n]]
      BY <2>2, <2>5
    <3>3. Len(q) = Len(sock[d].inq) - n
      BY <2>5, <3>2
    <3>4. QED
      BY <2>5, <3>1, <3>2, <3>3
  <2>7. \A i \in 1..Len(sock[d].inq) : sock[d].inq[i] \in {"close", "bad"} => client[d].phase = "last"
    BY <1>0 DEF Parting
  <2>8. Parting(d)'
    BY <1>0, <1>4, <2>3, <2>6, <2>7 DEF Parting, Expects, WasReset
  <2>9. Knows(w)'
    BY <1>4, <2>2, <2>4, <2>7 DEF Knows
  <2>10. QED
    BY <1>d, <2>3, <2>8, <2>9, OthersPart
<1>12. CASE RecvAgain(w)
  <2>1. /\ conn' = conn /\ sock' = sock /\ Return(w)
        /\ PostRearm(worker[w].fd, "WaitReadable")
    BY <1>12 DEF RecvAgain
  <2>2. QED
    BY <1>8, <1>9, <1>d, <2>1, OthersPart DEF RearmActions
<1>13. CASE RecvClosed(w)
  <2>1. /\ conn' = conn /\ sock' = sock /\ Return(w) /\ PostRearm(worker[w].fd, "Close")
    BY <1>13 DEF RecvClosed, RecvEnds
  <2>2. sock[d].peer # "open"
    BY <1>2, <1>13 DEF RecvClosed, RecvEnds, WasReset
  <2>3. MayClose(d)'
    BY <2>1, <2>2 DEF MayClose
  <2>4. QED
    BY <1>8, <1>9, <1>d, <2>1, <2>3, OthersPart DEF RearmActions
<1>14. CASE ParseMore(w)
  <2>1. /\ sock' = sock /\ Return(w) /\ PostRearm(worker[w].fd, "WaitReadable")
        /\ conn' = [conn EXCEPT ![d].parser = Consume(k.parser, worker[w].seg)]
        /\ worker[w].pc = "parse" /\ ConsumeStatus(k.parser, worker[w].seg) = "NeedMoreData"
    BY <1>1, <1>2, <1>14, <1>d DEF ParseMore
  <2>2. Consume(k.parser, worker[w].seg) = k.parser
    BY <2>1 DEF Consume, ConsumeStatus
  <2>3. conn'[d].pendingKeepAlive = k.pendingKeepAlive /\ conn'[d].header = k.header
        /\ conn'[d].parser = k.parser
    BY <1>1, <1>2, <2>1, <2>2 DEF ConnectionRec
  <2>4. Parting(d)'
    BY <1>2, <1>6, <2>1, <2>3 DEF ParserRec
  <2>5. QED
    BY <1>9, <1>d, <2>1, <2>4, OthersPart DEF RearmActions
<1>15. CASE ParseError(w)
  <2> DEFINE j == [k EXCEPT !.parser = Consume(k.parser, worker[w].seg)]
  <2>1. /\ conn' = [conn EXCEPT ![d] = QueueResponse(j, FALSE, "close")]
        /\ sock' = sock /\ pendingRearms' = pendingRearms /\ worker[w].pc = "parse"
        /\ ConsumeStatus(k.parser, worker[w].seg) = "Error"
    BY <1>1, <1>15, <1>d DEF ParseError
  <2>2. worker[w].seg = "bad" /\ k.parser.state = "Incomplete"
    BY <1>3, <2>1 DEF ConsumeStatus, Fits, Quiet
  <2>3. /\ Consume(k.parser, worker[w].seg).keepAlive = k.parser.keepAlive
        /\ Consume(k.parser, worker[w].seg) \in ParserRec
    BY <1>2, <2>2 DEF Consume, ParserRec
  <2>4. PICK x : x = QueueResponse(j, FALSE, "close")
    OBVIOUS
  <2>5. x.pendingKeepAlive = FALSE /\ x.header = "close" /\ x.parser.keepAlive = k.parser.keepAlive
    BY <1>2, <2>3, <2>4 DEF QueueResponse, ConnectionRec
  <2>6. conn'[d] = x
    BY <1>2, <2>1, <2>4
  <2>7. Parting(d)'
    BY <1>7, <2>1, <2>2, <2>5, <2>6 DEF Serving
  <2>8. worker'[w].pc = "flush" /\ worker'[w].path = "bad" /\ worker'[w].conn = d
    BY <1>2, <1>15, <1>d DEF ParseError, WorkerRec
  <2>9. Knows(w)'
    BY <2>5, <2>6, <2>8 DEF Knows
  <2>10. QED
    BY <1>d, <2>1, <2>7, <2>9, OthersPart
<1>16. CASE ParseComplete(w)
  <2>1. /\ sock' = sock /\ pendingRearms' = pendingRearms /\ worker[w].pc = "parse"
        /\ conn' = [conn EXCEPT ![d].parser = Consume(k.parser, worker[w].seg)]
        /\ ConsumeStatus(k.parser, worker[w].seg) = "Complete"
    BY <1>1, <1>2, <1>16, <1>d DEF ParseComplete
  <2>2. k.parser.state = "Incomplete"
    BY <1>3, <2>1 DEF Fits, Quiet
  <2>3. worker[w].seg \in {"keep", "close"} /\ Consume(k.parser, worker[w].seg).keepAlive = (worker[w].seg = "keep")
    BY <1>2, <2>1, <2>2 DEF Consume, ConsumeStatus, Segments, FinalSegments
  <2>4. conn'[d].pendingKeepAlive = k.pendingKeepAlive /\ conn'[d].header = k.header
        /\ conn'[d].parser = Consume(k.parser, worker[w].seg)
    BY <1>1, <1>2, <2>1 DEF ConnectionRec
  <2>5. worker[w].seg = "close" => client[d].phase = "last"
    BY <1>0, <1>d, <2>1 DEF Knows
  <2>6. Parting(d)'
    BY <1>6, <2>1, <2>3, <2>4, <2>5
  <2>7. worker'[w].pc = "serve" /\ worker'[w].path = "request"
    BY <1>2, <1>16 DEF ParseComplete, WorkerRec
  <2>8. Knows(w)'
    BY <2>7 DEF Knows
  <2>9. QED
    BY <1>d, <2>1, <2>6, <2>8, OthersPart
<1>17. CASE QueuesHonestly(w)
  <2>1. PICK b \in BOOLEAN, h \in {"keep-alive", "close"} :
          /\ b \/ h = "close" \/ ~k.parser.keepAlive
          /\ conn' = [conn EXCEPT ![d] = QueueResponse(k, b, h)]
    BY <1>1, <1>17, <1>d DEF QueuesHonestly
  <2>2. /\ sock' = sock /\ pendingRearms' = pendingRearms /\ worker[w].pc \in {"serve", "exchange"}
        /\ worker'[w].pc = "flush" /\ worker'[w].path = worker[w].path
    BY <1>2, <1>17 DEF QueuesHonestly, WorkerRec
  <2>3. PICK x : x = QueueResponse(k, b, h)
    OBVIOUS
  <2>4. x.pendingKeepAlive = b /\ x.header = h /\ x.parser = k.parser
    BY <1>2, <2>3 DEF QueueResponse, ConnectionRec
  <2>5. conn'[d] = x
    BY <1>2, <2>1, <2>3
  <2>6. Parting(d)'
    BY <1>7, <2>1, <2>2, <2>4, <2>5 DEF Serving
  <2>7. Knows(w)'
    BY <1>0, <2>2 DEF Knows
  <2>8. QED
    BY <1>d, <2>2, <2>6, <2>7, OthersPart
<1>18. CASE Connects(w)
  <2>1. /\ conn' = conn /\ sock' = sock /\ pendingRearms' = pendingRearms /\ worker[w].pc = "serve"
        /\ worker'[w].pc = "exchange" /\ worker'[w].path = worker[w].path
    BY <1>2, <1>18 DEF Connects, WorkerRec
  <2>2. Knows(w)'
    BY <1>0, <2>1 DEF Knows
  <2>3. QED
    BY <1>8, <1>d, <2>1, <2>2, OthersPart
<1>19. CASE SendSome(w) \/ SendFails(w)
  <2>1. PICK n : conn' = [conn EXCEPT ![d].unsent = n]
    BY <1>19, <1>d DEF SendSome, SendCounting, SendFails
  <2>2. sock' = sock \/ \E q : sock' = [sock EXCEPT ![d].outq = q]
    BY <1>19, <1>d DEF SendSome, SendCounting, SendFails
  <2>3. /\ pendingRearms' = pendingRearms /\ worker[w].pc = "flush"
        /\ worker'[w].pc \in {"flush", "finish"} /\ worker'[w].path = worker[w].path
        /\ worker'[w].conn = worker[w].conn
    BY <1>2, <1>19 DEF SendSome, SendCounting, SendFails, Goto, WorkerRec
  <2>4. /\ conn'[d].pendingKeepAlive = k.pendingKeepAlive /\ conn'[d].header = k.header
        /\ conn'[d].parser = k.parser
    BY <1>1, <1>2, <2>1 DEF ConnectionRec
  <2>5. sock'[d].inq = sock[d].inq
    BY <1>2, <2>2 DEF SocketRec
  <2>6. Parting(d)'
    BY <1>2, <1>6, <2>4, <2>5 DEF ParserRec
  <2>7. Knows(w)'
    BY <1>0, <1>1, <1>d, <2>3, <2>4 DEF Knows
  <2>8. QED
    BY <1>d, <2>3, <2>6, <2>7, OthersPart
<1>20. CASE SendAgain(w)
  <2>1. /\ conn' = conn /\ sock' = sock /\ Return(w)
        /\ PostRearm(worker[w].fd, "WaitWritable")
    BY <1>20 DEF SendAgain, SendBlocked
  <2>2. QED
    BY <1>8, <1>9, <1>d, <2>1, OthersPart DEF RearmActions
<1>21. CASE SendRaisesSigpipe(w) \/ Dies
  <2>1. conn' = conn /\ sock' = sock /\ worker' = worker /\ pendingRearms' = pendingRearms
    BY <1>21 DEF SendRaisesSigpipe, Dies
  <2>2. Knows(w)'
    BY <1>0, <1>4, <2>1 DEF Knows
  <2>3. QED
    BY <1>8, <1>d, <2>1, <2>2, OthersPart
<1>22. CASE FinishBad(w)
  <2>1. /\ conn' = conn /\ sock' = sock /\ Return(w) /\ PostRearm(worker[w].fd, "Close")
        /\ worker[w].pc = "finish" /\ worker[w].path = "bad"
    BY <1>22 DEF FinishBad
  <2>2. MayClose(d)'
    BY <1>0, <1>1, <1>3, <1>d, <2>1 DEF MayClose, Knows, Fits
  <2>3. QED
    BY <1>8, <1>9, <1>d, <2>1, <2>2, OthersPart DEF RearmActions
<1>23. CASE FinishResume(w) \/ ConcludesHonestly(w)
  <2>1. PICK b \in BOOLEAN, l \in {"resume", "request"} :
           (b \/ ~k.pendingKeepAlive) /\ FinishWith(w, l, FreshParser, b)
    BY <1>1, <1>2, <1>23, <1>d DEF FinishResume, ConcludesHonestly, ConnectionRec
  <2>2. /\ sock' = sock /\ Return(w) /\ PostRearm(worker[w].fd, RearmAfter(b))
        /\ conn' = [conn EXCEPT ![d].parser = FreshParser] /\ worker[w].pc = "finish"
    BY <1>d, <2>1 DEF FinishWith
  <2>3. /\ conn'[d].pendingKeepAlive = k.pendingKeepAlive /\ conn'[d].header = k.header
        /\ conn'[d].parser.keepAlive = TRUE /\ conn'[d].unsent = k.unsent
    BY <1>1, <1>2, <2>2 DEF ConnectionRec, FreshParser
  <2>4. Parting(d)'
    BY <1>6, <2>2, <2>3
  <2>5. RearmAfter(b) \in RearmActions /\ (RearmAfter(b) = "Close" => MayClose(d)')
    BY <1>3, <2>1, <2>2, <2>3 DEF RearmAfter, RearmActions, MayClose, Fits
  <2>6. QED
    BY <1>9, <1>d, <2>2, <2>4, <2>5, OthersPart
<1>24. ~TakeTask(w) /\ ~LookupConnection(w)
  BY DEF Holding, TakeTask, LookupConnection
<1>25. QED
  BY <1>10, <1>11, <1>12, <1>13, <1>14, <1>15, <1>16, <1>17, <1>18, <1>19, <1>20, <1>21, <1>22,
     <1>23, <1>24 DEF HonestHandler, CommonWorkerStep

\* Taking a task and finding its Connection change nothing but the worker.
LEMMA HonestWorker ==
  ASSUME PartingInv, OwedInv', NEW w \in Workers, HonestHandler(w), HandlerStep(w, "server")
  PROVE  PartingInv'
<1>1. CASE Holding(w)
  BY <1>1, HonestOwn
<1>2. CASE ~Holding(w)
  <2>1. TakeTask(w) \/ LookupConnection(w) \/ Dies
    BY <1>2 DEF Holding, HonestHandler, CommonWorkerStep, ResumeFlush, RecvData, RecvAgain,
                RecvClosed, RecvEnds, ParseMore, ParseError, ParseComplete, SendSome, SendCounting,
                SendAgain, SendBlocked, SendFails, SendRaisesSigpipe, FinishResume, FinishBad,
                FinishWith, QueuesHonestly, Connects, ConcludesHonestly
  <2>2. UNCHANGED <<reactorVars, pendingRearms, conn, sock, client>>
    BY <2>1 DEF TakeTask, LookupConnection, Dies
  <2>3. worker \in [Workers -> WorkerRec]
    BY DEF PartingInv, OwedInv, ConnectionInv, DispatchInv, TypeInv, TypeOK
  <2>4. ASSUME NEW v \in Workers PROVE Knows(v)'
    <3>1. \/ worker'[v] = worker[v]
          \/ worker'[v].pc \in {"lookup", "ready", "idle"}
      <4>1. CASE TakeTask(w)
        BY <2>3, <4>1 DEF TakeTask, WorkerRec
      <4>2. CASE LookupConnection(w)
        BY <2>3, <4>2 DEF LookupConnection, Return, IdleWorker, WorkerRec
      <4>3. CASE Dies
        BY <4>3 DEF Dies
      <4>4. QED
        BY <2>1, <4>1, <4>2, <4>3
    <3>2. CASE worker'[v] = worker[v]
      BY <2>2, <3>2 DEF PartingInv, Knows
    <3>3. CASE worker'[v].pc \in {"lookup", "ready", "idle"}
      BY <3>3 DEF Knows
    <3>4. QED
      BY <3>1, <3>2, <3>3
  <2>5. \A c \in Conns : Parting(c)'
    BY <2>2 DEF PartingInv, Parting, Expects, WasReset
  <2>6. ClosesFit' /\ ErrorsFit' /\ EndIsExpected'
    BY <2>2 DEF PartingInv, ClosesFit, MayClose, ErrorsFit, EndIsExpected
  <2>7. QED
    BY <2>4, <2>5, <2>6 DEF PartingInv
<1>3. QED
  BY <1>1, <1>2

\* A connection whose last response is out, in nobody's hands, has paid all it owed.
LEMMA PaidWhenClosed ==
  ASSUME PartingInv, NEW f \in Fds, NEW c \in Conns, connections[f] = c,
         f \notin HandledFds, MayClose(c), sock[c].peer = "open"
  PROVE  client[c].got + sock[c].outq = client[c].asked * RespLen /\ Expects(c)
<1>1. ~conn[c].pendingKeepAlive /\ conn[c].unsent = 0 /\ ~WasReset(c)
  BY DEF MayClose, WasReset
<1>2. Expects(c) /\ ~Complete(sock[c].inq)
  BY <1>1 DEF PartingInv, Parting
<1>3. ~Served(c)
  <2>1. ASSUME NEW w \in Workers, Serving(w) PROVE worker[w].conn # c
    <3>1. /\ worker[w].fd \in Fds /\ connections[worker[w].fd] = worker[w].conn
          /\ worker[w].fd \in HandledFds
      BY <2>1, HoldingFacts DEF PartingInv, OwedInv, ConnectionInv, Serving, Holding
    <3>2. QED
      BY <3>1 DEF PartingInv, OwedInv, ConnectionInv, OneFdPerConn
  <2>2. QED
    BY <2>1 DEF Served
<1>4. client[c].asked * RespLen = client[c].got + sock[c].outq + conn[c].unsent + 0
  BY <1>1, <1>2, <1>3 DEF PartingInv, OwedInv, Accounted, Balance, Due
<1>5. client[c].got \in Nat /\ sock[c].outq \in Nat
  BY AccountTypes DEF PartingInv, OwedInv, ConnectionInv, DispatchInv
<1>6. PICK x : x = client[c].asked * RespLen
  OBVIOUS
<1>7. QED
  BY <1>1, <1>2, <1>4, <1>5, <1>6

\* The reactor closes a connection after a re-arm that asks for it or after an error,
\* and accepts one that nobody has written to.
LEMMA ReactorParts ==
  ASSUME PartingInv, OwedInv', ReactorStep
  PROVE  PartingInv'
<1>0. /\ TypeInv /\ DispatchInv /\ OneFdPerConn /\ ConnectionInv("server")
      /\ \A c \in Conns : Parting(c)
      /\ \A w \in Workers : Knows(w)
      /\ connections \in [Fds -> Conns \cup {NoConn}]
      /\ sock \in [Conns -> SocketRec] /\ conn \in [Conns -> ConnectionRec]
  BY DEF PartingInv, OwedInv, ConnectionInv, DispatchInv, TypeInv, TypeOK
<1>1. worker' = worker /\ client' = client
  BY DEF ReactorStep, SwapRearms, ApplyRearm, WaitEvents, AcceptOne, AcceptDone, AcceptAborted,
         AcceptLast, HandleEvent, DispatchEvent
\* Steps that do not accept: connections are left alone or closed.
<1>2. ASSUME conn' = conn,
             \A c \in Conns : sock'[c] = sock[c] \/ sock'[c] = [sock[c] EXCEPT !.link = "closed"]
      PROVE  /\ \A c \in Conns : Parting(c)'
             /\ \A w \in Workers : Knows(w)'
             /\ \A c \in Conns : sock'[c].peer = sock[c].peer /\ sock'[c].outq = sock[c].outq
  <2>1. \A c \in Conns : /\ sock'[c].peer = sock[c].peer /\ sock'[c].inq = sock[c].inq
                         /\ sock'[c].outq = sock[c].outq
    <3>1. ASSUME NEW c \in Conns
          PROVE  /\ sock'[c].peer = sock[c].peer /\ sock'[c].inq = sock[c].inq
                 /\ sock'[c].outq = sock[c].outq
      <4>1. sock[c] \in SocketRec
        BY <1>0
      <4>2. CASE sock'[c] = [sock[c] EXCEPT !.link = "closed"]
        BY <4>1, <4>2 DEF SocketRec
      <4>3. QED
        BY <1>2, <4>2
    <3>2. QED
      BY <3>1
  <2>2. \A c \in Conns : Parting(c)'
    BY <1>0, <1>1, <1>2, <2>1 DEF Parting, Expects, WasReset
  <2>3. \A w \in Workers : Knows(w)'
    BY <1>0, <1>1, <1>2 DEF Knows
  <2>4. QED
    BY <2>1, <2>2, <2>3
<1>3. CASE SwapRearms \/ WaitEvents \/ AcceptDone
  <2>1. UNCHANGED <<conn, sock, connections>>
    BY <1>3 DEF SwapRearms, WaitEvents, AcceptDone, AcceptLast
  <2>2. ClosesFit'
    <3>1. Elements(rearms') \cup Elements(pendingRearms')
            \subseteq Elements(rearms) \cup Elements(pendingRearms)
      BY <1>3 DEF SwapRearms, WaitEvents, AcceptDone, AcceptLast, Elements
    <3>2. QED
      BY <2>1, <3>1 DEF PartingInv, ClosesFit, MayClose
  <2>3. ErrorsFit'
    <3>1. CASE WaitEvents
      <4>1. ASSUME NEW e \in ReadyEvents, e.error PROVE sock[connections[e.fd]].peer # "open"
        BY <4>1, ReadyEventsShape DEF ListenEvent, WasReset
      <4>2. QED
        BY <2>1, <3>1, <4>1 DEF WaitEvents, ErrorsFit
    <3>2. CASE SwapRearms \/ AcceptDone
      BY <2>1, <3>2 DEF SwapRearms, AcceptDone, AcceptLast, PartingInv, ErrorsFit
    <3>3. QED
      BY <1>3, <3>1, <3>2
  <2>4. EndIsExpected'
    BY <1>1, <2>1 DEF PartingInv, EndIsExpected
  <2>5. QED
    BY <1>2, <2>1, <2>2, <2>3, <2>4 DEF PartingInv
<1>4. CASE AcceptAborted
  <2>1. PICK c \in Conns : WasReset(c) /\ sock' = [sock EXCEPT ![c].link = "closed"]
    BY <1>4 DEF AcceptAborted, Backlog
  <2>2. /\ UNCHANGED <<conn, connections, rearms, pendingRearms>> /\ events' \subseteq events
    BY <1>4 DEF AcceptAborted, AcceptLast
  <2>3. /\ \A d \in Conns : sock'[d] = sock[d] \/ sock'[d] = [sock[d] EXCEPT !.link = "closed"]
        /\ \A d \in Conns : d # c => sock'[d] = sock[d]
    BY <1>0, <2>1
  <2>4. /\ \A d \in Conns : Parting(d)'
        /\ \A w \in Workers : Knows(w)'
        /\ \A d \in Conns : sock'[d].peer = sock[d].peer
    BY <1>2, <2>2, <2>3
  <2>5. ClosesFit'
    <3>1. \A r \in Elements(rearms) \cup Elements(pendingRearms) : connections[r.fd] \in Conns
      BY <1>0, KnownFds
    <3>2. QED
      BY <2>2, <2>4, <3>1 DEF PartingInv, ClosesFit, MayClose
  <2>6. ErrorsFit'
    <3>1. \A e \in events : e.error => connections[e.fd] \in Conns
      BY <1>0, KnownFds DEF DispatchInv, EventsArmed, TypeInv, TypeOK, IoEvent, ListenEvent
    <3>2. QED
      BY <2>2, <2>4, <3>1 DEF PartingInv, ErrorsFit
  <2>7. EndIsExpected'
    <3>1. sock'[c].peer # "open"
      BY <2>1, <2>4 DEF WasReset
    <3>2. QED
      BY <1>1, <2>2, <2>3, <3>1 DEF PartingInv, EndIsExpected
  <2>8. QED
    BY <2>4, <2>5, <2>6, <2>7 DEF PartingInv
\* Closing the connection of f.
<1>5. ASSUME NEW f \in Fds, NEW c \in Conns, connections[f] = c, EraseConnection(f), conn' = conn,
             f \notin HandledFds, MayClose(c),
             events' \subseteq events, \A e \in events' : e.fd # f,
             Elements(rearms') \cup Elements(pendingRearms')
               \subseteq Elements(rearms) \cup Elements(pendingRearms),
             \A r \in Elements(rearms') \cup Elements(pendingRearms') : r.fd # f
      PROVE  PartingInv'
  <2>1. /\ sock' = [sock EXCEPT ![c].link = "closed"]
        /\ \A g \in Fds \ {f} : connections'[g] = connections[g]
    BY <1>0, <1>5 DEF EraseConnection
  <2>2. /\ \A d \in Conns : sock'[d] = sock[d] \/ sock'[d] = [sock[d] EXCEPT !.link = "closed"]
        /\ \A d \in Conns : d # c => sock'[d] = sock[d]
    BY <1>0, <2>1
  <2>3. /\ \A d \in Conns : Parting(d)'
        /\ \A w \in Workers : Knows(w)'
        /\ \A d \in Conns : sock'[d].peer = sock[d].peer /\ sock'[d].outq = sock[d].outq
    BY <1>2, <1>5, <2>2
  <2>4. ClosesFit'
    <3>1. ASSUME NEW r \in Elements(rearms') \cup Elements(pendingRearms'), r.action = "Close"
          PROVE  MayClose(connections[r.fd])'
      <4>1. /\ r \in Elements(rearms) \cup Elements(pendingRearms) /\ r.fd # f
        BY <1>5, <3>1
      <4>2. r.fd \in Fds /\ connections[r.fd] \in Conns
        BY <1>0, <4>1, KnownFds
      <4>3. connections'[r.fd] = connections[r.fd] /\ MayClose(connections[r.fd])
        BY <2>1, <3>1, <4>1, <4>2 DEF PartingInv, ClosesFit
      <4>4. QED
        BY <1>5, <2>3, <4>2, <4>3 DEF MayClose
    <3>2. QED
      BY <3>1 DEF ClosesFit
  <2>5. ErrorsFit'
    <3>1. ASSUME NEW e \in events', e.error PROVE sock'[connections'[e.fd]].peer # "open"
      <4>1. e \in events /\ e.fd # f /\ e # ListenEvent
        BY <1>5, <3>1 DEF ListenEvent
      <4>2. e.fd \in Fds /\ connections[e.fd] \in Conns
        BY <1>0, <4>1, KnownFds DEF DispatchInv, EventsArmed, TypeInv, TypeOK, IoEvent
      <4>3. connections'[e.fd] = connections[e.fd]
        BY <2>1, <4>1, <4>2
      <4>4. QED
        BY <2>3, <3>1, <4>1, <4>2, <4>3 DEF PartingInv, ErrorsFit
    <3>2. QED
      BY <3>1 DEF ErrorsFit
  <2>6. EndIsExpected'
    <3>1. sock[c].peer = "open" => /\ client[c].got + sock[c].outq = client[c].asked * RespLen
                                   /\ Expects(c)
      BY <1>5, PaidWhenClosed
    <3>2. ASSUME NEW d \in Conns, sock'[d].link = "closed", sock'[d].peer = "open"
          PROVE  /\ client'[d].got + sock'[d].outq = client'[d].asked * RespLen
                 /\ conn'[d].header = "close" \/ client'[d].phase = "last"
      <4>1. CASE d = c
        BY <1>1, <1>5, <2>3, <3>1, <3>2, <4>1 DEF Expects
      <4>2. CASE d # c
        BY <1>1, <1>5, <2>2, <3>2, <4>2 DEF PartingInv, EndIsExpected
      <4>3. QED
        BY <4>1, <4>2
    <3>3. QED
      BY <3>2 DEF EndIsExpected
  <2>7. QED
    BY <2>3, <2>4, <2>5, <2>6 DEF PartingInv
\* Steps that leave connections, sockets and Connections alone.
<1>6. ASSUME UNCHANGED <<conn, sock, connections>>, events' \subseteq events,
             Elements(rearms') \cup Elements(pendingRearms')
               \subseteq Elements(rearms) \cup Elements(pendingRearms)
      PROVE  PartingInv'
  <2>1. ClosesFit' /\ ErrorsFit' /\ EndIsExpected'
    BY <1>1, <1>6 DEF PartingInv, ClosesFit, ErrorsFit, EndIsExpected, MayClose
  <2>2. QED
    BY <1>2, <1>6, <2>1 DEF PartingInv
<1>7. CASE ApplyRearm
  <2>1. PICK r : r = Head(rearms)
    OBVIOUS
  <2>2. /\ rearms \in Seq(PendingRearm) /\ rearms # <<>> /\ DistinctFds(rearms)
        /\ rearms' = Tail(rearms) /\ pendingRearms' = pendingRearms /\ conn' = conn
        /\ events' = events /\ events = {}
    BY <1>0, <1>7 DEF ApplyRearm, DispatchInv, NoDuplicates, OnePhase, TypeInv, TypeOK
  <2>3. /\ Elements(Tail(rearms)) = Elements(rearms) \ {r} /\ r \in Elements(rearms)
    <3>1. Distinct(rearms)
      BY <2>2 DEF Distinct, DistinctFds
    <3>2. QED
      BY <2>1, <2>2, <3>1, QueueOps, Zenon
  <2>4. /\ r.fd \in Fds /\ connections[r.fd] \in Conns /\ r.fd \notin HandledFds
    BY <1>0, <2>3, KnownFds
  <2>5. /\ \A s \in Elements(rearms) : s # r => s.fd # r.fd
        /\ \A s \in Elements(pendingRearms) : s.fd # r.fd
    <3>1. \A s \in Elements(rearms) : s # r => s.fd # r.fd
      BY <2>2, <2>3 DEF Elements, DistinctFds
    <3>2. \A s \in Elements(pendingRearms) : s.fd # r.fd
      <4>1. r.fd \in RearmFds(rearms) /\ \A s \in Elements(pendingRearms) : s.fd \in RearmFds(pendingRearms)
        BY <2>3 DEF Elements, RearmFds
      <4>2. QED
        BY <1>0, <4>1 DEF DispatchInv, Divided
    <3>3. QED
      BY <3>1, <3>2
  <2>6. CASE EraseConnection(r.fd) /\ r.action = "Close"
    <3>1. PICK c \in Conns : c = connections[r.fd]
      BY <2>4
    <3>2. MayClose(c)
      BY <2>3, <2>6, <3>1 DEF PartingInv, ClosesFit
    <3>3. /\ Elements(rearms') \cup Elements(pendingRearms')
               \subseteq Elements(rearms) \cup Elements(pendingRearms)
          /\ \A s \in Elements(rearms') \cup Elements(pendingRearms') : s.fd # r.fd
      BY <2>2, <2>3, <2>5
    <3>4. QED
      BY <1>5, <2>2, <2>4, <2>6, <3>1, <3>2, <3>3
  <2>7. CASE UNCHANGED <<connections, sock>>
    BY <1>6, <2>2, <2>3, <2>7
  <2>8. QED
    BY <1>7, <2>1, <2>6, <2>7 DEF ApplyRearm
<1>8. ASSUME NEW e \in events, HandleEvent(e) PROVE PartingInv'
  <2>1. /\ e # ListenEvent /\ e.fd \in Fds /\ interest[e.fd] \in {"Readable", "Writable"}
        /\ connections[e.fd] \in Conns
    BY <1>0, <1>8, KnownFds DEF HandleEvent, DispatchEvent, DispatchInv, EventsArmed, TypeInv, TypeOK, IoEvent
  <2>2. /\ conn' = conn /\ rearms' = rearms /\ pendingRearms' = pendingRearms
        /\ events' = events \ {e} /\ \A d \in events' : d.fd # e.fd
    BY <1>0, <1>8 DEF HandleEvent, DispatchEvent, DispatchInv, EventsArmed
  <2>3. CASE EraseConnection(e.fd) /\ e.error
    <3>1. PICK c \in Conns : c = connections[e.fd]
      BY <2>1
    <3>2. MayClose(c)
      BY <2>3, <3>1 DEF PartingInv, ErrorsFit, MayClose
    <3>3. e.fd \notin HandledFds
      BY <1>0, <2>1, KnownFds
    <3>4. \A r \in Elements(rearms') \cup Elements(pendingRearms') : r.fd # e.fd
      BY <1>0, <2>1, <2>2, KnownFds
    <3>5. QED
      BY <1>5, <2>1, <2>2, <2>3, <3>1, <3>2, <3>3, <3>4
  <2>4. CASE UNCHANGED <<connections, sock>>
    BY <1>6, <2>2, <2>4
  <2>5. QED
    BY <1>8, <2>3, <2>4 DEF HandleEvent, DispatchEvent
<1>9. CASE AcceptOne
  <2>1. PICK d \in Conns, f \in FreeFds :
          /\ sock[d].link = "backlog"
          /\ connections' = [connections EXCEPT ![f] = d]
          /\ sock' = [sock EXCEPT ![d].link = "open"]
          /\ conn' = [conn EXCEPT ![d] = NewConnection]
    BY <1>9 DEF AcceptOne, Backlog
  <2>2. /\ f \in Fds /\ connections[f] = NoConn /\ interest[f] = "none"
        /\ UNCHANGED <<rearms, pendingRearms, events>>
    BY <1>0, <1>9, <2>1 DEF FreeFds, AcceptOne, DispatchInv, Registered
  <2>3. /\ \A c \in Conns \ {d} : conn'[c] = conn[c] /\ sock'[c] = sock[c]
        /\ conn'[d] = NewConnection
        /\ \A c \in Conns : /\ sock'[c].peer = sock[c].peer /\ sock'[c].inq = sock[c].inq
                            /\ sock'[c].outq = sock[c].outq
        /\ sock'[d].link = "open"
        /\ \A g \in Fds \ {f} : connections'[g] = connections[g]
    BY <1>0, <2>1, <2>2 DEF SocketRec
  <2>4. \A g \in Fds : connections[g] # d
    BY <1>0, <2>1 DEF OneFdPerConn
  <2>5. \A c \in Conns : Parting(c)'
    BY <1>0, <1>1, <2>3 DEF Parting, Expects, WasReset, NewConnection, FreshParser
  <2>6. \A w \in Workers : Knows(w)'
    <3>1. ASSUME NEW w \in Workers, Holding(w) PROVE worker[w].conn \in Conns \ {d}
      BY <1>0, <2>4, <3>1, HoldingFacts
    <3>2. QED
      BY <1>0, <1>1, <2>3, <3>1 DEF Knows, Holding
  <2>7. ClosesFit'
    <3>1. ASSUME NEW r \in Elements(rearms) \cup Elements(pendingRearms), r.action = "Close"
          PROVE  MayClose(connections[r.fd])'
      <4>1. r.fd \in Fds \ {f} /\ connections[r.fd] \in Conns \ {d}
        BY <1>0, <2>2, <2>4, KnownFds
      <4>2. MayClose(connections[r.fd])
        BY <3>1 DEF PartingInv, ClosesFit
      <4>3. QED
        BY <2>3, <4>1, <4>2 DEF MayClose
    <3>2. QED
      BY <2>2, <3>1 DEF ClosesFit
  <2>8. ErrorsFit'
    <3>1. ASSUME NEW e \in events, e.error PROVE sock'[connections'[e.fd]].peer # "open"
      <4>1. e.fd \in Fds \ {f} /\ connections[e.fd] \in Conns
        BY <1>0, <2>2, <3>1, KnownFds DEF DispatchInv, EventsArmed, TypeInv, TypeOK, IoEvent, ListenEvent
      <4>2. QED
        BY <2>3, <3>1, <4>1 DEF PartingInv, ErrorsFit
    <3>2. QED
      BY <2>2, <3>1 DEF ErrorsFit
  <2>9. EndIsExpected'
    BY <1>1, <2>3 DEF PartingInv, EndIsExpected
  <2>10. QED
    BY <2>5, <2>6, <2>7, <2>8, <2>9 DEF PartingInv
<1>10. QED
  BY <1>3, <1>4, <1>7, <1>8, <1>9 DEF ReactorStep

\* A client that expects the end sends nothing more, and one that is gone stays so.
LEMMA ClientParts ==
  ASSUME PartingInv, OwedInv', NEW d \in Conns, ClientStep(d)
  PROVE  PartingInv'
<1>0. /\ TypeInv /\ DispatchInv /\ OneFdPerConn /\ ConnectionInv("server")
      /\ \A c \in Conns : Parting(c)
      /\ \A w \in Workers : Knows(w)
      /\ sock \in [Conns -> SocketRec] /\ conn \in [Conns -> ConnectionRec]
      /\ client \in [Conns -> ClientRec]
      /\ Accounted(d)
  BY DEF PartingInv, OwedInv, ConnectionInv, DispatchInv, TypeInv, TypeOK
<1>1. UNCHANGED <<reactorVars, pendingRearms, queue, worker, conn>>
  BY DEF ClientStep
<1>2. /\ sock[d] \in SocketRec /\ client[d] \in ClientRec
      /\ sock[d].inq \in Seq(Segments) /\ sock[d].outq \in Nat /\ client[d].got \in Nat
  BY <1>0, AccountTypes
<1>3. \A c \in Conns \ {d} : sock'[c] = sock[c] /\ client'[c] = client[c]
  BY <1>0 DEF ClientStep, ClientConnects, ClientSendsPart, ClientSendsFinal, ClientReads,
              ClientFin, ClientReset
\* What each step means for the client's own connection.
<1>4. /\ client[d].phase = "last" => client'[d].phase = "last"
      /\ sock[d].peer # "open" => sock'[d].peer # "open"
      /\ WasReset(d) => WasReset(d)'
      /\ Parting(d)'
      /\ sock'[d].link = "closed" /\ sock'[d].peer = "open" =>
             /\ sock[d].link = "closed" /\ sock[d].peer = "open"
             /\ client'[d].got + sock'[d].outq = client[d].got + sock[d].outq
             /\ client'[d].asked = client[d].asked
  <2>1. CASE ClientConnects(d)
    <3>1. /\ sock'[d].inq = sock[d].inq /\ sock'[d].peer = sock[d].peer /\ sock'[d].link = "backlog"
          /\ client' = client
      BY <1>0, <1>2, <2>1 DEF ClientConnects, SocketRec
    <3>2. QED
      BY <1>0, <1>1, <3>1 DEF Parting, Expects, WasReset
  <2>2. CASE ClientReads(d)
    <3>1. /\ sock'[d].inq = sock[d].inq /\ sock'[d].peer = sock[d].peer
          /\ sock'[d].link = sock[d].link /\ sock'[d].outq = sock[d].outq - 1
          /\ client'[d].got = client[d].got + 1 /\ client'[d].phase = client[d].phase
          /\ client'[d].asked = client[d].asked
      BY <1>0, <1>2, <2>2 DEF ClientReads, SocketRec, ClientRec
    <3>2. client'[d].got + sock'[d].outq = client[d].got + sock[d].outq
      BY <1>2, <3>1
    <3>3. QED
      BY <1>0, <1>1, <3>1, <3>2 DEF Parting, Expects, WasReset
  <2>3. CASE ClientFin(d) \/ ClientReset(d)
    <3>1. PICK p \in {"fin", "reset", "fin_reset"} : sock' = [sock EXCEPT ![d].peer = p]
      BY <2>3 DEF ClientFin, ClientReset
    <3>2. /\ sock'[d].inq = sock[d].inq /\ sock'[d].peer = p /\ client' = client
          /\ sock[d].link \in {"backlog", "open"} /\ sock'[d].link = sock[d].link
      BY <1>0, <1>2, <2>3, <3>1 DEF ClientFin, ClientReset, SocketRec
    <3>3. WasReset(d) => WasReset(d)'
      <4>1. CASE ClientFin(d)
        BY <4>1 DEF ClientFin, WasReset
      <4>2. CASE ClientReset(d)
        <5>1. sock'[d].peer \in {"reset", "fin_reset"}
          BY <1>0, <1>2, <4>2 DEF ClientReset, SocketRec
        <5>2. QED
          BY <5>1 DEF WasReset
      <4>3. QED
        BY <2>3, <4>1, <4>2
    <3>4. QED
      BY <1>0, <1>1, <3>2, <3>3 DEF Parting, Expects
  <2>4. CASE ClientSendsPart(d) \/ ClientSendsFinal(d)
    <3>1. CanSend(d) /\ client[d].phase # "last" /\ conn[d].header = "keep-alive"
      BY <2>4 DEF ClientSendsPart, ClientSendsFinal, CanSend
    <3>2. PICK s \in Segments : /\ sock' = [sock EXCEPT ![d].inq = Append(sock[d].inq, s)]
                                /\ s \in {"close", "bad"} => client'[d].phase = "last"
      <4>1. CASE ClientSendsPart(d)
        <5>1. sock' = [sock EXCEPT ![d].inq = Append(sock[d].inq, "part")]
          BY <1>0, <4>1 DEF ClientSendsPart
        <5>2. "part" \in Segments /\ "part" \notin {"close", "bad"}
          BY DEF Segments
        <5>3. QED
          BY <5>1, <5>2, Zenon
      <4>2. CASE ClientSendsFinal(d)
        <5>1. PICK s \in FinalSegments :
                /\ sock' = [sock EXCEPT ![d].inq = Append(sock[d].inq, s)]
                /\ client' = [client EXCEPT ![d].phase = IF s = "keep" THEN "idle" ELSE "last",
                                            ![d].asked = client[d].asked + 1]
          BY <1>0, <4>2 DEF ClientSendsFinal
        <5>2. client'[d].phase = IF s = "keep" THEN "idle" ELSE "last"
          BY <1>0, <1>2, <5>1 DEF ClientRec
        <5>3. QED
          BY <5>1, <5>2 DEF Segments
      <4>3. QED
        BY <2>4, <4>1, <4>2
    <3>3. PICK q : q = Append(sock[d].inq, s)
      OBVIOUS
    <3>4. /\ sock'[d].inq = q /\ sock'[d].peer = sock[d].peer /\ sock'[d].link = sock[d].link
      BY <1>0, <1>2, <3>2, <3>3 DEF SocketRec
    <3>5. /\ Len(q) = Len(sock[d].inq) + 1 /\ q[Len(q)] = s
          /\ \A i \in 1..Len(sock[d].inq) : q[i] = sock[d].inq[i]
      BY <1>2, <3>2, <3>3
    <3>6. /\ conn[d].pendingKeepAlive /\ conn[d].parser.keepAlive
          /\ \A i \in 1..Len(sock[d].inq) : sock[d].inq[i] \notin {"close", "bad"}
      BY <1>0, <3>1 DEF Parting, Expects
    <3>7. \A i \in 1..Len(q) : q[i] \in {"close", "bad"} => client'[d].phase = "last"
      <4>1. Len(sock[d].inq) \in Nat
        BY <1>2
      <4>2. \A i \in 1..Len(q) : i \in 1..Len(sock[d].inq) \/ i = Len(q)
        BY <3>5, <4>1
      <4>3. QED
        BY <3>2, <3>5, <3>6, <4>2
    <3>8. Parting(d)'
      BY <1>1, <3>4, <3>6, <3>7 DEF Parting
    <3>9. sock'[d].link # "closed"
      BY <3>1, <3>4 DEF CanSend
    <3>10. QED
      BY <3>1, <3>4, <3>8, <3>9 DEF WasReset
  <2>5. QED
    BY <2>1, <2>2, <2>3, <2>4 DEF ClientStep
<1>5. \A c \in Conns : Parting(c)'
  <2>1. ASSUME NEW c \in Conns \ {d} PROVE Parting(c)'
    BY <1>0, <1>1, <1>3, <2>1 DEF Parting, Expects, WasReset
  <2>2. QED
    BY <1>4, <2>1
<1>6. \A c \in Conns : /\ client[c].phase = "last" => client'[c].phase = "last"
                       /\ sock[c].peer # "open" => sock'[c].peer # "open"
  BY <1>3, <1>4
<1>7. \A w \in Workers : Knows(w)'
  <2>1. \A w \in Workers : Holding(w) => worker[w].conn \in Conns
    BY <1>0 DEF TypeInv, WorkerLocals
  <2>2. QED
    BY <1>0, <1>1, <1>6, <2>1 DEF Knows, Holding
<1>8. ClosesFit'
  <2>1. \A r \in Elements(rearms) \cup Elements(pendingRearms) : connections[r.fd] \in Conns
    BY <1>0, KnownFds
  <2>2. QED
    BY <1>1, <1>6, <2>1 DEF PartingInv, ClosesFit, MayClose
<1>9. ErrorsFit'
  <2>1. \A e \in events : e.error => connections[e.fd] \in Conns
    BY <1>0, KnownFds DEF DispatchInv, EventsArmed, TypeInv, TypeOK, IoEvent, ListenEvent
  <2>2. QED
    BY <1>1, <1>6, <2>1 DEF PartingInv, ErrorsFit
<1>10. EndIsExpected'
  <2>1. ASSUME NEW c \in Conns, sock'[c].link = "closed", sock'[c].peer = "open"
        PROVE  /\ client'[c].got + sock'[c].outq = client'[c].asked * RespLen
               /\ conn'[c].header = "close" \/ client'[c].phase = "last"
    <3>1. CASE c = d
      BY <1>1, <1>4, <2>1, <3>1 DEF PartingInv, EndIsExpected
    <3>2. CASE c # d
      BY <1>1, <1>3, <2>1, <3>2 DEF PartingInv, EndIsExpected
    <3>3. QED
      BY <3>1, <3>2
  <2>2. QED
    BY <2>1 DEF EndIsExpected
<1>11. QED
  BY <1>5, <1>7, <1>8, <1>9, <1>10 DEF PartingInv

\* Before the first step no connection has begun.
LEMMA InitParting == Init => PartingInv
<1> SUFFICES ASSUME Init PROVE PartingInv
  OBVIOUS
<1>1. \A c \in Conns : Parting(c)
  BY DEF Init, Parting, NewConnection, FreshParser
<1>2. \A w \in Workers : Knows(w)
  BY DEF Init, Knows, IdleWorker
<1>3. ClosesFit /\ ErrorsFit /\ EndIsExpected
  BY DEF Init, ClosesFit, ErrorsFit, EndIsExpected, Elements
<1>4. QED
  BY <1>1, <1>2, <1>3, InitOwed DEF PartingInv

\* The inductive step.
LEMMA NextParting ==
  ASSUME DisarmedIsSilent, PartingInv, [HonestProgram]_vars
  PROVE  PartingInv'
<1>1. OwedInv'
  BY HonestIsProgram, NextOwed DEF PartingInv
<1>2. CASE UNCHANGED vars
  <2>1. ClosesFit' /\ ErrorsFit' /\ EndIsExpected'
    BY <1>2 DEF vars, PartingInv, ClosesFit, ErrorsFit, EndIsExpected, MayClose
  <2>2. (\A c \in Conns : Parting(c)') /\ \A w \in Workers : Knows(w)'
    BY <1>2 DEF vars, PartingInv, Parting, Expects, WasReset, Knows
  <2>3. QED
    BY <1>1, <2>1, <2>2 DEF PartingInv
<1>3. QED
  BY <1>1, <1>2, HonestIsProgram, HonestWorker, ReactorParts, ClientParts DEF HonestProgram

\* The server never ends a connection under a client that is still there without having
\* answered every request in full and without the client expecting it.
THEOREM ServerEndsAsExpected ==
  ASSUME DisarmedIsSilent
  PROVE  Spec => []EndIsExpected
<1>1. PartingInv /\ [Next]_vars => PartingInv'
  <2>1. PartingInv => TypeInv
    BY DEF PartingInv, OwedInv, ConnectionInv, DispatchInv
  <2>2. QED
    BY <2>1, DisarmedIsSilent, ServerIsHonest, NextParting
<1>2. PartingInv => EndIsExpected
  BY DEF PartingInv
<1>3. QED
  BY <1>1, <1>2, InitParting, PTL DEF Spec

\* The same of the balancer, whatever Connection header an upstream's response brings
\* and however a request is refused: a client whose connection is closed has its
\* responses complete, and has been told or has asked for it.
THEOREM BalancerEndsAsExpected ==
  ASSUME DisarmedIsSilent
  PROVE  BalancerSpec => []EndIsExpected
<1>1. PartingInv /\ [BalancerNext]_vars => PartingInv'
  <2>1. PartingInv => TypeInv
    BY DEF PartingInv, OwedInv, ConnectionInv, DispatchInv
  <2>2. QED
    BY <2>1, DisarmedIsSilent, BalancerIsHonest, NextParting
<1>2. PartingInv => EndIsExpected
  BY DEF PartingInv
<1>3. QED
  BY <1>1, <1>2, InitParting, PTL DEF BalancerSpec

=============================================================================
