-------------------------- MODULE ConnectionProofs --------------------------
(***************************************************************************)
(* What a connection is like while it is in the hands of each thread, for  *)
(* both programs: what it waits for, what its parser has seen, and what it *)
(* owes its client.                                                        *)
(*                                                                         *)
(* The invariants follow a connection from hand to hand, so they rest on   *)
(* DispatchInv: only the thread that has an fd changes its Connection.     *)
(* They take the program as a parameter, for the balancer promises more    *)
(* than the server: it waits for the next request only on a connection     *)
(* that is kept alive.                                                     *)
(***************************************************************************)
EXTENDS ReactorProofs

USE NoFdAssumption, NoConnAssumption, BackendAssumption, SizeAssumption, FaultAssumption
USE DEF reactorVars

\* The end of a request, where the programs differ: the balancer asks the connection
\* whether it is kept alive.
Concludes(w, p) ==
    \E b \in BOOLEAN : /\ p = "balancer" => b = conn[worker[w].conn].pendingKeepAlive
                       /\ FinishWith(w, "request", FreshParser, b)

HandlerStep(w, p) ==
    CommonWorkerStep(w) \/ Queues(w) \/ Connects(w) \/ Concludes(w, p) \/ Dies

ProgramNext(p) ==
    \/ ReactorStep
    \/ \E w \in Workers : HandlerStep(w, p)
    \/ \E c \in Conns : ClientStep(c)

-----------------------------------------------------------------------------
(* The inductive invariant *)

\* A connection is in the map under one fd, from accept() to close().
OneFdPerConn ==
    /\ \A f, g \in Fds : connections[f] = connections[g] => f = g \/ connections[f] = NoConn
    /\ \A f \in Fds : connections[f] # NoConn => sock[connections[f]].link = "open"

\* The Connection k is ready for the next bytes of a request.
Quiet(k, p) ==
    /\ k.unsent = 0
    /\ k.parser.state = "Incomplete"
    /\ p = "balancer" => k.pendingKeepAlive = TRUE

\* It is either in the middle of a response or ready for the next bytes.
Resumable(k, p) == k.unsent = 0 => Quiet(k, p)

ConnAt(f) == conn[connections[f]]

ArmedInv(p) ==
    \A f \in Fds : /\ interest[f] = "Readable" => Quiet(ConnAt(f), p)
                   /\ interest[f] = "Writable" => ConnAt(f).unsent > 0

QueuedInv(p) == \A f \in TaskFds : Resumable(ConnAt(f), p)

\* A re-arm says what its connection needs.
RearmFits(r, p) ==
    /\ r.action = "WaitReadable" => Quiet(ConnAt(r.fd), p)
    /\ r.action = "WaitWritable" => ConnAt(r.fd).unsent > 0

PostedInv(p) == \A r \in Elements(rearms) \cup Elements(pendingRearms) : RearmFits(r, p)

\* What a worker at label l knows about its Connection k.
Fits(l, k, p) ==
    /\ l \in {"lookup", "ready"} => Resumable(k, p)
    /\ l = "parse" => Quiet(k, p)
    /\ l \in {"serve", "exchange", "finish"} => k.unsent = 0
    /\ l = "flush" => k.unsent > 0

WorkerFits(w, p) == Fits(worker[w].pc, ConnAt(worker[w].fd), p)

HandledInv(p) == \A w \in Workers : WorkerFits(w, p)

ConnectionInv(p) ==
    /\ DispatchInv
    /\ OneFdPerConn
    /\ ArmedInv(p)
    /\ QueuedInv(p)
    /\ PostedInv(p)
    /\ HandledInv(p)

-----------------------------------------------------------------------------
(* Facts about the state *)

\* The handler of either program is a case of CoreWorkerStep.
LEMMA HandlerIsCore ==
  ASSUME NEW p, NEW w \in Workers, HandlerStep(w, p)
  PROVE  CoreWorkerStep(w)
  BY DEF HandlerStep, CoreWorkerStep, Concludes, Finishes

\* So is its next-state relation.
LEMMA ProgramIsCore ==
  ASSUME NEW p, [ProgramNext(p)]_vars
  PROVE  [CoreNext]_vars
  BY HandlerIsCore DEF ProgramNext, CoreNext

\* A worker past the lookup holds the Connection that its fd maps to.
LEMMA HoldingFacts ==
  ASSUME DispatchInv, NEW w \in Workers, Holding(w)
  PROVE  /\ worker[w].fd \in Fds /\ worker[w].conn \in Conns
         /\ connections[worker[w].fd] = worker[w].conn
         /\ ConnAt(worker[w].fd) = conn[worker[w].conn]
         /\ worker[w].fd \in HandledFds /\ interest[worker[w].fd] = "off"
         /\ conn[worker[w].conn] \in ConnectionRec
         /\ sock[worker[w].conn] \in SocketRec
<1>1. worker[w].pc # "idle"
  BY DEF Holding
<1>2. worker[w].fd \in Fds /\ worker[w].fd \in HandledFds
  BY <1>1, BusyHandles
<1>3. interest[worker[w].fd] = "off"
  BY <1>2 DEF DispatchInv, Divided, OffFds
<1>4. worker[w].conn \in Conns /\ connections[worker[w].fd] = worker[w].conn
  BY DEF DispatchInv, TypeInv, WorkerLocals, ConnectionOutlivesHandler
<1>5. QED
  BY <1>2, <1>3, <1>4 DEF ConnAt, DispatchInv, TypeInv, TypeOK

\* An fd that is armed, queued, posted or handled is in the map.
LEMMA KnownFds ==
  ASSUME DispatchInv
  PROVE  /\ \A f \in Fds : interest[f] # "none" => connections[f] \in Conns
         /\ \A f \in TaskFds \cup HandledFds : f \in Fds /\ interest[f] = "off"
         /\ \A r \in Elements(rearms) \cup Elements(pendingRearms) :
                 r.fd \in Fds /\ interest[r.fd] = "off" /\ r.fd \notin HandledFds
<1>1. \A f \in Fds : interest[f] # "none" => connections[f] \in Conns
  BY DEF DispatchInv, Registered, TypeInv, TypeOK
<1>2. \A f \in TaskFds \cup HandledFds : f \in Fds /\ interest[f] = "off"
  BY DEF DispatchInv, Divided, OffFds
<1>3. \A r \in Elements(rearms) : r.fd \in RearmFds(rearms)
  BY DEF Elements, RearmFds
<1>4. \A r \in Elements(pendingRearms) : r.fd \in RearmFds(pendingRearms)
  BY DEF Elements, RearmFds
<1>5. QED
  BY <1>1, <1>2, <1>3, <1>4 DEF DispatchInv, Divided, OffFds

\* No two workers hold the same Connection.
LEMMA OneWorkerPerConn ==
  ASSUME DispatchInv, OneFdPerConn, NEW v \in Workers, NEW w \in Workers,
         Holding(v), Holding(w), worker[v].conn = worker[w].conn
  PROVE  v = w
<1>1. /\ worker[v].fd \in Fds /\ worker[w].fd \in Fds
      /\ connections[worker[v].fd] = connections[worker[w].fd]
      /\ connections[worker[v].fd] # NoConn
  BY HoldingFacts
<1>2. worker[v].fd = worker[w].fd
  BY <1>1 DEF OneFdPerConn
<1>3. QED
  BY <1>1, <1>2 DEF DispatchInv, NoDuplicates

\* What a worker writes through its Connection* no other fd leads to.
LEMMA OthersKeepConn ==
  ASSUME DispatchInv, OneFdPerConn, NEW w \in Workers, Holding(w), connections' = connections,
         \A c \in Conns \ {worker[w].conn} : conn'[c] = conn[c],
         NEW f \in Fds, f # worker[w].fd, interest[f] # "none"
  PROVE  ConnAt(f)' = ConnAt(f)
<1>1. connections[f] \in Conns /\ connections[f] # NoConn
  BY KnownFds
<1>2. /\ worker[w].fd \in Fds /\ connections[worker[w].fd] = worker[w].conn
  BY HoldingFacts
<1>3. connections[f] # worker[w].conn
  BY <1>1, <1>2 DEF OneFdPerConn
<1>4. QED
  BY <1>1, <1>3 DEF ConnAt

-----------------------------------------------------------------------------
(* Worker steps: one lemma for each way in which a worker moves on, then   *)
(* what each branch of the handler establishes.                            *)

\* The workers' calls on their sockets neither open nor close them.
LEMMA WorkerKeepsLinks ==
  ASSUME TypeInv, NEW w \in Workers, CoreWorkerStep(w)
  PROVE  \A c \in Conns : sock'[c].link = sock[c].link
<1>t. sock \in [Conns -> SocketRec]
  BY DEF TypeInv, TypeOK
<1>1. CASE RecvData(w)
  <2>1. PICK s, q : sock' = [sock EXCEPT ![s].inq = q]
    BY <1>1 DEF RecvData
  <2>2. QED
    BY <1>t, <2>1 DEF SocketRec
<1>2. CASE SendSome(w)
  <2>1. PICK s, n : sock' = [sock EXCEPT ![s].outq = n]
    BY <1>2 DEF SendSome, SendCounting
  <2>2. QED
    BY <1>t, <2>1 DEF SocketRec
<1>3. CASE ~RecvData(w) /\ ~SendSome(w)
  <2>1. sock' = sock
    BY <1>3 DEF CoreWorkerStep, CommonWorkerStep, TakeTask, LookupConnection, ResumeFlush,
                RecvAgain, RecvClosed, RecvEnds, ParseMore, ParseError, ParseComplete, SendAgain,
                SendBlocked, SendFails, SendRaisesSigpipe, FinishResume, FinishBad, FinishWith,
                Queues, Connects, Finishes, Dies
  <2>2. QED
    BY <2>1
<1>4. QED
  BY <1>1, <1>2, <1>3

\* A worker that goes on has to know the right thing at its next label.
LEMMA AdvanceConn ==
  ASSUME NEW p, ConnectionInv(p), NEW w \in Workers, Advances(w),
         \A c \in Conns \ {worker[w].conn} : conn'[c] = conn[c],
         WorkerFits(w, p)'
  PROVE  ArmedInv(p)' /\ QueuedInv(p)' /\ PostedInv(p)' /\ HandledInv(p)'
<1> USE DEF ConnectionInv
<1>1. /\ Holding(w) /\ connections' = connections /\ interest' = interest /\ rearms' = rearms
      /\ queue' = queue /\ pendingRearms' = pendingRearms
  BY DEF Advances
<1>2. worker[w].fd \in HandledFds /\ interest[worker[w].fd] = "off"
  BY <1>1, HoldingFacts
<1>3. \A f \in Fds : f # worker[w].fd /\ interest[f] # "none" => ConnAt(f)' = ConnAt(f)
  BY <1>1, OthersKeepConn
<1>4. ArmedInv(p)'
  BY <1>1, <1>2, <1>3 DEF ArmedInv
<1>5. QueuedInv(p)'
  <2>1. \A f \in TaskFds : f \in Fds /\ f # worker[w].fd /\ interest[f] # "none"
    BY <1>2, KnownFds DEF DispatchInv, Divided
  <2>2. TaskFds' = TaskFds
    BY <1>1 DEF TaskFds
  <2>3. QED
    BY <1>3, <2>1, <2>2 DEF QueuedInv
<1>6. PostedInv(p)'
  <2>1. \A r \in Elements(rearms) \cup Elements(pendingRearms) :
           r.fd \in Fds /\ r.fd # worker[w].fd /\ interest[r.fd] # "none"
    BY <1>2, KnownFds
  <2>2. QED
    BY <1>1, <1>3, <2>1 DEF PostedInv, RearmFits
<1>7. HandledInv(p)'
  <2>1. ASSUME NEW v \in Workers, v # w PROVE WorkerFits(v, p)'
    <3>1. worker'[v] = worker[v] /\ WorkerFits(v, p)
      BY <2>1 DEF Advances, HandledInv
    <3>2. CASE worker[v].pc = "idle"
      BY <3>1, <3>2 DEF WorkerFits, Fits
    <3>3. CASE worker[v].pc # "idle"
      <4>1. worker[v].fd \in Fds /\ worker[v].fd # worker[w].fd /\ interest[worker[v].fd] # "none"
        BY <1>2, <2>1, <3>3, BusyHandles, KnownFds DEF DispatchInv, NoDuplicates
      <4>2. ConnAt(worker[v].fd)' = ConnAt(worker[v].fd)
        BY <1>3, <3>1, <4>1
      <4>3. QED
        BY <3>1, <4>2 DEF WorkerFits
    <3>4. QED
      BY <3>2, <3>3
  <2>2. QED
    BY <2>1 DEF HandledInv
<1>8. QED
  BY <1>4, <1>5, <1>6, <1>7

\* A worker that returns has to have posted what its connection needs.
LEMMA AnswerConn ==
  ASSUME NEW p, ConnectionInv(p), NEW w \in Workers, Holding(w), Return(w),
         NEW a \in RearmActions, PostRearm(worker[w].fd, a),
         UNCHANGED <<rpc, rearms, events, connections, interest, queue>>,
         \A c \in Conns \ {worker[w].conn} : conn'[c] = conn[c],
         a = "WaitReadable" => Quiet(conn'[worker[w].conn], p),
         a = "WaitWritable" => conn'[worker[w].conn].unsent > 0
  PROVE  ArmedInv(p)' /\ QueuedInv(p)' /\ PostedInv(p)' /\ HandledInv(p)'
<1> USE DEF ConnectionInv
<1>2. /\ worker[w].fd \in HandledFds /\ interest[worker[w].fd] = "off" /\ worker[w].fd \in Fds
      /\ connections[worker[w].fd] = worker[w].conn
  BY HoldingFacts
<1>1. PICK r0 \in PendingRearm : r0 = [fd |-> worker[w].fd, action |-> a]
  BY <1>2 DEF PendingRearm
<1>3. \A f \in Fds : f # worker[w].fd /\ interest[f] # "none" => ConnAt(f)' = ConnAt(f)
  BY OthersKeepConn
<1>4. ArmedInv(p)'
  BY <1>2, <1>3 DEF ArmedInv
<1>5. QueuedInv(p)'
  <2>1. \A f \in TaskFds : f \in Fds /\ f # worker[w].fd /\ interest[f] # "none"
    BY <1>2, KnownFds DEF DispatchInv, Divided
  <2>2. TaskFds' = TaskFds
    BY DEF TaskFds
  <2>3. QED
    BY <1>3, <2>1, <2>2 DEF QueuedInv
<1>6. PostedInv(p)'
  <2>1. \A r \in Elements(rearms) \cup Elements(pendingRearms) :
           r.fd \in Fds /\ r.fd # worker[w].fd /\ interest[r.fd] # "none"
    BY <1>2, KnownFds
  <2>2. \A r \in Elements(rearms) \cup Elements(pendingRearms) : RearmFits(r, p)'
    BY <1>3, <2>1 DEF PostedInv, RearmFits
  <2>3. ConnAt(r0.fd)' = conn'[worker[w].conn]
    BY <1>1, <1>2 DEF ConnAt
  <2>4. RearmFits(r0, p)'
    BY <1>1, <2>3 DEF RearmFits
  <2>5. Elements(pendingRearms') = Elements(pendingRearms) \cup {r0}
    <3>1. pendingRearms \in Seq(PendingRearm) /\ Distinct(pendingRearms)
      BY DEF DispatchInv, TypeInv, TypeOK, NoDuplicates, Distinct, DistinctFds
    <3>2. pendingRearms' = Append(pendingRearms, r0)
      BY <1>1 DEF PostRearm
    <3>3. QED
      BY <3>1, <3>2, QueueOps, Zenon
  <2>6. QED
    BY <2>2, <2>4, <2>5 DEF PostedInv
<1>7. HandledInv(p)'
  <2>1. ASSUME NEW v \in Workers, v # w PROVE WorkerFits(v, p)'
    <3>1. worker'[v] = worker[v] /\ WorkerFits(v, p)
      BY <2>1 DEF Return, HandledInv, DispatchInv, TypeInv, TypeOK
    <3>2. CASE worker[v].pc = "idle"
      BY <3>1, <3>2 DEF WorkerFits, Fits
    <3>3. CASE worker[v].pc # "idle"
      <4>1. worker[v].fd \in Fds /\ worker[v].fd # worker[w].fd /\ interest[worker[v].fd] # "none"
        BY <1>2, <2>1, <3>3, BusyHandles, KnownFds DEF DispatchInv, NoDuplicates
      <4>2. ConnAt(worker[v].fd)' = ConnAt(worker[v].fd)
        BY <1>3, <3>1, <4>1
      <4>3. QED
        BY <3>1, <4>2 DEF WorkerFits
    <3>4. QED
      BY <3>2, <3>3
  <2>2. worker'[w] = IdleWorker
    BY DEF Return, DispatchInv, TypeInv, TypeOK
  <2>3. WorkerFits(w, p)'
    BY <2>2 DEF WorkerFits, Fits, IdleWorker
  <2>4. QED
    BY <2>1, <2>3 DEF HandledInv
<1>8. QED
  BY <1>4, <1>5, <1>6, <1>7

\* Within the handler every step advances the worker or ends its task.
LEMMA StepAdvances ==
  ASSUME TypeInv, NEW w \in Workers, CoreWorkerStep(w), Holding(w), worker'[w].pc # "idle"
  PROVE  Advances(w)
<1>1. ~TakeTask(w) /\ ~LookupConnection(w)
  BY DEF Holding, TakeTask, LookupConnection
<1>2. ~Answers(w)
  BY DEF Answers, Return, IdleWorker, TypeInv, TypeOK
<1>3. Stops => Advances(w)
  BY DEF Stops, Advances, Holding, TypeInv, TypeOK
<1>4. QED
  BY <1>1, <1>2, <1>3, WorkerShapes

\* The two ways to go on within the handler, in terms of the Connection k that
\* the worker leaves behind.
LEMMA GoesOn ==
  ASSUME NEW p, ConnectionInv(p), NEW w \in Workers, CoreWorkerStep(w), Holding(w),
         worker'[w].pc # "idle",
         NEW k, conn' = [conn EXCEPT ![worker[w].conn] = k], Fits(worker'[w].pc, k, p)
  PROVE  ArmedInv(p)' /\ QueuedInv(p)' /\ PostedInv(p)' /\ HandledInv(p)'
<1>1. Advances(w)
  BY StepAdvances DEF ConnectionInv, DispatchInv
<1>2. /\ worker[w].conn \in Conns /\ connections[worker[w].fd] = worker[w].conn
      /\ conn \in [Conns -> ConnectionRec]
  BY HoldingFacts DEF ConnectionInv, DispatchInv, TypeInv, TypeOK
<1>3. \A c \in Conns \ {worker[w].conn} : conn'[c] = conn[c]
  BY <1>2
<1>4. ConnAt(worker[w].fd)' = k
  BY <1>1, <1>2 DEF Advances, ConnAt
<1>5. WorkerFits(w, p)'
  BY <1>4 DEF WorkerFits
<1>6. QED
  BY <1>1, <1>3, <1>5, AdvanceConn

\* A handler that ends by asking for a re-arm has left the connection as that wait needs it.
LEMMA Posts ==
  ASSUME NEW p, ConnectionInv(p), NEW w \in Workers, Holding(w), Return(w),
         NEW a \in RearmActions, PostRearm(worker[w].fd, a),
         UNCHANGED <<rpc, rearms, events, connections, interest, queue>>,
         NEW k, conn' = [conn EXCEPT ![worker[w].conn] = k],
         a = "WaitReadable" => Quiet(k, p),
         a = "WaitWritable" => k.unsent > 0
  PROVE  ArmedInv(p)' /\ QueuedInv(p)' /\ PostedInv(p)' /\ HandledInv(p)'
<1>1. worker[w].conn \in Conns /\ conn \in [Conns -> ConnectionRec]
  BY HoldingFacts DEF ConnectionInv, DispatchInv, TypeInv, TypeOK
<1>2. /\ conn'[worker[w].conn] = k
      /\ \A c \in Conns \ {worker[w].conn} : conn'[c] = conn[c]
  BY <1>1
<1>3. QED
  BY <1>2, AnswerConn

\* TakeTask and LookupConnection hand on what is known about the connection.
LEMMA TakeConn ==
  ASSUME NEW p, ConnectionInv(p), NEW w \in Workers, TakeTask(w) \/ LookupConnection(w)
  PROVE  ArmedInv(p)' /\ QueuedInv(p)' /\ PostedInv(p)' /\ HandledInv(p)'
<1> USE DEF ConnectionInv
<1>1. UNCHANGED <<connections, interest, rearms, pendingRearms, conn>>
  BY DEF TakeTask, LookupConnection
<1>2. \A f : ConnAt(f)' = ConnAt(f)
  BY <1>1 DEF ConnAt
<1>3. ArmedInv(p)' /\ PostedInv(p)'
  BY <1>1, <1>2 DEF ArmedInv, PostedInv, RearmFits
<1>4. worker \in [Workers -> WorkerRec]
  BY DEF DispatchInv, TypeInv, TypeOK
<1>5. CASE TakeTask(w)
  <2>1. /\ queue \in Seq(Fds) /\ queue # <<>> /\ queue' = Tail(queue) /\ Distinct(queue)
    BY <1>5 DEF TakeTask, DispatchInv, TypeInv, TypeOK, NoDuplicates
  <2>2. /\ TaskFds' = TaskFds \ {Head(queue)} /\ Head(queue) \in TaskFds
    BY <2>1, QueueOps, Zenon DEF TaskFds
  <2>3. /\ worker'[w].fd = Head(queue) /\ worker'[w].pc = "lookup"
        /\ \A v \in Workers \ {w} : worker'[v] = worker[v]
    BY <1>4, <1>5 DEF TakeTask, WorkerRec
  <2>4. WorkerFits(w, p)'
    BY <1>2, <2>2, <2>3 DEF WorkerFits, Fits, QueuedInv
  <2>5. QueuedInv(p)' /\ HandledInv(p)'
    BY <1>2, <2>2, <2>3, <2>4 DEF QueuedInv, HandledInv, WorkerFits
  <2>6. QED
    BY <1>3, <2>5
<1>6. CASE LookupConnection(w)
  <2>1. /\ worker'[w].pc = "idle" \/ (worker'[w].fd = worker[w].fd /\ worker'[w].pc = "ready")
        /\ \A v \in Workers \ {w} : worker'[v] = worker[v]
        /\ worker[w].pc = "lookup" /\ queue' = queue
    BY <1>4, <1>6 DEF LookupConnection, WorkerRec, Return, IdleWorker
  <2>2. WorkerFits(w, p)
    BY DEF HandledInv
  <2>3. WorkerFits(w, p)'
    BY <1>2, <2>1, <2>2 DEF WorkerFits, Fits
  <2>4. QueuedInv(p)' /\ HandledInv(p)'
    BY <1>2, <2>1, <2>3 DEF QueuedInv, TaskFds, HandledInv, WorkerFits
  <2>5. QED
    BY <1>3, <2>4
<1>7. QED
  BY <1>5, <1>6

\* recv() and the parser: bytes are read only when no response is pending, and a
\* parser that has not finished is left so by anything but the end of a request.
LEMMA ReadConn ==
  ASSUME NEW p, ConnectionInv(p), NEW w \in Workers, CoreWorkerStep(w),
         \/ ResumeFlush(w) \/ RecvData(w) \/ RecvAgain(w) \/ RecvClosed(w)
         \/ ParseMore(w) \/ ParseError(w) \/ ParseComplete(w)
  PROVE  ArmedInv(p)' /\ QueuedInv(p)' /\ PostedInv(p)' /\ HandledInv(p)'
<1> DEFINE k == conn[worker[w].conn]
<1>1. Holding(w)
  BY DEF Holding, ResumeFlush, RecvData, RecvAgain, RecvClosed, RecvEnds, ParseMore, ParseError, ParseComplete
<1>2. /\ worker[w].conn \in Conns /\ conn \in [Conns -> ConnectionRec] /\ k \in ConnectionRec
      /\ worker \in [Workers -> WorkerRec]
      /\ ConnAt(worker[w].fd) = k /\ worker[w].seg \in Segments
  BY <1>1, HoldingFacts DEF ConnectionInv, DispatchInv, TypeInv, TypeOK, WorkerRec
<1>3. Fits(worker[w].pc, k, p) /\ conn = [conn EXCEPT ![worker[w].conn] = k]
  BY <1>2 DEF ConnectionInv, HandledInv, WorkerFits
<1>4. CASE ResumeFlush(w)
  <2>1. worker'[w].pc = "flush" /\ conn' = conn /\ k.unsent > 0
    BY <1>2, <1>4 DEF ResumeFlush, WorkerRec
  <2>2. QED
    BY <1>1, <1>3, <2>1, GoesOn DEF Fits
<1>5. CASE RecvData(w)
  <2>1. worker'[w].pc = "parse" /\ conn' = conn /\ k.unsent = 0 /\ worker[w].pc = "ready"
    <3>1. PICK g : worker' = [worker EXCEPT ![w].pc = "parse", ![w].seg = g]
      BY <1>5 DEF RecvData
    <3>2. worker'[w].pc = "parse"
      BY <1>2, <3>1 DEF WorkerRec
    <3>3. QED
      BY <1>5, <3>2 DEF RecvData
  <2>2. QED
    BY <1>1, <1>3, <2>1, GoesOn DEF Fits, Resumable
<1>6. CASE RecvAgain(w)
  <2>1. conn' = conn /\ k.unsent = 0 /\ worker[w].pc = "ready"
    BY <1>6 DEF RecvAgain
  <2>2. Quiet(k, p)
    BY <1>3, <2>1 DEF Fits, Resumable
  <2>3. QED
    BY <1>1, <1>3, <1>6, <2>1, <2>2, Posts DEF RecvAgain, RearmActions
<1>7. CASE RecvClosed(w)
  BY <1>1, <1>3, <1>7, Posts DEF RecvClosed, RecvEnds, RearmActions
<1>8. CASE ParseMore(w)
  <2>1. Quiet(k, p)
    BY <1>3, <1>8 DEF ParseMore, Fits
  <2>2. worker[w].seg = "part"
    BY <1>8, <2>1 DEF ParseMore, ConsumeStatus, Quiet
  <2>3. conn' = conn
    <3>1. conn' = [conn EXCEPT ![worker[w].conn].parser = k.parser]
      BY <1>8, <2>2 DEF ParseMore, Consume
    <3>2. [k EXCEPT !.parser = k.parser] = k
      BY <1>2 DEF ConnectionRec
    <3>3. QED
      BY <1>2, <3>1, <3>2
  <2>4. QED
    BY <1>1, <1>3, <1>8, <2>1, <2>3, Posts DEF ParseMore, RearmActions
<1>9. CASE ParseError(w)
  <2> DEFINE j == [k EXCEPT !.parser = Consume(k.parser, worker[w].seg)]
             q == QueueResponse(j, FALSE, "close")
  <2>1. conn' = [conn EXCEPT ![worker[w].conn] = q] /\ worker'[w].pc = "flush"
        /\ worker[w].pc = "parse"
    BY <1>2, <1>9 DEF ParseError, WorkerRec
  <2>2. j.unsent = k.unsent /\ k.unsent \in Nat
    BY <1>2 DEF ConnectionRec
  <2>3. q.unsent = k.unsent + RespLen
    BY <1>2, <2>2 DEF QueueResponse, ConnectionRec
  <2> HIDE DEF q, j
  <2>4. Fits("flush", q, p)
    BY <2>2, <2>3 DEF Fits
  <2>5. QED
    BY <1>1, <2>1, <2>4, GoesOn
<1>10. CASE ParseComplete(w)
  <2> DEFINE j == [k EXCEPT !.parser = Consume(k.parser, worker[w].seg)]
  <2>1. conn' = [conn EXCEPT ![worker[w].conn] = j] /\ worker'[w].pc = "serve"
        /\ worker[w].pc = "parse"
    BY <1>2, <1>10 DEF ParseComplete, WorkerRec
  <2>2. j.unsent = k.unsent
    BY <1>2 DEF ConnectionRec
  <2>3. Fits("serve", j, p)
    BY <1>3, <2>1, <2>2 DEF Fits, Quiet
  <2> HIDE DEF j
  <2>4. QED
    BY <1>1, <2>1, <2>3, GoesOn
<1>11. QED
  BY <1>4, <1>5, <1>6, <1>7, <1>8, <1>9, <1>10

\* Queueing and sending: a worker that is flushing has something to send, and one
\* that has finished has nothing.
LEMMA WriteConn ==
  ASSUME NEW p, ConnectionInv(p), NEW w \in Workers, CoreWorkerStep(w),
         \/ Queues(w) \/ Connects(w) \/ SendSome(w) \/ SendAgain(w) \/ SendFails(w)
  PROVE  ArmedInv(p)' /\ QueuedInv(p)' /\ PostedInv(p)' /\ HandledInv(p)'
<1> DEFINE k == conn[worker[w].conn]
<1>1. Holding(w)
  BY DEF Holding, Queues, Connects, SendSome, SendCounting, SendAgain, SendBlocked, SendFails
<1>2. /\ worker[w].conn \in Conns /\ conn \in [Conns -> ConnectionRec] /\ k \in ConnectionRec
      /\ worker \in [Workers -> WorkerRec] /\ sock[worker[w].conn] \in SocketRec
      /\ ConnAt(worker[w].fd) = k
  BY <1>1, HoldingFacts DEF ConnectionInv, DispatchInv, TypeInv, TypeOK
<1>3. Fits(worker[w].pc, k, p) /\ conn = [conn EXCEPT ![worker[w].conn] = k]
  BY <1>2 DEF ConnectionInv, HandledInv, WorkerFits
<1>n. k.unsent \in Nat
  BY <1>2 DEF ConnectionRec
<1>4. CASE Queues(w)
  <2>1. PICK b \in BOOLEAN, h \in {"keep-alive", "close"} :
           conn' = [conn EXCEPT ![worker[w].conn] = QueueResponse(k, b, h)]
    BY <1>4 DEF Queues
  <2> DEFINE q == QueueResponse(k, b, h)
  <2>2. q.unsent = k.unsent + RespLen
    BY <1>2 DEF QueueResponse, ConnectionRec
  <2>3. worker'[w].pc = "flush"
    BY <1>2, <1>4 DEF Queues, WorkerRec
  <2> HIDE DEF q
  <2>4. Fits("flush", q, p)
    BY <1>n, <2>2 DEF Fits
  <2>5. /\ conn' = [conn EXCEPT ![worker[w].conn] = q]
        /\ worker'[w].pc # "idle" /\ Fits(worker'[w].pc, q, p)
    BY <2>1, <2>3, <2>4 DEF q
  <2>6. QED
    BY <1>1, <2>5, GoesOn, Zenon
<1>5. CASE Connects(w)
  <2>0. conn' = conn /\ worker[w].pc = "serve"
    BY <1>5 DEF Connects
  <2>1. worker'[w].pc = "exchange"
    <3>1. PICK f \in FreeFds :
             worker' = [worker EXCEPT ![w] = [worker[w] EXCEPT !.pc = "exchange", !.ufd = f]]
      BY <1>5 DEF Connects
    <3>2. worker \in [Workers -> WorkerRec] /\ worker[w] \in WorkerRec
      BY <1>2
    <3>3. [worker[w] EXCEPT !.pc = "exchange", !.ufd = f].pc = "exchange"
      BY <3>2 DEF WorkerRec
    <3> QED
      BY <3>1, <3>2, <3>3
  <2>2. Fits("exchange", k, p)
    BY <1>3, <2>0 DEF Fits
  <2> HIDE DEF k
  <2>3. /\ conn' = [conn EXCEPT ![worker[w].conn] = k]
        /\ worker'[w].pc # "idle" /\ Fits(worker'[w].pc, k, p)
    BY <1>3, <2>0, <2>1, <2>2
  <2>4. QED
    BY <1>1, <2>3, GoesOn, Zenon
<1>6. CASE SendSome(w)
  <2> DEFINE n == Taken(worker[w].conn)
             q == [k EXCEPT !.unsent = k.unsent - n]
  <2>1. worker[w].pc = "flush" /\ k.unsent > 0
    BY <1>3, <1>6 DEF SendSome, SendCounting, Fits
  <2>2. n \in Nat /\ n <= k.unsent
    BY <1>2, <1>n DEF Taken, SocketRec
  <2>3. /\ conn' = [conn EXCEPT ![worker[w].conn] = q]
        /\ worker'[w].pc = IF n = k.unsent THEN "finish" ELSE "flush"
    BY <1>2, <1>6 DEF SendSome, SendCounting, Goto, WorkerRec
  <2>4. q.unsent = k.unsent - n
    BY <1>2 DEF ConnectionRec
  <2> HIDE DEF q, n
  <2>5. Fits(worker'[w].pc, q, p)
    BY <1>n, <2>2, <2>3, <2>4 DEF Fits
  <2>6. QED
    BY <1>1, <2>3, <2>5, GoesOn
<1>7. CASE SendAgain(w)
  <2>1. k.unsent > 0
    BY <1>3, <1>7 DEF SendAgain, SendBlocked, Fits
  <2>2. QED
    BY <1>1, <1>3, <1>7, <2>1, Posts DEF SendAgain, SendBlocked, RearmActions
<1>8. CASE SendFails(w)
  <2> DEFINE q == [k EXCEPT !.unsent = 0]
  <2>1. conn' = [conn EXCEPT ![worker[w].conn] = q] /\ worker'[w].pc = "finish"
    BY <1>2, <1>8 DEF SendFails, Goto, WorkerRec
  <2>2. q.unsent = 0
    BY <1>2 DEF ConnectionRec
  <2> HIDE DEF q
  <2>3. Fits("finish", q, p)
    BY <2>2 DEF Fits
  <2>4. QED
    BY <1>1, <2>1, <2>3, GoesOn
<1>9. QED
  BY <1>4, <1>5, <1>6, <1>7, <1>8

\* The end of a response: the parser has been reset and everything is sent when
\* WaitReadable is posted.
LEMMA FinishConn ==
  ASSUME NEW p, ConnectionInv(p), NEW w \in Workers,
         FinishResume(w) \/ Concludes(w, p) \/ FinishBad(w)
  PROVE  ArmedInv(p)' /\ QueuedInv(p)' /\ PostedInv(p)' /\ HandledInv(p)'
<1> DEFINE k == conn[worker[w].conn]
           q == [k EXCEPT !.parser = FreshParser]
<1>1. Holding(w) /\ worker[w].pc = "finish"
  BY DEF Holding, FinishResume, FinishWith, FinishBad, Concludes
<1>2. /\ worker[w].conn \in Conns /\ conn \in [Conns -> ConnectionRec] /\ k \in ConnectionRec
      /\ ConnAt(worker[w].fd) = k
  BY <1>1, HoldingFacts DEF ConnectionInv, DispatchInv, TypeInv, TypeOK
<1>3. k.unsent = 0 /\ conn = [conn EXCEPT ![worker[w].conn] = k]
  BY <1>1, <1>2 DEF ConnectionInv, HandledInv, WorkerFits, Fits
<1>4. CASE FinishBad(w)
  BY <1>1, <1>3, <1>4, Posts DEF FinishBad, RearmActions
<1>5. CASE FinishResume(w) \/ Concludes(w, p)
  <2>1. PICK b \in BOOLEAN : /\ p = "balancer" => b = k.pendingKeepAlive
                             /\ \E branch : FinishWith(w, branch, FreshParser, b)
    <3>1. k.pendingKeepAlive \in BOOLEAN
      BY <1>2 DEF ConnectionRec
    <3>2. QED
      BY <1>5, <3>1, Zenon DEF FinishResume, Concludes
  <2>2. /\ Return(w) /\ PostRearm(worker[w].fd, RearmAfter(b))
        /\ UNCHANGED <<rpc, rearms, events, connections, interest, queue>>
        /\ conn' = [conn EXCEPT ![worker[w].conn] = q]
    BY <2>1 DEF FinishWith
  <2>3. /\ q.unsent = 0 /\ q.parser.state = "Incomplete"
        /\ q.pendingKeepAlive = k.pendingKeepAlive
    BY <1>2, <1>3 DEF ConnectionRec, FreshParser
  <2> HIDE DEF q
  <2>4. CASE b = TRUE
    <3>1. RearmAfter(b) = "WaitReadable"
      BY <2>4 DEF RearmAfter
    <3>2. Quiet(q, p)
      BY <2>1, <2>3, <2>4 DEF Quiet
    <3>3. QED
      BY <1>1, <2>2, <3>1, <3>2, Posts DEF RearmActions
  <2>5. CASE b = FALSE
    <3>1. RearmAfter(b) = "Close"
      BY <2>5 DEF RearmAfter
    <3>2. QED
      BY <1>1, <2>2, <3>1, Posts DEF RearmActions
  <2>6. QED
    BY <2>4, <2>5
<1>6. QED
  BY <1>4, <1>5

\* Every branch of the handler keeps what is known about the connections.
LEMMA HandlerConn ==
  ASSUME NEW p, ConnectionInv(p), NEW w \in Workers, HandlerStep(w, p)
  PROVE  OneFdPerConn' /\ ArmedInv(p)' /\ QueuedInv(p)' /\ PostedInv(p)' /\ HandledInv(p)'
<1>0. CoreWorkerStep(w)
  BY HandlerIsCore
<1>1. OneFdPerConn'
  <2>1. connections' = connections
    BY <1>0, WorkerShapes DEF ConnectionInv, DispatchInv, TakeTask, LookupConnection, Advances, Answers, Stops
  <2>2. \A c \in Conns : sock'[c].link = sock[c].link
    BY <1>0, WorkerKeepsLinks DEF ConnectionInv, DispatchInv
  <2>3. connections \in [Fds -> Conns \cup {NoConn}]
    BY DEF ConnectionInv, DispatchInv, TypeInv, TypeOK
  <2>4. QED
    BY <2>1, <2>2, <2>3 DEF ConnectionInv, OneFdPerConn
<1>2. CASE SendRaisesSigpipe(w) \/ Dies
  <2>1. UNCHANGED <<rearms, connections, interest, pendingRearms, queue, worker, conn>>
    BY <1>2 DEF SendRaisesSigpipe, Dies
  <2>2. QED
    BY <1>1, <2>1 DEF ConnectionInv, ArmedInv, QueuedInv, PostedInv, HandledInv, TaskFds, RearmFits, WorkerFits, ConnAt
<1>3. QED
  BY <1>0, <1>1, <1>2, TakeConn, ReadConn, WriteConn, FinishConn DEF HandlerStep, CommonWorkerStep

-----------------------------------------------------------------------------
(* Reactor steps *)

\* A re-arm gives an fd the interest that fits its connection.
LEMMA ApplyConn ==
  ASSUME NEW p, ConnectionInv(p), ApplyRearm
  PROVE  OneFdPerConn' /\ ArmedInv(p)' /\ QueuedInv(p)' /\ PostedInv(p)' /\ HandledInv(p)'
<1> USE DEF ConnectionInv
<1>0. PICK r, f : r = Head(rearms) /\ f = r.fd
  OBVIOUS
<1>1. /\ rearms \in Seq(PendingRearm) /\ rearms # <<>> /\ rearms' = Tail(rearms)
      /\ UNCHANGED <<pendingRearms, queue, worker, conn>>
  BY DEF ApplyRearm, DispatchInv, TypeInv, TypeOK
<1>2. Elements(rearms') \subseteq Elements(rearms) \ {r} /\ r \in Elements(rearms)
  <2>1. Distinct(rearms)
    BY DEF DispatchInv, NoDuplicates, Distinct, DistinctFds
  <2>2. QED
    BY <1>0, <1>1, <2>1, QueueOps, Zenon
<1>3. f \in Fds /\ interest[f] = "off" /\ f \notin HandledFds /\ connections[f] \in Conns
  BY <1>0, <1>2, KnownFds
<1>4. /\ interest \in [Fds -> Interests] /\ connections \in [Fds -> Conns \cup {NoConn}]
      /\ sock \in [Conns -> SocketRec]
  BY DEF DispatchInv, TypeInv, TypeOK
<1>5. \/ /\ r.action = "WaitReadable" /\ interest' = [interest EXCEPT ![f] = "Readable"]
         /\ connections' = connections /\ sock' = sock
      \/ /\ r.action = "WaitWritable" /\ interest' = [interest EXCEPT ![f] = "Writable"]
         /\ connections' = connections /\ sock' = sock
      \/ EraseConnection(f)
  BY <1>0, <1>3 DEF ApplyRearm
<1>6. /\ \A g \in Fds \ {f} : ConnAt(g)' = ConnAt(g) /\ interest'[g] = interest[g]
      /\ ~EraseConnection(f) => ConnAt(f)' = ConnAt(f)
  BY <1>1, <1>3, <1>4, <1>5 DEF ConnAt, EraseConnection
<1>7. RearmFits(r, p)
  BY <1>2 DEF PostedInv
<1>8. ArmedInv(p)'
  <2>1. \A g \in Fds \ {f} : /\ interest'[g] = "Readable" => Quiet(ConnAt(g)', p)
                             /\ interest'[g] = "Writable" => ConnAt(g)'.unsent > 0
    BY <1>6 DEF ArmedInv
  <2>2. /\ interest'[f] = "Readable" => Quiet(ConnAt(f)', p)
        /\ interest'[f] = "Writable" => ConnAt(f)'.unsent > 0
    <3>1. CASE EraseConnection(f)
      BY <1>3, <1>4, <3>1 DEF EraseConnection
    <3>2. CASE ~EraseConnection(f)
      BY <1>3, <1>4, <1>5, <1>6, <1>7, <1>0, <3>2 DEF RearmFits
    <3>3. QED
      BY <3>1, <3>2
  <2>3. ASSUME NEW g \in Fds PROVE /\ interest'[g] = "Readable" => Quiet(ConnAt(g)', p)
                                   /\ interest'[g] = "Writable" => ConnAt(g)'.unsent > 0
    BY <2>1, <2>2
  <2>4. QED
    BY <2>3 DEF ArmedInv
<1>9. QueuedInv(p)'
  <2>1. TaskFds' = TaskFds
    BY <1>1 DEF TaskFds
  <2>2. \A g \in TaskFds : g \in Fds \ {f}
    <3>1. f \in RearmFds(rearms)
      BY <1>0, <1>2 DEF RearmFds, Elements
    <3>2. QED
      BY <3>1, KnownFds DEF DispatchInv, Divided
  <2>3. QED
    BY <1>6, <2>1, <2>2 DEF QueuedInv
<1>10. PostedInv(p)'
  <2>1. ASSUME NEW s \in Elements(rearms') \cup Elements(pendingRearms')
        PROVE  s.fd \in Fds \ {f} /\ RearmFits(s, p)
    <3>1. s \in Elements(rearms) \cup Elements(pendingRearms) /\ s.fd \in Fds
      BY <1>1, <1>2, <2>1, KnownFds
    <3>2. s.fd # f
      <4>1. CASE s \in Elements(rearms) \ {r}
        <5>1. PICK i, j \in 1..Len(rearms) : s = rearms[i] /\ r = rearms[j]
          BY <1>2, <4>1 DEF Elements
        <5>2. QED
          BY <1>0, <4>1, <5>1 DEF DispatchInv, NoDuplicates, DistinctFds
      <4>2. CASE s \in Elements(pendingRearms)
        <5>1. s.fd \in RearmFds(pendingRearms) /\ f \in RearmFds(rearms)
          BY <1>0, <1>2, <4>2 DEF RearmFds, Elements
        <5>2. QED
          BY <5>1 DEF DispatchInv, Divided
      <4>3. QED
        BY <1>1, <1>2, <2>1, <4>1, <4>2
    <3>3. QED
      BY <3>1, <3>2 DEF PostedInv
  <2>2. QED
    BY <1>6, <2>1 DEF PostedInv, RearmFits
<1>11. HandledInv(p)'
  <2>1. ASSUME NEW v \in Workers PROVE WorkerFits(v, p)'
    <3>1. WorkerFits(v, p) /\ worker' = worker
      BY <1>1 DEF HandledInv
    <3>2. CASE worker[v].pc = "idle"
      BY <3>1, <3>2 DEF WorkerFits, Fits
    <3>3. CASE worker[v].pc # "idle"
      <4>1. worker[v].fd \in Fds \ {f}
        BY <1>3, <3>3, BusyHandles
      <4>2. QED
        BY <1>6, <3>1, <4>1 DEF WorkerFits
    <3>4. QED
      BY <3>2, <3>3
  <2>2. QED
    BY <2>1 DEF HandledInv
<1>12. OneFdPerConn'
  <2>1. CASE EraseConnection(f)
    <3>1. /\ \A g \in Fds \ {f} : connections'[g] = connections[g]
          /\ connections'[f] = NoConn
          /\ \A c \in Conns \ {connections[f]} : sock'[c] = sock[c]
      BY <1>3, <1>4, <2>1 DEF EraseConnection
    <3>2. \A g \in Fds \ {f} : connections[g] # NoConn => connections[g] # connections[f]
      BY <1>3 DEF OneFdPerConn
    <3>3. QED
      BY <1>3, <1>4, <3>1, <3>2 DEF OneFdPerConn
  <2>2. CASE ~EraseConnection(f)
    BY <1>5, <2>2 DEF OneFdPerConn
  <2>3. QED
    BY <2>1, <2>2
<1>13. QED
  BY <1>8, <1>9, <1>10, <1>11, <1>12

\* A connection that is accepted is not in the map and is quiet.
LEMMA AcceptConn ==
  ASSUME NEW p, ConnectionInv(p), AcceptOne
  PROVE  OneFdPerConn' /\ ArmedInv(p)' /\ QueuedInv(p)' /\ PostedInv(p)' /\ HandledInv(p)'
<1> USE DEF ConnectionInv
<1>1. PICK c \in Conns, f \in Fds :
        /\ connections[f] = NoConn /\ sock[c].link = "backlog"
        /\ connections' = [connections EXCEPT ![f] = c]
        /\ interest' = [interest EXCEPT ![f] = "Readable"]
        /\ sock' = [sock EXCEPT ![c].link = "open"]
        /\ conn' = [conn EXCEPT ![c] = NewConnection]
  BY DEF AcceptOne, Backlog, FreeFds
<1>2. UNCHANGED <<rearms, pendingRearms, queue, worker>>
  BY DEF AcceptOne
<1>3. /\ interest \in [Fds -> Interests] /\ connections \in [Fds -> Conns \cup {NoConn}]
      /\ sock \in [Conns -> SocketRec] /\ conn \in [Conns -> ConnectionRec]
      /\ interest[f] = "none"
  BY <1>1 DEF DispatchInv, TypeInv, TypeOK, Registered
<1>4. \A g \in Fds : connections[g] # c
  BY <1>1 DEF OneFdPerConn
<1>5. /\ ConnAt(f)' = NewConnection /\ interest'[f] = "Readable"
      /\ \A g \in Fds \ {f} : interest'[g] = interest[g]
      /\ \A g \in Fds \ {f} : interest[g] # "none" => ConnAt(g)' = ConnAt(g)
  <2>1. \A g \in Fds \ {f} : interest[g] # "none" => ConnAt(g)' = ConnAt(g)
    BY <1>1, <1>3, <1>4, KnownFds DEF ConnAt
  <2>2. QED
    BY <1>1, <1>3, <2>1 DEF ConnAt
<1>6. Quiet(NewConnection, p) /\ ~(NewConnection.unsent > 0)
  BY DEF Quiet, NewConnection, FreshParser
<1>7. ArmedInv(p)'
  <2>1. ASSUME NEW g \in Fds PROVE /\ interest'[g] = "Readable" => Quiet(ConnAt(g)', p)
                                   /\ interest'[g] = "Writable" => ConnAt(g)'.unsent > 0
    BY <1>5, <1>6 DEF ArmedInv
  <2>2. QED
    BY <2>1 DEF ArmedInv
<1>8. QueuedInv(p)'
  <2>1. TaskFds' = TaskFds /\ \A g \in TaskFds : g \in Fds \ {f} /\ interest[g] # "none"
    BY <1>2, <1>3, KnownFds DEF TaskFds
  <2>2. QED
    BY <1>5, <2>1 DEF QueuedInv
<1>9. PostedInv(p)'
  <2>1. \A r \in Elements(rearms) \cup Elements(pendingRearms) :
            r.fd \in Fds \ {f} /\ interest[r.fd] # "none"
    BY <1>3, KnownFds
  <2>2. QED
    BY <1>2, <1>5, <2>1 DEF PostedInv, RearmFits
<1>10. HandledInv(p)'
  <2>1. ASSUME NEW v \in Workers PROVE WorkerFits(v, p)'
    <3>1. WorkerFits(v, p) /\ worker' = worker
      BY <1>2 DEF HandledInv
    <3>2. CASE worker[v].pc = "idle"
      BY <3>1, <3>2 DEF WorkerFits, Fits
    <3>3. CASE worker[v].pc # "idle"
      <4>1. worker[v].fd \in Fds \ {f} /\ interest[worker[v].fd] # "none"
        BY <1>3, <3>3, BusyHandles, KnownFds
      <4>2. QED
        BY <1>5, <3>1, <4>1 DEF WorkerFits
    <3>4. QED
      BY <3>2, <3>3
  <2>2. QED
    BY <2>1 DEF HandledInv
<1>11. OneFdPerConn'
  <2>1. /\ connections'[f] = c /\ sock'[c].link = "open"
        /\ \A g \in Fds \ {f} : connections'[g] = connections[g]
        /\ \A d \in Conns \ {c} : sock'[d] = sock[d]
    BY <1>1, <1>3 DEF SocketRec
  <2>2. QED
    BY <1>1, <1>3, <1>4, <2>1 DEF OneFdPerConn
<1>12. QED
  BY <1>7, <1>8, <1>9, <1>10, <1>11

\* An event is for an armed fd, and what an armed connection waits for is what the
\* worker that gets it has to resume.
LEMMA HandleConn ==
  ASSUME NEW p, ConnectionInv(p), NEW e \in events, HandleEvent(e)
  PROVE  OneFdPerConn' /\ ArmedInv(p)' /\ QueuedInv(p)' /\ PostedInv(p)' /\ HandledInv(p)'
<1> USE DEF ConnectionInv
<1> DEFINE f == e.fd
<1>1. f \in Fds /\ interest[f] \in {"Readable", "Writable"}
  <2>1. e # ListenEvent /\ e \in IoEvent
    BY DEF HandleEvent, DispatchEvent, DispatchInv, TypeInv, TypeOK
  <2>2. f \in Fds
    BY <2>1 DEF IoEvent
  <2>3. QED
    BY <2>1, <2>2 DEF DispatchInv, EventsArmed
<1>2. /\ interest \in [Fds -> Interests] /\ connections \in [Fds -> Conns \cup {NoConn}]
      /\ sock \in [Conns -> SocketRec] /\ connections[f] \in Conns
  BY <1>1, KnownFds DEF DispatchInv, TypeInv, TypeOK
<1>3. UNCHANGED <<rearms, pendingRearms, worker, conn>>
  BY DEF HandleEvent, DispatchEvent
<1>4. \/ EraseConnection(f) /\ queue' = queue
      \/ /\ interest' = [interest EXCEPT ![f] = "off"]
         /\ connections' = connections /\ sock' = sock
         /\ queue' = Append(queue, f)
  BY <1>2 DEF HandleEvent, DispatchEvent
<1>5. /\ \A g \in Fds \ {f} : ConnAt(g)' = ConnAt(g) /\ interest'[g] = interest[g]
      /\ interest'[f] \in {"none", "off"}
  BY <1>1, <1>2, <1>3, <1>4 DEF ConnAt, EraseConnection
<1>6. ArmedInv(p)'
  <2>1. ASSUME NEW g \in Fds PROVE /\ interest'[g] = "Readable" => Quiet(ConnAt(g)', p)
                                   /\ interest'[g] = "Writable" => ConnAt(g)'.unsent > 0
    BY <1>5 DEF ArmedInv
  <2>2. QED
    BY <2>1 DEF ArmedInv
<1>7. QueuedInv(p)'
  <2>1. \A g \in TaskFds : g \in Fds \ {f}
    BY <1>1, KnownFds
  <2>2. CASE queue' = queue
    BY <1>5, <2>1, <2>2 DEF QueuedInv, TaskFds
  <2>3. CASE queue' = Append(queue, f) /\ connections' = connections
    <3>1. TaskFds' = TaskFds \cup {f}
      <4>1. queue \in Seq(Fds) /\ Distinct(queue)
        BY DEF DispatchInv, TypeInv, TypeOK, NoDuplicates
      <4>2. QED
        BY <1>1, <2>3, <4>1, QueueOps, Zenon DEF TaskFds
    <3>2. ConnAt(f)' = ConnAt(f)
      BY <1>3, <2>3 DEF ConnAt
    <3>3. Resumable(ConnAt(f), p)
      BY <1>1 DEF ArmedInv, Resumable
    <3>4. QED
      BY <1>5, <2>1, <3>1, <3>2, <3>3 DEF QueuedInv
  <2>4. QED
    BY <1>4, <2>2, <2>3
<1>8. PostedInv(p)'
  <2>1. \A r \in Elements(rearms) \cup Elements(pendingRearms) : r.fd \in Fds \ {f}
    BY <1>1, KnownFds
  <2>2. QED
    BY <1>3, <1>5, <2>1 DEF PostedInv, RearmFits
<1>9. HandledInv(p)'
  <2>1. ASSUME NEW v \in Workers PROVE WorkerFits(v, p)'
    <3>1. WorkerFits(v, p) /\ worker' = worker
      BY <1>3 DEF HandledInv
    <3>2. CASE worker[v].pc = "idle"
      BY <3>1, <3>2 DEF WorkerFits, Fits
    <3>3. CASE worker[v].pc # "idle"
      <4>1. worker[v].fd \in Fds \ {f}
        BY <1>1, <3>3, BusyHandles, KnownFds
      <4>2. QED
        BY <1>5, <3>1, <4>1 DEF WorkerFits
    <3>4. QED
      BY <3>2, <3>3
  <2>2. QED
    BY <2>1 DEF HandledInv
<1>10. OneFdPerConn'
  <2>1. CASE EraseConnection(f)
    <3>1. /\ \A g \in Fds \ {f} : connections'[g] = connections[g]
          /\ connections'[f] = NoConn
          /\ \A c \in Conns \ {connections[f]} : sock'[c] = sock[c]
      BY <1>1, <1>2, <2>1 DEF EraseConnection
    <3>2. \A g \in Fds \ {f} : connections[g] # NoConn => connections[g] # connections[f]
      BY <1>1, <1>2 DEF OneFdPerConn
    <3>3. QED
      BY <1>1, <1>2, <3>1, <3>2 DEF OneFdPerConn
  <2>2. CASE ~EraseConnection(f)
    BY <1>4, <2>2 DEF OneFdPerConn
  <2>3. QED
    BY <2>1, <2>2
<1>11. QED
  BY <1>6, <1>7, <1>8, <1>9, <1>10

-----------------------------------------------------------------------------
(* The inductive step *)

\* Before the first step there is no connection.
LEMMA InitConnection == \A p : Init => ConnectionInv(p)
<1> SUFFICES ASSUME NEW p, Init PROVE ConnectionInv(p)
  OBVIOUS
<1>1. DispatchInv
  BY InitDispatch
<1>2. OneFdPerConn /\ ArmedInv(p)
  BY DEF Init, OneFdPerConn, ArmedInv
<1>3. QueuedInv(p) /\ PostedInv(p)
  BY DEF Init, QueuedInv, PostedInv, TaskFds, Elements
<1>4. HandledInv(p)
  BY DEF Init, HandledInv, WorkerFits, Fits, IdleWorker
<1>5. QED
  BY <1>1, <1>2, <1>3, <1>4 DEF ConnectionInv

\* Every step of either program keeps the invariant.
LEMMA NextConnection ==
  ASSUME NEW p, DisarmedIsSilent, ConnectionInv(p), [ProgramNext(p)]_vars
  PROVE  ConnectionInv(p)'
<1>0. DispatchInv'
  BY ProgramIsCore, NextDispatch DEF ConnectionInv
<1> DEFINE Goal == OneFdPerConn' /\ ArmedInv(p)' /\ QueuedInv(p)' /\ PostedInv(p)' /\ HandledInv(p)'
<1> SUFFICES Goal
  BY <1>0 DEF ConnectionInv
<1>1. ASSUME UNCHANGED <<connections, interest, queue, worker, conn>>,
             Elements(rearms') \cup Elements(pendingRearms')
               \subseteq Elements(rearms) \cup Elements(pendingRearms),
             \A f \in Fds : connections[f] # NoConn =>
                               sock'[connections[f]].link = sock[connections[f]].link
      PROVE  Goal
  <2>1. OneFdPerConn'
    BY <1>1 DEF ConnectionInv, OneFdPerConn
  <2>2. \A f : ConnAt(f)' = ConnAt(f)
    BY <1>1 DEF ConnAt
  <2>3. ArmedInv(p)' /\ QueuedInv(p)' /\ PostedInv(p)' /\ HandledInv(p)'
    BY <1>1, <2>2 DEF ConnectionInv, ArmedInv, QueuedInv, PostedInv, HandledInv, TaskFds, RearmFits, WorkerFits
  <2>4. QED
    BY <2>1, <2>3
<1>2. CASE ReactorStep
  <2>1. CASE SwapRearms
    <3>1. Elements(<<>>) = {}
      BY DEF Elements
    <3>2. QED
      BY <1>1, <2>1, <3>1 DEF SwapRearms
  <2>2. CASE WaitEvents \/ AcceptDone
    BY <1>1, <2>2 DEF WaitEvents, AcceptDone, AcceptLast
  <2>a. CASE AcceptAborted
    <3>1. PICK c \in Conns : sock[c].link = "backlog" /\ sock' = [sock EXCEPT ![c].link = "closed"]
      BY <2>a DEF AcceptAborted, Backlog
    <3>2. \A f \in Fds : connections[f] # NoConn => connections[f] # c /\ connections[f] \in Conns
      BY <3>1 DEF ConnectionInv, OneFdPerConn, DispatchInv, TypeInv, TypeOK
    <3>3. \A f \in Fds : connections[f] # NoConn =>
                             sock'[connections[f]].link = sock[connections[f]].link
      BY <3>1, <3>2 DEF ConnectionInv, DispatchInv, TypeInv, TypeOK
    <3>4. QED
      BY <1>1, <2>a, <3>3 DEF AcceptAborted, AcceptLast
  <2>3. QED
    BY <1>2, <2>1, <2>2, <2>a, ApplyConn, AcceptConn, HandleConn DEF ReactorStep
<1>3. CASE \E w \in Workers : HandlerStep(w, p)
  BY <1>3, HandlerConn
<1>4. ASSUME NEW c \in Conns, ClientStep(c) PROVE Goal
  <2>1. UNCHANGED <<rearms, pendingRearms, connections, interest, queue, worker, conn>>
    BY <1>4 DEF ClientStep
  <2>2. sock \in [Conns -> SocketRec] /\ connections \in [Fds -> Conns \cup {NoConn}]
    BY DEF ConnectionInv, DispatchInv, TypeInv, TypeOK
  <2>3. \A f \in Fds : connections[f] # NoConn => sock'[connections[f]].link = sock[connections[f]].link
    <3>1. CASE ClientConnects(c)
      BY <2>2, <3>1 DEF ClientConnects, ConnectionInv, OneFdPerConn
    <3>2. CASE ClientSendsPart(c) \/ ClientSendsFinal(c)
      <4>1. PICK q : sock' = [sock EXCEPT ![c].inq = q]
        BY <3>2 DEF ClientSendsPart, ClientSendsFinal
      <4>2. QED
        BY <2>2, <4>1 DEF SocketRec
    <3>3. CASE ClientReads(c)
      <4>1. PICK q : sock' = [sock EXCEPT ![c].outq = q]
        BY <3>3 DEF ClientReads
      <4>2. QED
        BY <2>2, <4>1 DEF SocketRec
    <3>4. CASE ClientFin(c) \/ ClientReset(c)
      <4>1. PICK q : sock' = [sock EXCEPT ![c].peer = q]
        BY <3>4 DEF ClientFin, ClientReset
      <4>2. QED
        BY <2>2, <4>1 DEF SocketRec
    <3>5. QED
      BY <1>4, <3>1, <3>2, <3>3, <3>4 DEF ClientStep
  <2>4. QED
    BY <1>1, <2>1, <2>3
<1>5. CASE UNCHANGED vars
  BY <1>1, <1>5 DEF vars
<1>6. QED
  BY <1>2, <1>3, <1>4, <1>5 DEF ProgramNext

\* What the invariant says about armed connections and about the parser.
LEMMA ConnectionImplies ==
  ASSUME NEW p, ConnectionInv(p)
  PROVE  /\ ArmedForWhatIsNeeded
         /\ ParserIsFed
         /\ p = "balancer" => CloseIsHonoured
<1>1. ArmedForWhatIsNeeded
  BY DEF ConnectionInv, ArmedInv, ArmedForWhatIsNeeded, ConnAt, Quiet
<1>2. ParserIsFed
  BY HoldingFacts DEF ConnectionInv, HandledInv, WorkerFits, Fits, ParserIsFed, Quiet, Holding
<1>3. p = "balancer" => CloseIsHonoured
  BY DEF ConnectionInv, ArmedInv, CloseIsHonoured, ConnAt, Quiet
<1>4. QED
  BY <1>1, <1>2, <1>3

-----------------------------------------------------------------------------
(* What is owed.  A client does not pipeline, so of all the segments that  *)
(* have not been parsed only the last can complete a request.              *)

\* The input q ends with the segment that completes a request.
Complete(q) == q # <<>> /\ q[Len(q)] # "part"

\* A worker has read the end of a request and has not queued the response yet.
Serving(w) ==
    \/ worker[w].pc = "parse" /\ worker[w].seg # "part"
    \/ worker[w].pc \in {"serve", "exchange"}

Served(c) == \E w \in Workers : Serving(w) /\ worker[w].conn = c

\* Units of a response that is owed and not in the write buffer.
Due(unread, served) == IF unread \/ served THEN RespLen ELSE 0

OnlyLastCompletes(q) == \A i \in 1..Len(q) : i < Len(q) => q[i] = "part"

\* Every response asked for is read by the client, in the send buffer, in the write
\* buffer, or due, unless the client has reset the connection.
Balance(c) ==
    /\ client[c].asked * RespLen = client[c].got + sock[c].outq + conn[c].unsent
                                     + Due(Complete(sock[c].inq), Served(c))
    /\ ~(Complete(sock[c].inq) /\ Served(c))

Accounted(c) ==
    /\ OnlyLastCompletes(sock[c].inq)
    /\ WasReset(c) \/ Balance(c)
    /\ sock[c].link \in {"none", "backlog"} => conn[c].unsent = 0

OwedInv == ConnectionInv("server") /\ \A c \in Conns : Accounted(c)

-----------------------------------------------------------------------------

\* The types of what the account is made of.
LEMMA AccountTypes ==
  ASSUME TypeInv, NEW c \in Conns
  PROVE  /\ client[c].asked \in Nat /\ client[c].got \in Nat
         /\ sock[c].outq \in Nat /\ conn[c].unsent \in Nat
         /\ sock[c].inq \in Seq(Segments)
         /\ RespLen \in Nat \ {0}
  BY DEF TypeInv, TypeOK, ClientRec, SocketRec, ConnectionRec

\* One more request is one more response.
LEMMA OneMore ==
  ASSUME NEW n \in Nat, NEW m \in Nat
  PROVE  (n + 1) * m = n * m + m
  OBVIOUS

\* What send() and recv() do to the input: a client adds a segment only when the input
\* holds no complete request, and a worker takes the first k segments.
LEMMA InputOps ==
  ASSUME NEW q \in Seq(Segments), OnlyLastCompletes(q)
  PROVE  /\ ~Complete(q) => \A g \in Segments :
                /\ OnlyLastCompletes(Append(q, g))
                /\ Complete(Append(q, g)) <=> g # "part"
         /\ \A k \in 1..Len(q) :
                /\ OnlyLastCompletes(SubSeq(q, k + 1, Len(q)))
                /\ Complete(SubSeq(q, k + 1, Len(q))) => Complete(q) /\ q[k] = "part"
                /\ q[k] # "part" => Complete(q)
                /\ Complete(q) /\ q[k] = "part" => Complete(SubSeq(q, k + 1, Len(q)))
<1>0. Len(q) \in Nat /\ (q # <<>> <=> Len(q) > 0)
  OBVIOUS
<1>1. ASSUME ~Complete(q), NEW g \in Segments
      PROVE  /\ OnlyLastCompletes(Append(q, g))
             /\ Complete(Append(q, g)) <=> g # "part"
  <2>1. PICK t : t = Append(q, g)
    OBVIOUS
  <2>2. /\ Len(t) = Len(q) + 1 /\ t # <<>> /\ t[Len(q) + 1] = g
        /\ \A i \in 1..Len(q) : t[i] = q[i]
    BY <2>1
  <2>3. \A i \in 1..Len(q) : q[i] = "part"
    BY <1>0, <1>1 DEF Complete, OnlyLastCompletes
  <2>4. OnlyLastCompletes(t) /\ (Complete(t) <=> g # "part")
    BY <1>0, <2>2, <2>3 DEF Complete, OnlyLastCompletes
  <2>5. QED
    BY <2>1, <2>4
<1>2. ASSUME NEW k \in 1..Len(q)
      PROVE  /\ OnlyLastCompletes(SubSeq(q, k + 1, Len(q)))
             /\ Complete(SubSeq(q, k + 1, Len(q))) => Complete(q) /\ q[k] = "part"
             /\ q[k] # "part" => Complete(q)
             /\ Complete(q) /\ q[k] = "part" => Complete(SubSeq(q, k + 1, Len(q)))
  <2>1. PICK t : t = SubSeq(q, k + 1, Len(q))
    OBVIOUS
  <2>2. /\ t \in Seq(Segments) /\ Len(t) = Len(q) - k /\ (t # <<>> <=> Len(t) > 0)
        /\ \A i \in 1..Len(t) : t[i] = q[i + k]
    <3>1. t = [i \in 1..(Len(q) - k) |-> q[i + k]] /\ Len(q) - k \in Nat
      BY <1>0, <2>1
    <3>2. \A i \in 1..(Len(q) - k) : q[i + k] \in Segments
      BY <1>0
    <3>3. t \in Seq(Segments) /\ Len(t) = Len(q) - k
      BY <3>1, <3>2
    <3>4. \A i \in 1..(Len(q) - k) : t[i] = q[i + k]
      BY <3>1
    <3>5. QED
      BY <3>3, <3>4
  <2>3. OnlyLastCompletes(t)
    BY <1>0, <2>2 DEF OnlyLastCompletes
  <2>4. Complete(t) => Complete(q) /\ q[k] = "part"
    BY <1>0, <2>2 DEF Complete, OnlyLastCompletes
  <2>5. q[k] # "part" => Complete(q)
    BY <1>0 DEF Complete, OnlyLastCompletes
  <2>6. Complete(q) /\ q[k] = "part" => Complete(t)
    BY <1>0, <2>2 DEF Complete, OnlyLastCompletes
  <2>7. QED
    BY <2>1, <2>3, <2>4, <2>5, <2>6
<1>3. QED
  BY <1>1, <1>2

\* Only the worker that holds a connection serves it.
LEMMA ServedAfter ==
  ASSUME DispatchInv, OneFdPerConn, NEW w \in Workers, Holding(w),
         \A v \in Workers \ {w} : worker'[v] = worker[v],
         NEW d, d = worker[w].conn, worker'[w].conn = d \/ ~Serving(w)'
  PROVE  /\ Served(d) <=> Serving(w)
         /\ Served(d)' <=> Serving(w)'
         /\ \A c \in Conns \ {d} : Served(c)' <=> Served(c)
<1>1. \A v \in Workers \ {w} : Serving(v) => worker[v].conn # worker[w].conn
  BY OneWorkerPerConn DEF Serving, Holding
<1>2. \A v \in Workers \ {w} : (Serving(v)' <=> Serving(v)) /\ worker'[v].conn = worker[v].conn
  BY DEF Serving
<1>3. Served(d) <=> Serving(w)
  BY <1>1 DEF Served
<1>4. Served(d)' <=> Serving(w)'
  BY <1>1, <1>2 DEF Served
<1>5. \A c \in Conns \ {d} : Served(c)' <=> Served(c)
  BY <1>2 DEF Served
<1>6. QED
  BY <1>3, <1>4, <1>5

\* A step that concerns neither the data of a connection nor who serves it leaves its
\* account alone, be it opened or closed.
LEMMA SameAccount ==
  ASSUME NEW c, Accounted(c),
         sock'[c].inq = sock[c].inq, sock'[c].outq = sock[c].outq, sock'[c].peer = sock[c].peer,
         sock'[c].link \in {"none", "backlog"} => sock[c].link \in {"none", "backlog"},
         conn'[c].unsent = conn[c].unsent, client'[c] = client[c], Served(c)' <=> Served(c)
  PROVE  Accounted(c)'
<1>1. WasReset(c)' <=> WasReset(c)
  BY DEF WasReset
<1>2. Balance(c) => Balance(c)'
  BY DEF Balance, Due
<1>3. QED
  BY <1>1, <1>2 DEF Accounted

\* A step of the worker that holds a connection keeps it accounted for when what
\* leaves one place arrives at another.
LEMMA MovedWithin ==
  ASSUME TypeInv, TypeInv', NEW c \in Conns, NEW w \in Workers, Accounted(c),
         sock[c].link = "open", sock'[c].link = "open", sock'[c].peer = sock[c].peer,
         client'[c] = client[c],
         Served(c) <=> Serving(w), Served(c)' <=> Serving(w)',
         OnlyLastCompletes(sock'[c].inq),
         \/ WasReset(c)
         \/ /\ ~(Complete(sock[c].inq) /\ Serving(w)) =>
                 /\ sock'[c].outq + conn'[c].unsent + Due(Complete(sock'[c].inq), Serving(w)')
                      = sock[c].outq + conn[c].unsent + Due(Complete(sock[c].inq), Serving(w))
                 /\ ~(Complete(sock'[c].inq) /\ Serving(w)')
  PROVE  Accounted(c)'
<1>1. WasReset(c)' <=> WasReset(c)
  BY DEF WasReset
<1>2. CASE WasReset(c)
  BY <1>1, <1>2 DEF Accounted
<1>3. CASE ~WasReset(c)
  <2>1. PICK u, v, x, y : /\ u = Due(Complete(sock[c].inq), Serving(w))
                          /\ v = Due(Complete(sock'[c].inq), Serving(w)')
                          /\ x = client[c].asked * RespLen
                          /\ y = client[c].got
    OBVIOUS
  <2>2. u \in Nat /\ v \in Nat
    BY <2>1, AccountTypes DEF Due
  <2>3. /\ x = y + sock[c].outq + conn[c].unsent + u
        /\ ~(Complete(sock[c].inq) /\ Serving(w))
    BY <1>3, <2>1 DEF Accounted, Balance, Due
  <2>4. sock'[c].outq + conn'[c].unsent + v = sock[c].outq + conn[c].unsent + u
    BY <1>3, <2>1, <2>3
  <2>5. /\ y \in Nat /\ sock[c].outq \in Nat /\ conn[c].unsent \in Nat
        /\ sock'[c].outq \in Nat /\ conn'[c].unsent \in Nat
    BY <2>1, AccountTypes DEF TypeInv, TypeOK, SocketRec, ConnectionRec
  <2>6. x = y + sock'[c].outq + conn'[c].unsent + v
    BY <2>2, <2>3, <2>4, <2>5
  <2>7. Balance(c)'
    BY <1>3, <2>1, <2>3, <2>6 DEF Balance, Due
  <2>8. QED
    BY <2>7 DEF Accounted
<1>4. QED
  BY <1>2, <1>3

\* What a worker does within the handler it does to the connection it holds.
LEMMA HandlerTouches ==
  ASSUME ConnectionInv("server"), NEW w \in Workers, HandlerStep(w, "server"), Holding(w),
         NEW d, d = worker[w].conn
  PROVE  /\ \A c \in Conns \ {d} : conn'[c] = conn[c] /\ sock'[c] = sock[c]
         /\ client' = client
         /\ Served(d) <=> Serving(w)
         /\ Served(d)' <=> Serving(w)'
         /\ \A c \in Conns \ {d} : Served(c)' <=> Served(c)
<1>0. CoreWorkerStep(w) /\ TypeInv /\ DispatchInv /\ OneFdPerConn
  BY HandlerIsCore DEF ConnectionInv, DispatchInv
<1>1. /\ conn \in [Conns -> ConnectionRec] /\ sock \in [Conns -> SocketRec]
      /\ worker \in [Workers -> WorkerRec]
  BY <1>0 DEF TypeInv, TypeOK
<1>2. connections[worker[w].fd] = d
  BY <1>0, HoldingFacts
<1>3. ~TakeTask(w) /\ ~LookupConnection(w)
  BY DEF Holding, TakeTask, LookupConnection
<1>4. \A c \in Conns \ {d} : conn'[c] = conn[c]
  <2>1. \/ conn' = conn
        \/ \E k : conn' = [conn EXCEPT ![d] = k]
        \/ \E k : conn' = [conn EXCEPT ![d].parser = k]
        \/ \E k : conn' = [conn EXCEPT ![d].unsent = k]
    BY <1>3 DEF HandlerStep, CommonWorkerStep, ResumeFlush, RecvData, RecvAgain, RecvClosed,
                RecvEnds, ParseMore, ParseError, ParseComplete, SendSome, SendCounting, SendAgain,
                SendBlocked, SendFails, SendRaisesSigpipe, FinishResume, FinishBad, FinishWith,
                Queues, Connects, Concludes, Dies
  <2>2. QED
    BY <1>1, <2>1
<1>5. \A c \in Conns \ {d} : sock'[c] = sock[c]
  <2>1. \/ sock' = sock
        \/ \E k : sock' = [sock EXCEPT ![d].inq = k]
        \/ \E k : sock' = [sock EXCEPT ![d].outq = k]
    BY <1>2, <1>3 DEF HandlerStep, CommonWorkerStep, ResumeFlush, RecvData, RecvAgain, RecvClosed,
                RecvEnds, ParseMore, ParseError, ParseComplete, SendSome, SendCounting, SendAgain,
                SendBlocked, SendFails, SendRaisesSigpipe, FinishResume, FinishBad, FinishWith,
                Queues, Connects, Concludes, Dies
  <2>2. QED
    BY <1>1, <2>1
<1>6. client' = client
  BY <1>0, WorkerData
<1>7. /\ \A v \in Workers \ {w} : worker'[v] = worker[v]
      /\ worker'[w].conn = d \/ ~Serving(w)'
  BY <1>0, <1>1, <1>3, WorkerShapes DEF Advances, Answers, Return, Stops, IdleWorker, Serving
<1>8. QED
  BY <1>0, <1>4, <1>5, <1>6, <1>7, ServedAfter

\* The account of the connection that a worker holds, branch by branch.
LEMMA HandlerOwn ==
  ASSUME OwedInv, TypeInv', NEW w \in Workers, HandlerStep(w, "server"), Holding(w),
         NEW d, d = worker[w].conn
  PROVE  Accounted(d)'
<1> DEFINE k == conn[d]
<1>0. /\ CoreWorkerStep(w) /\ TypeInv /\ DispatchInv /\ OneFdPerConn
      /\ ConnectionInv("server")
  BY HandlerIsCore DEF OwedInv, ConnectionInv, DispatchInv
<1>1. /\ conn \in [Conns -> ConnectionRec] /\ sock \in [Conns -> SocketRec]
      /\ worker \in [Workers -> WorkerRec] /\ worker[w].seg \in Segments
      /\ d \in Conns /\ k \in ConnectionRec /\ sock[d] \in SocketRec
      /\ connections[worker[w].fd] = d
  BY <1>0, HoldingFacts DEF TypeInv, TypeOK, WorkerRec
<1>2. Accounted(d) /\ Fits(worker[w].pc, k, "server")
  BY <1>0, <1>1, HoldingFacts DEF OwedInv, ConnectionInv, HandledInv, WorkerFits
<1>3. /\ sock[d].link = "open" /\ sock'[d].link = "open" /\ sock'[d].peer = sock[d].peer
  BY <1>0, <1>1, HoldingFacts, WorkerKeepsLinks, WorkerData DEF OneFdPerConn
<1>4. client' = client /\ (Served(d) <=> Serving(w)) /\ (Served(d)' <=> Serving(w)')
  BY <1>0, HandlerTouches
<1>5. /\ k.unsent \in Nat /\ sock[d].outq \in Nat /\ sock[d].outq <= SndBuf
      /\ sock[d].inq \in Seq(Segments) /\ OnlyLastCompletes(sock[d].inq)
  BY <1>1, <1>2 DEF ConnectionRec, SocketRec, Accounted
\* Branches in which nothing is counted anew.
<1>6. ASSUME sock'[d].inq = sock[d].inq, sock'[d].outq + conn'[d].unsent = sock[d].outq + k.unsent,
             Serving(w)' <=> Serving(w)
      PROVE  Accounted(d)'
  <2>1. PICK u : u = Due(Complete(sock[d].inq), Serving(w))
    OBVIOUS
  <2>2. u = Due(Complete(sock'[d].inq), Serving(w)')
    BY <1>6, <2>1 DEF Due
  <2>3. QED
    BY <1>0, <1>1, <1>2, <1>3, <1>4, <1>5, <1>6, <2>1, <2>2, MovedWithin
\* Branches in which the response that is due is queued.
<1>7. ASSUME sock' = sock, conn'[d].unsent = k.unsent + RespLen, Serving(w), ~Serving(w)'
      PROVE  Accounted(d)'
  <2>1. PICK u, v : /\ u = Due(Complete(sock[d].inq), Serving(w))
                    /\ v = Due(Complete(sock'[d].inq), Serving(w)')
    OBVIOUS
  <2>2. CASE Complete(sock[d].inq)
    BY <1>0, <1>1, <1>2, <1>3, <1>4, <1>5, <1>7, <2>2, MovedWithin
  <2>3. CASE ~Complete(sock[d].inq)
    <3>1. u = RespLen /\ v = 0
      BY <1>7, <2>1, <2>3 DEF Due
    <3>2. sock'[d].outq + conn'[d].unsent + v = sock[d].outq + k.unsent + u
      BY <1>5, <1>7, <3>1
    <3>3. QED
      BY <1>0, <1>1, <1>2, <1>3, <1>4, <1>5, <1>7, <2>1, <3>2, MovedWithin
  <2>4. QED
    BY <2>2, <2>3
<1>8. CASE \/ ResumeFlush(w) \/ RecvAgain(w) \/ RecvClosed(w) \/ SendAgain(w) \/ FinishBad(w)
           \/ Connects(w)
  <2>1. sock' = sock /\ conn' = conn
    BY <1>8 DEF ResumeFlush, RecvAgain, RecvClosed, RecvEnds, SendAgain, SendBlocked, FinishBad, Connects
  <2>2. Serving(w)' <=> Serving(w)
    <3>1. CASE ResumeFlush(w)
      BY <1>1, <3>1 DEF ResumeFlush, Serving, WorkerRec
    <3>2. CASE Connects(w)
      BY <1>1, <3>2 DEF Connects, Serving, WorkerRec
    <3>3. CASE RecvAgain(w) \/ RecvClosed(w) \/ SendAgain(w) \/ FinishBad(w)
      <4>1. worker'[w] = IdleWorker /\ worker[w].pc \in {"ready", "flush", "finish"}
        BY <1>1, <3>3 DEF RecvAgain, RecvClosed, RecvEnds, SendAgain, SendBlocked, FinishBad, Return
      <4>2. QED
        BY <4>1 DEF Serving, IdleWorker
    <3>4. QED
      BY <1>8, <3>1, <3>2, <3>3
  <2>3. QED
    BY <1>6, <2>1, <2>2
<1>9. CASE SendRaisesSigpipe(w) \/ Dies
  <2>1. sock' = sock /\ conn' = conn /\ worker' = worker
    BY <1>9 DEF SendRaisesSigpipe, Dies
  <2>2. QED
    BY <1>6, <2>1 DEF Serving
<1>10. CASE RecvData(w)
  <2>1. PICK n \in 1..Len(sock[d].inq) :
          /\ sock' = [sock EXCEPT ![d].inq = SubSeq(sock[d].inq, n + 1, Len(sock[d].inq))]
          /\ worker' = [worker EXCEPT ![w].pc = "parse", ![w].seg = sock[d].inq[n]]
    BY <1>1, <1>10 DEF RecvData
  <2>2. PICK q, g : q = SubSeq(sock[d].inq, n + 1, Len(sock[d].inq)) /\ g = sock[d].inq[n]
    OBVIOUS
  <2>3. /\ sock'[d].inq = q /\ sock'[d].outq = sock[d].outq
    BY <1>1, <2>1, <2>2 DEF SocketRec
  <2>4. worker'[w].pc = "parse" /\ worker'[w].seg = g
    BY <1>1, <2>1, <2>2 DEF WorkerRec
  <2>5. ~Serving(w) /\ (Serving(w)' <=> g # "part") /\ conn' = conn
    BY <1>10, <2>4 DEF RecvData, Serving
  <2>6. /\ OnlyLastCompletes(q)
        /\ Complete(q) => Complete(sock[d].inq) /\ g = "part"
        /\ g # "part" => Complete(sock[d].inq)
        /\ Complete(sock[d].inq) /\ g = "part" => Complete(q)
    BY <1>5, <2>2, InputOps
  <2>7. Due(Complete(q), Serving(w)') = Due(Complete(sock[d].inq), Serving(w))
    BY <2>5, <2>6 DEF Due
  <2>8. ~(Complete(sock'[d].inq) /\ Serving(w)')
    BY <2>3, <2>5, <2>6
  <2>9. QED
    BY <1>0, <1>1, <1>2, <1>3, <1>4, <2>3, <2>5, <2>6, <2>7, <2>8, MovedWithin
<1>11. CASE ParseMore(w)
  <2>1. worker[w].seg = "part" /\ worker[w].pc = "parse" /\ sock' = sock
    BY <1>2, <1>11 DEF ParseMore, Fits, Quiet, ConsumeStatus
  <2>2. conn'[d].unsent = k.unsent
    BY <1>1, <1>11 DEF ParseMore, ConnectionRec
  <2>3. ~Serving(w) /\ ~Serving(w)'
    BY <1>1, <1>11, <2>1 DEF ParseMore, Serving, Return, IdleWorker
  <2>4. QED
    BY <1>6, <2>1, <2>2, <2>3
<1>12. CASE ParseError(w)
  <2> DEFINE j == [k EXCEPT !.parser = Consume(k.parser, worker[w].seg)]
  <2>1. /\ conn' = [conn EXCEPT ![d] = QueueResponse(j, FALSE, "close")]
        /\ worker[w].pc = "parse" /\ worker'[w].pc = "flush" /\ sock' = sock
    BY <1>1, <1>12 DEF ParseError, WorkerRec
  <2>2. QueueResponse(j, FALSE, "close").unsent = k.unsent + RespLen
    BY <1>1 DEF QueueResponse, ConnectionRec
  <2>3. worker[w].seg # "part"
    BY <1>2, <1>12, <2>1 DEF ParseError, Fits, Quiet, ConsumeStatus
  <2>4. Serving(w) /\ ~Serving(w)' /\ conn'[d].unsent = k.unsent + RespLen
    BY <1>1, <2>1, <2>2, <2>3 DEF Serving
  <2>5. QED
    BY <1>7, <2>1, <2>4
<1>13. CASE ParseComplete(w)
  <2>1. worker[w].pc = "parse" /\ worker'[w].pc = "serve" /\ sock' = sock
    BY <1>1, <1>13 DEF ParseComplete, WorkerRec
  <2>2. worker[w].seg # "part"
    BY <1>2, <1>13, <2>1 DEF ParseComplete, Fits, Quiet, ConsumeStatus
  <2>3. conn'[d].unsent = k.unsent
    BY <1>1, <1>13 DEF ParseComplete, ConnectionRec
  <2>4. QED
    BY <1>6, <2>1, <2>2, <2>3 DEF Serving
<1>14. CASE Queues(w)
  <2>1. PICK b \in BOOLEAN, h \in {"keep-alive", "close"} :
           conn' = [conn EXCEPT ![d] = QueueResponse(k, b, h)]
    BY <1>14 DEF Queues
  <2>2. QueueResponse(k, b, h).unsent = k.unsent + RespLen
    BY <1>1 DEF QueueResponse, ConnectionRec
  <2>3. worker'[w].pc = "flush" /\ sock' = sock /\ worker[w].pc \in {"serve", "exchange"}
    BY <1>1, <1>14 DEF Queues, WorkerRec
  <2>4. Serving(w) /\ ~Serving(w)' /\ conn'[d].unsent = k.unsent + RespLen
    BY <1>1, <2>1, <2>2, <2>3 DEF Serving
  <2>5. QED
    BY <1>7, <2>3, <2>4
<1>15. CASE SendSome(w)
  <2>1. PICK n : n = Taken(d)
    OBVIOUS
  <2>2. n \in Nat /\ n <= k.unsent
    BY <1>5, <2>1 DEF Taken
  <2>3. /\ conn' = [conn EXCEPT ![d].unsent = k.unsent - n]
        /\ sock' = [sock EXCEPT ![d].outq = sock[d].outq + n]
    BY <1>1, <1>15, <2>1 DEF SendSome, SendCounting
  <2>4. /\ conn'[d].unsent = k.unsent - n /\ sock'[d].outq = sock[d].outq + n
        /\ sock'[d].inq = sock[d].inq
    BY <1>1, <2>3 DEF ConnectionRec, SocketRec
  <2>5. ~Serving(w) /\ ~Serving(w)'
    BY <1>1, <1>15 DEF SendSome, SendCounting, Goto, Serving, WorkerRec
  <2>6. QED
    BY <1>5, <1>6, <2>2, <2>4, <2>5
<1>16. CASE SendFails(w)
  <2>1. WasReset(d) /\ sock' = sock
    BY <1>16 DEF SendFails, WasReset
  <2>2. QED
    BY <1>0, <1>1, <1>2, <1>3, <1>4, <1>5, <2>1, MovedWithin
<1>17. CASE FinishResume(w) \/ Concludes(w, "server")
  <2>1. /\ conn' = [conn EXCEPT ![d].parser = FreshParser] /\ sock' = sock
        /\ worker[w].pc = "finish" /\ Return(w)
    BY <1>17 DEF FinishResume, Concludes, FinishWith
  <2>2. conn'[d].unsent = k.unsent
    BY <1>1, <2>1 DEF ConnectionRec
  <2>3. ~Serving(w) /\ ~Serving(w)'
    BY <1>1, <2>1 DEF Serving, Return, IdleWorker
  <2>4. QED
    BY <1>6, <2>1, <2>2, <2>3
<1>18. ~TakeTask(w) /\ ~LookupConnection(w)
  BY DEF Holding, TakeTask, LookupConnection
<1>19. QED
  BY <1>8, <1>9, <1>10, <1>11, <1>12, <1>13, <1>14, <1>15, <1>16, <1>17, <1>18
  DEF HandlerStep, CommonWorkerStep

\* A step of a worker keeps every connection accounted for.
LEMMA HandlerOwed ==
  ASSUME OwedInv, TypeInv', NEW w \in Workers, HandlerStep(w, "server")
  PROVE  \A c \in Conns : Accounted(c)'
<1>0. /\ CoreWorkerStep(w) /\ TypeInv /\ DispatchInv /\ OneFdPerConn /\ ConnectionInv("server")
      /\ \A c \in Conns : Accounted(c)
  BY HandlerIsCore DEF OwedInv, ConnectionInv, DispatchInv
<1>1. CASE Holding(w)
  <2>1. PICK d : d = worker[w].conn
    OBVIOUS
  <2>2. \A c \in Conns \ {d} : Accounted(c)'
    BY <1>0, <1>1, <2>1, HandlerTouches, SameAccount
  <2>3. Accounted(d)'
    BY <1>1, <2>1, HandlerOwn
  <2>4. QED
    BY <2>2, <2>3
<1>2. CASE ~Holding(w)
  <2>1. TakeTask(w) \/ LookupConnection(w) \/ Stops
    BY <1>0, <1>2, WorkerShapes DEF Advances, Answers
  <2>2. UNCHANGED <<conn, sock, client>>
    BY <1>2 DEF Holding, HandlerStep, CommonWorkerStep, TakeTask, LookupConnection, ResumeFlush,
                RecvData, RecvAgain, RecvClosed, RecvEnds, ParseMore, ParseError, ParseComplete,
                SendSome, SendCounting, SendAgain, SendBlocked, SendFails, SendRaisesSigpipe,
                FinishResume, FinishBad, FinishWith, Queues, Connects, Concludes, Dies
  <2>3. /\ \A v \in Workers \ {w} : worker'[v] = worker[v]
        /\ ~Serving(w) /\ ~Serving(w)'
    <3>1. worker \in [Workers -> WorkerRec]
      BY <1>0 DEF TypeInv, TypeOK
    <3>2. ~Serving(w)
      BY <1>2 DEF Serving, Holding
    <3>3. CASE TakeTask(w)
      BY <3>1, <3>2, <3>3 DEF TakeTask, Serving, WorkerRec
    <3>4. CASE LookupConnection(w)
      BY <3>1, <3>2, <3>4 DEF LookupConnection, Return, IdleWorker, Serving, WorkerRec
    <3>5. CASE Stops
      BY <3>2, <3>5 DEF Stops, Serving
    <3>6. QED
      BY <2>1, <3>3, <3>4, <3>5
  <2>4. \A c \in Conns : Served(c)' <=> Served(c)
    BY <2>3 DEF Served, Serving
  <2>5. QED
    BY <1>0, <2>2, <2>4, SameAccount
<1>3. QED
  BY <1>1, <1>2

\* Accepting and closing connections leaves the accounts alone: a connection that is
\* accepted has not been written to.
LEMMA ReactorOwed ==
  ASSUME OwedInv, ReactorStep
  PROVE  \A c \in Conns : Accounted(c)'
<1>0. TypeInv /\ OneFdPerConn /\ \A c \in Conns : Accounted(c)
  BY DEF OwedInv, ConnectionInv, DispatchInv
<1>1. worker' = worker /\ client' = client
  BY DEF ReactorStep, SwapRearms, ApplyRearm, WaitEvents, AcceptOne, AcceptDone, AcceptAborted, AcceptLast, HandleEvent, DispatchEvent
<1>2. \A c \in Conns : Served(c)' <=> Served(c)
  BY <1>1 DEF Served, Serving
<1>3. sock \in [Conns -> SocketRec] /\ conn \in [Conns -> ConnectionRec]
  BY <1>0 DEF TypeInv, TypeOK
<1>4. CASE AcceptOne
  <2>1. PICK d \in Conns : /\ sock[d].link = "backlog"
                           /\ sock' = [sock EXCEPT ![d].link = "open"]
                           /\ conn' = [conn EXCEPT ![d] = NewConnection]
    BY <1>4 DEF AcceptOne, Backlog
  <2>2. \A c \in Conns : /\ sock'[c].inq = sock[c].inq /\ sock'[c].outq = sock[c].outq
                         /\ sock'[c].peer = sock[c].peer
                         /\ sock'[c].link \in {"none", "backlog"} => sock[c].link \in {"none", "backlog"}
    BY <1>3, <2>1 DEF SocketRec
  <2>3. \A c \in Conns : conn'[c].unsent = conn[c].unsent
    BY <1>0, <1>3, <2>1 DEF Accounted, NewConnection
  <2>4. QED
    BY <1>0, <1>1, <1>2, <2>2, <2>3, SameAccount
<1>5. CASE ~AcceptOne
  <2>1. conn' = conn /\ (sock' = sock \/ \E d : sock' = [sock EXCEPT ![d].link = "closed"])
    BY <1>5 DEF ReactorStep, SwapRearms, ApplyRearm, WaitEvents, AcceptDone, AcceptAborted, AcceptLast,
                HandleEvent, DispatchEvent, EraseConnection
  <2>2. \A c \in Conns : /\ sock'[c].inq = sock[c].inq /\ sock'[c].outq = sock[c].outq
                         /\ sock'[c].peer = sock[c].peer
                         /\ sock'[c].link \in {"none", "backlog"} => sock[c].link \in {"none", "backlog"}
    <3>1. CASE sock' = sock
      BY <3>1
    <3>2. ASSUME NEW d, sock' = [sock EXCEPT ![d].link = "closed"], NEW c \in Conns
          PROVE  /\ sock'[c].inq = sock[c].inq /\ sock'[c].outq = sock[c].outq
                 /\ sock'[c].peer = sock[c].peer
                 /\ sock'[c].link \in {"none", "backlog"} => sock[c].link \in {"none", "backlog"}
      <4>1. CASE c = d
        BY <1>3, <3>2, <4>1 DEF SocketRec
      <4>2. CASE c # d
        BY <1>3, <3>2, <4>2
      <4>3. QED
        BY <4>1, <4>2
    <3>3. QED
      BY <2>1, <3>1, <3>2
  <2>3. QED
    BY <1>0, <1>1, <1>2, <2>1, <2>2, SameAccount
<1>6. QED
  BY <1>4, <1>5

\* A client asks when it has read everything, so nothing else is due to it.
LEMMA CanSendMeansPaid ==
  ASSUME TypeInv, NEW c \in Conns, Accounted(c), CanSend(c)
  PROVE  /\ ~WasReset(c) /\ ~Complete(sock[c].inq) /\ ~Served(c)
         /\ sock[c].outq = 0 /\ conn[c].unsent = 0
         /\ client[c].got = client[c].asked * RespLen
<1>1. ~WasReset(c) /\ client[c].got = client[c].asked * RespLen
  BY DEF CanSend, WasReset
<1>2. PICK u : u = Due(Complete(sock[c].inq), Served(c))
  OBVIOUS
<1>3. u \in Nat
  BY <1>2, AccountTypes DEF Due
<1>4. client[c].got = client[c].got + sock[c].outq + conn[c].unsent + u
  BY <1>1, <1>2 DEF Accounted, Balance, Due
<1>5. sock[c].outq = 0 /\ conn[c].unsent = 0 /\ u = 0
  BY <1>3, <1>4, AccountTypes
<1>6. ~Complete(sock[c].inq) /\ ~Served(c)
  BY <1>2, <1>5, AccountTypes DEF Due
<1>7. QED
  BY <1>1, <1>5, <1>6

\* What clients do keeps the accounts: a request adds a response that is due, reading
\* moves what was sent.
LEMMA ClientOwed ==
  ASSUME OwedInv, NEW d \in Conns, ClientStep(d)
  PROVE  \A c \in Conns : Accounted(c)'
<1>0. TypeInv /\ \A c \in Conns : Accounted(c)
  BY DEF OwedInv, ConnectionInv, DispatchInv
<1>1. worker' = worker /\ conn' = conn
  BY DEF ClientStep
<1>2. \A c \in Conns : Served(c)' <=> Served(c)
  BY <1>1 DEF Served, Serving
<1>3. /\ sock \in [Conns -> SocketRec] /\ client \in [Conns -> ClientRec]
      /\ sock[d].inq \in Seq(Segments) /\ sock[d].outq \in Nat /\ client[d].got \in Nat
      /\ client[d].asked \in Nat /\ conn[d].unsent \in Nat
  BY <1>0, AccountTypes DEF TypeInv, TypeOK
<1>4. \A c \in Conns \ {d} : Accounted(c)'
  <2>1. \A c \in Conns \ {d} : sock'[c] = sock[c] /\ client'[c] = client[c]
    BY <1>3 DEF ClientStep, ClientConnects, ClientSendsPart, ClientSendsFinal, ClientReads,
                ClientFin, ClientReset
  <2>2. QED
    BY <1>0, <1>1, <1>2, <2>1, SameAccount
<1>5. Accounted(d)'
  <2>1. CASE ClientConnects(d)
    <3>1. /\ sock'[d].inq = sock[d].inq /\ sock'[d].outq = sock[d].outq
          /\ sock'[d].peer = sock[d].peer /\ sock[d].link = "none" /\ client' = client
      BY <1>3, <2>1 DEF ClientConnects, SocketRec
    <3>2. QED
      BY <1>0, <1>1, <1>2, <3>1, SameAccount
  <2>2. CASE ClientFin(d) \/ ClientReset(d)
    <3>1. /\ sock'[d].inq = sock[d].inq /\ sock'[d].outq = sock[d].outq
          /\ sock'[d].link = sock[d].link /\ client' = client
          /\ WasReset(d)' \/ ~WasReset(d)
      <4>1. CASE ClientFin(d)
        BY <1>3, <4>1 DEF ClientFin, WasReset, SocketRec
      <4>2. CASE ClientReset(d)
        <5>1. PICK q \in {"reset", "fin_reset"} : sock' = [sock EXCEPT ![d].peer = q]
          BY <4>2 DEF ClientReset
        <5>2. QED
          BY <1>3, <4>2, <5>1 DEF ClientReset, WasReset, SocketRec
      <4>3. QED
        BY <2>2, <4>1, <4>2
    <3>2. Balance(d) => Balance(d)'
      BY <1>1, <1>2, <3>1 DEF Balance, Due
    <3>3. QED
      BY <1>0, <1>1, <3>1, <3>2 DEF Accounted
  <2>3. CASE ClientReads(d)
    <3>1. /\ sock'[d].outq = sock[d].outq - 1 /\ client'[d].got = client[d].got + 1
          /\ sock'[d].inq = sock[d].inq /\ sock'[d].link = sock[d].link
          /\ sock'[d].peer = sock[d].peer /\ client'[d].asked = client[d].asked
      BY <1>3, <2>3 DEF ClientReads, SocketRec, ClientRec
    <3>2. WasReset(d)' <=> WasReset(d)
      BY <3>1 DEF WasReset
    <3>3. Balance(d) => Balance(d)'
      <4>1. PICK u, x : /\ u = Due(Complete(sock[d].inq), Served(d))
                        /\ x = client[d].asked * RespLen
        OBVIOUS
      <4>2. /\ u = Due(Complete(sock'[d].inq), Served(d)') /\ x = client'[d].asked * RespLen
        BY <1>2, <3>1, <4>1 DEF Due
      <4>u. u \in Nat
        BY <4>1 DEF Due
      <4>3. x = client[d].got + sock[d].outq + conn[d].unsent + u
              => x = client'[d].got + sock'[d].outq + conn'[d].unsent + u
        <5>1. \A g, o, n \in Nat : g + 1 + (o - 1) + n + u = g + o + n + u
          BY <4>u
        <5>2. client'[d].got + sock'[d].outq + conn'[d].unsent + u
                = client[d].got + sock[d].outq + conn[d].unsent + u
          BY <1>1, <1>3, <3>1, <5>1
        <5>3. QED
          BY <5>2
      <4>4. (Complete(sock'[d].inq) /\ Served(d)') => (Complete(sock[d].inq) /\ Served(d))
        BY <1>2, <3>1
      <4>5. QED
        BY <4>1, <4>2, <4>3, <4>4 DEF Balance
    <3>4. QED
      BY <1>0, <1>1, <3>1, <3>2, <3>3 DEF Accounted
  <2>4. CASE ClientSendsPart(d)
    <3>1. ~Complete(sock[d].inq) /\ OnlyLastCompletes(sock[d].inq)
      BY <1>0, <2>4, CanSendMeansPaid DEF ClientSendsPart, Accounted
    <3>2. PICK q : q = Append(sock[d].inq, "part")
      OBVIOUS
    <3>3. OnlyLastCompletes(q) /\ ~Complete(q)
      BY <1>3, <3>1, <3>2, InputOps DEF Segments
    <3>4. /\ sock'[d].inq = q /\ sock'[d].outq = sock[d].outq /\ sock'[d].link = sock[d].link
          /\ sock'[d].peer = sock[d].peer /\ client'[d].asked = client[d].asked
          /\ client'[d].got = client[d].got
      BY <1>3, <2>4, <3>2 DEF ClientSendsPart, SocketRec, ClientRec
    <3>5. Balance(d) => Balance(d)'
      BY <1>1, <1>2, <3>1, <3>3, <3>4 DEF Balance, Due
    <3>6. WasReset(d)' <=> WasReset(d)
      BY <3>4 DEF WasReset
    <3>7. QED
      BY <1>0, <1>1, <3>3, <3>4, <3>5, <3>6 DEF Accounted
  <2>5. CASE ClientSendsFinal(d)
    <3>1. /\ ~Complete(sock[d].inq) /\ OnlyLastCompletes(sock[d].inq) /\ ~Served(d)
          /\ sock[d].outq = 0 /\ conn[d].unsent = 0
          /\ client[d].got = client[d].asked * RespLen
      BY <1>0, <2>5, CanSendMeansPaid DEF ClientSendsFinal, Accounted
    <3>2. PICK s \in FinalSegments :
            /\ sock' = [sock EXCEPT ![d].inq = Append(sock[d].inq, s)]
            /\ client' = [client EXCEPT ![d].phase = IF s = "keep" THEN "idle" ELSE "last",
                                        ![d].asked = client[d].asked + 1]
      BY <1>3, <2>5 DEF ClientSendsFinal
    <3>3. PICK q : q = Append(sock[d].inq, s)
      OBVIOUS
    <3>4. OnlyLastCompletes(q) /\ Complete(q)
      BY <1>3, <3>1, <3>2, <3>3, InputOps DEF Segments, FinalSegments
    <3>5. /\ sock'[d].inq = q /\ sock'[d].outq = 0 /\ sock'[d].link = sock[d].link
          /\ sock'[d].peer = sock[d].peer /\ client'[d].asked = client[d].asked + 1
          /\ client'[d].got = client[d].got
      BY <1>3, <3>1, <3>2, <3>3 DEF SocketRec, ClientRec
    <3>6. client'[d].asked * RespLen = client[d].asked * RespLen + RespLen
      BY <1>3, <3>5, OneMore
    <3>7. Balance(d)'
      <4>1. PICK x : x = client[d].asked * RespLen
        OBVIOUS
      <4>2. Due(Complete(sock'[d].inq), Served(d)') = RespLen
        BY <3>4, <3>5 DEF Due
      <4>3. client'[d].asked * RespLen
              = client'[d].got + sock'[d].outq + conn'[d].unsent + RespLen
        BY <1>1, <1>3, <3>1, <3>5, <3>6, <4>1
      <4>4. ~Served(d)'
        BY <1>2, <3>1
      <4>5. QED
        BY <4>2, <4>3, <4>4 DEF Balance
    <3>8. QED
      BY <1>0, <1>1, <3>4, <3>5, <3>7 DEF Accounted
  <2>6. QED
    BY <2>1, <2>2, <2>3, <2>4, <2>5 DEF ClientStep
<1>6. QED
  BY <1>4, <1>5

\* Nothing has been asked before the first step.
LEMMA InitOwed == Init => OwedInv
<1> SUFFICES ASSUME Init PROVE OwedInv
  OBVIOUS
<1>1. \A c \in Conns : ~Served(c) /\ ~Complete(sock[c].inq) /\ OnlyLastCompletes(sock[c].inq)
  BY DEF Init, Served, Serving, IdleWorker, Complete, OnlyLastCompletes
<1>2. \A c \in Conns : client[c].asked = 0 /\ client[c].got = 0 /\ sock[c].outq = 0 /\ conn[c].unsent = 0
  BY DEF Init, NewConnection
<1>3. \A c \in Conns : Balance(c)
  BY <1>1, <1>2 DEF Balance, Due
<1>4. QED
  BY <1>1, <1>2, <1>3, InitConnection DEF OwedInv, Accounted

\* Every step of either program keeps the accounts.
LEMMA NextOwed ==
  ASSUME DisarmedIsSilent, OwedInv, [ProgramNext("server")]_vars
  PROVE  OwedInv'
<1>1. ConnectionInv("server")'
  BY NextConnection DEF OwedInv
<1>2. TypeInv'
  BY <1>1 DEF ConnectionInv, DispatchInv
<1>3. \A c \in Conns : Accounted(c)'
  <2>1. CASE UNCHANGED vars
    BY <2>1 DEF vars, OwedInv, Accounted, Balance, Due, WasReset, Served, Serving
  <2>2. QED
    BY <1>2, <2>1, ReactorOwed, HandlerOwed, ClientOwed DEF ProgramNext
<1>4. QED
  BY <1>1, <1>3 DEF OwedInv

\* A connection that is armed for reading has no worker, and with its input empty the
\* account leaves what has been sent.
LEMMA OwedImplies == OwedInv => NothingOwedWhileReading
<1> SUFFICES ASSUME OwedInv, NEW f \in Fds, interest[f] = "Readable",
                    sock[connections[f]].inq = <<>>, ~WasReset(connections[f])
             PROVE  client[connections[f]].got + sock[connections[f]].outq
                      = client[connections[f]].asked * RespLen
  BY DEF NothingOwedWhileReading
<1>1. PICK c \in Conns : c = connections[f]
  BY KnownFds DEF OwedInv, ConnectionInv
<1>2. conn[c].unsent = 0
  BY <1>1 DEF OwedInv, ConnectionInv, ArmedInv, Quiet, ConnAt
<1>3. ~Served(c)
  <2>1. ASSUME NEW w \in Workers, Serving(w) PROVE worker[w].conn # c
    <3>1. /\ worker[w].fd \in Fds /\ connections[worker[w].fd] = worker[w].conn
          /\ interest[worker[w].fd] = "off"
      BY <2>1, HoldingFacts DEF OwedInv, ConnectionInv, Serving, Holding
    <3>2. QED
      BY <1>1, <3>1 DEF OwedInv, ConnectionInv, OneFdPerConn
  <2>2. QED
    BY <2>1 DEF Served
<1>4. ~Complete(sock[c].inq)
  BY <1>1 DEF Complete
<1>5. client[c].asked * RespLen = client[c].got + sock[c].outq + conn[c].unsent + 0
  BY <1>1, <1>3, <1>4 DEF OwedInv, Accounted, Balance, Due
<1>6. client[c].got \in Nat /\ sock[c].outq \in Nat
  BY AccountTypes DEF OwedInv, ConnectionInv, DispatchInv
<1>7. PICK x : x = client[c].asked * RespLen
  OBVIOUS
<1>8. QED
  BY <1>1, <1>2, <1>5, <1>6, <1>7
=============================================================================
