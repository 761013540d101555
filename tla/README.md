# A TLA+ model of the HTTP server and load balancer

The repository holds two C++17 programs built on one concurrency core: a reactor thread that
owns an event loop (epoll or kqueue), a fixed pool of worker threads, and a deque of "re-arm"
requests through which the workers talk back to the reactor. This directory models that core
with the handlers of both programs, the event loop, the thread pool and the parsers below it, the
upstream selection beside it and the life of both programs around it; it checks the models with
TLC on small instances and proves the central safety properties with TLAPS for every value of the
constants. Paths below are relative to the repository.

## 1. Inventory

| Component | State | Operations | Talks to |
|---|---|---|---|
| `server::HttpServer` (`src/server/http_server.*`) | `connections_`, `pendingRearms_`, `running_` | `reactorLoop`, `handleAccept`, `applyPendingRearms`, `postRearm`, `handleConnectionEvent`, `run`, `stop` | event loop (reactor thread only), thread pool (tasks), connections (workers, without a lock after the lookup) |
| `net::Connection` | parser, write buffer and offset, pending keep-alive | `queueWrite`, `flushWrite`, `hasPendingWrite` | kernel socket |
| `net::EventLoop`, `EpollReactor`, `KqueueReactor` | interest per fd | `add`, `modify`, `remove`, `wait` | kernel |
| `net::ThreadPool` | `queue_`, `stop_`, threads | `enqueue`, `workerLoop`, destructor | condition variable |
| `net::HttpParser`, `HttpResponseParser` | state, buffer, message | `consume`, `reset` | called by a handler |
| `lb::UpstreamPool` | `upstreams_`, `nextIndex_` | `pickNext` (lock-free) | `Upstream::healthy` flags |
| `lb::HealthChecker` | `running_`, `thread_` | `start`, `stop`, `loop`, `probeOnce` | writes `Upstream::healthy` |
| `lb::LoadBalancer` | as `HttpServer`, plus pool and checker | the same core, `proxyRequest` | upstream servers, blocking sockets with timeouts |
| `server::Router` | constant tables | `dispatch` | called by a handler |
| `main()` of both programs | `g_stopRequested`, `watcherShouldExit` | signal handler, watcher thread | `run()`, `stop()`, destructors |

What is hard here, and what makes each part correct:

* **Dispatch.** The event loop is level-triggered, so an fd must be disarmed before a worker gets
  it and re-armed exactly once afterwards. Correct: a disarmed fd is in exactly one thread's
  hands; an armed fd waits for the event it needs.
* **Lifetime.** A worker uses its `Connection*` after releasing the lock, while the reactor may
  erase entries and the kernel reuses descriptor numbers. Correct: the object outlives the handler.
* **Partial writes.** A response continues across events and workers. Correct: nothing is lost or
  sent twice, and the connection goes back to reading only when nothing is owed.
* **Clients that go away**, at any time, by FIN or by reset, seen differently by the two backends.
  Correct: their descriptors come back and the process survives.
* **The pool.** `notify_one()` after the unlock, spurious wakeups, destruction with tasks queued.
  Correct: no lost wakeup, every task exactly once, the destructor returns.
* **Event loop state.** `interestByFd_` is a copy of kernel state that closing a descriptor, a failed
  call or the reuse of a number can make stale. Correct: it agrees with the kernel, and `wait()`
  reports each ready descriptor once, even when its array is full.
* **Parsing.** `recv()` cuts messages anywhere, peers send malformed lines and lengths, one parser
  reads many messages. Correct: the result is a function of the bytes of this message alone.
* **Proxying.** The upstream may be missing, silent, late or broken, and its socket shares the
  descriptor table with the clients. Correct: every path answers the client, gives the descriptor
  back, and ends the connection only when the client can expect it.
* **Upstream selection** against concurrent health updates. Correct: an upstream that stays healthy
  is not missed; one that is down for good is abandoned, and traffic settles on those that are up.
* **Shutdown.** Signals at any time, `stop()` from two threads, member destruction order.
  Correct: a signal ends the program, no thread outlives what it uses.

`PROJECT.json` lists the hazards line by line, with the properties that cover each.

## 2. Modules

| Module | Models | Composition |
|---|---|---|
| `Reactor` | reactor thread, workers up to and after the request itself, connections, kernel and clients | the core that `HttpServer` and `LoadBalancer` repeat |
| `HttpServer` | how the router's answer to a complete request is queued; specification and properties | extends `Reactor` |
| `LoadBalancer` | `proxyRequest()` and what `handleClientEvent()` does otherwise; specification and properties | extends `Reactor` |
| `HttpParser` | both parsers, the forwarded request, `serialize()` | what `Reactor` uses as one step |
| `EventInterface` | what a caller of `event_loop.h` gets from each backend (abstract) | |
| `EventLoop` | `EpollReactor`, `KqueueReactor` and their kernel queues | implements `EventInterface` |
| `TaskExecutor` | what a thread pool promises (abstract) | `Reactor` uses the pool at this level |
| `ThreadPool` | mutex, condition variable, destructor | implements `TaskExecutor` |
| `Lifecycle` | `main()`, watcher, signal, `run()`, `stop()`, health checker thread, destructors | extends `ThreadPool`: `main()` is its owner |
| `UpstreamPool` | `pickNext()` against the health checker's loop | |
| `MCHttpServer`, `MCHttpParser` | symmetry set and input lines for TLC | extend `HttpServer`, `HttpParser` |
| `ReactorProofs` | lemmas: types and the dispatch protocol, for any program built on the core | extends `Reactor`, `QueueLemmas` |
| `ConnectionProofs` | lemmas: what a connection waits for, has parsed and owes | extends `ReactorProofs` |
| `ProgramProofs` | theorems about the two programs | extends `HttpServer`, `LoadBalancer`, `ConnectionProofs` |
| `ThreadPoolProofs` | theorems about the pool and about shutting down | extends `Lifecycle` |
| `ParserProofs` | theorems about both parsers | extends `HttpParser` |
| `EventLoopProofs`, `UpstreamPoolProofs` | theorems about the module they are named after | extend it |
| `QueueLemmas` | lemmas about sequences without repetitions | |

### Reactor and HttpServer

The variables are the fields of the class (`connections`, `pendingRearms`), the local variables of
the threads (`rpc`, `rearms`, `events`, `worker`), the pool's `queue`, the `Connection` objects
(`conn`) and the outside world (`interest`, `sock`, `client`).

* *Reactor thread*: `SwapRearms`, `ApplyRearm`, `WaitEvents`, `AcceptOne`, `AcceptDone`,
  `AcceptAborted` and `HandleEvent` are the parts of `reactorLoop()` between two accesses to shared state. A batch of
  events is a set because neither backend fixes their order, and it is computed when `wait()`
  returns, so events are stale when they are handled. The accept loop ends when the backlog is empty,
  when the process is out of descriptors, and at a connection that was reset before it was accepted;
  in the last two cases clients stay in the backlog until the listening socket is reported again.
* *Workers*: one step per lock-protected access or system call of `handleConnectionEvent()`:
  lookup, `recv`, parse, serve, each `send`, and the final re-arm. `recv` reads by descriptor number
  and `send` through the object, as in the code.
* *Event loop*: `EpollEvents` and `KqueueEvents` say what is reported for an fd. They differ in two
  ways the code depends on. epoll reports errors and hang-ups whatever the interest mask is;
  kqueue forgets the filters with mask 0. `EV_EOF` on the read filter of kqueue counts as an error
  as soon as the peer has shut down its sending side.
* *Signals*: `SendRaisesSigpipe` ends the process when the peer has answered an earlier `send()` to its
  closed socket with a reset; on kqueue systems also after a reset alone, where Linux returns
  `ECONNRESET`.
* *Parser*: a request arrives as segments; the last one says what the parser makes of the request
  (keep-alive, close, malformed). A parser that has finished answers `Complete` for anything, as
  the code does.
* *Clients* connect, send, read and leave. They do not pipeline, which the repository declares out
  of scope.
* *Bytes* are counted in units: a response has `RespLen` of them and a send buffer `SndBuf`.

### LoadBalancer

`proxyRequest()` has five ways out. `NoHealthyUpstream` and `NoDescriptor` refuse at once with a 502
that closes the connection; `OpenUpstream` takes a descriptor from the number space that `accept()`
uses. What happens on that socket is visible to no other thread, so `connect()`, `sendAll()` and the
`recv()` loop are one step with three outcomes: `RelayResponse`, `UpstreamFails` (refused, reset,
timed out or unparsable: the code cannot tell them apart) and `UpstreamSigpipe`. A relayed response
brings its own `Connection` header, whatever it is, or gets the one `serialize()` adds. `FinishProxied` reads
`pendingKeepAlive()`, where `HttpServer` reads the request.

### HttpParser

A message is a sequence of symbols: CR, LF and words; a chunk is any number of them. One module
stands for both parsers, whose code differs in the first line and in the version that decides the
keep-alive default. Each turn of `process()` is an action. `Numbers` is what `strtol()` makes of a
few words, the saturated overflow among them; every other word is no number. The names that the code
looks up, `Connection` and `Content-Length`, come in two spellings that `findHeader()` takes for one. `Trim` drops the white
space at both ends of a value, which here is a CR or LF that belongs to no CRLF. The properties
compare the outcome with a definition of the message as a whole, which knows nothing of buffers and
states.

### EventLoop

The variables are the kernel's registrations and `interestByFd_`; `backend` is chosen in the initial
state. Closing a descriptor drops its registrations but not the memory of them. `wait()` looks at an
arbitrary condition of every socket, and at most `MaxEvents` entries fit into the array. `lowMemory`
says whether system calls may fail. When they may, callers change one filter at a time
(`OneAtATime`). This is a restriction to the callers there are, both of which always pass through the
empty mask; `KqueueReactor` does not enforce it. With two changes in one call the first could be
applied and the second not, and `interestByFd_` would then be wrong. The removal of a
descriptor happens before its number is used again, as `applyPendingRearms()` and the error branch
do. `Reactor` uses the event loop through what it reports for one fd.

`EventInterface` is exact: for each backend it says which descriptors a batch names and with which
mask and error flag. What is common to both is `Wait`; what differs is in four operators. `IsError`:
epoll flags a reset whatever the interest is, kqueue flags a reset or, on the read filter, the end of
the input. `Entries` and `Cut`: the array of kqueue holds filters and may be full between two of one
descriptor. `Remove`: epoll reports failure for a descriptor that was closed before.

### ThreadPool

A step is what happens under one ownership of `mutex_`. Going to sleep is atomic with evaluating
the predicate, which is the guarantee of `cv_.wait`; notifications are steps of their own because
the code issues them after unlocking. `SpuriousWakeup` may happen at any time.

### Lifecycle

`pc` holds the positions of `main()` and of the watcher; `stop()` is written once for both callers.
The pool is the one of `ThreadPool`, action by action: `main()` enqueues in `reactorLoop()` and runs
`~ThreadPool()` inside the destructor of the server. `DestroyShared` and `DestroyPool` follow the
order in which the compiler destroys the members: `connections_`, `pendingRearms_` and their mutexes
are declared after `pool_` and go before it.

### UpstreamPool

Each `fetch_add`, flag load and `exchange` is a step. `stable` is a history variable: for each call
the upstreams that have been healthy since it began. `WordSize` stands for 2^64 and is no multiple of
`Count`, as 2^64 is no multiple of 3, so that the jump at the wrap happens. The pool is not empty:
with no upstream `pickNext()` returns before touching any state. A probe is reduced to its result;
an upstream that is up may still fail one.

## 3. What the runs show

Passing runs:

| Run | Instance | Properties |
|---|---|---|
| `server_safety` | kqueue, 2 descriptors, 2 connections, 2 workers, 2 requests each, all client faults | `TypeOK`, `SingleCustodian`, `ArmedForWhatIsNeeded`, `ConnectionOutlivesHandler`, `ParserIsFed`, `NothingOwedWhileReading` |
| `server_live` | epoll, 2 connections that compete for 1 descriptor, 1 worker, 2 requests each, clients may half-close | `RequestAnswered`, `DepartedPeerReleased` |
| `balancer` | epoll, 2 descriptors for 2 clients and the upstream sockets, 1 worker, clients may half-close, every upstream fault and every `Connection` header of an upstream | `UpstreamSocketIsPrivate`, `CloseIsHonoured`, `EndIsExpected`, `RequestAnswered` |
| `parser` | both parsers, every message of up to 2 of 13 header lines, every cut, any order of messages | `ParserTypeOK`, `StatusMatchesPrefix`, `ParsedIsSent`, `RelayedIsFramed` |
| `event_loop` | both backends, 2 descriptors, an array of 2 entries, with and without failing calls | `EventTypeOK`, `InterestAgrees`, `BackendsDifferInTwoCases`, `ImplementsInterface` |
| `lifecycle` | load balancer, 3 pool threads, 3 tasks | `PoolTypeOK`, `LifeTypeOK`, `StopHasOneCaller`, `NoThreadOutlivesServer`, `NoLostWakeup`, `DrainedOnDestruction`, `SignalEndsServing`, `ImplementsExecutor`, `EveryTaskRuns`, `DestructorReturns` |
| `pick` | 2 upstreams, 2 threads, word size 3 | `PickTypeOK`, `StableUpstreamNotSkipped`, `DownUpstreamAbandoned`, `RoutesAroundFailures` |

Runs that TLC refutes, each a disagreement between the code and what the repository says of it:

| Run | What happens |
|---|---|
| `server_epoll_reset` | A worker holds its `Connection*`; the client resets; epoll reports the disarmed fd; the reactor's error branch erases the connection. The comment at `http_server.cpp:130-133` excludes this. The same model without resets, or on kqueue, satisfies the property. |
| `server_close_ignored` | A `Connection: close` request is answered at once; `reset()` overwrites the request before `req.keepAlive` is read at `http_server.cpp:195`, and the connection is armed for reading. The load balancer reads `pendingKeepAlive()` there; `balancer` shows that it honours the close. |
| `server_sigpipe` | A client sends FIN and then a reset; the next `send()` raises `SIGPIPE`, and the process ends. |
| `stop_lost` | The watcher calls `stop()` before `run()` sets `running_`; the watcher is gone and the server serves for ever. |
| `members_destroyed` | `main()` destroys the connection table; a task that was queued starts in the draining pool. |

Other behaviour that the models show, each a disagreement with a comment or a limit of what is promised:

* `event_loop.h:20-22` says that "callers see identical semantics regardless of platform". They do not.
  A request that arrives together with the client's FIN is dropped on kqueue, where `EV_EOF` makes the
  event an error, and answered on epoll; a reset of a disarmed descriptor is reported by epoll alone,
  which is what goes wrong in `server_epoll_reset`. `BackendsDifferInTwoCases` states that these two
  cases are divergences and that there is no third.
* `pickNext()` may return `nullptr` though at every moment some upstream was healthy: the first flag is
  read as false and then set, the second is cleared and then read. `upstream_pool.h:33` says "Returns
  nullptr only if every upstream is unhealthy."; with a checker at work this is not so. What does
  hold is `StableUpstreamNotSkipped`.
* A malformed or negative `Content-Length` counts as 0 and the message is accepted; a response
  without one is relayed with an empty body. `RelayedIsFramed` measures what is sent on by the same rule
  and says that it is consistent; a peer that reads `-1` or `2x` in another way is outside of it.
* A relayed response keeps the upstream's own `Connection` header (`load_balancer.cpp:222-224`), so it
  need not say what the balancer does. A `close` before the balancer keeps the connection open is
  harmless. A `keep-alive` before it closes would not be, and it happens; but only towards a client that
  asked for the close, since a refusal that closes on its own account says so. That is what
  `EndIsExpected` says: no client that is still there loses its connection without having been told
  or having asked, or before it has been sent everything.

**Bounds.** Two workers and two connections are enough for every pairwise race: the protocol state
of an fd involves the reactor, at most two workers and the previous or next owner of the
descriptor. `RespLen = 2` with `SndBuf = 1` makes every response take the partial-write path at
least once unless the client reads in between, so the resumed and the direct path both occur. Two
requests per connection exercise the parser's reuse; with two descriptor numbers a connection that
ends makes way for the next under the same number. Descriptors run out in
`server_live`, where one client has the only one and the other is in the backlog, and in `balancer`, where
two accepted clients leave none for the upstream, and a client and an upstream socket none for `accept()`.
A request may be sent from the backlog, so `RequestAnswered` includes that its client is accepted in the
end; a client is exempt only if others keep all descriptors for ever. In `balancer` two open connections
share the one worker. Three threads and
three tasks give the pool a sleeper, a busy thread and a waking one at once. The lines of
`MCHttpParser` have one representative of each case that `process()`, `contentLengthFrom()` and
`connectionKeepAlive()` tell apart, and two header lines suffice for first-match lookup. An array of
two entries is too small for two descriptors that are readable and writable, so that it is cut between
the filters of one. Two upstreams suffice for the scan: one to skip, one to find; the picking threads
meet only in `nextIndex_`. `MaxReqs`, `MaxHeaders`, `MaxEvents` and the finite set `Tasks` are the only
bounds, and they are in the guards.

**Symmetry** is used in `server_safety` only, a run without liveness, over model values that no
definition singles out.

**Mutants.** Beside an action stands, where a property needs it, a mutant of it: the same action
with a plausible mistake (a missing disarm, a missing reset, a wrong interest, a detached thread).
Put in the action's place it makes TLC refute the property; `PROJECT.json` pairs them.

**Deadlock** is checked except where the system really may stop: when `SIGPIPE` has ended the
process (`server_safety`, `server_sigpipe`, `balancer`), and when `main()` has returned (`Lifecycle`).

**Fairness.** Weak fairness of the reactor thread and of every worker: the operating system
schedules them, and `wait()` returns after 100 ms at the latest. A client that is still there reads
what it is sent; it need not send anything. In the pool, a thread that is not asleep is scheduled
and a call that has begun goes on; no spurious wakeup is needed. In `Lifecycle` no signal and no
client has to come. An exchange with an upstream is assumed to end. The socket's timeouts end it when
the upstream is silent; against one that sends a byte now and then the code has no bound, which
is listed as a hazard. A probe of the health checker is assumed to return likewise. Upstreams may flip for ever; `DownUpstreamAbandoned` is about one that stops.

## 4. What is proved

All theorems hold for arbitrary sets of descriptors, connections, workers, tasks and threads,
arbitrary positive sizes and, unless a condition is named, any client and upstream faults. They rest
on the named assumptions on the constants, which TLC evaluates in the runs: `NoFd` and `NoConn` are
no descriptor and no connection, the sizes are positive, the pool's threads and the event loop's
descriptors are finite (`PoolThreadAssumption`, `FdsAssumption`), a word of `nextIndex_` holds every
index (`WordAssumption`), a line that is sent has no CRLF inside and a header line is not empty
(`LineAssumption`: with one it would be two lines, or the blank line), and a long holds the numbers of
`Numbers` (`LimitAssumption`). One condition is a hypothesis of theorems rather than an assumption,
`DisarmedIsSilent`: the event loop is kqueue, or no client resets. It is exactly what
`server_epoll_reset` shows to be needed.

| Theorem | Property | Under |
|---|---|---|
| `TypeCorrect`, `BalancerTypeCorrect` | `TypeOK` | |
| `HandlerConnectionSafe`, `BalancerConnectionSafe` | `ConnectionOutlivesHandler` | `DisarmedIsSilent` |
| `DispatchedOnce`, `BalancerDispatchesOnce` | `SingleCustodian` | `DisarmedIsSilent` |
| `WaitsForTheRightEvent` | `ArmedForWhatIsNeeded` | `DisarmedIsSilent` |
| `ParserNeverStale` | `ParserIsFed` | `DisarmedIsSilent` |
| `AnswersInFull`, `BalancerAnswersInFull` | `NothingOwedWhileReading` | `DisarmedIsSilent` |
| `BalancerHonoursClose` | `CloseIsHonoured` | `DisarmedIsSilent` |
| `UpstreamsStayPrivate` | `UpstreamSocketIsPrivate` | `DisarmedIsSilent` |
| `ServerEndsAsExpected`, `BalancerEndsAsExpected` | `EndIsExpected` | `DisarmedIsSilent` |
| `PoolTypeCorrect`, `PoolDrains`, `WakeupsAreNotLost` | `PoolTypeOK`, `DrainedOnDestruction`, `NoLostWakeup` | |
| `PoolImplementsExecutor` | `ImplementsExecutor` | |
| `ProgramRunsPool` | `LifeSpec => PoolSpec` | |
| `LifeTypeCorrect`, `OneCallerOfStop`, `ServerOutlivesThreads` | `LifeTypeOK`, `StopHasOneCaller`, `NoThreadOutlivesServer` | |
| `EventTypeCorrect`, `InterestNeverLies`, `BackendsDiffer` | `EventTypeOK`, `InterestAgrees`, `BackendsDifferInTwoCases` | |
| `BackendsImplementInterface` | `ImplementsInterface` | |
| `ParserTypeCorrect`, `StatusFollowsBytes` | `ParserTypeOK`, `StatusMatchesPrefix` | |
| `ParsedAsSent`, `RelayedAsFramed` | `ParsedIsSent`, `RelayedIsFramed` | |
| `PickTypeCorrect`, `NoStableUpstreamSkipped` | `PickTypeOK`, `StableUpstreamNotSkipped` | |

### The reactor core

The two programs repeat the core; the proofs do not. `CoreNext` (`ReactorProofs`) leaves open
how a request is served: a handler queues one response, may hold another descriptor meanwhile, and
re-arms or closes when the response is out. `ServerIsProgram` and `BalancerIsProgram` show that the
next-state relations of both programs are cases of it. Four invariants build on each other.

1. `TypeInv` is `TypeOK` with `WorkerLocals`. `TypeOK` alone is not inductive: a step of a worker uses
   its fd as an index, so it has to be known what a worker holds at each point. `Advances`, `Answers`
   and `Stops` describe the three shapes of a worker step, so that the proof has one case per action
   and one argument per shape.
2. `DispatchInv`: the set of disarmed fds is divided among the queue, the workers and the two deques
   (`Divided`), none of these repeats an fd (`NoDuplicates`), the event loop and `connections_` know
   the same fds (`Registered`), events and swapped re-arms do not coexist (`OnePhase`), and an fd with
   an unhandled event is still armed (`EventsArmed`). The last two are what make stale events
   harmless: between `wait()` and the last event of its batch no re-arm is applied.
3. `ConnectionInv(p)` (`ConnectionProofs`) follows a connection from hand to hand. `ArmedForWhatIsNeeded`
   speaks of armed fds only, and whether it holds is decided by a worker long before: so the same is
   said of an fd in the queue (`QueuedInv`), of a posted re-arm (`PostedInv`) and of each position in
   the handler (`HandledInv`). That one thread at a time changes a `Connection` is `DispatchInv`. The
   parameter is the program: the balancer also promises that what it waits to read from is kept
   alive, which the server does not (`server_close_ignored`).
4. `OwedInv` adds an account per connection. What the client has asked for is what it has read, plus what
   is in the send buffer, plus what is in the write buffer, plus one response if a complete request is
   unread or in a worker's hands and not answered, and never two (`Balance`). A client does not
   pipeline, so only the last segment of its input can complete a request (`OnlyLastCompletes`).
   `NothingOwedWhileReading` is the case in which the last two terms are 0. A reset connection is
   exempt: its input is gone.

`UpstreamSocketIsPrivate` follows from `UpstreamInv`, that an upstream socket exists during the exchange
only and under a number that is not in `connections_`, with `DispatchInv`, by which everything that is
queued, armed or handled is in `connections_`.

`EndIsExpected` speaks of the moment after a close, and what makes it true happens several steps and
possibly several workers before. `PartingInv` carries it there. A client expects the end by the header
of the last response or by its own last request (`Expects`); a connection that is not kept alive has
a client that does, and no complete request is waiting in its input (`Parting`). `Knows` says the same
of what a worker has read and not parsed yet or is sending. A posted Close is for a client that has
left or for a connection that is not kept alive and has nothing unsent (`ClosesFit`), an error event
only for a client that has left (`ErrorsFit`); that all was answered then is `OwedInv`. The argument is given once, for `HonestProgram`: a program whose responses do not promise more
than `pendingKeepAlive` and which closes only by it. `ServerIsHonest` and `BalancerIsHonest` show that both
programs are such; for the balancer nothing is assumed of the header that an upstream sends.

### Pool, programs, event loop, upstreams

* `PoolInv`: every enqueued task is in exactly one of the queue, a thread's hands and the set of tasks
  that ran, and threads exit only from a stopped pool with an empty queue. `NoLostWakeup` counts
  sleepers against notifications still to come. The refinement of `TaskExecutor` maps step by step.
* `LifeInv`: what each stage of the destructor relies on was done by an earlier stage and is not undone
  by the watcher, the checker or a signal (`StagesHold`); a program without a health checker is at none
  of the checker's labels (`WithoutChecker`). `ProgramRunsPool` carries `PoolInv` over.
* `EventInv` adds to `InterestAgrees` that a closed descriptor has no registration (`ClosedForgotten`) and
  that each backend leaves the other's state alone (`BackendsApart`): without them nothing is known of
  a descriptor that was closed while the caller still holds it, and removing it could leave a filter
  behind. For the refinement, `EpollReports` and `KqueueReports` compare what `wait()` returns with the
  interface, error flag by error flag; that nothing is left out while there is room is a cardinality argument over the entries
  of the array (`InjectiveCount`).
* `PickInv`: what is in `stable` is still healthy, and no index that a call has passed is in it. That a
  call without a result has looked at every upstream is arithmetic modulo `Count` (`ScanIsComplete`).

### The parsers

The theorems are about messages of any number of lines of any length, with any body. `ParserInv` says
how far the parser has come in the message (`Progress`): in state `Headers` it has the first line and the
first `k` header lines, all well formed, and `buffer_` is exactly what has arrived after them; in
`Body` it has all of them and the length that they announce. `Verdict` says that `process()` stops only
where it has to: no CRLF is in the buffer, or less than the body. Each property follows from the two.
When the next line is not complete in `buffer_`, it is not complete in what has arrived
(`NoLineYet`), because `extractLine()` finds the end of that line and no other (`BufferedLine`,
`NextLineAt`); so a chunk that ends between CR and LF is no special case. A malformed line before the
next one would have stopped the parser (`RefusedLater`).

Three facts carry this. `WireLines` lays the message out: where its lines and its body are. It needs
induction over the number of header lines, since `FlattenSeq` is recursive. The library's induction
theorems take an operator as parameter; `InductionUpTo` is stated for a set instead and follows from the
well-foundedness of the numbers. `AnnouncedIsParsed` says that `findHeader()`, `trim()` and
`strtol()` get the length that the message announces. `ForwardedFacts` and `SerializedFacts` say what
becomes of it in the headers that are sent on.

### Only model-checked

Liveness, which needs fairness and `ENABLED`: `RequestAnswered`, `DepartedPeerReleased`,
`SignalEndsServing`, `EveryTaskRuns`, `DestructorReturns`, `DownUpstreamAbandoned`,
`RoutesAroundFailures`.

## 5. Not modelled

* `Router`: a constant table from paths to handlers whose effects are the bytes of a response; a
  request is answered whatever it is, and the handler chooses no control flow.
* `Socket` beyond opening, accepting and closing: option setting has no state the programs read back,
  and `connectNonBlocking()` is called by nobody.
* In `acceptNonBlocking()`: `EINTR`, since a non-blocking `accept()` does not wait, and a failure of
  `fcntl()` on the descriptor just accepted, which would close that one connection and end the loop.
* The health checker's probe sockets in the descriptor table: `UpstreamPool` models the probes, `LoadBalancer`
  the table. A probe holds one more number for a short time, so `NoDescriptor` can happen a little earlier.
* A `modify()` that changes both filters of kqueue and fails half-way (see `OneAtATime` above).
* `Lifecycle` has one step for each access that `stop()` and `HealthChecker::start()` make; that the watcher
  may call `stop()` while `main()` is in `start()` is in its interleavings, a data race on the
  `std::thread` object itself is not.
* Tests, Makefile, demo script and command-line parsing.
* In `Reactor`: failures of `epoll_ctl` and `kevent` (the code ignores them, which is listed as a
  hazard), the limit of 256 events a batch (it is in `EventLoop`), and pipelining clients, which the
  repository declares out of scope. The 400 response is sent like any other.

## 6. Plan

All safety properties of the passing runs are proved. What is left: the server's theorems for epoll
with resets. Types hold already; which of the others survive the error branch is open.
