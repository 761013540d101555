----------------------------- MODULE EventLoop -----------------------------
(***************************************************************************)
(* net::EpollReactor and net::KqueueReactor over their kernel queues.      *)
(*                                                                         *)
(* epoll keeps one mask per registered descriptor.  kqueue keeps read and  *)
(* write filters apart, and the reactor remembers in interestByFd_ what it *)
(* asked for, to change only what differs.  Closing a descriptor drops its *)
(* registrations in the kernel, but not its entry of interestByFd_.        *)
(***************************************************************************)
EXTENDS FiniteSets, Naturals

CONSTANTS Fds, MaxEvents  \* as in EventInterface

ASSUME MaxEventsAssumption == MaxEvents \in Nat \ {0}
ASSUME FdsAssumption == IsFiniteSet(Fds)

VARIABLES
    backend,        \* "epoll" or "kqueue", chosen when the program is compiled
    lowMemory,      \* whether epoll_ctl() and kevent() may fail
    open, held, cond, out, result,  \* as in EventInterface
    registered,     \* epoll's interest list
    kernel,         \* epoll_event.events, or the kqueue filters, of each descriptor
    interestByFd_   \* KqueueReactor::interestByFd_; no entry: the empty mask

callerVars  == <<open, held, cond, out>>
kernelVars  == <<registered, kernel, interestByFd_>>
eventVars   == <<backend, lowMemory, callerVars, result, kernelVars>>

EventTypes == {"Readable", "Writable"}

EpollFlag == [Readable |-> "EPOLLIN", Writable |-> "EPOLLOUT"]
EpollFlags == {"EPOLLIN", "EPOLLOUT"}

\* Mutant of ToEpollEvents: the mask is passed as it is.
RawMask(m) == m

ToEpollEvents(m) == {EpollFlag[t] : t \in m}

FromEpollEvents(flags) == {t \in EventTypes : EpollFlag[t] \in flags}

\* EventInterface, with the interest where each backend has it.
Interface == INSTANCE EventInterface WITH
    mask <- [f \in Fds |-> IF f \notin open THEN {}
                           ELSE IF backend = "kqueue" THEN interestByFd_[f]
                           ELSE FromEpollEvents(kernel[f])]

EventTypeOK ==
    /\ backend \in {"epoll", "kqueue"}
    /\ lowMemory \in BOOLEAN
    /\ open \subseteq Fds /\ held \subseteq Fds
    /\ cond \in [Fds -> Interface!Conditions]
    /\ out \subseteq Interface!IoEvents
    /\ result \in {"ok", "failed", "interrupted"}
    /\ registered \subseteq Fds
    /\ kernel \in [Fds -> SUBSET IF backend = "epoll" THEN EpollFlags ELSE EventTypes]
    /\ interestByFd_ \in [Fds -> SUBSET EventTypes]

EventInit ==
    /\ backend \in {"epoll", "kqueue"}
    /\ lowMemory \in BOOLEAN
    /\ open = {} /\ held = {}
    /\ cond = [f \in Fds |-> [ready |-> {}, hang |-> "no"]]
    /\ out = {}
    /\ result = "ok"
    /\ registered = {}
    /\ kernel = [f \in Fds |-> {}]
    /\ interestByFd_ = [f \in Fds |-> {}]

-----------------------------------------------------------------------------
(* The descriptors.  A caller removes one before its number comes back. *)

OpenFd(f) ==
    /\ f \notin open \cup held
    /\ open' = open \cup {f}
    /\ UNCHANGED <<backend, lowMemory, held, cond, out, result, kernelVars>>

CloseFd(f) ==
    /\ f \in open
    /\ open' = open \ {f}
    /\ registered' = registered \ {f}
    /\ kernel' = [kernel EXCEPT ![f] = {}]
    /\ UNCHANGED <<backend, lowMemory, held, cond, out, result, interestByFd_>>

-----------------------------------------------------------------------------
(* add(), modify(), remove() *)

Returns(newHeld, r) ==
    /\ held' = newHeld
    /\ result' = r
    /\ UNCHANGED <<backend, lowMemory, open, cond, out>>

\* EPOLL_CTL_ADD, or EPOLL_CTL_MOD if the descriptor is registered already.
EpollAdd(f, m) ==
    /\ registered' = registered \cup {f}
    /\ kernel' = [kernel EXCEPT ![f] = ToEpollEvents(m)]
    /\ UNCHANGED interestByFd_

EpollModify(f, m) ==
    /\ f \in registered
    /\ kernel' = [kernel EXCEPT ![f] = ToEpollEvents(m)]
    /\ UNCHANGED <<registered, interestByFd_>>

EpollRemove(f) ==
    /\ registered' = registered \ {f}
    /\ kernel' = [kernel EXCEPT ![f] = {}]
    /\ UNCHANGED interestByFd_

\* EV_DELETE and EV_ADD for the filters that differ from interestByFd_.
KqueueModify(f, m) ==
    /\ kernel' = [kernel EXCEPT ![f] = (@ \ (interestByFd_[f] \ m)) \cup (m \ interestByFd_[f])]
    /\ interestByFd_' = [interestByFd_ EXCEPT ![f] = m]
    /\ UNCHANGED registered

KqueueAdd(f, m) == KqueueModify(f, m)

DeleteFilters(f, left) ==
    /\ kernel' = [kernel EXCEPT ![f] = @ \ interestByFd_[f]]
    /\ interestByFd_' = [interestByFd_ EXCEPT ![f] = left]
    /\ UNCHANGED registered

\* Mutant of KqueueRemove: no interestByFd_.erase(fd).
KqueueRemoveForgets(f) == DeleteFilters(f, interestByFd_[f])

KqueueRemove(f) == DeleteFilters(f, {})

\* Filters that kevent() is asked to change.  Where it can fail, the model has only
\* callers that change one at a time.  HttpServer and LoadBalancer are such callers, as
\* they pass through the empty mask; KqueueReactor does not ask for it.
Changes(f, m) == (interestByFd_[f] \ m) \cup (m \ interestByFd_[f])
OneAtATime(f, m) == lowMemory => Cardinality(Changes(f, m)) <= 1

Add(f, m) ==
    /\ f \in open /\ OneAtATime(f, m)
    /\ \/ backend = "epoll" /\ EpollAdd(f, m)
       \/ backend = "kqueue" /\ KqueueAdd(f, m)
    /\ Returns(held \cup {f}, "ok")

Modify(f, m) ==
    /\ f \in open \cap held /\ OneAtATime(f, m)
    /\ \/ backend = "epoll" /\ EpollModify(f, m)
       \/ backend = "kqueue" /\ KqueueModify(f, m)
    /\ Returns(held, "ok")

\* epoll_ctl() or kevent() fails, and interestByFd_ is not touched.
CallFails ==
    /\ lowMemory
    /\ result' = "failed"
    /\ UNCHANGED <<backend, lowMemory, callerVars, kernelVars>>

\* The descriptor may be closed already: EPOLL_CTL_DEL then fails, and
\* KqueueReactor::remove() ignores the error.
Remove(f) ==
    /\ f \in held
    /\ \/ backend = "epoll" /\ EpollRemove(f)
       \/ backend = "kqueue" /\ KqueueRemove(f)
    /\ Returns(held \ {f}, IF backend = "epoll" /\ f \notin registered THEN "failed" ELSE "ok")

-----------------------------------------------------------------------------
(* wait() *)

\* As much of what is pending as fits into the array.
Fetched(pending) ==
    {s \in SUBSET pending :
        IF Cardinality(pending) <= MaxEvents THEN s = pending ELSE Cardinality(s) = MaxEvents}

\* What epoll_wait() finds for a descriptor in condition c; EPOLLHUP (with EPOLLERR) is
\* reported whatever was asked for.
EpollFound(flags, c) ==
    (flags \cap ToEpollEvents(c.ready)) \cup (IF c.hang = "reset" THEN {"EPOLLHUP"} ELSE {})

\* Mutant of EpollEvent: EPOLLERR and EPOLLHUP are not looked at.
EpollEventNoError(f, found) == [fd |-> f, mask |-> FromEpollEvents(found), error |-> FALSE]

EpollEvent(f, found) ==
    [fd |-> f, mask |-> FromEpollEvents(found), error |-> "EPOLLHUP" \in found]

EpollWait(c) ==
    \E s \in Fetched({f \in registered : EpollFound(kernel[f], c[f]) # {}}) :
        out' = {EpollEvent(f, EpollFound(kernel[f], c[f])) : f \in s}

\* EV_EOF is set on a read filter when the peer has stopped sending, on a write filter
\* when it has gone.
Eof(t, c) == c.hang = "reset" \/ (c.hang = "eof" /\ t = "Readable")

\* The kevents of a descriptor with these filters.
Kevents(f, filters, c) ==
    {[fd |-> f, filter |-> t, eof |-> Eof(t, c)] : t \in filters \cap c.ready}

\* Mutant of Merged: one report per kevent.
NotMerged(s) == {[fd |-> e.fd, mask |-> {e.filter}, error |-> e.eof] : e \in s}

\* The kevents of a descriptor become one report.
Merged(s) ==
    {[fd    |-> f,
      mask  |-> {x \in EventTypes : \E e \in s : e.fd = f /\ e.filter = x},
      error |-> \E e \in s : e.fd = f /\ e.eof] : f \in {e.fd : e \in s}}

KqueueWait(c) ==
    \E s \in Fetched(UNION {Kevents(f, kernel[f], c[f]) : f \in Fds}) : out' = Merged(s)

Wait ==
    /\ \E c \in [Fds -> Interface!Conditions] :
          /\ cond' = c
          /\ \/ backend = "epoll" /\ EpollWait(c)
             \/ backend = "kqueue" /\ KqueueWait(c)
    /\ result' = "ok"
    /\ UNCHANGED <<backend, lowMemory, open, held, kernelVars>>

\* A signal ends the system call: the array is cleared and 0 returned.
WaitInterrupted ==
    /\ out' = {}
    /\ result' = "interrupted"
    /\ UNCHANGED <<backend, lowMemory, open, held, cond, kernelVars>>

-----------------------------------------------------------------------------

EventNext ==
    \/ \E f \in Fds : OpenFd(f) \/ CloseFd(f) \/ Remove(f)
    \/ \E f \in Fds, m \in SUBSET EventTypes : Add(f, m) \/ Modify(f, m)
    \/ CallFails \/ Wait \/ WaitInterrupted

EventSpec == EventInit /\ [][EventNext]_eventVars

-----------------------------------------------------------------------------
(* Properties *)

\* interestByFd_ never lies about an open descriptor, so no later modify() leaves out
\* an EV_ADD or deletes a filter that is not there; and a number that comes back
\* after a close() starts without the interest of the connection before.
InterestAgrees ==
    \A f \in Fds :
        /\ backend = "kqueue" /\ f \in open => interestByFd_[f] = kernel[f]
        /\ f \notin held => interestByFd_[f] = {} /\ kernel[f] = {} /\ f \notin registered

\* Each backend gives its callers exactly what EventInterface says of it: whatever calls
\* were made before, wait() reports every descriptor that it has something to say of, as
\* one event with all that is pending and the error flag of that backend, and leaves one
\* out, or a filter of one, only when the array is full.  epoll has something to say of a
\* reset descriptor even if its interest is empty.
ImplementsInterface == Interface!IfSpec

\* What the backend reports of a descriptor with interest m in condition c, given room:
\* no event or one.
EpollReport(f, m, c) ==
    LET found == EpollFound(ToEpollEvents(m), c)
    IN  IF found = {} THEN {} ELSE {EpollEvent(f, found)}

KqueueReport(f, m, c) == Merged(Kevents(f, m, c))

\* event_loop.h says that "callers see identical semantics regardless of platform".  They
\* do in all but two cases, and in these they never do: a reset of a descriptor whose
\* interest is empty is reported by epoll alone, and a peer that has stopped sending is
\* an error to kqueue alone.
BackendsDifferInTwoCases ==
    \A f \in open \cap held :
        LET m == IF backend = "kqueue" THEN interestByFd_[f] ELSE FromEpollEvents(kernel[f])
            c == cond[f]
        IN  EpollReport(f, m, c) # KqueueReport(f, m, c)
              <=> \/ m = {} /\ c.hang = "reset"
                  \/ "Readable" \in m /\ c.hang = "eof"

=============================================================================
