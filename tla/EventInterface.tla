--------------------------- MODULE EventInterface ---------------------------
(***************************************************************************)
(* What a caller of include/net/event_loop.h gets: an interest mask per    *)
(* descriptor, and a wait() that is level-triggered, reports a descriptor  *)
(* at most once and leaves none out while there is room.  Both backends    *)
(* keep to that.  Where they differ, the difference is spelled out: it is  *)
(* in IsError, Cut, Entries and Remove, and nowhere else.                  *)
(***************************************************************************)
EXTENDS FiniteSets, Naturals

CONSTANTS
    Fds,       \* descriptor numbers
    MaxEvents  \* entries the kernel returns at a time (256 in the code)

VARIABLES
    backend, \* "epoll" or "kqueue"
    open,    \* descriptors that are open
    held,    \* descriptors that the caller has added and not removed
    mask,    \* interest in each open descriptor
    cond,    \* what each socket was like when wait() was called last
    out,     \* what wait() reported
    result   \* "ok", "failed", or "interrupted" for the call that came last

ifVars == <<backend, open, held, mask, cond, out, result>>

EventTypes == {"Readable", "Writable"}

\* A peer that has stopped sending makes the socket readable, a reset makes it both.
Conditions ==
    {c \in [ready : SUBSET EventTypes, hang : {"no", "eof", "reset"}] :
        /\ c.hang = "eof" => "Readable" \in c.ready
        /\ c.hang = "reset" => c.ready = EventTypes}

IoEvents == [fd : Fds, mask : SUBSET EventTypes, error : BOOLEAN]

IfInit ==
    /\ backend \in {"epoll", "kqueue"}
    /\ open = {} /\ held = {}
    /\ mask = [f \in Fds |-> {}]
    /\ cond = [f \in Fds |-> [ready |-> {}, hang |-> "no"]]
    /\ out = {}
    /\ result = "ok"

Open(f) ==
    /\ f \notin open \cup held
    /\ open' = open \cup {f}
    /\ UNCHANGED <<held, mask, cond, out, result>>

\* The interest in a descriptor goes with it.
Close(f) ==
    /\ f \in open
    /\ open' = open \ {f}
    /\ mask' = [mask EXCEPT ![f] = {}]
    /\ UNCHANGED <<held, cond, out, result>>

\* add() and modify() are the same for a descriptor that is registered.
SetInterest(f, m) ==
    /\ f \in open
    /\ held' = held \cup {f}
    /\ mask' = [mask EXCEPT ![f] = m]
    /\ result' = "ok"
    /\ UNCHANGED <<open, cond, out>>

\* A call that returns false has done nothing.
SetInterestFails ==
    /\ result' = "failed"
    /\ UNCHANGED <<open, held, mask, cond, out>>

\* The caller is done with f.  epoll says so when f was closed before.
Remove(f) ==
    /\ f \in held
    /\ held' = held \ {f}
    /\ mask' = [mask EXCEPT ![f] = {}]
    /\ result' = IF backend = "epoll" /\ f \notin open THEN "failed" ELSE "ok"
    /\ UNCHANGED <<open, cond, out>>

\* Whether a descriptor with interest m is reported as an error.  epoll: when it was
\* reset, whatever m is.  kqueue: when a filter of m sees the end of the stream, which
\* for the read filter is already the case when the peer has stopped sending.
IsError(m, c) ==
    IF backend = "epoll" THEN c.hang = "reset"
    ELSE \/ m # {} /\ c.hang = "reset"
         \/ "Readable" \in m /\ c.hang = "eof"

Report(f, m, c) == [fd |-> f, mask |-> m \cap c.ready, error |-> IsError(m, c)]

IsPending(m, c) == m \cap c.ready # {} \/ IsError(m, c)

\* Entries of the array that the reports in evs came from: epoll has one for a
\* descriptor, kqueue one for a filter.
Entries(evs) ==
    IF backend = "epoll" THEN {e.fd : e \in evs}
    ELSE UNION {{e.fd} \X e.mask : e \in evs}

\* The part of an interest that a report may be about: all of it, unless the array of
\* kqueue was full before the other filter.
Cut(m, full) == {n \in SUBSET m : n = m \/ (backend = "kqueue" /\ full)}

Wait ==
    /\ cond' \in [Fds -> Conditions]
    /\ out' \in SUBSET IoEvents
    /\ Cardinality(Entries(out')) <= MaxEvents
    /\ LET full == Cardinality(Entries(out')) = MaxEvents
       IN  /\ \A e \in out' :
                 /\ e.fd \in open \cap held
                 /\ \E m \in Cut(mask[e.fd], full) :
                       IsPending(m, cond'[e.fd]) /\ e = Report(e.fd, m, cond'[e.fd])
                 /\ \A d \in out' : d.fd = e.fd => d = e
           /\ \A f \in open \cap held :
                 IsPending(mask[f], cond'[f]) => full \/ \E e \in out' : e.fd = f
    /\ result' = "ok"
    /\ UNCHANGED <<open, held, mask>>

WaitInterrupted ==
    /\ out' = {}
    /\ result' = "interrupted"
    /\ UNCHANGED <<open, held, mask, cond>>

IfNext ==
    /\ \/ \E f \in Fds : Open(f) \/ Close(f) \/ Remove(f)
       \/ \E f \in Fds, m \in SUBSET EventTypes : SetInterest(f, m)
       \/ SetInterestFails \/ Wait \/ WaitInterrupted
    /\ UNCHANGED backend

IfSpec == IfInit /\ [][IfNext]_ifVars

=============================================================================
