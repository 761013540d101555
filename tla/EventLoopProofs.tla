-------------------------- MODULE EventLoopProofs --------------------------
(***************************************************************************)
(* interestByFd_ and the kernel agree, and both backends implement         *)
(* EventInterface, for any number of descriptors and any array size, and   *)
(* differ in what they report in two cases and no other.                   *)
(*                                                                         *)
(* InterestAgrees says nothing about a descriptor that was closed while    *)
(* the caller holds it, and it is then that kernel and memory differ, so   *)
(* the induction needs what each backend leaves unused and that a closed   *)
(* descriptor has no registration.  That epoll knows every open descriptor *)
(* the caller holds is what the reports on an empty mask rest on.          *)
(***************************************************************************)
EXTENDS EventLoop, FiniteSetTheorems, TLAPS

ClosedForgotten == \A f \in Fds : f \notin open => kernel[f] = {} /\ f \notin registered

BackendsApart ==
    /\ backend = "epoll" => /\ interestByFd_ = [f \in Fds |-> {}]
                            /\ \A f \in Fds : kernel[f] # {} => f \in registered
                            /\ open \cap held \subseteq registered
    /\ backend = "kqueue" => registered = {}

EventInv == EventTypeOK /\ ClosedForgotten /\ BackendsApart /\ InterestAgrees

USE DEF EventInv, ClosedForgotten, BackendsApart, InterestAgrees

\* What toEpollEvents() makes of a mask is a set of epoll flags.
LEMMA FlagsOfMask ==
    ASSUME NEW m \in SUBSET EventTypes
    PROVE  ToEpollEvents(m) \in SUBSET EpollFlags
BY DEF ToEpollEvents, EpollFlag, EpollFlags, EventTypes

\* Nothing is registered when the program starts.
LEMMA EventInvInit == EventInit => EventInv
<1> SUFFICES ASSUME EventInit PROVE EventInv
  OBVIOUS
<1>1. EventTypeOK
  BY DEF EventInit, EventTypeOK, Interface!Conditions, Interface!EventTypes
<1> QED
  BY <1>1 DEF EventInit

\* Every call of the interface, whether it succeeds or not, keeps kernel and memory in step.
LEMMA EventInvNext == EventInv /\ [EventNext]_eventVars => EventInv'
<1> SUFFICES ASSUME EventInv, [EventNext]_eventVars PROVE EventInv'
  OBVIOUS
<1> USE DEF EventTypeOK, kernelVars, callerVars
<1>1. ASSUME NEW f \in Fds, OpenFd(f) PROVE EventInv'
  BY <1>1 DEF OpenFd
<1>2. ASSUME NEW f \in Fds, CloseFd(f) PROVE EventInv'
  BY <1>2 DEF CloseFd
<1>3. ASSUME NEW f \in Fds, Remove(f) PROVE EventInv'
  <2>1. CASE backend = "epoll" /\ EpollRemove(f)
    BY <1>3, <2>1 DEF Remove, Returns, EpollRemove
  <2>2. CASE backend = "kqueue" /\ KqueueRemove(f)
    BY <1>3, <2>2 DEF Remove, Returns, KqueueRemove, DeleteFilters
  <2> QED
    BY <1>3, <2>1, <2>2 DEF Remove
<1>4. ASSUME NEW f \in Fds, NEW m \in SUBSET EventTypes, Add(f, m) PROVE EventInv'
  <2>1. CASE backend = "epoll" /\ EpollAdd(f, m)
    BY <1>4, <2>1, FlagsOfMask DEF Add, Returns, EpollAdd
  <2>2. CASE backend = "kqueue" /\ KqueueAdd(f, m)
    BY <1>4, <2>2 DEF Add, Returns, KqueueAdd, KqueueModify
  <2> QED
    BY <1>4, <2>1, <2>2 DEF Add
<1>5. ASSUME NEW f \in Fds, NEW m \in SUBSET EventTypes, Modify(f, m) PROVE EventInv'
  <2>1. CASE backend = "epoll" /\ EpollModify(f, m)
    BY <1>5, <2>1, FlagsOfMask DEF Modify, Returns, EpollModify
  <2>2. CASE backend = "kqueue" /\ KqueueModify(f, m)
    BY <1>5, <2>2 DEF Modify, Returns, KqueueModify
  <2> QED
    BY <1>5, <2>1, <2>2 DEF Modify
<1>6. CASE CallFails
  BY <1>6 DEF CallFails
<1>7. CASE Wait
  <2>1. PICK c \in [Fds -> Interface!Conditions] :
            /\ cond' = c
            /\ \/ backend = "epoll" /\ EpollWait(c)
               \/ backend = "kqueue" /\ KqueueWait(c)
    BY <1>7 DEF Wait
  <2>2. out' \subseteq Interface!IoEvents
    <3>1. CASE EpollWait(c)
      <4>1. PICK s \in Fetched({f \in registered : EpollFound(kernel[f], c[f]) # {}}) :
                out' = {EpollEvent(f, EpollFound(kernel[f], c[f])) : f \in s}
        BY <3>1 DEF EpollWait
      <4>2. s \subseteq Fds
        BY <4>1 DEF Fetched
      <4>3. ASSUME NEW f \in s, NEW found PROVE EpollEvent(f, found) \in Interface!IoEvents
        <5>1. FromEpollEvents(found) \in SUBSET Interface!EventTypes
          BY DEF FromEpollEvents, EventTypes, Interface!EventTypes
        <5>2. ("EPOLLHUP" \in found) \in BOOLEAN
          OBVIOUS
        <5> QED
          BY <4>2, <5>1, <5>2, Zenon DEF Interface!IoEvents, EpollEvent
      <4>4. ASSUME NEW e \in out' PROVE e \in Interface!IoEvents
        <5>1. PICK f \in s : e = EpollEvent(f, EpollFound(kernel[f], c[f]))
          BY <4>1
        <5> QED
          BY <5>1, <4>3
      <4> QED
        BY <4>4
    <3>2. CASE KqueueWait(c)
      <4>1. PICK s \in Fetched(UNION {Kevents(f, kernel[f], c[f]) : f \in Fds}) : out' = Merged(s)
        BY <3>2 DEF KqueueWait
      <4>2. \A e \in s : e.fd \in Fds
        <5> SUFFICES ASSUME NEW e \in s PROVE e.fd \in Fds
          OBVIOUS
        <5>1. PICK f \in Fds : e \in Kevents(f, kernel[f], c[f])
          BY <4>1 DEF Fetched
        <5>2. e.fd = f
          BY <5>1 DEF Kevents
        <5> QED
          BY <5>2
      <4> DEFINE Rep(f) ==
              [fd    |-> f,
               mask  |-> {x \in EventTypes : \E e \in s : e.fd = f /\ e.filter = x},
               error |-> \E e \in s : e.fd = f /\ e.eof]
      <4>3. ASSUME NEW f \in {e.fd : e \in s} PROVE Rep(f) \in Interface!IoEvents
        <5>1. f \in Fds
          BY <4>2
        <5>2. {x \in EventTypes : \E e \in s : e.fd = f /\ e.filter = x} \in SUBSET Interface!EventTypes
          BY DEF EventTypes, Interface!EventTypes
        <5>3. (\E e \in s : e.fd = f /\ e.eof) \in BOOLEAN
          OBVIOUS
        <5> QED
          BY <5>1, <5>2, <5>3, Zenon DEF Interface!IoEvents
      <4>4. out' = {Rep(f) : f \in {e.fd : e \in s}}
        BY <4>1, Zenon DEF Merged
      <4> HIDE DEF Rep
      <4> QED
        BY <4>3, <4>4
    <3> QED
      BY <2>1, <3>1, <3>2
  <2> QED
    BY <1>7, <2>1, <2>2 DEF Wait
<1>8. CASE WaitInterrupted
  BY <1>8 DEF WaitInterrupted
<1>9. CASE UNCHANGED eventVars
  BY <1>9 DEF eventVars
<1> QED
  BY <1>1, <1>2, <1>3, <1>4, <1>5, <1>6, <1>7, <1>8, <1>9 DEF EventNext

\* Whatever is opened, closed, reused, added, modified and removed, and whichever
\* calls fail: interestByFd_ says of an open descriptor what the kernel has, and a
\* descriptor number that comes back carries no interest over.
THEOREM InterestNeverLies == EventSpec => []InterestAgrees
<1>1. EventInv => InterestAgrees
  OBVIOUS
<1> QED
  BY <1>1, EventInvInit, EventInvNext, PTL DEF EventSpec

\* Every variable of both backends keeps its type.
THEOREM EventTypeCorrect == EventSpec => []EventTypeOK
<1>1. EventInv => EventTypeOK
  OBVIOUS
<1> QED
  BY <1>1, EventInvInit, EventInvNext, PTL DEF EventSpec

-----------------------------------------------------------------------------
(* Both backends implement EventInterface *)

\* The interest mask that EventInterface sees of a descriptor.
Mask(f) == IF f \notin open THEN {}
           ELSE IF backend = "kqueue" THEN interestByFd_[f]
           ELSE FromEpollEvents(kernel[f])

\* Reading a mask back from the flags it was turned into gives the mask.
LEMMA MaskOfFlags ==
    /\ \A m \in SUBSET EventTypes : FromEpollEvents(ToEpollEvents(m)) = m
    /\ FromEpollEvents({}) = {}
    /\ \A fl : FromEpollEvents(fl) \in SUBSET EventTypes
<1>1. ASSUME NEW m \in SUBSET EventTypes PROVE FromEpollEvents(ToEpollEvents(m)) = m
  <2>1. ASSUME NEW t \in EventTypes PROVE EpollFlag[t] \in ToEpollEvents(m) <=> t \in m
    BY DEF ToEpollEvents, EpollFlag, EventTypes
  <2> QED
    BY <2>1 DEF FromEpollEvents
<1>2. FromEpollEvents({}) = {} /\ \A fl : FromEpollEvents(fl) \in SUBSET EventTypes
  BY DEF FromEpollEvents
<1> QED
  BY <1>1, <1>2

\* Cardinality means the same in the module that is instantiated.
LEMMA SameCardinality == \A S : Interface!Cardinality(S) = Cardinality(S)
BY DEF Cardinality, Interface!Cardinality

\* A finite set is at least as large as what maps one-to-one into it.
LEMMA InjectiveCount ==
    ASSUME NEW S, NEW T, IsFiniteSet(T), NEW g \in [S -> T],
           \A a, b \in S : g[a] = g[b] => a = b
    PROVE  /\ Cardinality(S) \in Nat /\ Cardinality(T) \in Nat
           /\ Cardinality(S) <= Cardinality(T)
<1>1. g \in Injection(S, T)
  BY DEF Injection, IsInjective
<1> QED
  BY <1>1, FS_Injection, FS_CardinalityType

\* What EventInterface demands of the reports of a wait() that found condition c.
Reports(c, evs) ==
    /\ Cardinality(Interface!Entries(evs)) <= MaxEvents
    /\ \A e \in evs :
          /\ e.fd \in open \cap held
          /\ \E m \in Interface!Cut(Mask(e.fd), Cardinality(Interface!Entries(evs)) = MaxEvents) :
                Interface!IsPending(m, c[e.fd]) /\ e = Interface!Report(e.fd, m, c[e.fd])
          /\ \A d \in evs : d.fd = e.fd => d = e
    /\ \A f \in open \cap held :
          Interface!IsPending(Mask(f), c[f]) =>
              \/ Cardinality(Interface!Entries(evs)) = MaxEvents
              \/ \E e \in evs : e.fd = f

\* Of what is pending, all is fetched or as much as the array holds.
LEMMA FetchedFacts ==
    ASSUME NEW P, NEW s \in Fetched(P), IsFiniteSet(P)
    PROVE  /\ s \subseteq P /\ IsFiniteSet(s) /\ Cardinality(s) \in Nat
           /\ Cardinality(s) <= MaxEvents
           /\ s = P \/ Cardinality(s) = MaxEvents
<1>1. s \subseteq P /\ IsFiniteSet(s) /\ Cardinality(s) \in Nat
  BY FS_Subset, FS_CardinalityType DEF Fetched
<1> QED
  BY <1>1, MaxEventsAssumption DEF Fetched

\* epoll: a report has all that is pending of its descriptor, and what is pending is
\* reported unless the array is full.
LEMMA EpollReports ==
    ASSUME EventInv, backend = "epoll", NEW c \in [Fds -> Interface!Conditions], EpollWait(c)
    PROVE  Reports(c, out')
<1> USE MaxEventsAssumption DEF EventTypeOK
<1> DEFINE found(f) == EpollFound(kernel[f], c[f])
           pending == {f \in registered : found(f) # {}}
<1>1. PICK s \in Fetched(pending) : out' = {EpollEvent(f, found(f)) : f \in s}
  BY DEF EpollWait
<1>2. s \subseteq pending /\ Cardinality(s) <= MaxEvents /\ (s = pending \/ Cardinality(s) = MaxEvents)
  <2>1. IsFiniteSet(pending)
    BY FdsAssumption, FS_Subset
  <2> QED
    BY <1>1, <2>1, FetchedFacts
<1>3. registered = open \cap held /\ registered \subseteq Fds
  OBVIOUS
<1>4. ASSUME NEW f \in registered
      PROVE  /\ EpollEvent(f, found(f)) = Interface!Report(f, Mask(f), c[f])
             /\ found(f) # {} <=> Interface!IsPending(Mask(f), c[f])
             /\ EpollEvent(f, found(f)).fd = f
  <2>1. /\ kernel[f] \subseteq EpollFlags /\ c[f].ready \subseteq EventTypes
        /\ f \in open /\ Mask(f) = FromEpollEvents(kernel[f])
    BY <1>3 DEF Interface!Conditions, EventTypes, Interface!EventTypes, Mask
  <2>2. ASSUME NEW t \in EventTypes
        PROVE  EpollFlag[t] \in found(f) <=> t \in Mask(f) /\ t \in c[f].ready
    BY <2>1 DEF FromEpollEvents, EpollFound, ToEpollEvents, EpollFlag, EpollFlags, EventTypes
  <2>3. FromEpollEvents(found(f)) = Mask(f) \cap c[f].ready
    BY <2>1, <2>2 DEF FromEpollEvents
  <2>4. ("EPOLLHUP" \in found(f)) = Interface!IsError(Mask(f), c[f])
    BY <2>1 DEF EpollFound, EpollFlags, Interface!IsError
  <2>5. EpollEvent(f, found(f)) = Interface!Report(f, Mask(f), c[f])
    BY <2>3, <2>4, Zenon DEF EpollEvent, Interface!Report
  <2>6. found(f) \subseteq EpollFlags \cup {"EPOLLHUP"}
    BY <2>1 DEF EpollFound
  <2>7. found(f) # {} <=> FromEpollEvents(found(f)) # {} \/ "EPOLLHUP" \in found(f)
    BY <2>6 DEF FromEpollEvents, EpollFlag, EpollFlags, EventTypes
  <2>8. EpollEvent(f, found(f)).fd = f
    BY DEF EpollEvent
  <2> QED
    BY <2>3, <2>4, <2>5, <2>7, <2>8, Zenon DEF Interface!IsPending
<1> HIDE DEF found
<1>5. Interface!Entries(out') = s
  <2>1. Interface!Entries(out') = {e.fd : e \in out'}
    BY DEF Interface!Entries
  <2>2. \A f \in s : EpollEvent(f, found(f)).fd = f
    BY <1>2, <1>4
  <2> QED
    BY <2>1, <2>2, <1>1
<1>6. ASSUME NEW e \in out'
      PROVE  /\ e.fd \in open \cap held
             /\ \E m \in Interface!Cut(Mask(e.fd), Cardinality(Interface!Entries(out')) = MaxEvents) :
                   Interface!IsPending(m, c[e.fd]) /\ e = Interface!Report(e.fd, m, c[e.fd])
             /\ \A d \in out' : d.fd = e.fd => d = e
  <2>1. PICK f \in s : e = EpollEvent(f, found(f))
    BY <1>1
  <2>2. e.fd = f /\ f \in open \cap held /\ f \in registered /\ found(f) # {}
    BY <2>1, <1>2, <1>3, <1>4
  <2>3. Mask(f) \in Interface!Cut(Mask(f), Cardinality(Interface!Entries(out')) = MaxEvents)
    BY DEF Interface!Cut
  <2>4. Interface!IsPending(Mask(f), c[f]) /\ e = Interface!Report(f, Mask(f), c[f])
    BY <2>1, <2>2, <1>4
  <2>5. \A d \in out' : d.fd = f => d = e
    BY <2>1, <1>1, <1>2, <1>4
  <2> QED
    BY <2>2, <2>3, <2>4, <2>5
<1>7. ASSUME NEW f \in open \cap held, Interface!IsPending(Mask(f), c[f]),
             Cardinality(Interface!Entries(out')) # MaxEvents
      PROVE  \E e \in out' : e.fd = f
  <2>1. f \in s
    BY <1>2, <1>3, <1>4, <1>5, <1>7
  <2> QED
    BY <2>1, <1>1, <1>2, <1>4
<1> QED
  BY <1>2, <1>5, <1>6, <1>7 DEF Reports

\* kqueue: the same, though the kernel counts kevents and the reactor merges them; when
\* the array is full a report may be about one of two filters.
LEMMA KqueueReports ==
    ASSUME EventInv, backend = "kqueue", NEW c \in [Fds -> Interface!Conditions], KqueueWait(c)
    PROVE  Reports(c, out')
<1> USE MaxEventsAssumption DEF EventTypeOK
<1> DEFINE kev(f, t) == [fd |-> f, filter |-> t, eof |-> Eof(t, c[f])]
           all == UNION {Kevents(f, kernel[f], c[f]) : f \in Fds}
<1>1. PICK s \in Fetched(all) : out' = Merged(s)
  BY DEF KqueueWait
<1>2. \A f, t : kev(f, t).fd = f /\ kev(f, t).filter = t /\ kev(f, t).eof = Eof(t, c[f])
  OBVIOUS
<1>3. \A f \in Fds : kernel[f] \subseteq EventTypes /\ c[f] \in Interface!Conditions
  OBVIOUS
<1>4. \A e : e \in all <=> \E f \in Fds : \E t \in kernel[f] \cap c[f].ready : e = kev(f, t)
  <2>1. \A f : Kevents(f, kernel[f], c[f]) = {kev(f, t) : t \in kernel[f] \cap c[f].ready}
    BY Zenon DEF Kevents
  <2> HIDE DEF kev
  <2>2. \A e : e \in all <=> \E f \in Fds : e \in Kevents(f, kernel[f], c[f])
    OBVIOUS
  <2> QED
    BY <2>1, <2>2
<1> HIDE DEF kev, all
<1>5. ASSUME NEW e \in all
      PROVE  /\ e.fd \in Fds /\ e.filter \in EventTypes
             /\ e.filter \in kernel[e.fd] \cap c[e.fd].ready
             /\ e.eof = Eof(e.filter, c[e.fd]) /\ e = kev(e.fd, e.filter)
  BY <1>2, <1>3, <1>4
<1>6. IsFiniteSet(all)
  <2> DEFINE g == [e \in all |-> <<e.fd, e.filter>>]
  <2>1. IsFiniteSet(EventTypes)
    <3>1. IsFiniteSet({"Readable"}) /\ IsFiniteSet({"Writable"})
      BY FS_Singleton
    <3>2. EventTypes = {"Readable"} \cup {"Writable"}
      BY DEF EventTypes
    <3> QED
      BY <3>1, <3>2, FS_Union
  <2>2. IsFiniteSet(Fds \X EventTypes)
    BY <2>1, FdsAssumption, FS_Product
  <2>3. g \in [all -> Fds \X EventTypes]
    BY <1>5
  <2>4. \A a, b \in all : g[a] = g[b] => a = b
    BY <1>5
  <2>5. g \in Injection(all, Fds \X EventTypes)
    BY <2>3, <2>4 DEF Injection, IsInjective
  <2> QED
    BY <2>2, <2>5, FS_Injection
<1>7. /\ s \subseteq all /\ IsFiniteSet(s) /\ Cardinality(s) \in Nat /\ Cardinality(s) <= MaxEvents
      /\ s = all \/ Cardinality(s) = MaxEvents
  BY <1>1, <1>6, FetchedFacts
<1> DEFINE Found(f) == {x \in EventTypes : \E e \in s : e.fd = f /\ e.filter = x}
           Ended(f) == \E e \in s : e.fd = f /\ e.eof
           Rep(f) == [fd |-> f, mask |-> Found(f), error |-> Ended(f)]
           Seen == {e.fd : e \in s}
<1>8. out' = {Rep(f) : f \in Seen}
  BY <1>1, Zenon DEF Merged
<1>9. \A f : Rep(f).fd = f /\ Rep(f).mask = Found(f) /\ Rep(f).error = Ended(f)
  BY Zenon
<1>10. ASSUME NEW f \in Fds
       PROVE  \A t : t \in Found(f) <=> t \in EventTypes /\ kev(f, t) \in s
  <2>1. ASSUME NEW e \in s PROVE e = kev(e.fd, e.filter)
    BY <1>5, <1>7
  <2> QED
    BY <2>1, <1>2
<1>11. ASSUME NEW f \in Seen
       PROVE  /\ f \in Fds /\ f \in open \cap held /\ Mask(f) = kernel[f]
              /\ Found(f) # {} /\ Found(f) \subseteq Mask(f) \cap c[f].ready
              /\ Ended(f) <=> \E t \in Found(f) : Eof(t, c[f])
  <2>1. PICK e \in s : e.fd = f
    OBVIOUS
  <2>2. f \in Fds /\ kernel[f] # {} /\ e.filter \in Found(f)
    BY <2>1, <1>5, <1>7
  <2>3. f \in open \cap held /\ Mask(f) = kernel[f]
    BY <2>2 DEF Mask
  <2>4. Found(f) \subseteq Mask(f) \cap c[f].ready
    BY <2>3, <1>5, <1>7
  <2>5. Ended(f) <=> \E t \in Found(f) : Eof(t, c[f])
    BY <1>5, <1>7
  <2> QED
    BY <2>2, <2>3, <2>4, <2>5
<1>12. ASSUME s = all, NEW f \in Fds PROVE Found(f) = kernel[f] \cap c[f].ready
  BY <1>12, <1>10, <1>4, <1>3, <1>5, <1>2
<1> HIDE DEF Rep, Found, Ended
<1>13. Cardinality(Interface!Entries(out')) = Cardinality(s)
  <2> DEFINE E == Interface!Entries(out')
  <2>1. \A p : p \in E <=> \E f \in Seen : \E t \in Found(f) : p = <<f, t>>
    <3>1. E = UNION {{e.fd} \X e.mask : e \in out'}
      BY DEF Interface!Entries
    <3>2. \A p : p \in E <=> \E e \in out' : p \in {e.fd} \X e.mask
      BY <3>1
    <3>3. \A p : p \in E <=> \E f \in Seen : p \in {Rep(f).fd} \X Rep(f).mask
      BY <3>2, <1>8
    <3> QED
      BY <3>3, <1>9
  <2> HIDE DEF E
  <2>2. \A e \in s : <<e.fd, e.filter>> \in E
    BY <2>1, <1>5, <1>7, <1>10
  <2>3. \A p \in E : p = <<p[1], p[2]>> /\ kev(p[1], p[2]) \in s
    BY <2>1, <1>10, <1>11
  <2> DEFINE g == [e \in s |-> <<e.fd, e.filter>>]
             h == [p \in E |-> kev(p[1], p[2])]
  <2>4. h \in [E -> s] /\ \A a, b \in E : h[a] = h[b] => a = b
    BY <2>3, <1>2
  <2> HIDE DEF h
  <2>5. IsFiniteSet(E) /\ Cardinality(E) <= Cardinality(s) /\ Cardinality(E) \in Nat
    <3>1. h \in Injection(E, s)
      BY <2>4 DEF Injection, IsInjective
    <3> QED
      BY <3>1, <1>7, FS_Injection, FS_CardinalityType
  <2>6. g \in [s -> E] /\ \A a, b \in s : g[a] = g[b] => a = b
    BY <2>2, <1>5, <1>7
  <2> HIDE DEF g
  <2>7. Cardinality(s) <= Cardinality(E)
    BY <2>5, <2>6, InjectiveCount
  <2> QED
    BY <2>5, <2>7, <1>7 DEF E
<1>14. ASSUME NEW e \in out'
       PROVE  /\ e.fd \in open \cap held
              /\ \E m \in Interface!Cut(Mask(e.fd), Cardinality(Interface!Entries(out')) = MaxEvents) :
                    Interface!IsPending(m, c[e.fd]) /\ e = Interface!Report(e.fd, m, c[e.fd])
              /\ \A d \in out' : d.fd = e.fd => d = e
  <2>1. PICK f \in Seen : e = Rep(f)
    BY <1>8
  <2>2. e.fd = f /\ \A d \in out' : d.fd = f => d = e
    BY <2>1, <1>8, <1>9
  <2>3. PICK m : /\ m = IF s = all THEN Mask(f) ELSE Found(f)
    OBVIOUS
  <2>4. m \in Interface!Cut(Mask(f), Cardinality(Interface!Entries(out')) = MaxEvents)
    BY <2>3, <1>7, <1>11, <1>13 DEF Interface!Cut
  <2>5. m \cap c[f].ready = Found(f)
    BY <2>3, <1>11, <1>12
  <2>6. Ended(f) = Interface!IsError(m, c[f])
    <3>1. c[f] \in Interface!Conditions /\ Found(f) \subseteq EventTypes /\ Found(f) # {}
      BY <1>3, <1>11 DEF Mask
    <3>2. (\E t \in Found(f) : Eof(t, c[f])) <=> Interface!IsError(m, c[f])
      BY <2>5, <3>1 DEF Eof, Interface!IsError, Interface!Conditions
    <3>3. Ended(f) \in BOOLEAN /\ Interface!IsError(m, c[f]) \in BOOLEAN
      BY DEF Ended, Interface!IsError
    <3> QED
      BY <3>2, <3>3, <1>11
  <2>7. e = Interface!Report(f, m, c[f])
    BY <2>1, <2>5, <2>6, Zenon DEF Interface!Report, Rep
  <2>8. Interface!IsPending(m, c[f])
    BY <2>5, <1>11 DEF Interface!IsPending
  <2> QED
    BY <2>2, <2>4, <2>7, <2>8, <1>11
<1>15. ASSUME NEW f \in open \cap held, Interface!IsPending(Mask(f), c[f]),
              Cardinality(Interface!Entries(out')) # MaxEvents
       PROVE  \E e \in out' : e.fd = f
  <2>1. f \in Fds /\ Mask(f) = kernel[f] /\ s = all
    BY <1>15, <1>7, <1>13 DEF Mask
  <2>2. Found(f) # {}
    <3>1. c[f] \in Interface!Conditions /\ Mask(f) \subseteq EventTypes
      BY <2>1, <1>3
    <3>2. Mask(f) \cap c[f].ready # {}
      BY <3>1, <1>15 DEF Interface!IsPending, Interface!IsError, Interface!Conditions, EventTypes, Interface!EventTypes
    <3> QED
      BY <3>2, <2>1, <1>12
  <2>3. f \in Seen
    BY <2>1, <2>2, <1>10, <1>2
  <2> QED
    BY <2>3, <1>8, <1>9
<1> QED
  BY <1>7, <1>13, <1>14, <1>15 DEF Reports

\* Every step of a backend is one of the interface, or changes nothing that it shows.
LEMMA EventStepImplements ==
    ASSUME EventInv, EventInv', [EventNext]_eventVars
    PROVE  [Interface!IfNext]_(Interface!ifVars)
<1> USE DEF EventTypeOK, kernelVars, callerVars
<1> DEFINE mask == [f \in Fds |-> Mask(f)]
<1>1. ASSUME NEW f \in Fds, OpenFd(f) PROVE Interface!Open(f)
  <2>1. \A g \in Fds : Mask(g)' = Mask(g)
    BY <1>1, MaskOfFlags DEF OpenFd, Mask
  <2> QED
    BY <1>1, <2>1 DEF OpenFd, Interface!Open, Mask
<1>2. ASSUME NEW f \in Fds, CloseFd(f) PROVE Interface!Close(f)
  <2>1. \A g \in Fds : Mask(g)' = IF g = f THEN {} ELSE Mask(g)
    BY <1>2 DEF CloseFd, Mask
  <2>2. mask' = [mask EXCEPT ![f] = {}]
    BY <2>1
  <2> QED
    BY <1>2, <2>2 DEF CloseFd, Interface!Close, Mask
<1>3. ASSUME NEW f \in Fds, Remove(f) PROVE Interface!Remove(f)
  <2>1. \A g \in Fds : Mask(g)' = IF g = f THEN {} ELSE Mask(g)
    <3>1. CASE backend = "epoll"
      <4>1. kernel' = [kernel EXCEPT ![f] = {}] /\ UNCHANGED <<backend, open>>
        BY <1>3, <3>1 DEF Remove, Returns, EpollRemove
      <4> QED
        <5>1. \A g \in Fds : kernel'[g] = IF g = f THEN {} ELSE kernel[g]
          BY <4>1
        <5>2. FromEpollEvents({}) = {}
          BY MaskOfFlags
        <5>3. FromEpollEvents(kernel'[f]) = {}
          BY <5>1, <5>2, Zenon
        <5>4. \A g \in Fds : g # f => kernel'[g] = kernel[g]
          BY <5>1
        <5> QED
          BY <4>1, <3>1, <5>3, <5>4 DEF Mask
    <3>2. CASE backend = "kqueue"
      <4>1. interestByFd_' = [interestByFd_ EXCEPT ![f] = {}] /\ UNCHANGED <<backend, open>>
        BY <1>3, <3>2 DEF Remove, Returns, KqueueRemove, DeleteFilters
      <4> QED
        BY <4>1, <3>2 DEF Mask
    <3> QED
      BY <3>1, <3>2
  <2>2. mask' = [mask EXCEPT ![f] = {}]
    BY <2>1
  <2> QED
    BY <1>3, <2>2 DEF Remove, Returns, Interface!Remove, Mask
<1>4. ASSUME NEW f \in Fds, NEW m \in SUBSET EventTypes, Add(f, m) \/ Modify(f, m)
      PROVE  Interface!SetInterest(f, m)
  <2>1. \A g \in Fds : Mask(g)' = IF g = f THEN m ELSE Mask(g)
    <3>1. CASE backend = "epoll"
      <4>1. /\ kernel' = [kernel EXCEPT ![f] = ToEpollEvents(m)]
            /\ f \in open /\ UNCHANGED <<backend, open>>
        BY <1>4, <3>1 DEF Add, Modify, Returns, EpollAdd, EpollModify
      <4> QED
        BY <4>1, <3>1, MaskOfFlags DEF Mask
    <3>2. CASE backend = "kqueue"
      <4>1. /\ interestByFd_' = [interestByFd_ EXCEPT ![f] = m]
            /\ f \in open /\ UNCHANGED <<backend, open>>
        BY <1>4, <3>2 DEF Add, Modify, Returns, KqueueAdd, KqueueModify
      <4> QED
        BY <4>1, <3>2 DEF Mask
    <3> QED
      BY <3>1, <3>2
  <2>2. mask' = [mask EXCEPT ![f] = m]
    BY <2>1
  <2>3. /\ f \in open /\ held' = held \cup {f} /\ result' = "ok" /\ UNCHANGED <<open, cond, out>>
    BY <1>4 DEF Add, Modify, Returns
  <2> QED
    BY <2>2, <2>3 DEF Interface!SetInterest, Mask
<1>5. CASE CallFails
  BY <1>5 DEF CallFails, Interface!IfNext, Interface!SetInterestFails
<1>6. CASE Wait
  <2>1. PICK c \in [Fds -> Interface!Conditions] :
            /\ cond' = c
            /\ \/ backend = "epoll" /\ EpollWait(c)
               \/ backend = "kqueue" /\ KqueueWait(c)
    BY <1>6 DEF Wait
  <2>2. out' \in SUBSET Interface!IoEvents
    OBVIOUS
  <2>3. Reports(c, out')
    BY <2>1, EpollReports, KqueueReports
  <2>4. \A e \in out' : e.fd \in Fds
    BY <2>3 DEF Reports
  <2>5. result' = "ok" /\ UNCHANGED <<backend, open, held, kernelVars>>
    BY <1>6 DEF Wait
  <2>6. Interface!Wait
    BY <2>1, <2>2, <2>3, <2>4, <2>5, SameCardinality DEF Interface!Wait, Mask, Reports
  <2> QED
    BY <2>5, <2>6 DEF Interface!IfNext
<1>7. CASE WaitInterrupted
  BY <1>7 DEF WaitInterrupted, Interface!IfNext, Interface!WaitInterrupted
<1>8. CASE UNCHANGED eventVars
  BY <1>8 DEF eventVars, Interface!ifVars
<1>9. EventTypes = Interface!EventTypes
  BY DEF EventTypes, Interface!EventTypes
<1>10. CASE UNCHANGED backend
  BY <1>1, <1>2, <1>3, <1>4, <1>5, <1>6, <1>7, <1>8, <1>9, <1>10 DEF EventNext, Interface!IfNext
<1>11. EventNext => UNCHANGED backend
  BY DEF EventNext, OpenFd, CloseFd, Remove, Add, Modify, Returns, CallFails, Wait, WaitInterrupted
<1> QED
  BY <1>8, <1>10, <1>11

\* EpollReactor and KqueueReactor give their callers exactly what EventInterface says of
\* each, for any number of descriptors and any size of the array: after any calls,
\* wait() reports everything that is pending of a descriptor, in one event, and leaves
\* something out only when the array is full.
THEOREM BackendsImplementInterface == EventSpec => ImplementsInterface
<1>1. EventInit => Interface!IfInit
  BY DEF EventInit, Interface!IfInit
<1> QED
  BY <1>1, EventInvInit, EventInvNext, EventStepImplements, PTL
     DEF EventSpec, ImplementsInterface, Interface!IfSpec

-----------------------------------------------------------------------------
(* Where the backends differ *)

\* What epoll reports: the ready part of the interest, and an error after a reset.
LEMMA EpollReportIs ==
    ASSUME NEW f, NEW m \in SUBSET EventTypes, NEW c \in Interface!Conditions
    PROVE  EpollReport(f, m, c) =
              IF m \cap c.ready = {} /\ c.hang # "reset" THEN {}
              ELSE {[fd |-> f, mask |-> m \cap c.ready, error |-> c.hang = "reset"]}
<1> DEFINE found == EpollFound(ToEpollEvents(m), c)
<1>1. c.ready \in SUBSET EventTypes
  BY DEF Interface!Conditions, Interface!EventTypes, EventTypes
<1>2. ASSUME NEW t \in EventTypes
      PROVE  /\ EpollFlag[t] \in found <=> t \in m \cap c.ready
             /\ EpollFlag[t] # "EPOLLHUP"
  BY <1>1 DEF EpollFound, ToEpollEvents, EpollFlag, EventTypes
<1>3. "EPOLLHUP" \in found <=> c.hang = "reset"
  BY <1>1 DEF EpollFound, ToEpollEvents, EpollFlag, EventTypes
<1>4. FromEpollEvents(found) = m \cap c.ready
  <2> HIDE DEF found
  <2> QED
    BY <1>1, <1>2 DEF FromEpollEvents
<1>5. found = {} <=> m \cap c.ready = {} /\ c.hang # "reset"
  <2>1. \A x \in found : x = "EPOLLHUP" \/ \E t \in EventTypes : x = EpollFlag[t]
    BY DEF EpollFound, ToEpollEvents
  <2> HIDE DEF found
  <2> QED
    BY <1>1, <1>2, <1>3, <2>1
<1>6. EpollReport(f, m, c) = IF found = {} THEN {} ELSE {EpollEvent(f, found)}
  BY DEF EpollReport
<1> HIDE DEF found
<1>7. ("EPOLLHUP" \in found) = (c.hang = "reset")
  BY <1>3
<1>8. EpollEvent(f, found) = [fd |-> f, mask |-> m \cap c.ready, error |-> c.hang = "reset"]
  BY <1>4, <1>7, Zenon DEF EpollEvent
<1> QED
  BY <1>5, <1>6, <1>8, Zenon

\* What kqueue reports: the filters that fired, and an error when one of them saw the end.
LEMMA KqueueReportIs ==
    ASSUME NEW f, NEW m \in SUBSET EventTypes, NEW c \in Interface!Conditions
    PROVE  KqueueReport(f, m, c) =
              IF m \cap c.ready = {} THEN {}
              ELSE {[fd |-> f, mask |-> m \cap c.ready,
                     error |-> \E t \in m \cap c.ready : Eof(t, c)]}
<1> DEFINE s == Kevents(f, m, c)
           ends == \E t \in m \cap c.ready : Eof(t, c)
<1>1. c.ready \in SUBSET EventTypes
  BY DEF Interface!Conditions, Interface!EventTypes, EventTypes
<1> DEFINE k(t) == [fd |-> f, filter |-> t, eof |-> Eof(t, c)]
<1>2. /\ s = {k(t) : t \in m \cap c.ready}
      /\ \A t : k(t).fd = f /\ k(t).filter = t /\ k(t).eof = Eof(t, c)
  BY DEF Kevents
<1> HIDE DEF k, s
<1>3. {e.fd : e \in s} = IF m \cap c.ready = {} THEN {} ELSE {f}
  BY <1>2
<1>4. {x \in EventTypes : \E e \in s : e.fd = f /\ e.filter = x} = m \cap c.ready
  BY <1>1, <1>2
<1>5. (\E e \in s : e.fd = f /\ e.eof) <=> ends
  BY <1>2
<1> DEFINE r(g) == [fd    |-> g,
                    mask  |-> {x \in EventTypes : \E e \in s : e.fd = g /\ e.filter = x},
                    error |-> \E e \in s : e.fd = g /\ e.eof]
<1>6. KqueueReport(f, m, c) = {r(g) : g \in {e.fd : e \in s}}
  BY DEF KqueueReport, Merged, s
<1>7. r(f) = [fd |-> f, mask |-> m \cap c.ready, error |-> ends]
  <2>1. (\E e \in s : e.fd = f /\ e.eof) = ends
    BY <1>5
  <2> QED
    BY <1>4, <2>1, Zenon
<1> HIDE DEF r
<1>8. KqueueReport(f, m, c) = IF m \cap c.ready = {} THEN {} ELSE {r(f)}
  BY <1>3, <1>6
<1> QED
  BY <1>7, <1>8, Zenon

\* The two reports of one interest in one condition differ in two cases.
LEMMA ReportsDiffer ==
    ASSUME NEW f, NEW m \in SUBSET EventTypes, NEW c \in Interface!Conditions
    PROVE  EpollReport(f, m, c) # KqueueReport(f, m, c)
              <=> \/ m = {} /\ c.hang = "reset"
                  \/ "Readable" \in m /\ c.hang = "eof"
<1> DEFINE fired == m \cap c.ready
           reset == c.hang = "reset"
           ends  == \E t \in fired : Eof(t, c)
           ev(b) == [fd |-> f, mask |-> fired, error |-> b]
<1>1. /\ EpollReport(f, m, c) = IF fired = {} /\ ~reset THEN {} ELSE {ev(reset)}
      /\ KqueueReport(f, m, c) = IF fired = {} THEN {} ELSE {ev(ends)}
  BY EpollReportIs, KqueueReportIs
<1>2. /\ c.hang \in {"no", "eof", "reset"}
      /\ reset => fired = m
      /\ c.hang = "eof" => ("Readable" \in fired <=> "Readable" \in m)
  BY DEF Interface!Conditions, Interface!EventTypes, EventTypes
<1>3. ends <=> \/ reset /\ fired # {}
               \/ c.hang = "eof" /\ "Readable" \in fired
  BY <1>2 DEF Eof
<1>4. ends \in BOOLEAN /\ reset \in BOOLEAN
  OBVIOUS
<1>5. \A a, b \in BOOLEAN : ev(a) = ev(b) => a = b
  OBVIOUS
<1> HIDE DEF fired, ends, ev
<1>6. CASE fired = {}
  BY <1>1, <1>2, <1>6
<1>7. CASE fired # {}
  <2>1. EpollReport(f, m, c) = KqueueReport(f, m, c) <=> (ends <=> reset)
    <3>1. EpollReport(f, m, c) = {ev(reset)} /\ KqueueReport(f, m, c) = {ev(ends)}
      BY <1>1, <1>7
    <3>2. CASE ends <=> reset
      <4>1. ends = reset
        BY <1>4, <3>2
      <4> QED
        BY <3>1, <3>2, <4>1, Zenon
    <3>3. CASE ~(ends <=> reset)
      <4>1. ev(reset) # ev(ends)
        BY <1>4, <1>5, <3>3
      <4> HIDE DEF reset
      <4> QED
        BY <3>1, <3>3, <4>1
    <3> QED
      BY <3>2, <3>3
  <2> QED
    BY <1>2, <1>3, <1>7, <2>1 DEF fired
<1> QED
  BY <1>6, <1>7

\* Callers see the same of both backends but for a reset of a disarmed descriptor and
\* the end of a peer's input: whatever interest a history of calls has left, and in
\* whatever condition wait() has found the sockets.
THEOREM BackendsDiffer == EventSpec => []BackendsDifferInTwoCases
<1>1. ASSUME EventTypeOK PROVE BackendsDifferInTwoCases
  <2> SUFFICES ASSUME NEW f \in open \cap held
               PROVE  LET m == IF backend = "kqueue" THEN interestByFd_[f]
                               ELSE FromEpollEvents(kernel[f])
                          c == cond[f]
                      IN  EpollReport(f, m, c) # KqueueReport(f, m, c)
                            <=> \/ m = {} /\ c.hang = "reset"
                                \/ "Readable" \in m /\ c.hang = "eof"
    BY DEF BackendsDifferInTwoCases
  <2>1. f \in Fds /\ cond[f] \in Interface!Conditions
    BY <1>1 DEF EventTypeOK
  <2>2. (IF backend = "kqueue" THEN interestByFd_[f] ELSE FromEpollEvents(kernel[f]))
           \in SUBSET EventTypes
    BY <1>1, <2>1, MaskOfFlags DEF EventTypeOK
  <2> QED
    BY <2>1, <2>2, ReportsDiffer
<1> QED
  BY <1>1, EventTypeCorrect, PTL

=============================================================================
