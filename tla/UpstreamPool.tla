---------------------------- MODULE UpstreamPool ----------------------------
(***************************************************************************)
(* lb::UpstreamPool and lb::HealthChecker: worker threads pick upstreams   *)
(* by a lock-free round robin while one background thread probes them and  *)
(* overwrites their healthy flags.                                         *)
(*                                                                         *)
(* Every atomic operation of the code is a step: the fetch_add() on        *)
(* nextIndex_, each load of a healthy flag, each exchange() after a probe. *)
(***************************************************************************)
EXTENDS Naturals, FiniteSets

CONSTANTS
    Count,      \* upstreams_.size(); with none, pickNext() returns nullptr at once
    Pickers,    \* worker threads that call pickNext()
    WordSize    \* number of values of nextIndex_ (2^64 in the code)

ASSUME CountAssumption == Count \in Nat \ {0}
ASSUME WordAssumption  == WordSize \in Nat /\ WordSize >= Count

VARIABLES
    up,          \* whether each upstream process would answer its probe
    healthy,     \* Upstream::healthy
    nextIndex_,  \* nextIndex_
    prober,      \* the health checker: upstream it is at, and the probe's result
    picker,      \* stack of each pickNext() call
    stable       \* history: the upstreams that were healthy all through each call

lbVars == <<up, healthy, nextIndex_, prober, picker, stable>>

Upstreams == 0..(Count - 1)

\* The return value of a call: an upstream, or nullptr.
NullPtr == Count
Results == 0..Count

\* A thread that is not in pickNext().
NoFrame == [pc |-> "idle", start |-> 0, i |-> 0, result |-> NullPtr]

PickTypeOK ==
    /\ up \in [Upstreams -> BOOLEAN]
    /\ healthy \in [Upstreams -> BOOLEAN]
    /\ nextIndex_ \in 0..(WordSize - 1)
    /\ prober \in [at : Upstreams, pc : {"probe", "store"}, ok : BOOLEAN]
    /\ picker \in [Pickers -> [pc : {"idle", "scan", "returned"}, start : Upstreams,
                               i : 0..Count, result : Results]]
    /\ stable \in [Pickers -> SUBSET Upstreams]

PickInit ==
    /\ up \in [Upstreams -> BOOLEAN]
    /\ healthy = [u \in Upstreams |-> TRUE]
    /\ nextIndex_ = 0
    /\ prober = [at |-> 0, pc |-> "probe", ok |-> FALSE]
    /\ picker = [p \in Pickers |-> NoFrame]
    /\ stable = [p \in Pickers |-> {}]

-----------------------------------------------------------------------------
(* The upstream processes *)

\* An upstream stops or starts answering.
Flip(u) ==
    /\ up' = [up EXCEPT ![u] = ~@]
    /\ UNCHANGED <<healthy, nextIndex_, prober, picker, stable>>

-----------------------------------------------------------------------------
(* HealthChecker::loop() *)

\* probeOnce(): an upstream that is down never yields a 200; one that is up may
\* still fail to answer within the timeouts.
Probe ==
    /\ prober.pc = "probe"
    /\ \E ok \in {FALSE, up[prober.at]} :
          prober' = [prober EXCEPT !.pc = "store", !.ok = ok]
    /\ UNCHANGED <<up, healthy, nextIndex_, picker, stable>>

Store(ok) ==
    /\ prober.pc = "store"
    /\ healthy' = [healthy EXCEPT ![prober.at] = ok]
    /\ prober' = [at |-> (prober.at + 1) % Count, pc |-> "probe", ok |-> FALSE]
    /\ stable' = [p \in Pickers |-> {u \in stable[p] : healthy'[u]}]
    /\ UNCHANGED <<up, nextIndex_, picker>>

\* Mutants of StoreHealth: a failed probe is not recorded; an upstream that was
\* marked unhealthy stays so.
StoreHealthOnlyUp == Store(healthy[prober.at] \/ prober.ok)
StoreHealthOnlyDown == Store(healthy[prober.at] /\ prober.ok)

\* healthy.exchange(ok), then on to the next upstream.
StoreHealth == Store(prober.ok)

-----------------------------------------------------------------------------
(* UpstreamPool::pickNext() *)

StartAt(p, s) ==
    /\ picker[p].pc = "idle"
    /\ nextIndex_' = (nextIndex_ + 1) % WordSize
    /\ picker' = [picker EXCEPT ![p] = [NoFrame EXCEPT !.pc = "scan", !.start = s]]
    /\ stable' = [stable EXCEPT ![p] = {u \in Upstreams : healthy[u]}]
    /\ UNCHANGED <<up, healthy, prober>>

\* Mutant of FetchAdd: the cursor is not reduced modulo the number of upstreams.
FetchAddUnreduced(p) == StartAt(p, nextIndex_)

\* nextIndex_.fetch_add(1) % count: the counter wraps at the width of size_t.
FetchAdd(p) == StartAt(p, nextIndex_ % Count)

Candidate(p) == (picker[p].start + picker[p].i) % Count

\* One turn of the scan: return the candidate or go on.
Examine(p) ==
    /\ picker[p].pc = "scan"
    /\ picker[p].i < Count
    /\ picker' = [picker EXCEPT ![p] =
                     IF healthy[Candidate(p)]
                     THEN [@ EXCEPT !.pc = "returned", !.result = Candidate(p)]
                     ELSE [@ EXCEPT !.i = picker[p].i + 1]]
    /\ UNCHANGED <<up, healthy, nextIndex_, prober, stable>>

GiveUpAfter(p, n) ==
    /\ picker[p].pc = "scan"
    /\ picker[p].i = n
    /\ picker' = [picker EXCEPT ![p].pc = "returned", ![p].result = NullPtr]
    /\ UNCHANGED <<up, healthy, nextIndex_, prober, stable>>

\* Mutant of GiveUp: the scan stops one upstream early.
GiveUpEarly(p) == GiveUpAfter(p, Count - 1)

\* The scan has come round: nullptr.
GiveUp(p) == GiveUpAfter(p, Count)

\* The caller has used the result.
EndCall(p) ==
    /\ picker[p].pc = "returned"
    /\ picker' = [picker EXCEPT ![p] = NoFrame]
    /\ stable' = [stable EXCEPT ![p] = {}]
    /\ UNCHANGED <<up, healthy, nextIndex_, prober>>

PickerStep(p) == FetchAdd(p) \/ Examine(p) \/ GiveUp(p) \/ EndCall(p)
CheckerStep == Probe \/ StoreHealth

PickNext ==
    \/ \E u \in Upstreams : Flip(u)
    \/ CheckerStep
    \/ \E p \in Pickers : PickerStep(p)

PickSpec == PickInit /\ [][PickNext]_lbVars

\* Both threads are scheduled; upstreams flip as they please.
FairPickSpec ==
    /\ PickSpec
    /\ WF_lbVars(CheckerStep)
    /\ \A p \in Pickers : WF_lbVars(PickerStep(p))

-----------------------------------------------------------------------------
(* Properties *)

Returned(p) == picker[p].pc = "returned"

\* Upstreams that the call looked at before the one it returned.
PassedOver(p) == {(picker[p].start + j) % Count : j \in 0..(picker[p].i - 1)}

\* pickNext() never misses an upstream that was healthy for the whole call: each
\* one it passed over was marked unhealthy at some time during the call, so nullptr
\* means that none stayed healthy.
StableUpstreamNotSkipped ==
    \A p \in Pickers :
        picker[p].pc # "idle" => /\ PassedOver(p) \cap stable[p] = {}
                                 /\ Returned(p) /\ picker[p].result = NullPtr
                                      => stable[p] = {}

\* An upstream that goes down for good is, from some time on, not returned any more.
DownUpstreamAbandoned ==
    \A u \in Upstreams :
        <>[](~up[u]) => <>[](\A p \in Pickers : ~(Returned(p) /\ picker[p].result = u))

\* The balancer routes around failed upstreams and back: once the set of upstreams
\* that answer stays the same and is not empty, and every probe of one of them gets
\* its answer in time, pickNext() from some time on returns only upstreams of that
\* set, and never nullptr.
RoutesAroundFailures ==
    \A S \in SUBSET Upstreams \ {{}} :
        <>[](/\ S = {u \in Upstreams : up[u]}
             /\ prober.pc = "store" => prober.ok = up[prober.at])
            => <>[](\A p \in Pickers : Returned(p) => picker[p].result \in S)

=============================================================================
