------------------------- MODULE UpstreamPoolProofs -------------------------
(***************************************************************************)
(* pickNext() misses no upstream that stays healthy during the call, for   *)
(* every number of upstreams and of worker threads, and wherever the       *)
(* counter wraps.                                                          *)
(*                                                                         *)
(* The induction needs what the history variable stable means (the         *)
(* upstreams it holds are marked healthy now) and, for a call that returns *)
(* nullptr, that the scan visited the residues of Count numbers in a row,  *)
(* which are all of them.                                                  *)
(***************************************************************************)
EXTENDS UpstreamPool, TLAPS

USE CountAssumption, WordAssumption

-----------------------------------------------------------------------------
(* The candidates of one scan *)

\* A remainder is the index of an upstream.
LEMMA RemainderIsUpstream ==
    ASSUME NEW n \in Nat
    PROVE  n % Count \in Upstreams
BY DEF Upstreams

\* From any start, Count candidates in a row are all upstreams.
LEMMA ScanIsComplete ==
    ASSUME NEW s \in Upstreams, NEW u \in Upstreams
    PROVE  \E j \in 0..(Count - 1) : (s + j) % Count = u
<1>1. CASE s <= u
  <2>1. u - s \in 0..(Count - 1) /\ (s + (u - s)) % Count = u
    BY <1>1 DEF Upstreams
  <2> QED
    BY <2>1
<1>2. CASE u < s
  <2>1. (u + Count) - s \in 0..(Count - 1)
    BY <1>2 DEF Upstreams
  <2>2. s + ((u + Count) - s) = u + Count
    BY DEF Upstreams
  <2>3. (u + Count) % Count = u
    BY DEF Upstreams
  <2> QED
    BY <2>1, <2>2, <2>3
<1> QED
  BY <1>1, <1>2 DEF Upstreams

-----------------------------------------------------------------------------
(* The inductive invariant *)

Calls == [pc : {"idle", "scan", "returned"}, start : Upstreams, i : 0..Count, result : Results]

\* The upstreams in stable have been healthy since the call began, and still are.
StableIsHealthy == \A p \in Pickers : \A u \in stable[p] : healthy[u]

\* What a call has looked at so far, index by index.
NothingStablePassed ==
    \A p \in Pickers : picker[p].pc # "idle" =>
        \A j \in 0..(picker[p].i - 1) : (picker[p].start + j) % Count \notin stable[p]

\* nullptr is returned after Count candidates and not before.
NullAfterAll ==
    \A p \in Pickers :
        picker[p].pc = "returned" /\ picker[p].result = NullPtr => picker[p].i = Count

PickInv == PickTypeOK /\ StableIsHealthy /\ NothingStablePassed /\ NullAfterAll

USE DEF Results, NullPtr

\* The constructor marks every upstream healthy, and no call is in progress.
LEMMA InitPickInv == PickInit => PickInv
<1> SUFFICES ASSUME PickInit PROVE PickInv
  OBVIOUS
<1>1. healthy \in [Upstreams -> BOOLEAN] /\ up \in [Upstreams -> BOOLEAN]
  BY Zenon DEF PickInit
<1>2. /\ 0 \in Upstreams
      /\ nextIndex_ \in 0..(WordSize - 1)
  BY DEF PickInit, Upstreams
<1>3. prober \in [at : Upstreams, pc : {"probe", "store"}, ok : BOOLEAN]
  BY <1>2, Zenon DEF PickInit
<1>4. NoFrame \in Calls
  BY <1>2 DEF NoFrame, Calls
<1>5. PickTypeOK
  BY <1>1, <1>2, <1>3, <1>4 DEF PickInit, PickTypeOK, Calls
<1> QED
  BY <1>5 DEF PickInit, PickInv, StableIsHealthy, NothingStablePassed, NullAfterAll, NoFrame

\* Every step of a picker, of the checker and of the world keeps it.
LEMMA NextPickInv ==
    ASSUME PickInv, [PickNext]_lbVars
    PROVE  PickInv'
<1> USE DEF PickInv
<1>t. /\ up \in [Upstreams -> BOOLEAN]
      /\ healthy \in [Upstreams -> BOOLEAN]
      /\ nextIndex_ \in 0..(WordSize - 1)
      /\ prober \in [at : Upstreams, pc : {"probe", "store"}, ok : BOOLEAN]
      /\ picker \in [Pickers -> Calls]
      /\ stable \in [Pickers -> SUBSET Upstreams]
  BY DEF PickTypeOK, Calls
<1>1. ASSUME NEW u \in Upstreams, Flip(u) PROVE PickInv'
  <2>1. up' \in [Upstreams -> BOOLEAN]
    BY <1>t, <1>1 DEF Flip
  <2> QED
    BY <2>1, <1>t, <1>1 DEF Flip, PickTypeOK, Calls, StableIsHealthy, NothingStablePassed, NullAfterAll
<1>2. CASE Probe
  <2>1. PICK ok \in {FALSE, up[prober.at]} : prober' = [prober EXCEPT !.pc = "store", !.ok = ok]
    BY <1>2 DEF Probe
  <2>2. ok \in BOOLEAN
    BY <2>1, <1>t
  <2>3. prober' \in [at : Upstreams, pc : {"probe", "store"}, ok : BOOLEAN]
    BY <2>1, <2>2, <1>t, Zenon
  <2> QED
    BY <2>3, <1>t, <1>2 DEF Probe, PickTypeOK, Calls, StableIsHealthy, NothingStablePassed, NullAfterAll
<1>3. CASE StoreHealth
  <2>1. prober.at \in Upstreams /\ prober.ok \in BOOLEAN
    BY <1>t
  <2>2. (prober.at + 1) % Count \in Upstreams
    BY <2>1, RemainderIsUpstream DEF Upstreams
  <2>3. prober' \in [at : Upstreams, pc : {"probe", "store"}, ok : BOOLEAN]
    BY <2>2, <1>3 DEF StoreHealth, Store
  <2>4. healthy' \in [Upstreams -> BOOLEAN]
    BY <2>1, <1>t, <1>3 DEF StoreHealth, Store
  <2>5. /\ stable' = [p \in Pickers |-> {u \in stable[p] : healthy'[u]}]
        /\ UNCHANGED <<up, nextIndex_, picker>>
    BY <1>3 DEF StoreHealth, Store
  <2>6. PickTypeOK'
    BY <2>3, <2>4, <2>5, <1>t DEF PickTypeOK, Calls
  <2> QED
    BY <2>5, <2>6, <1>t DEF StableIsHealthy, NothingStablePassed, NullAfterAll
<1>4. ASSUME NEW p \in Pickers, FetchAdd(p) PROVE PickInv'
  <2>1. nextIndex_ % Count \in Upstreams /\ (nextIndex_ + 1) % WordSize \in 0..(WordSize - 1)
    BY <1>t, RemainderIsUpstream
  <2> DEFINE fr == [NoFrame EXCEPT !.pc = "scan", !.start = nextIndex_ % Count]
  <2>n. NoFrame \in Calls /\ NoFrame.i = 0
    BY DEF NoFrame, Calls, Upstreams
  <2>3. fr \in Calls
    BY <2>1, <2>n, Zenon DEF Calls
  <2>2. fr.pc = "scan" /\ fr.i = 0
    BY <2>n, SMT DEF Calls
  <2>4. /\ picker' = [picker EXCEPT ![p] = fr]
        /\ nextIndex_' = (nextIndex_ + 1) % WordSize
        /\ stable' = [stable EXCEPT ![p] = {u \in Upstreams : healthy[u]}]
        /\ UNCHANGED <<up, healthy, prober>>
    BY <1>4 DEF FetchAdd, StartAt
  <2> HIDE DEF fr
  <2>5. PickTypeOK'
    BY <2>1, <2>3, <2>4, <1>t DEF PickTypeOK, Calls
  <2> QED
    BY <2>2, <2>4, <2>5, <1>t DEF StableIsHealthy, NothingStablePassed, NullAfterAll
<1>5. ASSUME NEW p \in Pickers, Examine(p) PROVE PickInv'
  <2>1. /\ picker[p] \in Calls /\ picker[p].i \in 0..(Count - 1)
        /\ UNCHANGED <<up, healthy, nextIndex_, prober, stable>>
        /\ picker[p].pc = "scan"
    BY <1>t, <1>5 DEF Examine, Calls
  <2>2. Candidate(p) \in Upstreams
    BY <2>1, RemainderIsUpstream DEF Candidate, Calls, Upstreams
  <2>3. CASE healthy[Candidate(p)]
    <3>1. picker' = [picker EXCEPT ![p] =
                        [picker[p] EXCEPT !.pc = "returned", !.result = Candidate(p)]]
      BY <1>5, <2>3 DEF Examine
    <3>2. [picker[p] EXCEPT !.pc = "returned", !.result = Candidate(p)] \in Calls
      <4>1. Candidate(p) \in Results
        BY <2>2 DEF Upstreams
      <4> QED
        BY <2>1, <4>1, Zenon DEF Calls
    <3>3. PickTypeOK'
      BY <2>1, <3>1, <3>2, <1>t DEF PickTypeOK, Calls
    <3>4. Candidate(p) # NullPtr
      BY <2>2 DEF Upstreams
    <3> QED
      BY <2>1, <3>1, <3>3, <3>4, <1>t
      DEF StableIsHealthy, NothingStablePassed, NullAfterAll, Calls
  <2>4. CASE ~healthy[Candidate(p)]
    <3>1. picker' = [picker EXCEPT ![p] = [picker[p] EXCEPT !.i = picker[p].i + 1]]
      BY <1>5, <2>4 DEF Examine
    <3>2. [picker[p] EXCEPT !.i = picker[p].i + 1] \in Calls
      BY <2>1 DEF Calls
    <3>3. PickTypeOK'
      BY <2>1, <3>1, <3>2, <1>t DEF PickTypeOK, Calls
    <3>4. Candidate(p) \notin stable[p]
      BY <2>4 DEF StableIsHealthy
    <3>5. NothingStablePassed'
      <4> SUFFICES ASSUME NEW q \in Pickers, picker'[q].pc # "idle",
                          NEW j \in 0..(picker'[q].i - 1)
                   PROVE  (picker'[q].start + j) % Count \notin stable[q]
        BY <2>1 DEF NothingStablePassed
      <4>1. CASE q # p
        BY <4>1, <3>1, <1>t DEF NothingStablePassed
      <4>2. CASE q = p
        <5>1. picker'[p].start = picker[p].start /\ picker'[p].i = picker[p].i + 1
          BY <3>1, <1>t DEF Calls
        <5>2. CASE j = picker[p].i
          BY <4>2, <5>1, <5>2, <3>4 DEF Candidate
        <5>3. CASE j \in 0..(picker[p].i - 1)
          BY <4>2, <5>1, <5>3, <2>1 DEF NothingStablePassed
        <5> QED
          BY <4>2, <5>1, <5>2, <5>3, <2>1
      <4> QED
        BY <4>1, <4>2
    <3>6. NullAfterAll'
      BY <2>1, <3>1, <1>t DEF NullAfterAll, Calls
    <3> QED
      BY <2>1, <3>1, <3>3, <3>5, <3>6 DEF StableIsHealthy
  <2> QED
    BY <2>3, <2>4
<1>6. ASSUME NEW p \in Pickers, GiveUp(p) PROVE PickInv'
  <2>1. /\ picker[p] \in Calls /\ picker[p].pc = "scan" /\ picker[p].i = Count
        /\ picker' = [picker EXCEPT ![p] =
                         [picker[p] EXCEPT !.pc = "returned", !.result = NullPtr]]
        /\ UNCHANGED <<up, healthy, nextIndex_, prober, stable>>
    BY <1>t, <1>6 DEF GiveUp, GiveUpAfter
  <2>2. [picker[p] EXCEPT !.pc = "returned", !.result = NullPtr] \in Calls
    BY <2>1 DEF Calls
  <2>3. PickTypeOK'
    BY <2>1, <2>2, <1>t DEF PickTypeOK, Calls
  <2> QED
    BY <2>1, <2>3, <1>t DEF StableIsHealthy, NothingStablePassed, NullAfterAll, Calls
<1>7. ASSUME NEW p \in Pickers, EndCall(p) PROVE PickInv'
  <2>1. NoFrame \in Calls
    BY DEF NoFrame, Calls, Upstreams
  <2>2. PickTypeOK'
    BY <1>7, <2>1, <1>t DEF EndCall, PickTypeOK, Calls
  <2> QED
    BY <1>7, <2>2, <1>t DEF EndCall, StableIsHealthy, NothingStablePassed, NullAfterAll, NoFrame
<1>8. CASE UNCHANGED lbVars
  BY <1>8, <1>t DEF lbVars, PickTypeOK, Calls, StableIsHealthy, NothingStablePassed, NullAfterAll
<1> QED
  BY <1>1, <1>2, <1>3, <1>4, <1>5, <1>6, <1>7, <1>8 DEF PickNext, CheckerStep, PickerStep

\* The invariant gives the property: a call that returned nullptr has seen them all.
LEMMA PickInvImplies == PickInv => StableUpstreamNotSkipped
<1> SUFFICES ASSUME PickInv, NEW p \in Pickers, picker[p].pc # "idle"
             PROVE  /\ PassedOver(p) \cap stable[p] = {}
                    /\ Returned(p) /\ picker[p].result = NullPtr => stable[p] = {}
  BY DEF StableUpstreamNotSkipped
<1>1. PassedOver(p) \cap stable[p] = {}
  BY DEF PickInv, NothingStablePassed, PassedOver
<1>2. ASSUME Returned(p), picker[p].result = NullPtr PROVE stable[p] = {}
  <2>1. picker[p].i = Count /\ picker[p].start \in Upstreams /\ stable[p] \subseteq Upstreams
    BY <1>2 DEF PickInv, PickTypeOK, NullAfterAll, Returned
  <2>2. ASSUME NEW u \in stable[p] PROVE FALSE
    <3>1. PICK j \in 0..(Count - 1) : (picker[p].start + j) % Count = u
      BY <2>1, ScanIsComplete
    <3> QED
      BY <2>1, <3>1 DEF PickInv, NothingStablePassed
  <2> QED
    BY <2>2
<1> QED
  BY <1>1, <1>2

-----------------------------------------------------------------------------

\* Every variable of the pool keeps its type: the cursor is reduced to the index of an
\* upstream whatever nextIndex_ has wrapped to.
THEOREM PickTypeCorrect == PickSpec => []PickTypeOK
<1>1. PickInv => PickTypeOK
  BY DEF PickInv
<1> QED
  BY <1>1, InitPickInv, NextPickInv, PTL DEF PickSpec

\* pickNext() passes over no upstream that was healthy all through the call, and
\* returns nullptr only when there was none, with any number of callers and with the
\* health checker's stores between any two loads.
THEOREM NoStableUpstreamSkipped == PickSpec => []StableUpstreamNotSkipped
BY InitPickInv, NextPickInv, PickInvImplies, PTL DEF PickSpec

=============================================================================
