----------------------------- MODULE TrackCalls -----------------------------
(***************************************************************************)
(* What a call of a tracking kernel promises, without work items and       *)
(* without the loop over the elements: each particle is tracked on its     *)
(* own, in one step and in any order, to the end of its journey or to the  *)
(* point on it where an element stops it, and the output holds the last    *)
(* of its passages that falls on each slot.                                *)
(***************************************************************************)
EXTENDS Beamline, FiniteSetsExt

VARIABLES
    particles,      \* particle index -> its record
    call,           \* the call that runs, or kind "none"
    pending,        \* the particles it still has to track
    elem_store,     \* slot -> record: element by element output
    mon_store       \* monitor index -> slot -> record

cvars == <<particles, call, pending, elem_store, mon_store>>

Init ==
    /\ particles = Fresh
    /\ call = NoCall
    /\ pending = {}
    /\ elem_store = NoElemOutput
    /\ mon_store = NoMonOutput

Requests ==
    {CallUntil("until_turn", until) : until \in UntilTurns}
    \cup {CallUntil(KernelFor, until) : until \in UntilTurns}
    \cup {CallLine(section, finish) : section \in Sections, finish \in BOOLEAN}

Begin ==
    /\ call.kind = "none"
    /\ call' \in Requests
    /\ pending' = Particles
    /\ UNCHANGED <<particles, elem_store, mon_store>>

-----------------------------------------------------------------------------
(* The journey of a particle that starts as r: point k of it is the k-th   *)
(* element the call would take the particle to.                            *)

Lap == call.last - call.first

JourneyLength(r) ==
    IF Lost(r) /\ call.kind # "elem_by_elem" THEN 0
    ELSE IF call.kind = "line" THEN Lap
    ELSE IF call.until > r.at_turn THEN (call.until - r.at_turn) * Lap ELSE 0

ElementAt(k) == call.first + (k % Lap)

AtPoint(r, k) == [r EXCEPT !.at_element_id = @ + (k % Lap),
                           !.at_turn = @ + (k \div Lap)]

PassesTo(r, k) == \A j \in 0 .. k - 1 : Passes(ElementAt(j), AtPoint(r, j))

Arrived(r) ==
    IF call.kind # "line"
    THEN [r EXCEPT !.at_turn = IF JourneyLength(r) > 0 THEN call.until ELSE @]
    ELSE IF Lost(r) THEN r
    ELSE IF call.finish_turn THEN TurnFinished(r, 0)
    ELSE [r EXCEPT !.at_element_id = @ + Lap]

\* The ways the journey may end: the record it leaves, the number of points
\* the particle was at, and the status.
Arrivals(r) ==
    IF PassesTo(r, JourneyLength(r))
    THEN {[record |-> Arrived(r), points |-> JourneyLength(r),
           status |-> IF call.kind = "until_turn" /\ NumElements = 0
                      THEN "failure" ELSE "success"]}
    ELSE {}

StopsAt(r, k) ==
    {[record |-> [AtPoint(r, k) EXCEPT !.state =
                     IF call.kind = "until_turn" THEN 0 ELSE o.state],
      points |-> k + 1, status |-> o.status] :
        o \in {out \in Outcomes(ElementAt(k), AtPoint(r, k)) : ~Continues(out)}}

Ends(r) ==
    Arrivals(r) \cup
    UNION {StopsAt(r, k) : k \in {j \in 0 .. JourneyLength(r) - 1 : PassesTo(r, j)}}

\* Slot content after points 0 .. n - 1, of which those in hits fall on it.
LastOf(r, hits, content) == IF hits = {} THEN content ELSE AtPoint(r, Max(hits))

ElemHits(r, n, i) ==
    {k \in 0 .. n - 1 :
        /\ call.kind = "elem_by_elem"
        /\ StoreIndex(Config, r.particle_id, AtPoint(r, k).at_element_id,
                      AtPoint(r, k).at_turn) = i}

MonHits(r, n, e, i) ==
    {k \in 0 .. n - 1 :
        /\ ElementAt(k) = e
        /\ MonitorStores(e, AtPoint(r, k))
        /\ MonIndex(e, AtPoint(r, k)) = i}

\* One pending particle makes its journey.
TrackParticle(p) ==
    LET r == particles[p] IN
    /\ p \in pending
    /\ pending' = pending \ {p}
    /\ \E end \in Ends(r) :
        /\ particles' = [particles EXCEPT ![p] = end.record]
        /\ call' = IF end.status = "failure"
                   THEN [call EXCEPT !.status = "failure"] ELSE call
        /\ elem_store' = [i \in ElemSlots |->
                LastOf(r, ElemHits(r, end.points, i), elem_store[i])]
        /\ mon_store' = [e \in MonitorElements |-> [i \in MonSlots(e) |->
                LastOf(r, MonHits(r, end.points, e, i), mon_store[e][i])]]

End ==
    /\ call.kind # "none" /\ pending = {}
    /\ call' = [NoCall EXCEPT !.status = call.status]
    /\ UNCHANGED <<particles, pending, elem_store, mon_store>>

Next == Begin \/ (\E p \in Particles : TrackParticle(p)) \/ End

Spec == Init /\ [][Next]_cvars
=============================================================================
