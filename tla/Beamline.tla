------------------------------ MODULE Beamline ------------------------------
(***************************************************************************)
(* What every tracking kernel of SixTrackLib is given and what one beam    *)
(* element does to one particle (common/track/track.h, the dispatcher):    *)
(* the particle set, the line of beam elements, the element by element     *)
(* configuration and the beam monitors with their output.                  *)
(*                                                                         *)
(* Phase-space coordinates are abstracted to what the control flow sees    *)
(* of them: whether an aperture loses the particle.                        *)
(***************************************************************************)
EXTENDS ElemByElemConfig, BeamMonitor

CONSTANTS
    NumParticles,   \* size of the particle set
    NumElements,    \* beam elements in the line
    Kind,           \* element index -> kind of beam element
    ParticleId,     \* particle index -> particle id
    FirstElement,   \* particle index -> at_element_id before any tracking
    Config,         \* the element by element configuration
    Monitor,        \* monitor index -> the monitor there
    MonStoreSize,   \* monitor index -> particles in its output object
    UntilTurns,     \* turns a caller asks for
    Sections,       \* <<first, last>>: sections of the line a caller tracks
    MaxTurn,        \* bound: line calls finish no turn from this one on
    MaxElement,     \* bound: element id beyond which a particle stays put
    Empty           \* an output slot nothing was copied to

Particles == 0 .. NumParticles - 1
Elements  == 0 .. NumElements - 1

\* "map": every element that only moves a particle.  "aperture": a limit, or
\* a drift with its global aperture check.  "disabled": a map left out of the
\* build, which fails.  "unknown": a type the dispatcher has no case for.
Kinds == {"map", "aperture", "monitor", "disabled", "unknown"}

MonitorElements == {e \in Elements : Kind[e] = "monitor"}

ElemSlots   == 0 .. OutStoreNumParticles(Config) - 1
MonSlots(e) == 0 .. MonStoreSize[e] - 1

ASSUME BeamlineAssumption ==
    /\ NumParticles \in Nat /\ NumElements \in Nat
    /\ Kind \in [Elements -> Kinds]
    /\ ParticleId \in [Particles -> Nat]
    /\ FirstElement \in [Particles -> Nat]
    /\ Config \in Configs
    /\ Monitor \in [MonitorElements -> Monitors]
    /\ MonStoreSize \in [MonitorElements -> Nat]
    /\ UntilTurns \subseteq Nat /\ MaxTurn \in Nat /\ MaxElement \in Nat
    /\ Sections \subseteq {s \in (0 .. NumElements) \X (0 .. NumElements) :
                                s[1] <= s[2]}

\* The configuration is one that its API can produce.
ASSUME ConfigFromApi == WindowConsistent(Config) \/ WindowEmpty(Config)

\* Particle ids are unique in a set, as particle initialisation makes them.
ASSUME UniqueIds ==
    \A p, q \in Particles : ParticleId[p] = ParticleId[q] => p = q

\* The part of a particle that is stored: its record in an output slot.
Records == [particle_id : Nat, at_element_id : Nat, at_turn : Nat,
            state : {0, 1}]

Fresh == [p \in Particles |->
            [particle_id |-> ParticleId[p], at_element_id |-> FirstElement[p],
             at_turn |-> 0, state |-> 1]]

\* Monitors as a successful preparation of their output leaves them, with the
\* particle ids of the set in their range, and in the default order.
MonitorsCover ==
    \A e \in MonitorElements :
        /\ Monitor[e].num_stores > 0 /\ Monitor[e].is_turn_ordered
        /\ \A p \in Particles : /\ Monitor[e].min_particle_id <= ParticleId[p]
                                /\ ParticleId[p] <= Monitor[e].max_particle_id

\* The index a monitor computes for one particle is never that of another,
\* in whatever turns they are.
MonitorSlotsDistinct ==
    \A e \in MonitorElements, p, q \in Particles, t1, t2 \in Nat :
        /\ StoreParticleIndex(Monitor[e], t1, ParticleId[p]) >= 0
        /\ StoreParticleIndex(Monitor[e], t1, ParticleId[p])
             = StoreParticleIndex(Monitor[e], t2, ParticleId[q])
        => p = q

NoElemOutput == [i \in ElemSlots |-> Empty]
NoMonOutput  == [e \in MonitorElements |-> [i \in MonSlots(e) |-> Empty]]

\* A call of a kernel: what it was asked, and the status so far.
Calls ==
    [kind : {"none", "until_turn", "elem_by_elem", "line"},
     until : Nat, first : Nat, last : Nat, finish_turn : BOOLEAN,
     status : {"success", "failure"}]

Request(kind, until, first, last, finish) ==
    [kind |-> kind, until |-> until, first |-> first, last |-> last,
     finish_turn |-> finish, status |-> "success"]

NoCall == Request("none", 0, 0, 0, FALSE)
CallUntil(kind, until) == Request(kind, until, 0, NumElements, FALSE)
CallLine(section, finish) == Request("line", 0, section[1], section[2], finish)

\* Bounds of the model only: line calls may be repeated without end, and a
\* call that fails may leave a particle further along the line every time.
WithinBounds(c, r) ==
    /\ c.finish_turn => r.at_turn < MaxTurn
    /\ c.kind # "until_turn" => r.at_element_id <= MaxElement

\* Without an output assigned, tracking element by element is tracking until.
KernelFor == IF Config.out_store_addr = NoAddress
             THEN "until_turn" ELSE "elem_by_elem"

-----------------------------------------------------------------------------
(* One particle r, with its record, at one element e.                      *)

Lost(r) == r.state # 1

\* The bookkeeping of a particle that passed an element, and at the end of a
\* turn.
ElementPassed(r) == [r EXCEPT !.at_element_id = @ + 1]

TurnFinished(r, element) ==
    [particle_id |-> r.particle_id, at_element_id |-> element,
     at_turn |-> r.at_turn + 1, state |-> r.state]

MonIndex(e, r) == StoreParticleIndex(Monitor[e], r.at_turn, r.particle_id)

\* The monitor at e stores the particle, or tries to.
MonitorActs(e, r) ==
    Monitor[e].out_address # NullAddress /\ MonIndex(e, r) >= 0

MonitorStores(e, r) == MonitorActs(e, r) /\ MonIndex(e, r) \in MonSlots(e)

\* What the dispatcher may leave: the state of the particle and a status.
Outcome(state, status) == [state |-> state, status |-> status]

Outcomes(e, r) ==
    CASE Kind[e] = "map"      -> {Outcome(r.state, "success")}
      [] Kind[e] = "aperture" -> {Outcome(r.state, "success"), Outcome(0, "success")}
      [] Kind[e] = "disabled" -> {Outcome(r.state, "failure")}
      [] Kind[e] = "unknown"  -> {Outcome(0, "failure")}
      [] Kind[e] = "monitor"  ->
            IF MonitorActs(e, r) /\ ~MonitorStores(e, r)
            THEN {Outcome(0, "failure")}
            ELSE {Outcome(r.state, "success")}

\* The dispatcher let the particle pass: the loop goes on while it may.
Continues(o) == o.status = "success" /\ o.state = 1
Passes(e, r) == \E o \in Outcomes(e, r) : Continues(o)

\* The output of the monitors after a particle was at element e.
MonStoreAfter(store, e, r) ==
    IF Kind[e] = "monitor" /\ MonitorStores(e, r)
    THEN [store EXCEPT ![e][MonIndex(e, r)] = r]
    ELSE store
=============================================================================
