---------------------------- MODULE OutputBuffer ----------------------------
(***************************************************************************)
(* How an output buffer of SixTrackLib is laid out for one set of          *)
(* particles and one line of beam elements                                 *)
(* (common/output/output_buffer.c, common/be_monitor/output_buffer.c):     *)
(* one particle object for the element by element output, if that is       *)
(* wanted, followed by one for each beam monitor that stores something.    *)
(*                                                                         *)
(* The operators are pure.  A line is the sequence of its monitors, in the *)
(* order of the beam elements; the objects of a buffer are a sequence of   *)
(* particle objects, each with its address and its number of particles.    *)
(***************************************************************************)
EXTENDS ElemByElemConfig, BeamMonitor, Sequences, FiniteSets

Objects == [addr : Nat \ {0}, size : Nat]

\* The ids and turns of the particles to be tracked, as the layout uses them.
Extents ==
    [min_particle_id : Nat, max_particle_id : Nat, min_element_id : Nat,
     max_element_id : Nat, min_turn : Nat]

\* OutputBuffer_required_for_tracking: what tracking from first_turn on has
\* to store.  A monitor counts whatever turn it starts in.
NeedsElemByElem(first_turn, until) == until > first_turn
NeedsMonitors(line) == \E i \in DOMAIN line : line[i].num_stores > 0

-----------------------------------------------------------------------------
(* Element by element output: the configuration, and its one object.       *)

ElemByElemFor(x, until) ==
    InitDetailed(Preset, TurnElemParticles,
        [min_particle_id |-> x.min_particle_id,
         max_particle_id |-> x.max_particle_id,
         min_element_id  |-> x.min_element_id,
         max_element_id  |-> x.max_element_id,
         min_turn        |-> x.min_turn,
         max_turn        |-> until - 1], TRUE)

ElemByElemSizes(x, until) ==
    IF NeedsElemByElem(x.min_turn, until)
    THEN <<OutStoreNumParticles(ElemByElemFor(x, until))>>
    ELSE <<>>

-----------------------------------------------------------------------------
(* Beam monitor output.                                                    *)

\* The monitors that preparing gives an object: those that still have all
\* of their turns before them.
IsPrepared(m, first_turn) == m.num_stores > 0 /\ m.start >= first_turn

MonitorFor(m, x) ==
    [m EXCEPT !.min_particle_id = x.min_particle_id,
              !.max_particle_id = x.max_particle_id]

\* BeamMonitor_prepare_output_buffer leaves the other monitors as they were.
BadPreparedLineKeepsWindow(line, x) ==
    [i \in DOMAIN line |->
        IF IsPrepared(line[i], x.min_turn)
        THEN [line[i] EXCEPT !.out_address = NullAddress]
        ELSE line[i]]
PreparedLine(line, x) ==
    [i \in DOMAIN line |->
        IF IsPrepared(line[i], x.min_turn)
        THEN [MonitorFor(line[i], x) EXCEPT !.out_address = NullAddress]
        ELSE line[i]]

\* The n-th of a set of positions.
Nth(S, n) == CHOOSE i \in S : Cardinality({k \in S : k <= i}) = n

MonitorSizes(line, x) ==
    LET prepared == {i \in DOMAIN line : IsPrepared(line[i], x.min_turn)}
    IN  [n \in 1 .. Cardinality(prepared) |->
            StoredNumParticles(PreparedLine(line, x)[Nth(prepared, n)])]

\* OutputBuffer_prepare appends this to the objects of the buffer ...
OutputSizes(line, x, until) == ElemByElemSizes(x, until) \o MonitorSizes(line, x)

\* ... and reports where the two parts begin.
BadElemByElemOffset(objects, x, until) ==
    Len(objects) + Len(ElemByElemSizes(x, until)) - 1
ElemByElemOffset(objects, x, until) ==
    IF NeedsElemByElem(x.min_turn, until) THEN Len(objects) ELSE 0
BadMonitorOffset(objects, x, until) == Len(objects)
MonitorOffset(objects, x, until) ==
    Len(objects) + Len(ElemByElemSizes(x, until))

\* BeamMonitor_assign_managed_output_buffer: the monitors take the objects
\* from an offset on one after the other, those that have not learnt any
\* particle ids excepted.
Takes(m, first_turn) == IsPrepared(m, first_turn) /\ ParticlesPerTurn(m) > 0

NextObject(line, first_turn, offset, i) ==
    offset + 1 + Cardinality({k \in DOMAIN line : k < i /\ Takes(line[k], first_turn)})

\* It stops at an object that is too small, and at any monitor that follows
\* the one that took the last object.
BadPassesAnySize(line, objects, first_turn, offset, i) ==
    NextObject(line, first_turn, offset, i) <= Len(objects)
Passes(line, objects, first_turn, offset, i) ==
    LET next == NextObject(line, first_turn, offset, i)
    IN  /\ next <= Len(objects)
        /\ Takes(line[i], first_turn) =>
               ParticlesPerTurn(line[i]) * line[i].num_stores <= objects[next].size

Reaches(line, objects, first_turn, offset, i) ==
    \A k \in 1 .. i : Passes(line, objects, first_turn, offset, k)

AssignMonitors(line, objects, first_turn, offset) ==
    [line |-> [i \in DOMAIN line |->
        IF Takes(line[i], first_turn) /\ Reaches(line, objects, first_turn, offset, i)
        THEN [line[i] EXCEPT !.out_address =
                  objects[NextObject(line, first_turn, offset, i)].addr]
        ELSE line[i]],
     status |-> IF Reaches(line, objects, first_turn, offset, Len(line))
                THEN "success" ELSE "failure"]
=============================================================================
