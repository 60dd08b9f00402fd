-------------------------- MODULE ElemByElemConfig --------------------------
(***************************************************************************)
(* The element-by-element output configuration of SixTrackLib              *)
(* (common/output/elem_by_elem_config.h): a window of particle ids,        *)
(* element ids and turns, and the arithmetic that maps a particle at an    *)
(* element in a turn to one slot of the flat output store and back.        *)
(*                                                                         *)
(* The configuration is a record; the operators below are pure, so they    *)
(* serve the API state machine (ElemByElemConfigApi) and the tracking      *)
(* model (Tracking) alike.  Indices are mathematical integers: the code's  *)
(* 64 bit counters are not exceeded by any store that fits in memory.      *)
(***************************************************************************)
EXTENDS Integers

\* elem_by_elem_order_t: the one supported layout, and the invalid marker.
TurnElemParticles == "turn_elem_particles"
InvalidOrder      == "invalid"
Orders            == {TurnElemParticles, InvalidOrder}

\* The null output address.
NoAddress == 0

Configs ==
    [order           : Orders,
     num_particles   : Nat, num_elements   : Nat, num_turns : Nat,
     min_particle_id : Int, max_particle_id : Int,
     min_element_id  : Int, max_element_id  : Int,
     min_turn        : Int, max_turn        : Int,
     is_rolling      : BOOLEAN,
     out_store_addr  : Nat]

-----------------------------------------------------------------------------
(* Operations that build and change a configuration.                       *)

\* What ElemByElemConfig_clear writes around the order and the rolling flag.
EmptyConfig(order, rolling) ==
    [order           |-> order,
     num_particles   |-> 0,  num_elements   |-> 0, num_turns |-> 0,
     min_particle_id |-> -1, max_particle_id |-> -1,
     min_element_id  |-> -1, max_element_id  |-> -1,
     min_turn        |-> -1, max_turn        |-> -1,
     is_rolling      |-> rolling,
     out_store_addr  |-> NoAddress]

\* ElemByElemConfig_clear leaves order and is_rolling alone.
BadClearedKeepsTurns(c) ==
    [EmptyConfig(c.order, c.is_rolling) EXCEPT !.num_turns = c.num_turns]
Cleared(c) == EmptyConfig(c.order, c.is_rolling)

\* ElemByElemConfig_preset.
Preset == EmptyConfig(InvalidOrder, TRUE)

\* A window is the six bounds init_detailed takes.
ValidWindow(w) ==
    /\ 0 <= w.min_particle_id /\ w.min_particle_id <= w.max_particle_id
    /\ 0 <= w.min_element_id  /\ w.min_element_id  <= w.max_element_id
    /\ 0 <= w.min_turn        /\ w.min_turn        <= w.max_turn

\* The configuration a successful init_detailed leaves; a refused one
\* leaves its argument as it was.
InitDetailed(c, order, w, rolling) ==
    IF order # InvalidOrder /\ ValidWindow(w)
    THEN [order           |-> order,
          num_particles   |-> w.max_particle_id - w.min_particle_id + 1,
          num_elements    |-> w.max_element_id - w.min_element_id + 1,
          num_turns       |-> w.max_turn - w.min_turn + 1,
          min_particle_id |-> w.min_particle_id,
          max_particle_id |-> w.max_particle_id,
          min_element_id  |-> w.min_element_id,
          max_element_id  |-> w.max_element_id,
          min_turn        |-> w.min_turn,
          max_turn        |-> w.max_turn,
          is_rolling      |-> rolling,
          out_store_addr  |-> NoAddress]
    ELSE c

\* The two shapes of an object: a window whose counts are the sizes of its
\* ranges, and a cleared one.
WindowConsistent(c) ==
    /\ ValidWindow(c)
    /\ c.num_particles = c.max_particle_id - c.min_particle_id + 1
    /\ c.num_elements  = c.max_element_id - c.min_element_id + 1
    /\ c.num_turns     = c.max_turn - c.min_turn + 1

WindowEmpty(c) ==
    /\ c.num_particles = 0 /\ c.num_elements = 0 /\ c.num_turns = 0
    /\ c.min_particle_id = -1 /\ c.max_particle_id = -1
    /\ c.min_element_id = -1  /\ c.max_element_id = -1
    /\ c.min_turn = -1        /\ c.max_turn = -1

-----------------------------------------------------------------------------
(* Queries.                                                                *)

IsActive(c) ==
    /\ c.num_particles > 0 /\ c.num_elements > 0 /\ c.num_turns > 0
    /\ c.order # InvalidOrder

OutStoreNumParticles(c) == c.num_particles * c.num_elements * c.num_turns

InWindow(c, particle_id, at_element, at_turn) ==
    /\ c.min_particle_id <= particle_id /\ particle_id <= c.max_particle_id
    /\ c.min_element_id  <= at_element  /\ at_element  <= c.max_element_id
    /\ c.min_turn        <= at_turn
    /\ at_turn <= c.max_turn \/ c.is_rolling

\* Row-major position: turn, then element, then particle.
BadFlatIndexNoParticle(c, particle_id, at_element, at_turn) ==
    (at_turn - c.min_turn) * (c.num_particles * c.num_elements)
    + (at_element - c.min_element_id) * c.num_particles
FlatIndex(c, particle_id, at_element, at_turn) ==
    (at_turn - c.min_turn) * (c.num_particles * c.num_elements)
    + (at_element - c.min_element_id) * c.num_particles
    + (particle_id - c.min_particle_id)

\* A rolling configuration wraps a position beyond the end of the store.
BadWrappedOnlyAbove(c, index) ==
    IF c.is_rolling /\ OutStoreNumParticles(c) > 0
                    /\ index > OutStoreNumParticles(c)
    THEN index % OutStoreNumParticles(c)
    ELSE index
Wrapped(c, index) ==
    IF c.is_rolling /\ OutStoreNumParticles(c) > 0
                    /\ index >= OutStoreNumParticles(c)
    THEN index % OutStoreNumParticles(c)
    ELSE index

\* The slot of a particle at an element in a turn, -1 if it is not stored.
StoreIndex(c, particle_id, at_element, at_turn) ==
    IF /\ InWindow(c, particle_id, at_element, at_turn)
       /\ c.order = TurnElemParticles
    THEN Wrapped(c, FlatIndex(c, particle_id, at_element, at_turn))
    ELSE -1

\* The inverse: what a slot of the store stands for.
Decodes(c, index) ==
    /\ 0 <= index /\ index < OutStoreNumParticles(c)
    /\ c.order = TurnElemParticles

ParticleIdOfIndex(c, index) ==
    IF Decodes(c, index)
    THEN ((index % (c.num_particles * c.num_elements)) % c.num_particles)
         + c.min_particle_id
    ELSE -1

BadAtElementOfIndexRow(c, index) ==
    IF Decodes(c, index)
    THEN ((index % (c.num_particles * c.num_elements)) \div c.num_elements)
         + c.min_element_id
    ELSE -1
AtElementOfIndex(c, index) ==
    IF Decodes(c, index)
    THEN ((index % (c.num_particles * c.num_elements)) \div c.num_particles)
         + c.min_element_id
    ELSE -1

AtTurnOfIndex(c, index) ==
    IF Decodes(c, index)
    THEN (index \div (c.num_particles * c.num_elements)) + c.min_turn
    ELSE -1
=============================================================================
