----------------------------- MODULE BeamMonitor -----------------------------
(***************************************************************************)
(* The beam monitor element of SixTrackLib (common/be_monitor): a beam     *)
(* element that copies the particles passing it, every skip-th turn from   *)
(* turn start on, into num_stores rows of an output particle set.  A       *)
(* monitor is a record; the operators are pure.                            *)
(***************************************************************************)
EXTENDS Integers

NullAddress == 0

Monitors ==
    [num_stores      : Nat,
     start           : Nat,
     skip            : Nat \ {0},
     out_address     : Nat,
     min_particle_id : Int,
     max_particle_id : Int,
     is_rolling      : BOOLEAN,
     is_turn_ordered : BOOLEAN]

\* BeamMonitor_reset forgets the particles and the output, not the schedule.
MonitorReset(m) == [m EXCEPT !.out_address     = NullAddress,
                             !.min_particle_id = -1,
                             !.max_particle_id = -1]

\* Particles per stored turn, as the code recomputes it at every use.
ParticlesPerTurn(m) == m.max_particle_id - m.min_particle_id + 1

\* BeamMonitor_stored_num_particles
StoredNumParticles(m) ==
    IF 0 <= m.min_particle_id /\ m.min_particle_id <= m.max_particle_id
    THEN ParticlesPerTurn(m) * m.num_stores
    ELSE 0

\* The row a turn is stored in: counted from start in steps of skip, wrapped
\* by a rolling monitor.
BadStoreRowLateWrap(m, turn) ==
    LET row == (turn - m.start) \div m.skip
    IN  IF row > m.num_stores /\ m.is_rolling THEN row % m.num_stores ELSE row
StoreRow(m, turn) ==
    LET row == (turn - m.start) \div m.skip
    IN  IF row >= m.num_stores /\ m.is_rolling THEN row % m.num_stores ELSE row

\* The turns a monitor acts on.
Samples(m, turn) ==
    /\ turn >= m.start
    /\ (turn - m.start) % m.skip = 0
    /\ StoreRow(m, turn) < m.num_stores

\* BeamMonitor_get_store_particle_index: -1 if the turn is not stored.
StoreParticleIndex(m, turn, particle_id) ==
    LET offset == particle_id - m.min_particle_id
    IN  IF ~Samples(m, turn) THEN -1
        ELSE IF m.is_turn_ordered
             THEN ParticlesPerTurn(m) * StoreRow(m, turn) + offset
             ELSE offset * ParticlesPerTurn(m) + StoreRow(m, turn)

\* BeamMonitor_has_turn_stored: whether a row of this turn survives to the
\* end of a run of max_num_turns turns (a negative number: any run).
HasTurnStored(m, turn, max_num_turns) ==
    LET row       == (turn - m.start) \div m.skip
        max_turn  == max_num_turns - m.start
        num_rows  == IF max_turn % m.skip = 0
                     THEN max_turn \div m.skip
                     ELSE (max_turn \div m.skip) + 1
    IN  /\ m.start <= turn /\ m.num_stores > 0
        /\ turn <= max_num_turns \/ max_num_turns < 0
        /\ (turn - m.start) % m.skip = 0
        /\ IF ~m.is_rolling
           THEN row < m.num_stores
           ELSE /\ max_num_turns > m.start
                /\ num_rows <= row + m.num_stores
=============================================================================
