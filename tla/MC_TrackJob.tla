---------------------------- MODULE MC_TrackJob ----------------------------
(***************************************************************************)
(* Instances of TrackJob: particle buffers of one or two sets, lines with  *)
(* monitors that start in different turns, and the caller's buffers.       *)
(***************************************************************************)
EXTENDS TrackJob

Schedule(num_stores, start) ==
    [num_stores |-> num_stores, start |-> start, skip |-> 1,
     out_address |-> NullAddress, min_particle_id |-> -1,
     max_particle_id |-> -1, is_rolling |-> FALSE, is_turn_ordered |-> TRUE]

\* The line of the first instance has a monitor with nothing to store
\* between two that have.  Those of the second: one whose first monitor is
\* behind once the first turn is over, and one without monitors.
GapLine  == [gap |-> <<Schedule(1, 1), Schedule(0, 0), Schedule(1, 1)>>]
TwoLines == [early |-> <<Schedule(1, 0), Schedule(2, 1)>>,
             plain |-> <<>>]

TwoSets == [pb |-> << <<0, 1>>, <<2, 2>> >>]
OneSet  == [pb |-> << <<0, 1>> >>]
=============================================================================
