---------------------------- MODULE MC_DeviceJob ----------------------------
(***************************************************************************)
(* Instances of DeviceJob: one particle buffer, a line whose first monitor *)
(* is behind once the first turn is over, and one without any.  The second *)
(* monitor of the line has been used before, with more particle ids.       *)
(***************************************************************************)
EXTENDS DeviceJob

Watch(start) ==
    [num_stores |-> 1, start |-> start, skip |-> 1,
     out_address |-> NullAddress, min_particle_id |-> -1,
     max_particle_id |-> -1, is_rolling |-> FALSE, is_turn_ordered |-> TRUE]

Used(monitor) ==
    [monitor EXCEPT !.min_particle_id = 0, !.max_particle_id = 2]

TwoLines == [early |-> <<Watch(0), Used(Watch(1))>>, plain |-> <<>>]
OneSet   == [pb |-> << <<0, 1>> >>]
=============================================================================
