--------------------------- MODULE MC_AssignItems ---------------------------
(***************************************************************************)
(* An instance of AssignItems: two jobs on a line (id 2) with a monitor    *)
(* and an object that is none, and sources in the two buffers users store. *)
(* Two items are for the monitor of the line, the second of them with a    *)
(* source of another type than it says; the third is for the monitor of a  *)
(* stored buffer, which may be the job's own, moved, copied or removed.    *)
(***************************************************************************)
EXTENDS AssignItems

CONSTANTS j1, j2, line, b1, b2, monitor, particles

JobSymmetry == Permutations({j1, j2}) \cup Permutations({b1, b2})

SomeGiven  == <<NoBuffer, line, NoBuffer>>
SomeMoves  == (line :> 0) @@ (b1 :> 1) @@ (b2 :> 1)
SomeTypeOf == <<monitor, particles>>

To(id, o)   == [id |-> id, object |-> o, type |-> monitor]
From(id, t) == [id |-> id, object |-> 2, type |-> t]

SomeItems == {
    [dest |-> To(2, 1), src |-> From(6, particles)],
    [dest |-> To(2, 1), src |-> From(6, monitor)],
    [dest |-> To(6, 1), src |-> From(7, particles)]}
=============================================================================
