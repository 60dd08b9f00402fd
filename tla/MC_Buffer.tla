----------------------------- MODULE MC_Buffer -----------------------------
(***************************************************************************)
(* Instances of Buffer: objects with one and two attributes, given and not *)
(* given, and two requests, of which the second takes slots from the first *)
(* and gives the pointers more than that.                                  *)
(***************************************************************************)
EXTENDS Buffer

Request(slots, objects, dataptrs, garbage) ==
    [s \in Sections |-> CASE s = Slots    -> slots
                          [] s = Objects  -> objects
                          [] s = DataPtrs -> dataptrs
                          [] s = Garbage  -> garbage]

SomeRequests == {Request(8, 1, 1, 1), Request(6, 1, 4, 1)}

SomeShapes == {[ends |-> <<1>>, given |-> FALSE],
               [ends |-> <<1, 2>>, given |-> TRUE]}
=============================================================================
