----------------------------- MODULE MC_Tracking -----------------------------
(***************************************************************************)
(* Small instances of Tracking for TLC: two or three particles whose ids   *)
(* are out of order and leave a gap, one or two work items, and lines of   *)
(* up to three elements.                                                   *)
(***************************************************************************)
EXTENDS TrackingRefinement, Sequences, TLC

\* Element index -> kind, for a line written as a sequence.
LineOf(kinds) == [e \in 0 .. Len(kinds) - 1 |-> kinds[e + 1]]

\* Two particles whose ids leave a gap, and two whose ids do not.
PairId == 0 :> 2 @@ 1 :> 0
NextId == 0 :> 1 @@ 1 :> 0
PairFirst == 0 :> 0 @@ 1 :> 0

\* Three particles, one of which starts one element into the numbering.
TripleId == 0 :> 2 @@ 1 :> 0 @@ 2 :> 3
TripleFirst == 0 :> 0 @@ 1 :> 0 @@ 2 :> 1

\* The configuration init_detailed makes of particle ids 0 .. ids, a line of
\* elements and turns 0 .. turns, with an output assigned.
Window(ids, elements, turns, rolling) ==
    [InitDetailed(Preset, TurnElemParticles,
        [min_particle_id |-> 0, max_particle_id |-> ids,
         min_element_id |-> 0, max_element_id |-> elements - 1,
         min_turn |-> 0, max_turn |-> turns], rolling)
     EXCEPT !.out_store_addr = 1]

MonitorOf(stores, start, skip, ids, rolling, turn_ordered) ==
    [num_stores |-> stores, start |-> start, skip |-> skip, out_address |-> 1,
     min_particle_id |-> 0, max_particle_id |-> ids,
     is_rolling |-> rolling, is_turn_ordered |-> turn_ordered]

StoresOf(monitors) ==
    [e \in DOMAIN monitors |-> StoredNumParticles(monitors[e])]

\* A healthy line: an aperture, a rolling monitor two turns deep, and one
\* that stores every second turn from turn 1 on.  The element by element
\* window is two turns deep and rolls.
Healthy == LineOf(<<"aperture", "monitor", "monitor">>)
HealthyConfig == Window(2, 3, 1, TRUE)
HealthyMonitor == 1 :> MonitorOf(2, 0, 1, 2, TRUE, TRUE)
               @@ 2 :> MonitorOf(1, 1, 2, 2, FALSE, TRUE)
HealthyStore == StoresOf(HealthyMonitor)
WholeLine == {<<0, 3>>}

\* A faulty line: a particle ordered monitor that runs out of its store, a
\* map left out of the build, an unknown element; sections skip them.
Faulty == LineOf(<<"monitor", "disabled", "unknown">>)
FaultyConfig == Window(3, 3, 0, FALSE)
FaultyMonitor == 0 :> MonitorOf(1, 0, 1, 3, TRUE, FALSE)
FaultyStore == StoresOf(FaultyMonitor)
Parts == {<<0, 1>>, <<1, 2>>, <<1, 1>>, <<2, 3>>}

\* A particle ordered monitor that stores more turns than there are particles.
Ordered == LineOf(<<"monitor">>)
OrderedConfig == Window(1, 1, 0, TRUE)
OrderedMonitor == 0 :> MonitorOf(3, 0, 1, 1, FALSE, FALSE)
OrderedStore == StoresOf(OrderedMonitor)
NoSections == {}
=============================================================================
