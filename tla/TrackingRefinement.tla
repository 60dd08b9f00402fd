------------------------- MODULE TrackingRefinement -------------------------
(***************************************************************************)
(* The work items of Tracking implement the atomic calls of TrackCalls.    *)
(* A particle takes effect when its work item moves on to the next one:    *)
(* until then the abstract state shows it, and the output it produced, as  *)
(* they were when the call began.  Every interleaving of the work items    *)
(* therefore leaves the same results as tracking the particles one after   *)
(* the other.                                                              *)
(***************************************************************************)
EXTENDS Tracking

\* The particles the running call has not finished with.
Unfinished ==
    IF Idle THEN {}
    ELSE {p \in Particles : thread[p % NumThreads].pidx <= p}

UnfinishedIds == {ParticleId[p] : p \in Unfinished}

\* A slot that changed under the call, by a particle still under way.
Shown(now, before) ==
    IF now # before /\ now.particle_id \in UnfinishedIds THEN before ELSE now

AtomicCalls == INSTANCE TrackCalls WITH
    particles  <- [p \in Particles |-> IF p \in Unfinished
                                      THEN begun.particles[p] ELSE particles[p]],
    call       <- call,
    pending    <- Unfinished,
    elem_store <- [i \in ElemSlots |->
                    Shown(elem_store[i], begun.elem_store[i])],
    mon_store  <- [e \in MonitorElements |-> [i \in MonSlots(e) |->
                    Shown(mon_store[e][i], begun.mon_store[e][i])]]

\* Tracking implements TrackCalls.
ImplementsAtomicCalls == AtomicCalls!Spec
=============================================================================
