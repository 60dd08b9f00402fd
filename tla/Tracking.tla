------------------------------- MODULE Tracking -------------------------------
(***************************************************************************)
(* The tracking kernels of SixTrackLib (common/track/track.h,              *)
(* common/track/track_kernel_impl.h).                                      *)
(*                                                                         *)
(* A caller launches a kernel over one set of particles: track until a     *)
(* turn, track element by element, or track a section of the line.  The    *)
(* kernel runs as NumThreads work items (one on the CPU, many on a GPU);   *)
(* work item t handles the particles t, t + NumThreads, ... one after the  *)
(* other and shares with the others nothing but the output: the element    *)
(* by element store and the stores of the beam monitors in the line.       *)
(*                                                                         *)
(* One step of a work item is one beam element (with the turn bookkeeping  *)
(* that follows it), or the copy into the element by element store that    *)
(* precedes it.                                                            *)
(***************************************************************************)
EXTENDS Beamline

CONSTANT NumThreads \* work items, and the stride of their loops

ASSUME ThreadsAssumption == NumThreads \in Nat \ {0}

Threads == 0 .. NumThreads - 1

VARIABLES
    particles,      \* particle index -> its record
    call,           \* the kernel that runs, or kind "none"
    thread,         \* work item -> its locals
    elem_store,     \* slot -> record: element by element output
    mon_store,      \* monitor index -> slot -> record
    begun           \* history: particles and output at the last rest

vars == <<particles, call, thread, elem_store, mon_store, begun>>

\* Locals of a work item: pc, the particle it is at, the element iterator,
\* the element id it found the particle at, and the element id and turn the
\* element by element kernel tracks beside those of the particle.
Locals == [pc : {"next", "store", "track"}, pidx : Nat, be : Nat,
           start : Nat, elem : Nat, turn : Nat]

\* A work item about to turn to a particle.
AtNext(pidx) ==
    [pc |-> "next", pidx |-> pidx, be |-> 0, start |-> 0, elem |-> 0, turn |-> 0]

Idle == call.kind = "none"

Rest == [particles |-> particles, elem_store |-> elem_store,
         mon_store |-> mon_store]

-----------------------------------------------------------------------------
Init ==
    /\ particles = Fresh
    /\ call = NoCall
    /\ thread = [t \in Threads |-> AtNext(t)]
    /\ elem_store = NoElemOutput
    /\ mon_store = NoMonOutput
    /\ begun = Rest

Launch(c) ==
    /\ Idle
    /\ \A p \in Particles : WithinBounds(c, particles[p])
    /\ call' = c
    /\ thread' = [t \in Threads |-> AtNext(t)]
    /\ UNCHANGED <<particles, elem_store, mon_store, begun>>

LaunchUntilTurn == \E until \in UntilTurns : Launch(CallUntil("until_turn", until))

LaunchElemByElem == \E until \in UntilTurns : Launch(CallUntil(KernelFor, until))

LaunchLine ==
    \E section \in Sections, finish \in BOOLEAN : Launch(CallLine(section, finish))

-----------------------------------------------------------------------------
(* The work items.                                                         *)

BadEntersLost(r) ==
    IF call.kind = "line" THEN call.first # call.last
    ELSE NumElements > 0 /\ call.until > r.at_turn

\* The conditions on which a kernel enters its loop over the elements.  The
\* element by element kernel does not look at the state of the particle.
Enters(r) ==
    IF call.kind = "line"
    THEN call.first # call.last /\ ~Lost(r)
    ELSE /\ NumElements > 0 /\ call.until > r.at_turn
         /\ call.kind = "until_turn" => ~Lost(r)

\* Where the loop of work item t goes: to its next particle, its next
\* element, or the first element of the next turn.
BadAdvanceToSame(t) == AtNext(thread[t].pidx)
BadAdvanceByOne(t) == AtNext(thread[t].pidx + 1)
Advance(t) == AtNext(thread[t].pidx + NumThreads)

\* In the loop over the elements; elem and turn are those of the element by
\* element kernel, the others keep no count beside the particle.
InLoop(p, be, start, elem, turn) ==
    [pc |-> IF call.kind = "elem_by_elem" THEN "store" ELSE "track",
     pidx |-> p, be |-> be, start |-> start, elem |-> elem, turn |-> turn]

BadNextElementStale(t) ==
    LET l == thread[t] IN InLoop(l.pidx, l.be + 1, l.start, l.elem, l.turn)
NextElement(t) ==
    LET l == thread[t] IN InLoop(l.pidx, l.be + 1, l.start, l.elem + 1, l.turn)

BadNextTurnStaleElement(t) ==
    LET l == thread[t] IN InLoop(l.pidx, 0, l.start, l.elem, l.turn + 1)
NextTurn(t) ==
    LET l == thread[t] IN InLoop(l.pidx, 0, l.start, l.start, l.turn + 1)

\* A work item turns to its next particle and enters the loop.
EnterParticle(t) ==
    LET p == thread[t].pidx IN
    /\ ~Idle /\ thread[t].pc = "next" /\ p \in Particles
    /\ Enters(particles[p])
    /\ thread' = [thread EXCEPT ![t] =
            InLoop(p, call.first, particles[p].at_element_id,
                   particles[p].at_element_id, particles[p].at_turn)]
    /\ UNCHANGED <<particles, call, elem_store, mon_store, begun>>

\* The line kernel finishes the turn of a particle it did not lose.
FinishesTurn(r) == call.kind = "line" /\ call.finish_turn /\ ~Lost(r)

\* Or it has nothing to do for the particle: an empty line fails a kernel
\* that tracks until a turn, and an empty section may still finish the turn.
SkipParticle(t) ==
    LET p == thread[t].pidx IN
    /\ ~Idle /\ thread[t].pc = "next" /\ p \in Particles
    /\ ~Enters(particles[p])
    /\ thread' = [thread EXCEPT ![t] = Advance(t)]
    /\ particles' =
         IF FinishesTurn(particles[p])
         THEN [particles EXCEPT ![p] = TurnFinished(@, 0)]
         ELSE particles
    /\ call' = IF call.kind = "until_turn" /\ NumElements = 0
               THEN [call EXCEPT !.status = "failure"]
               ELSE call
    /\ UNCHANGED <<elem_store, mon_store, begun>>

OutIndex(t) ==
    StoreIndex(Config, ParticleId[thread[t].pidx], thread[t].elem,
               thread[t].turn)

\* The element by element kernel copies the particle out before an element.
StoreElemByElem(t) ==
    /\ thread[t].pc = "store"
    /\ elem_store' =
         IF OutIndex(t) \in ElemSlots
         THEN [elem_store EXCEPT ![OutIndex(t)] = particles[thread[t].pidx]]
         ELSE elem_store
    /\ thread' = [thread EXCEPT ![t].pc = "track"]
    /\ UNCHANGED <<particles, call, mon_store, begun>>

\* Work item t is at element e with particle p and the dispatcher lets the
\* particle pass; a monitor stored it.
TrackElement(t) ==
    LET r == particles[thread[t].pidx] IN
    /\ thread[t].pc = "track"
    /\ Passes(thread[t].be, r)
    /\ mon_store' = MonStoreAfter(mon_store, thread[t].be, r)
    /\ UNCHANGED <<call, elem_store, begun>>

\* An element inside the section or turn.
TrackNext(t) ==
    /\ TrackElement(t)
    /\ thread[t].be + 1 < call.last
    /\ particles' = [particles EXCEPT ![thread[t].pidx] = ElementPassed(@)]
    /\ thread' = [thread EXCEPT ![t] = NextElement(t)]

\* The last element of a turn: back to the first one, or done.
TrackTurnEnd(t) ==
    LET p == thread[t].pidx IN
    /\ TrackElement(t)
    /\ thread[t].be + 1 = call.last /\ call.kind # "line"
    /\ particles' = [particles EXCEPT ![p] = TurnFinished(@, thread[t].start)]
    /\ thread' = [thread EXCEPT ![t] =
            IF particles[p].at_turn + 1 < call.until
            THEN NextTurn(t) ELSE Advance(t)]

\* The last element of a section of the line.
TrackLineEnd(t) ==
    /\ TrackElement(t)
    /\ thread[t].be + 1 = call.last /\ call.kind = "line"
    /\ particles' = [particles EXCEPT ![thread[t].pidx] =
            IF call.finish_turn THEN TurnFinished(@, 0)
            ELSE ElementPassed(@)]
    /\ thread' = [thread EXCEPT ![t] = Advance(t)]

\* The element lost the particle or failed.  Only the kernel that tracks
\* until a turn marks the particle as lost whatever stopped it.
BadStopStateOfElement(o) == o.state
StopState(o) == IF call.kind = "until_turn" THEN 0 ELSE o.state

\* The status of a call is the disjunction of those of its particles.
BadStatusUnread(o) == call.status
StatusAfter(o) == IF o.status = "failure" THEN "failure" ELSE call.status

TrackStop(t) ==
    LET p == thread[t].pidx  e == thread[t].be IN
    /\ thread[t].pc = "track"
    /\ \E o \in Outcomes(e, particles[p]) :
         /\ ~Continues(o)
         /\ particles' = [particles EXCEPT ![p].state = StopState(o)]
         /\ call' = [call EXCEPT !.status = StatusAfter(o)]
    /\ mon_store' = MonStoreAfter(mon_store, e, particles[p])
    /\ thread' = [thread EXCEPT ![t] = Advance(t)]
    /\ UNCHANGED <<elem_store, begun>>

\* The kernel returns when every work item has run out of particles.
BadSomeDone == \E t \in Threads : thread[t].pc = "next" /\ thread[t].pidx \notin Particles
AllDone == \A t \in Threads : thread[t].pc = "next" /\ thread[t].pidx \notin Particles

Return ==
    /\ ~Idle
    /\ AllDone
    /\ call' = [NoCall EXCEPT !.status = call.status]
    /\ begun' = Rest
    /\ UNCHANGED <<particles, thread, elem_store, mon_store>>

-----------------------------------------------------------------------------
WorkItem(t) ==
    \/ EnterParticle(t) \/ SkipParticle(t) \/ StoreElemByElem(t)
    \/ TrackNext(t) \/ TrackTurnEnd(t) \/ TrackLineEnd(t) \/ TrackStop(t)

Next ==
    \/ LaunchUntilTurn \/ LaunchElemByElem \/ LaunchLine
    \/ \E t \in Threads : WorkItem(t)
    \/ Return

\* A launched kernel is executed: each work item keeps running, and the call
\* returns.  Nothing obliges the caller to launch another one.
Fairness == (\A t \in Threads : WF_vars(WorkItem(t))) /\ WF_vars(Return)

Spec == Init /\ [][Next]_vars
FairSpec == Spec /\ Fairness

-----------------------------------------------------------------------------
(* Properties.                                                             *)

ElemOutput == [ElemSlots -> Records \cup {Empty}]

IsMonOutput(store) ==
    /\ DOMAIN store = MonitorElements
    /\ \A e \in MonitorElements :
            store[e] \in [MonSlots(e) -> Records \cup {Empty}]

\* The shape of the state.
TypeOK ==
    /\ particles \in [Particles -> Records]
    /\ call \in Calls
    /\ call.first <= call.last /\ call.last <= NumElements
    /\ call.kind \in {"until_turn", "elem_by_elem"} =>
            call.first = 0 /\ call.last = NumElements
    /\ thread \in [Threads -> Locals]
    /\ elem_store \in ElemOutput
    /\ IsMonOutput(mon_store)
    /\ begun.particles \in [Particles -> Records]
    /\ begun.elem_store \in ElemOutput
    /\ IsMonOutput(begun.mon_store)

AtElement(t) == thread[t].pc # "next"

\* No two work items ever hold the same particle: the kernels read, move and
\* write a particle without synchronisation.
NoParticleShared ==
    \A s, t \in Threads :
        AtElement(s) /\ AtElement(t) /\ s # t =>
            thread[s].pidx # thread[t].pidx

\* No two work items are ever about to write the same output slot, in the
\* element by element store or in a monitor: the copies are not synchronised
\* either.
Writes(t, slot) == thread[t].pc = "store" /\ OutIndex(t) = slot

WritesMonitor(t, e, slot) ==
    /\ thread[t].pc = "track" /\ thread[t].be = e
    /\ MonitorActs(e, particles[thread[t].pidx])
    /\ MonIndex(e, particles[thread[t].pidx]) = slot

NoOutputRace ==
    \A s, t \in Threads : s # t =>
        /\ \A i \in ElemSlots : ~(Writes(s, i) /\ Writes(t, i))
        /\ \A e \in MonitorElements : \A i \in MonSlots(e) :
                ~(WritesMonitor(s, e, i) /\ WritesMonitor(t, e, i))

\* A record in the element by element store is where its own particle id,
\* element id and turn say: the ids the kernel counts beside the particle
\* never drift from those of the particle it copies.
SlotFaithful ==
    \A i \in ElemSlots : elem_store[i] # Empty =>
        StoreIndex(Config, elem_store[i].particle_id,
                   elem_store[i].at_element_id, elem_store[i].at_turn) = i

\* Why: work items own the particles of their stride, and the element id and
\* turn a work item counts are those of its particle.
WorkItemsOwn ==
    \A t \in Threads :
        /\ thread[t].pidx % NumThreads = t
        /\ AtElement(t) => /\ thread[t].pidx \in Particles
                           /\ thread[t].be < call.last /\ ~Idle
        /\ thread[t].pc = "store" => call.kind = "elem_by_elem"

CountersInStep ==
    \A t \in Threads : AtElement(t) =>
        /\ thread[t].elem = particles[thread[t].pidx].at_element_id
        /\ thread[t].turn = particles[thread[t].pidx].at_turn

IdsKept == \A p \in Particles : particles[p].particle_id = ParticleId[p]

InductiveInv ==
    TypeOK /\ WorkItemsOwn /\ CountersInStep /\ IdsKept /\ SlotFaithful

\* Between two calls each monitor holds exactly the turns has_turn_stored
\* promises for the turns a surviving particle has made, each at the store
\* index that is computed for it (for particles that are not mid-turn).
MonitorKeepsTurns ==
    \A e \in MonitorElements, p \in Particles :
        /\ Idle /\ ~Lost(particles[p])
        /\ particles[p].at_element_id = FirstElement[p]
        /\ Monitor[e].out_address # NullAddress
        =>
            \A turn \in 0 .. particles[p].at_turn - 1 :
                LET i == StoreParticleIndex(Monitor[e], turn, ParticleId[p])
                    held == /\ i \in MonSlots(e)
                            /\ mon_store[e][i] # Empty
                            /\ mon_store[e][i].particle_id = ParticleId[p]
                            /\ mon_store[e][i].at_turn = turn
                IN  held <=> HasTurnStored(Monitor[e], turn, particles[p].at_turn)

\* The element by element kernel takes lost particles to an element as well,
\* against assertions of its own and of the dispatcher, and a map moves their
\* coordinates there.  It is the only kernel that does, and that element is
\* the first of the line: nothing takes a lost particle to another.
LostOnlyAtFirstElement ==
    \A t \in Threads : AtElement(t) /\ Lost(particles[thread[t].pidx]) =>
        call.kind = "elem_by_elem" /\ thread[t].be = 0

\* A lost particle keeps its record: whatever kernel is launched next, its
\* ids, its turn and its state, which are what users read of the loss, stay as
\* they were; and none but the first element of a line tracked element by
\* element acts on it, be it that it may move its coordinates.
LostKeepsRecord ==
    [][LostOnlyAtFirstElement' /\ \A p \in Particles :
          Lost(particles[p]) => particles'[p] = particles[p]]_vars

\* A call that returns success has done all it was asked: every particle it
\* did not find or leave lost is where the call was to take it, and the
\* particles of a call until a turn are back at their starting elements.
Delivered(r, r0) ==
    IF call.kind = "line"
    THEN IF call.finish_turn
         THEN r.at_element_id = 0 /\ r.at_turn = r0.at_turn + 1
         ELSE /\ r.at_element_id = r0.at_element_id + (call.last - call.first)
              /\ r.at_turn = r0.at_turn
    ELSE /\ r.at_element_id = r0.at_element_id
         /\ r.at_turn = IF call.until > r0.at_turn THEN call.until ELSE r0.at_turn

SuccessDelivers ==
    [][(~Idle /\ Idle' /\ call.status = "success" /\ NumElements > 0) =>
          \A p \in Particles :
              Lost(particles[p]) \/ Delivered(particles[p], begun.particles[p])]_vars

\* Every call returns, whatever the elements do to the particles.
CallsReturn == ~Idle ~> Idle
=============================================================================
