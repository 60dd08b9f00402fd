------------------------ MODULE PrivateTracking_proofs ------------------------
(***************************************************************************)
(* The optimised kernels implement the plain ones, for any number of       *)
(* particles, work items and elements.                                     *)
(***************************************************************************)
EXTENDS PrivateTracking, Tracking_proofs

-----------------------------------------------------------------------------
(* Operators of the plain kernels that do not look at the state.           *)

\* Where records are filed does not depend on how particles are seen.
LEMMA SameSlots ==
    /\ \A id, elem, turn :
          Plain!StoreIndex(Config, id, elem, turn) = StoreIndex(Config, id, elem, turn)
    /\ Plain!ElemSlots = ElemSlots
    /\ \A e : Plain!MonSlots(e) = MonSlots(e)
    /\ \A e, r : Plain!MonIndex(e, r) = MonIndex(e, r)
<1>1. /\ \A id, elem, turn :
          Plain!StoreIndex(Config, id, elem, turn) = StoreIndex(Config, id, elem, turn)
      /\ Plain!ElemSlots = ElemSlots
    BY DEF StoreIndex, Plain!StoreIndex, InWindow, Plain!InWindow, FlatIndex,
           Plain!FlatIndex, Wrapped, Plain!Wrapped, OutStoreNumParticles,
           Plain!OutStoreNumParticles, TurnElemParticles, Plain!TurnElemParticles,
           ElemSlots, Plain!ElemSlots
<1>2. \A e : Plain!MonSlots(e) = MonSlots(e)
    BY DEF MonSlots, Plain!MonSlots
<1>3. \A e, r : Plain!MonIndex(e, r) = MonIndex(e, r)
    BY DEF MonIndex, Plain!MonIndex, StoreParticleIndex, Plain!StoreParticleIndex,
           Samples, Plain!Samples, StoreRow, Plain!StoreRow, ParticlesPerTurn,
           Plain!ParticlesPerTurn
<1> QED BY <1>1, <1>2, <1>3

\* Nor does what an element does to a record.
LEMMA SameElements ==
    /\ \A e, r : Plain!Outcomes(e, r) = Outcomes(e, r)
    /\ \A o : Plain!Continues(o) = Continues(o)
    /\ \A e, r : Plain!Passes(e, r) = Passes(e, r)
    /\ \A store, e, r : Plain!MonStoreAfter(store, e, r) = MonStoreAfter(store, e, r)
<1>1. \A e, r : /\ Plain!MonitorActs(e, r) = MonitorActs(e, r)
                /\ Plain!MonitorStores(e, r) = MonitorStores(e, r)
    BY SameSlots DEF MonitorActs, Plain!MonitorActs, MonitorStores,
           Plain!MonitorStores, NullAddress, Plain!NullAddress
<1>2. \A e, r : Plain!Outcomes(e, r) = Outcomes(e, r)
    BY <1>1 DEF Outcomes, Plain!Outcomes, Outcome, Plain!Outcome
<1>3. \A o : Plain!Continues(o) = Continues(o)
    BY DEF Continues, Plain!Continues
<1>4. \A e, r : Plain!Passes(e, r) = Passes(e, r)
    BY <1>2, <1>3 DEF Passes, Plain!Passes
<1>5. \A store, e, r : Plain!MonStoreAfter(store, e, r) = MonStoreAfter(store, e, r)
    BY <1>1, SameSlots DEF MonStoreAfter, Plain!MonStoreAfter
<1> QED BY <1>2, <1>3, <1>4, <1>5

-----------------------------------------------------------------------------
(* The invariant.                                                          *)

\* Every step of one work item keeps the invariant if it moves to its own
\* particles only, stays inside the section, and keeps the ids of both copies.
LEMMA KeepsInv ==
    ASSUME PrivateInv, NEW t \in Threads, NEW l \in PrivateLocals, NEW r \in Records,
           thread' = [thread EXCEPT ![t] = l], own' = [own EXCEPT ![t] = r],
           particles' \in [Particles -> Records], IdsKept',
           call' \in Calls, call'.kind = call.kind, call'.first = call.first,
           call'.last = call.last, optimised' = optimised,
           l.pidx % NumThreads = t,
           l.pc # "next" => l.pidx \in Particles /\ ~Idle,
           l.pc \in {"store", "track"} => l.be < call.last,
           l.pc = "back" => optimised,
           optimised /\ l.pc # "next" => r.particle_id = ParticleId[l.pidx]
    PROVE  PrivateInv'
<1>1. /\ thread \in [Threads -> PrivateLocals] /\ own \in [Threads -> Records]
    BY DEF PrivateInv, PrivateTypeOK
<1>2. PrivateTypeOK'
    BY <1>1 DEF PrivateInv, PrivateTypeOK
<1>3. ASSUME NEW s \in Threads
      PROVE  /\ thread'[s].pidx % NumThreads = s
             /\ thread'[s].pc # "next" => thread'[s].pidx \in Particles /\ ~Idle'
             /\ thread'[s].pc \in {"store", "track"} => thread'[s].be < call'.last
             /\ thread'[s].pc = "back" => optimised'
             /\ HoldsCopy(s)' => own'[s].particle_id = ParticleId[thread'[s].pidx]
    <2>1. CASE s = t
        <3>1. thread'[s] = l /\ own'[s] = r
            BY <1>1, <2>1
        <3> QED BY <2>1, <3>1 DEF HoldsCopy, Idle
    <2>2. CASE s # t
        <3>1. thread'[s] = thread[s] /\ own'[s] = own[s]
            BY <1>1, <2>2
        <3> QED BY <3>1 DEF PrivateInv, CopiesOwned, HoldsCopy, Idle
    <2> QED BY <2>1, <2>2
<1>4. CopiesOwned'
    BY <1>3 DEF CopiesOwned
<1> QED BY <1>2, <1>4 DEF PrivateInv

\* Where a work item is, and what it has there.
LEMMA PlaceFacts ==
    ASSUME PrivateInv, NEW t \in Threads
    PROVE  /\ thread[t] \in PrivateLocals /\ thread[t].pidx \in Nat
           /\ thread[t].pidx % NumThreads = t
           /\ call \in Calls /\ call.first \in Nat /\ call.last \in Nat
           /\ own[t] \in Records
           /\ thread[t].pidx \in Particles => particles[thread[t].pidx] \in Records
           /\ thread[t].pc \in {"store", "track"} =>
                /\ thread[t].be \in Elements /\ thread[t].be < call.last
                /\ thread[t].pidx \in Particles /\ ~Idle
<1>1. /\ thread[t] \in PrivateLocals /\ own[t] \in Records /\ call \in Calls
      /\ call.last <= NumElements
      /\ thread[t].pidx \in Particles => particles[thread[t].pidx] \in Records
      /\ thread[t].pidx % NumThreads = t
      /\ thread[t].pc # "next" => thread[t].pidx \in Particles /\ ~Idle
      /\ thread[t].pc \in {"store", "track"} => thread[t].be < call.last
    BY DEF PrivateInv, PrivateTypeOK, CopiesOwned
<1>2. thread[t].be \in Nat /\ thread[t].pidx \in Nat /\ call.first \in Nat /\ call.last \in Nat
    BY <1>1 DEF PrivateLocals, Calls
<1>3. thread[t].pc \in {"store", "track"} => thread[t].be \in Elements
    BY <1>1, <1>2, BeamlineAssumption DEF Elements
<1> QED BY <1>1, <1>2, <1>3

\* The places a step may take a work item to.
LEMMA NextPlaces ==
    ASSUME PrivateInv, NEW t \in Threads
    PROVE  /\ Advance(t) \in PrivateLocals /\ Advance(t).pc = "next"
           /\ Advance(t).pidx % NumThreads = t
           /\ CopyingBack(t) \in PrivateLocals /\ CopyingBack(t).pc = "back"
           /\ CopyingBack(t).pidx = thread[t].pidx
           /\ NextElement(t) \in PrivateLocals /\ NextElement(t).be = thread[t].be + 1
           /\ NextElement(t).pidx = thread[t].pidx
           /\ NextElement(t).pc \in {"store", "track"}
           /\ NextTurn(t) \in PrivateLocals /\ NextTurn(t).be = 0
           /\ NextTurn(t).pidx = thread[t].pidx
           /\ NextTurn(t).pc \in {"store", "track"}
<1>1. thread[t] \in PrivateLocals /\ thread[t].pidx \in Nat /\ thread[t].pidx % NumThreads = t
    BY PlaceFacts
<1>2. (thread[t].pidx + NumThreads) % NumThreads = t
    BY <1>1, StrideKeepsRemainder
<1>3. thread[t].pidx + NumThreads \in Nat
    BY <1>1, ThreadsAssumption
<1>4. /\ Advance(t) \in PrivateLocals /\ Advance(t).pc = "next"
      /\ Advance(t).pidx % NumThreads = t
    BY <1>2, <1>3 DEF Advance, AtNext, PrivateLocals
<1>5. /\ CopyingBack(t) \in PrivateLocals /\ CopyingBack(t).pc = "back"
      /\ CopyingBack(t).pidx = thread[t].pidx
    BY <1>1 DEF CopyingBack, PrivateLocals
<1>6. /\ NextElement(t) \in PrivateLocals /\ NextElement(t).be = thread[t].be + 1
      /\ NextElement(t).pidx = thread[t].pidx
      /\ NextElement(t).pc \in {"store", "track"}
    BY <1>1 DEF NextElement, InLoop, PrivateLocals
<1>7. /\ NextTurn(t) \in PrivateLocals /\ NextTurn(t).be = 0
      /\ NextTurn(t).pidx = thread[t].pidx
      /\ NextTurn(t).pc \in {"store", "track"}
    BY <1>1 DEF NextTurn, InLoop, PrivateLocals
<1> QED BY <1>4, <1>5, <1>6, <1>7

\* The place in the loop a work item enters it at.
LEMMA EntryPlace ==
    ASSUME PrivateInv, NEW t \in Threads, NEW r \in Records, ~Idle, Enters(r),
           thread[t].pidx \in Particles
    PROVE  LET l == InLoop(thread[t].pidx, call.first, r.at_element_id,
                           r.at_element_id, r.at_turn)
           IN  /\ l \in PrivateLocals /\ l.pidx = thread[t].pidx
               /\ l.pc \in {"store", "track"} /\ l.be < call.last
<1>1. /\ thread[t].pidx \in Nat /\ call.first \in Nat /\ call.last \in Nat
      /\ call \in Calls
    BY PlaceFacts
<1>2. /\ r.at_element_id \in Nat /\ r.at_turn \in Nat
    BY DEF Records
<1>3. /\ call.kind \in {"none", "until_turn", "elem_by_elem", "line"}
    BY <1>1 DEF Calls
<1>4. /\ call.first <= call.last
      /\ call.kind \in {"until_turn", "elem_by_elem"} =>
            call.first = 0 /\ call.last = NumElements
    BY DEF PrivateInv, PrivateTypeOK
<1>5. call.first < call.last
    <2>1. CASE call.kind = "line"
        BY <1>1, <1>4, <2>1 DEF Enters
    <2>2. CASE call.kind # "line"
        BY <1>1, <1>3, <1>4, <2>2 DEF Enters, Idle
    <2> QED BY <2>1, <2>2
<1> QED BY <1>1, <1>2, <1>5 DEF InLoop, PrivateLocals

\* The status a call may take on the way.
LEMMA StatusKeepsCall ==
    ASSUME call \in Calls, NEW status \in {"success", "failure"},
           call' = [call EXCEPT !.status = status]
    PROVE  /\ call' \in Calls /\ call'.kind = call.kind
           /\ call'.first = call.first /\ call'.last = call.last
    BY DEF Calls

-----------------------------------------------------------------------------
(* The steps of an optimised kernel keep the invariant.                    *)

\* Copying a particle in and entering the loop keeps the invariant.
LEMMA PrivateEnterInv ==
    ASSUME PrivateInv, NEW t \in Threads, optimised, optimised' = optimised, PrivateEnter(t)
    PROVE  PrivateInv'
<1> DEFINE r == particles[thread[t].pidx]
           l == InLoop(thread[t].pidx, call.first, r.at_element_id,
                       r.at_element_id, r.at_turn)
<1>1. /\ ~Idle /\ thread[t].pidx \in Particles /\ Enters(r)
      /\ own' = [own EXCEPT ![t] = r] /\ thread' = [thread EXCEPT ![t] = l]
      /\ UNCHANGED <<particles, call>>
    BY DEF PrivateEnter, CopiedIn
<1>2. r \in Records /\ thread[t].pidx % NumThreads = t /\ call \in Calls
    BY <1>1, PlaceFacts
<1>3. /\ l \in PrivateLocals /\ l.pidx = thread[t].pidx
      /\ l.pc \in {"store", "track"} /\ l.be < call.last
    BY <1>1, <1>2, EntryPlace
<1>4. r.particle_id = ParticleId[thread[t].pidx]
    BY <1>1 DEF PrivateInv, IdsKept
<1>5. particles' \in [Particles -> Records] /\ IdsKept'
    BY <1>1 DEF PrivateInv, PrivateTypeOK, IdsKept
<1> HIDE DEF r, l
<1> QED BY <1>1, <1>2, <1>3, <1>4, <1>5, KeepsInv

\* So does copying one in that has nothing to do.
LEMMA PrivateSkipInv ==
    ASSUME PrivateInv, NEW t \in Threads, optimised, optimised' = optimised, PrivateSkip(t)
    PROVE  PrivateInv'
<1> DEFINE c == particles[thread[t].pidx]
           r == IF FinishesTurn(c) THEN TurnFinished(c, 0) ELSE c
<1>1. /\ ~Idle /\ thread[t].pidx \in Particles
      /\ own' = [own EXCEPT ![t] = r] /\ thread' = [thread EXCEPT ![t] = CopyingBack(t)]
      /\ call' = IF call.kind = "until_turn" /\ NumElements = 0
                 THEN [call EXCEPT !.status = "failure"] ELSE call
      /\ UNCHANGED particles
    BY DEF PrivateSkip, CopiedIn
<1>2. c \in Records /\ thread[t].pidx % NumThreads = t /\ call \in Calls
    BY <1>1, PlaceFacts
<1>3. r \in Records /\ r.particle_id = c.particle_id
    BY <1>2, TurnFinishedRecord
<1>4. c.particle_id = ParticleId[thread[t].pidx]
    BY <1>1 DEF PrivateInv, IdsKept
<1>5. particles' \in [Particles -> Records] /\ IdsKept'
    BY <1>1 DEF PrivateInv, PrivateTypeOK, IdsKept
<1>6. /\ call' \in Calls /\ call'.kind = call.kind
      /\ call'.first = call.first /\ call'.last = call.last
    BY <1>1, <1>2, StatusKeepsCall
<1>7. /\ CopyingBack(t) \in PrivateLocals /\ CopyingBack(t).pc = "back"
      /\ CopyingBack(t).pidx = thread[t].pidx
    BY NextPlaces
<1> HIDE DEF r, c
<1> QED BY <1>1, <1>2, <1>3, <1>4, <1>5, <1>6, <1>7, KeepsInv

\* So does whatever a work item does at its place in the loop.
LEMMA PrivateMoveInv ==
    ASSUME PrivateInv, NEW t \in Threads, optimised, optimised' = optimised,
           NEW r \in Records, r.particle_id = own[t].particle_id,
           NEW l \in PrivateLocals, l.pidx = thread[t].pidx,
           l.pc = "back" \/ (l.pc \in {"store", "track"} /\ l.be < call.last),
           thread[t].pc \in {"store", "track"}, own' = [own EXCEPT ![t] = r],
           thread' = [thread EXCEPT ![t] = l], particles' = particles,
           call' \in Calls, call'.kind = call.kind, call'.first = call.first,
           call'.last = call.last
    PROVE  PrivateInv'
<1>1. /\ thread[t].pidx \in Particles /\ ~Idle /\ thread[t].pidx % NumThreads = t
    BY PlaceFacts
<1>2. own[t].particle_id = ParticleId[thread[t].pidx]
    BY DEF PrivateInv, CopiesOwned, HoldsCopy
<1>3. particles' \in [Particles -> Records] /\ IdsKept'
    BY DEF PrivateInv, PrivateTypeOK, IdsKept
<1> QED BY <1>1, <1>2, <1>3, KeepsInv

\* Storing it before an element is one.
LEMMA PrivateStoreInv ==
    ASSUME PrivateInv, NEW t \in Threads, optimised, optimised' = optimised, PrivateStore(t)
    PROVE  PrivateInv'
<1> DEFINE l == [thread[t] EXCEPT !.pc = "track"]
<1>1. /\ thread[t].pc = "store" /\ UNCHANGED <<particles, call, own>>
      /\ thread' = [thread EXCEPT ![t].pc = "track"]
    BY DEF PrivateStore
<1>2. /\ thread[t] \in PrivateLocals /\ thread[t].be < call.last
      /\ own[t] \in Records /\ call \in Calls
    BY <1>1, PlaceFacts
<1>3. thread' = [thread EXCEPT ![t] = l]
    BY <1>1
<1>4. own' = [own EXCEPT ![t] = own[t]]
    BY <1>1 DEF PrivateInv, PrivateTypeOK
<1>5. /\ l \in PrivateLocals /\ l.pidx = thread[t].pidx /\ l.pc = "track"
      /\ l.be = thread[t].be
    BY <1>2 DEF PrivateLocals
<1>6. thread[t].pc \in {"store", "track"} /\ particles' = particles /\ call' = call
    BY <1>1
<1> HIDE DEF l
<1> QED BY <1>2, <1>3, <1>4, <1>5, <1>6, PrivateMoveInv

\* The others are: to the next element, over the end of a turn, off the end of
\* a section, or to where it is stopped.
LEMMA PrivateLoopInv ==
    ASSUME PrivateInv, NEW t \in Threads, optimised, optimised' = optimised,
           PrivateNext(t) \/ PrivateTurnEnd(t) \/ PrivateLineEnd(t) \/ PrivateStop(t)
    PROVE  PrivateInv'
<1>1. thread[t].pc = "track" /\ particles' = particles
    BY DEF PrivateNext, PrivateTurnEnd, PrivateLineEnd, PrivateStop, PrivateElement
<1>2. /\ thread[t] \in PrivateLocals /\ own[t] \in Records /\ call \in Calls
      /\ thread[t].be \in Elements /\ thread[t].be < call.last
      /\ call.last \in Nat
    BY <1>1, PlaceFacts
<1>3. /\ CopyingBack(t) \in PrivateLocals /\ CopyingBack(t).pc = "back"
      /\ CopyingBack(t).pidx = thread[t].pidx
      /\ NextElement(t) \in PrivateLocals /\ NextElement(t).be = thread[t].be + 1
      /\ NextElement(t).pidx = thread[t].pidx
      /\ NextElement(t).pc \in {"store", "track"}
      /\ NextTurn(t) \in PrivateLocals /\ NextTurn(t).be = 0
      /\ NextTurn(t).pidx = thread[t].pidx
      /\ NextTurn(t).pc \in {"store", "track"}
    BY NextPlaces
<1>4. thread[t].start \in Nat
    BY <1>2 DEF PrivateLocals
<1>5. CASE PrivateNext(t)
    <2>1. /\ own' = [own EXCEPT ![t] = ElementPassed(own[t])]
          /\ thread' = [thread EXCEPT ![t] = NextElement(t)]
          /\ thread[t].be + 1 < call.last /\ call' = call
        BY <1>5 DEF PrivateNext, PrivateElement
    <2>2. /\ ElementPassed(own[t]) \in Records
          /\ ElementPassed(own[t]).particle_id = own[t].particle_id
        BY <1>2, ElementPassedRecord
    <2> QED BY <1>1, <1>2, <1>3, <2>1, <2>2, PrivateMoveInv
<1>6. CASE PrivateTurnEnd(t)
    <2> DEFINE l == IF own[t].at_turn + 1 < call.until THEN NextTurn(t) ELSE CopyingBack(t)
    <2>1. /\ own' = [own EXCEPT ![t] = TurnFinished(own[t], thread[t].start)]
          /\ thread' = [thread EXCEPT ![t] = l] /\ call' = call
        BY <1>6 DEF PrivateTurnEnd, PrivateElement
    <2>2. /\ TurnFinished(own[t], thread[t].start) \in Records
          /\ TurnFinished(own[t], thread[t].start).particle_id = own[t].particle_id
        BY <1>2, <1>4, TurnFinishedRecord
    <2>3. 0 < call.last
        BY <1>2, BeamlineAssumption DEF Elements
    <2>4. /\ l \in PrivateLocals /\ l.pidx = thread[t].pidx
          /\ l.pc = "back" \/ (l.pc \in {"store", "track"} /\ l.be < call.last)
        BY <1>3, <2>3
    <2> HIDE DEF l
    <2> QED BY <1>1, <1>2, <2>1, <2>2, <2>4, PrivateMoveInv
<1>7. CASE PrivateLineEnd(t)
    <2> DEFINE r == IF call.finish_turn THEN TurnFinished(own[t], 0) ELSE ElementPassed(own[t])
    <2>1. /\ own' = [own EXCEPT ![t] = r]
          /\ thread' = [thread EXCEPT ![t] = CopyingBack(t)] /\ call' = call
        BY <1>7 DEF PrivateLineEnd, PrivateElement
    <2>2. r \in Records /\ r.particle_id = own[t].particle_id
        BY <1>2, TurnFinishedRecord, ElementPassedRecord
    <2> HIDE DEF r
    <2> QED BY <1>1, <1>2, <1>3, <2>1, <2>2, PrivateMoveInv
<1>8. CASE PrivateStop(t)
    <2>1. PICK o \in Outcomes(thread[t].be, own[t]) :
            /\ own' = [own EXCEPT ![t].state = StopState(o)]
            /\ call' = [call EXCEPT !.status = StatusAfter(o)]
        BY <1>8 DEF PrivateStop
    <2>2. thread' = [thread EXCEPT ![t] = CopyingBack(t)]
        BY <1>8 DEF PrivateStop
    <2>3. StopState(o) \in {0, 1} /\ StatusAfter(o) \in {"success", "failure"}
        BY <1>2, OutcomeFacts DEF StopState, StatusAfter, Calls
    <2>4. PICK st \in {0, 1}, status \in {"success", "failure"} :
            st = StopState(o) /\ status = StatusAfter(o)
        BY <2>3
    <2> DEFINE r == [own[t] EXCEPT !.state = st]
    <2>5. r \in Records /\ r.particle_id = own[t].particle_id
        BY <1>2, StoppedRecord
    <2>6. own' = [own EXCEPT ![t] = r]
        BY <2>1, <2>4
    <2>7. /\ call' \in Calls /\ call'.kind = call.kind
          /\ call'.first = call.first /\ call'.last = call.last
        BY <1>2, <2>1, <2>4, StatusKeepsCall
    <2> HIDE DEF r
    <2> QED BY <1>1, <1>3, <2>2, <2>5, <2>6, <2>7, PrivateMoveInv
<1> QED BY <1>5, <1>6, <1>7, <1>8

\* Copying back puts a particle with its own id in its place.
LEMMA CopyBackInv ==
    ASSUME PrivateInv, NEW t \in Threads, optimised, optimised' = optimised, CopyBack(t)
    PROVE  PrivateInv'
<1>1. /\ thread[t].pc = "back"
      /\ particles' = [particles EXCEPT ![thread[t].pidx] = own[t]]
      /\ thread' = [thread EXCEPT ![t] = Advance(t)]
      /\ UNCHANGED <<call, own>>
    BY DEF CopyBack, AfterCopyBack
<1>2. own[t] \in Records /\ call \in Calls /\ own[t].particle_id = ParticleId[thread[t].pidx]
    BY <1>1 DEF PrivateInv, PrivateTypeOK, CopiesOwned, HoldsCopy
<1>3. particles' \in [Particles -> Records] /\ IdsKept'
    BY <1>1, <1>2 DEF PrivateInv, PrivateTypeOK, IdsKept
<1>4. own' = [own EXCEPT ![t] = own[t]]
    BY <1>1 DEF PrivateInv, PrivateTypeOK
<1>5. /\ Advance(t) \in PrivateLocals /\ Advance(t).pc = "next"
      /\ Advance(t).pidx % NumThreads = t
    BY NextPlaces
<1> QED BY <1>1, <1>2, <1>3, <1>4, <1>5, KeepsInv

-----------------------------------------------------------------------------
(* So do the steps of a plain kernel, launching and returning.             *)

\* A plain work item keeps the invariant if it keeps the id of its particle.
LEMMA PlainMoveInv ==
    ASSUME PrivateInv, NEW t \in Threads, ~optimised, optimised' = optimised, own' = own,
           thread[t].pidx \in Particles, NEW r \in Records,
           r.particle_id = particles[thread[t].pidx].particle_id,
           particles' = [particles EXCEPT ![thread[t].pidx] = r],
           NEW l \in PrivateLocals, thread' = [thread EXCEPT ![t] = l],
           l.pidx % NumThreads = t,
           l.pc = "next" \/ /\ l.pc \in {"store", "track"} /\ l.be < call.last /\ ~Idle
                            /\ l.pidx = thread[t].pidx,
           call' \in Calls, call'.kind = call.kind, call'.first = call.first,
           call'.last = call.last
    PROVE  PrivateInv'
<1>1. own[t] \in Records /\ own' = [own EXCEPT ![t] = own[t]]
    BY DEF PrivateInv, PrivateTypeOK
<1>2. particles' \in [Particles -> Records] /\ IdsKept'
    BY DEF PrivateInv, PrivateTypeOK, IdsKept
<1> QED BY <1>1, <1>2, KeepsInv

\* The steps of a plain work item before its loop and in front of an element.
LEMMA PlainEntryInv ==
    ASSUME PrivateInv, NEW t \in Threads, ~optimised, optimised' = optimised, own' = own,
           EnterParticle(t) \/ SkipParticle(t) \/ StoreElemByElem(t)
    PROVE  PrivateInv'
<1> DEFINE p == thread[t].pidx
           c == particles[p]
<1>1. CASE EnterParticle(t)
    <2> DEFINE l == InLoop(p, call.first, c.at_element_id, c.at_element_id, c.at_turn)
    <2>1. /\ ~Idle /\ p \in Particles /\ Enters(c) /\ thread' = [thread EXCEPT ![t] = l]
          /\ particles' = particles /\ call' = call
        BY <1>1 DEF EnterParticle
    <2>2. c \in Records /\ p % NumThreads = t /\ call \in Calls
        BY <2>1, PlaceFacts
    <2>3. /\ l \in PrivateLocals /\ l.pidx = p
          /\ l.pc \in {"store", "track"} /\ l.be < call.last
        BY <2>1, <2>2, EntryPlace
    <2>4. particles' = [particles EXCEPT ![p] = c]
        BY <2>1 DEF PrivateInv, PrivateTypeOK
    <2> HIDE DEF l, c
    <2> QED BY <2>1, <2>2, <2>3, <2>4, PlainMoveInv DEF c
<1>2. CASE SkipParticle(t)
    <2> DEFINE r == IF FinishesTurn(c) THEN TurnFinished(c, 0) ELSE c
    <2>1. /\ p \in Particles /\ thread' = [thread EXCEPT ![t] = Advance(t)]
          /\ particles' = IF FinishesTurn(c) THEN [particles EXCEPT ![p] = TurnFinished(c, 0)]
                          ELSE particles
          /\ call' = IF call.kind = "until_turn" /\ NumElements = 0
                     THEN [call EXCEPT !.status = "failure"] ELSE call
        BY <1>2 DEF SkipParticle
    <2>2. c \in Records /\ call \in Calls
        BY <2>1, PlaceFacts
    <2>3. r \in Records /\ r.particle_id = c.particle_id
        BY <2>2, TurnFinishedRecord
    <2>4. particles' = [particles EXCEPT ![p] = r]
        BY <2>1 DEF PrivateInv, PrivateTypeOK
    <2>5. /\ call' \in Calls /\ call'.kind = call.kind
          /\ call'.first = call.first /\ call'.last = call.last
        BY <2>1, <2>2, StatusKeepsCall
    <2>6. /\ Advance(t) \in PrivateLocals /\ Advance(t).pc = "next"
          /\ Advance(t).pidx % NumThreads = t
        BY NextPlaces
    <2> HIDE DEF r
    <2> QED BY <2>1, <2>3, <2>4, <2>5, <2>6, PlainMoveInv
<1>3. CASE StoreElemByElem(t)
    <2> DEFINE l == [thread[t] EXCEPT !.pc = "track"]
    <2>1. /\ thread[t].pc = "store" /\ particles' = particles /\ call' = call
          /\ thread' = [thread EXCEPT ![t].pc = "track"]
        BY <1>3 DEF StoreElemByElem
    <2>2. /\ thread[t] \in PrivateLocals /\ p \in Particles /\ c \in Records /\ call \in Calls
          /\ thread[t].be < call.last /\ ~Idle /\ p % NumThreads = t
        BY <2>1, PlaceFacts
    <2>3. /\ l \in PrivateLocals /\ l.pidx = p /\ l.pc = "track" /\ l.be = thread[t].be
        BY <2>2 DEF PrivateLocals
    <2>4. thread' = [thread EXCEPT ![t] = l] /\ particles' = [particles EXCEPT ![p] = c]
        BY <2>1 DEF PrivateInv, PrivateTypeOK
    <2>5. call' \in Calls /\ call' = call
        BY <2>1, <2>2
    <2> HIDE DEF l
    <2> QED BY <2>2, <2>3, <2>4, <2>5, PlainMoveInv
<1> QED BY <1>1, <1>2, <1>3

\* The steps of a plain work item in its loop.
LEMMA PlainLoopInv ==
    ASSUME PrivateInv, NEW t \in Threads, ~optimised, optimised' = optimised, own' = own,
           TrackNext(t) \/ TrackTurnEnd(t) \/ TrackLineEnd(t) \/ TrackStop(t)
    PROVE  PrivateInv'
<1> DEFINE p == thread[t].pidx
           c == particles[p]
<1>1. thread[t].pc = "track"
    BY DEF TrackNext, TrackTurnEnd, TrackLineEnd, TrackStop, TrackElement
<1>2. /\ thread[t] \in PrivateLocals /\ p \in Particles /\ c \in Records /\ call \in Calls
      /\ thread[t].be \in Elements /\ thread[t].be < call.last /\ ~Idle
      /\ p % NumThreads = t /\ call.last \in Nat
    BY <1>1, PlaceFacts
<1>3. /\ Advance(t) \in PrivateLocals /\ Advance(t).pc = "next"
      /\ Advance(t).pidx % NumThreads = t
      /\ NextElement(t) \in PrivateLocals /\ NextElement(t).be = thread[t].be + 1
      /\ NextElement(t).pidx = p /\ NextElement(t).pc \in {"store", "track"}
      /\ NextTurn(t) \in PrivateLocals /\ NextTurn(t).be = 0
      /\ NextTurn(t).pidx = p /\ NextTurn(t).pc \in {"store", "track"}
    BY NextPlaces
<1>4. thread[t].start \in Nat
    BY <1>2 DEF PrivateLocals
<1> HIDE DEF p
<1>5. CASE TrackNext(t)
    <2>1. /\ particles' = [particles EXCEPT ![p] = ElementPassed(c)]
          /\ thread' = [thread EXCEPT ![t] = NextElement(t)]
          /\ thread[t].be + 1 < call.last /\ call' = call
        BY <1>5 DEF TrackNext, TrackElement, p
    <2>2. /\ ElementPassed(c) \in Records
          /\ ElementPassed(c).particle_id = c.particle_id
        BY <1>2, ElementPassedRecord
    <2> QED BY <1>2, <1>3, <2>1, <2>2, PlainMoveInv DEF p
<1>6. CASE TrackTurnEnd(t)
    <2> DEFINE l == IF c.at_turn + 1 < call.until THEN NextTurn(t) ELSE Advance(t)
    <2>1. /\ particles' = [particles EXCEPT ![p] = TurnFinished(c, thread[t].start)]
          /\ thread' = [thread EXCEPT ![t] = l] /\ call' = call
        BY <1>6 DEF TrackTurnEnd, TrackElement, p
    <2>2. /\ TurnFinished(c, thread[t].start) \in Records
          /\ TurnFinished(c, thread[t].start).particle_id = c.particle_id
        BY <1>2, <1>4, TurnFinishedRecord
    <2>3. 0 < call.last
        BY <1>2, BeamlineAssumption DEF Elements
    <2>4. /\ l \in PrivateLocals /\ l.pidx % NumThreads = t
          /\ l.pc = "next" \/ /\ l.pc \in {"store", "track"} /\ l.be < call.last
                              /\ l.pidx = p
        BY <1>2, <1>3, <2>3
    <2> HIDE DEF l
    <2> QED BY <1>2, <2>1, <2>2, <2>4, PlainMoveInv DEF p
<1>7. CASE TrackLineEnd(t)
    <2> DEFINE r == IF call.finish_turn THEN TurnFinished(c, 0) ELSE ElementPassed(c)
    <2>1. /\ particles' = [particles EXCEPT ![p] = r]
          /\ thread' = [thread EXCEPT ![t] = Advance(t)] /\ call' = call
        BY <1>7 DEF TrackLineEnd, TrackElement, p
    <2>2. r \in Records /\ r.particle_id = c.particle_id
        BY <1>2, TurnFinishedRecord, ElementPassedRecord
    <2> HIDE DEF r
    <2> QED BY <1>2, <1>3, <2>1, <2>2, PlainMoveInv DEF p
<1>8. CASE TrackStop(t)
    <2>1. PICK o \in Outcomes(thread[t].be, c) :
            /\ particles' = [particles EXCEPT ![p].state = StopState(o)]
            /\ call' = [call EXCEPT !.status = StatusAfter(o)]
        BY <1>8 DEF TrackStop, p
    <2>2. thread' = [thread EXCEPT ![t] = Advance(t)]
        BY <1>8 DEF TrackStop
    <2>3. StopState(o) \in {0, 1} /\ StatusAfter(o) \in {"success", "failure"}
        BY <1>2, OutcomeFacts DEF StopState, StatusAfter, Calls
    <2>4. PICK st \in {0, 1}, status \in {"success", "failure"} :
            st = StopState(o) /\ status = StatusAfter(o)
        BY <2>3
    <2> DEFINE r == [c EXCEPT !.state = st]
    <2>5. r \in Records /\ r.particle_id = c.particle_id
        BY <1>2, StoppedRecord
    <2>6. particles' = [particles EXCEPT ![p] = r]
        BY <2>1, <2>4
    <2>7. /\ call' \in Calls /\ call'.kind = call.kind
          /\ call'.first = call.first /\ call'.last = call.last
        BY <1>2, <2>1, <2>4, StatusKeepsCall
    <2> HIDE DEF r
    <2> QED BY <1>2, <1>3, <2>2, <2>5, <2>6, <2>7, PlainMoveInv DEF p
<1> QED BY <1>5, <1>6, <1>7, <1>8

-----------------------------------------------------------------------------
(* The invariant of the specification.                                     *)

\* Before the first call no work item holds anything.
LEMMA PrivateInitInv == PrivateInit => PrivateInv
<1> SUFFICES ASSUME PrivateInit PROVE PrivateInv
    OBVIOUS
<1>1. Fresh \in [Particles -> Records] /\ Blank \in Records
    BY BeamlineAssumption DEF Fresh, Blank, Records
<1>2. \A t \in Threads : AtNext(t) \in PrivateLocals /\ AtNext(t).pc = "next"
                        /\ AtNext(t).pidx % NumThreads = t
    BY OwnRemainder DEF AtNext, PrivateLocals
<1>3. NoCall \in Calls /\ NoCall.first = 0 /\ NoCall.last = 0 /\ NoCall.kind = "none"
    BY DEF NoCall, Request, Calls
<1>4. PrivateTypeOK
    <2>1. /\ particles = Fresh /\ call = NoCall /\ optimised = FALSE
          /\ thread = [t \in Threads |-> AtNext(t)]
          /\ own = [t \in Threads |-> Blank]
        BY DEF PrivateInit, Init
    <2>2. thread \in [Threads -> PrivateLocals] /\ own \in [Threads -> Records]
        BY <1>1, <1>2, <2>1
    <2>3. call.first <= call.last /\ call.last <= NumElements
        BY <1>3, <2>1, BeamlineAssumption
    <2> QED BY <1>1, <1>3, <2>1, <2>2, <2>3 DEF PrivateTypeOK
<1>5. CopiesOwned
    BY <1>2 DEF PrivateInit, Init, CopiesOwned, HoldsCopy
<1>6. IdsKept
    BY DEF PrivateInit, Init, IdsKept, Fresh
<1> QED BY <1>4, <1>5, <1>6 DEF PrivateInv

\* A launch of either kind keeps the invariant.
LEMMA LaunchEitherInv ==
    ASSUME PrivateInv, LaunchEither
    PROVE  PrivateInv'
<1>1. PICK c \in Calls :
        /\ Launch(c) /\ c.first <= c.last /\ c.last <= NumElements
        /\ c.kind \in {"until_turn", "elem_by_elem"} =>
                c.first = 0 /\ c.last = NumElements
    <2>1. CASE LaunchUntilTurn
        <3>1. PICK until \in UntilTurns : Launch(CallUntil("until_turn", until))
            BY <2>1 DEF LaunchUntilTurn
        <3> QED BY <3>1, RequestFacts, BeamlineAssumption
    <2>2. CASE LaunchElemByElem
        <3>1. PICK until \in UntilTurns : Launch(CallUntil(KernelFor, until))
            BY <2>2 DEF LaunchElemByElem
        <3> QED BY <3>1, RequestFacts, BeamlineAssumption
    <2>3. CASE LaunchLine
        <3>1. PICK section \in Sections, finish \in BOOLEAN :
                Launch(CallLine(section, finish))
            BY <2>3 DEF LaunchLine
        <3> QED BY <3>1, RequestFacts
    <2> QED BY <2>1, <2>2, <2>3 DEF LaunchEither
<1>2. /\ thread' = [t \in Threads |-> AtNext(t)] /\ call' = c
      /\ particles' = particles
    BY <1>1 DEF Launch
<1>3. optimised' \in BOOLEAN /\ own' = [t \in Threads |-> Blank]
    BY DEF LaunchEither
<1>4. \A t \in Threads : AtNext(t) \in PrivateLocals /\ AtNext(t).pc = "next"
                        /\ AtNext(t).pidx % NumThreads = t
    BY OwnRemainder DEF AtNext, PrivateLocals
<1>5. Blank \in Records
    BY DEF Blank, Records
<1>6. PrivateTypeOK'
    BY <1>1, <1>2, <1>3, <1>4, <1>5 DEF PrivateInv, PrivateTypeOK
<1>7. CopiesOwned'
    BY <1>2, <1>4 DEF CopiesOwned, HoldsCopy
<1>8. IdsKept'
    BY <1>2 DEF PrivateInv, IdsKept
<1> QED BY <1>6, <1>7, <1>8 DEF PrivateInv

\* A return finds every work item between two particles.
LEMMA PrivateReturnInv ==
    ASSUME PrivateInv, Return, UNCHANGED <<optimised, own>>
    PROVE  PrivateInv'
<1>1. /\ \A t \in Threads : thread[t].pc = "next"
      /\ call' = [NoCall EXCEPT !.status = call.status]
      /\ particles' = particles /\ thread' = thread
    BY DEF Return, AllDone
<1>2. /\ call' \in Calls /\ call'.kind = "none" /\ call'.first = 0 /\ call'.last = 0
    BY <1>1 DEF NoCall, Request, Calls, PrivateInv, PrivateTypeOK
<1>3. PrivateTypeOK'
    BY <1>1, <1>2, BeamlineAssumption DEF PrivateInv, PrivateTypeOK
<1>4. CopiesOwned'
    BY <1>1 DEF PrivateInv, CopiesOwned, HoldsCopy
<1>5. IdsKept'
    BY <1>1 DEF PrivateInv, IdsKept
<1> QED BY <1>3, <1>4, <1>5 DEF PrivateInv

\* So does a step that changes nothing.
LEMMA PrivateStutterInv ==
    ASSUME PrivateInv, UNCHANGED pvars
    PROVE  PrivateInv'
    BY DEF PrivateInv, PrivateTypeOK, CopiesOwned, IdsKept, HoldsCopy, Idle, pvars, vars

\* Whichever kernels are launched, no work item tracks a private particle
\* that is not its own, and none is copied back over another one.
THEOREM PrivateInvariant == PrivateSpec => []PrivateInv
<1>1. PrivateInit => PrivateInv
    BY PrivateInitInv
<1>2. PrivateInv /\ [PrivateNextState]_pvars => PrivateInv'
    <2> SUFFICES ASSUME PrivateInv, [PrivateNextState]_pvars PROVE PrivateInv'
        OBVIOUS
    <2>1. CASE LaunchEither
        BY <2>1, LaunchEitherInv
    <2>2. ASSUME NEW t \in Threads, EitherWorkItem(t) PROVE PrivateInv'
        <3>1. optimised' = optimised
            BY <2>2 DEF EitherWorkItem
        <3>2. CASE ~optimised /\ WorkItem(t) /\ own' = own
            BY <3>1, <3>2, PlainEntryInv, PlainLoopInv DEF WorkItem
        <3>3. CASE optimised /\ PrivateWorkItem(t)
            BY <3>1, <3>3, PrivateEnterInv, PrivateSkipInv, PrivateStoreInv,
               PrivateLoopInv, CopyBackInv DEF PrivateWorkItem
        <3> QED BY <2>2, <3>2, <3>3 DEF EitherWorkItem
    <2>3. CASE Return /\ UNCHANGED <<optimised, own>>
        BY <2>3, PrivateReturnInv
    <2>4. CASE UNCHANGED pvars
        BY <2>4, PrivateStutterInv
    <2> QED BY <2>1, <2>2, <2>3, <2>4 DEF PrivateNextState
<1> QED BY <1>1, <1>2, PTL DEF PrivateSpec

-----------------------------------------------------------------------------
(* The plain kernels, seen: how a step of the state looks.                 *)

\* Every particle is in the stride of a work item.
LEMMA HasOwner ==
    ASSUME NEW p \in Particles
    PROVE  p % NumThreads \in Threads
<1>1. PICK n \in Nat \ {0} : n = NumThreads
    BY ThreadsAssumption
<1>2. p \in Nat
    BY BeamlineAssumption DEF Particles
<1>3. p % n \in 0 .. n - 1
    BY <1>1, <1>2
<1> QED BY <1>1, <1>3 DEF Threads

\* Where no work item holds a copy, the particles are seen as they are.
LEMMA ViewIsState ==
    ASSUME PrivateInv, ~optimised \/ \A t \in Threads : thread[t].pc = "next"
    PROVE  Seen = particles /\ SeenThread = thread
<1>1. /\ particles \in [Particles -> Records] /\ thread \in [Threads -> PrivateLocals]
      /\ \A t \in Threads : thread[t].pc # "back"
    BY DEF PrivateInv, PrivateTypeOK, CopiesOwned
<1>2. SeenThread = thread
    BY <1>1 DEF SeenThread
<1>3. \A p \in Particles : Seen[p] = particles[p]
    BY HasOwner DEF Seen, HoldsCopy
<1>4. Seen = [p \in Particles |-> Seen[p]]
    BY DEF Seen
<1> QED BY <1>1, <1>2, <1>3, <1>4

\* The same of the state after a step.
LEMMA ViewIsStateNext ==
    ASSUME PrivateInv', ~optimised' \/ \A t \in Threads : thread'[t].pc = "next"
    PROVE  Seen' = particles' /\ SeenThread' = thread'
<1>1. /\ particles' \in [Particles -> Records] /\ thread' \in [Threads -> PrivateLocals]
      /\ \A t \in Threads : thread'[t].pc # "back"
    BY DEF PrivateInv, PrivateTypeOK, CopiesOwned
<1>2. SeenThread' = thread'
    BY <1>1 DEF SeenThread
<1>3. \A p \in Particles : Seen'[p] = particles'[p]
    BY HasOwner DEF Seen, HoldsCopy
<1>4. Seen' = [p \in Particles |-> Seen'[p]]
    BY DEF Seen
<1> QED BY <1>1, <1>2, <1>3, <1>4

\* What an optimised work item holds is seen in the place of its particle.
LEMMA ViewOfOwn ==
    ASSUME PrivateInv, NEW t \in Threads, optimised
    PROVE  /\ thread[t].pidx \in Particles =>
                Seen[thread[t].pidx] = IF thread[t].pc = "next"
                                       THEN particles[thread[t].pidx] ELSE own[t]
           /\ SeenThread[t] = IF thread[t].pc = "back" THEN Advance(t) ELSE thread[t]
    BY DEF PrivateInv, CopiesOwned, Seen, SeenThread, HoldsCopy

\* A step inside a private copy is seen as a step of the particle; the one
\* after which it is only copied back is seen to leave it.
LEMMA ViewStep ==
    ASSUME PrivateInv, NEW t \in Threads, optimised, optimised' = optimised,
           thread[t].pidx \in Particles, NEW r, NEW l \in PrivateLocals,
           l.pc # "next", l.pidx = thread[t].pidx,
           own' = [own EXCEPT ![t] = r], thread' = [thread EXCEPT ![t] = l],
           particles' = particles
    PROVE  /\ Seen' = [Seen EXCEPT ![thread[t].pidx] = r]
           /\ SeenThread' = [SeenThread EXCEPT ![t] =
                                IF l.pc = "back" THEN Advance(t) ELSE l]
<1>1. /\ thread \in [Threads -> PrivateLocals] /\ own \in [Threads -> Records]
      /\ thread[t].pidx % NumThreads = t
    BY DEF PrivateInv, PrivateTypeOK, CopiesOwned
<1>2. \A s \in Threads : /\ thread'[s] = IF s = t THEN l ELSE thread[s]
                        /\ own'[s] = IF s = t THEN r ELSE own[s]
    BY <1>1
<1>3. ASSUME NEW p \in Particles
      PROVE  Seen'[p] = IF p = thread[t].pidx THEN r ELSE Seen[p]
    <2> DEFINE s == p % NumThreads
    <2>1. s \in Threads
        BY HasOwner
    <2>2. CASE s = t
        BY <1>2, <2>2 DEF Seen, HoldsCopy
    <2>3. CASE s # t
        <3>1. thread'[s] = thread[s] /\ own'[s] = own[s] /\ p # thread[t].pidx
            BY <1>1, <1>2, <2>1, <2>3
        <3> QED BY <3>1 DEF Seen, HoldsCopy
    <2> QED BY <2>2, <2>3
<1>4. Seen' = [Seen EXCEPT ![thread[t].pidx] = r]
    <2>1. Seen' = [p \in Particles |-> Seen'[p]] /\ Seen = [p \in Particles |-> Seen[p]]
        BY DEF Seen
    <2> QED BY <1>3, <2>1
<1>5. \A s \in Threads :
        SeenThread'[s] = IF s = t THEN IF l.pc = "back" THEN Advance(t) ELSE l
                         ELSE SeenThread[s]
    BY <1>2 DEF SeenThread, Advance
<1>6. SeenThread' = [SeenThread EXCEPT ![t] = IF l.pc = "back" THEN Advance(t) ELSE l]
    BY <1>5 DEF SeenThread
<1> QED BY <1>4, <1>6

\* Copying back is not seen at all.
LEMMA ViewOfCopyBack ==
    ASSUME PrivateInv, NEW t \in Threads, optimised, optimised' = optimised, CopyBack(t)
    PROVE  Seen' = Seen /\ SeenThread' = SeenThread
<1>1. /\ thread[t].pc = "back" /\ thread' = [thread EXCEPT ![t] = Advance(t)]
      /\ particles' = [particles EXCEPT ![thread[t].pidx] = own[t]] /\ own' = own
    BY DEF CopyBack, AfterCopyBack
<1>2. /\ thread \in [Threads -> PrivateLocals] /\ particles \in [Particles -> Records]
      /\ thread[t].pidx % NumThreads = t /\ thread[t].pidx \in Particles
      /\ Advance(t).pc = "next"
    BY <1>1, NextPlaces DEF PrivateInv, PrivateTypeOK, CopiesOwned
<1>3. \A s \in Threads : thread'[s] = IF s = t THEN Advance(t) ELSE thread[s]
    BY <1>1, <1>2
<1>4. ASSUME NEW p \in Particles
      PROVE  Seen'[p] = Seen[p]
    <2> DEFINE s == p % NumThreads
    <2>1. s \in Threads
        BY HasOwner
    <2>2. CASE s = t
        <3>1. ~HoldsCopy(s)' /\ HoldsCopy(s)
            BY <1>1, <1>2, <1>3, <2>2 DEF HoldsCopy
        <3> QED BY <1>1, <1>2, <2>2, <3>1 DEF Seen
    <2>3. CASE s # t
        <3>1. thread'[s] = thread[s] /\ p # thread[t].pidx
            BY <1>2, <1>3, <2>1, <2>3
        <3> QED BY <1>1, <1>2, <3>1 DEF Seen, HoldsCopy
    <2> QED BY <2>2, <2>3
<1>5. ASSUME NEW s \in Threads
      PROVE  SeenThread'[s] = SeenThread[s]
    <2>1. CASE s = t
        BY <1>1, <1>2, <1>3, <2>1 DEF SeenThread
    <2>2. CASE s # t
        BY <1>3, <2>2 DEF SeenThread, Advance
    <2> QED BY <2>1, <2>2
<1>6. Seen' = Seen
    <2>1. Seen' = [p \in Particles |-> Seen'[p]] /\ Seen = [p \in Particles |-> Seen[p]]
        BY DEF Seen
    <2> QED BY <1>4, <2>1
<1>7. SeenThread' = SeenThread
    <2>1. /\ SeenThread' = [s \in Threads |-> SeenThread'[s]]
          /\ SeenThread = [s \in Threads |-> SeenThread[s]]
        BY DEF SeenThread
    <2> QED BY <1>5, <2>1
<1> QED BY <1>6, <1>7

-----------------------------------------------------------------------------
(* Each step of an optimised kernel is seen as one of the plain kernel.    *)

\* The bookkeeping of a record does not depend on how particles are seen.
LEMMA SameRecords ==
    /\ Plain!Particles = Particles /\ Plain!Threads = Threads
    /\ \A r : /\ Plain!Lost(r) = Lost(r) /\ Plain!ElementPassed(r) = ElementPassed(r)
             /\ Plain!Enters(r) = Enters(r) /\ Plain!FinishesTurn(r) = FinishesTurn(r)
    /\ \A r, n : Plain!TurnFinished(r, n) = TurnFinished(r, n)
    /\ \A o : Plain!StopState(o) = StopState(o) /\ Plain!StatusAfter(o) = StatusAfter(o)
    /\ Plain!Idle = Idle
<1>1. \A r : /\ Plain!Lost(r) = Lost(r) /\ Plain!ElementPassed(r) = ElementPassed(r)
    BY DEF Lost, Plain!Lost, ElementPassed, Plain!ElementPassed
<1>2. \A r : Plain!Enters(r) = Enters(r) /\ Plain!FinishesTurn(r) = FinishesTurn(r)
    BY <1>1 DEF Enters, Plain!Enters, FinishesTurn, Plain!FinishesTurn
<1>3. \A r, n : Plain!TurnFinished(r, n) = TurnFinished(r, n)
    BY DEF TurnFinished, Plain!TurnFinished
<1>4. \A o : Plain!StopState(o) = StopState(o) /\ Plain!StatusAfter(o) = StatusAfter(o)
    BY DEF StopState, Plain!StopState, StatusAfter, Plain!StatusAfter
<1>5. Plain!Particles = Particles /\ Plain!Threads = Threads /\ Plain!Idle = Idle
    BY DEF Particles, Plain!Particles, Threads, Plain!Threads, Idle, Plain!Idle
<1> QED BY <1>1, <1>2, <1>3, <1>4, <1>5

\* Nor do the places of a work item, as long as it is not copying back.
LEMMA SamePlaces ==
    /\ \A p : Plain!AtNext(p) = AtNext(p)
    /\ \A p, be, start, elem, turn :
            Plain!InLoop(p, be, start, elem, turn) = InLoop(p, be, start, elem, turn)
    /\ \A t \in Threads : SeenThread[t] = thread[t] =>
            /\ Plain!Advance(t) = Advance(t)
            /\ Plain!NextElement(t) = NextElement(t)
            /\ Plain!NextTurn(t) = NextTurn(t)
            /\ Plain!OutIndex(t) = OutIndex(t)
<1>1. /\ \A p : Plain!AtNext(p) = AtNext(p)
      /\ \A p, be, start, elem, turn :
            Plain!InLoop(p, be, start, elem, turn) = InLoop(p, be, start, elem, turn)
    BY DEF AtNext, Plain!AtNext, InLoop, Plain!InLoop
<1>2. ASSUME NEW t \in Threads, SeenThread[t] = thread[t]
      PROVE  /\ Plain!Advance(t) = Advance(t)
             /\ Plain!NextElement(t) = NextElement(t)
             /\ Plain!NextTurn(t) = NextTurn(t)
             /\ Plain!OutIndex(t) = OutIndex(t)
    BY <1>1, <1>2, SameSlots DEF Advance, Plain!Advance, NextElement, Plain!NextElement,
       NextTurn, Plain!NextTurn, OutIndex, Plain!OutIndex
<1> QED BY <1>1, <1>2

\* Copying in and entering the loop is entering the loop.
LEMMA SeenEnter ==
    ASSUME PrivateInv, NEW t \in Threads, optimised, optimised' = optimised, PrivateEnter(t)
    PROVE  Plain!EnterParticle(t)
<1> DEFINE p == thread[t].pidx
           r == particles[p]
           l == InLoop(p, call.first, r.at_element_id, r.at_element_id, r.at_turn)
<1>1. /\ ~Idle /\ thread[t].pc = "next" /\ p \in Particles /\ Enters(r)
      /\ own' = [own EXCEPT ![t] = r] /\ thread' = [thread EXCEPT ![t] = l]
      /\ UNCHANGED <<particles, call, elem_store, mon_store, begun>>
    BY DEF PrivateEnter, CopiedIn
<1>2. r \in Records
    BY <1>1, PlaceFacts
<1>3. /\ l \in PrivateLocals /\ l.pidx = p /\ l.pc \in {"store", "track"}
    BY <1>1, <1>2, EntryPlace
<1>4. Seen[p] = r /\ SeenThread[t] = thread[t]
    BY <1>1, ViewOfOwn
<1>5. Seen' = [Seen EXCEPT ![p] = r] /\ SeenThread' = [SeenThread EXCEPT ![t] = l]
    <2> HIDE DEF r, l
    <2> QED BY <1>1, <1>3, ViewStep
<1>6. Seen' = Seen
    <2>1. [Seen EXCEPT ![p] = Seen[p]] = Seen
        BY DEF Seen
    <2> QED BY <1>4, <1>5, <2>1, Zenon
<1> QED BY <1>1, <1>4, <1>5, <1>6, SameRecords, SamePlaces DEF Plain!EnterParticle

\* So is copying in what has nothing to do passing it over.
LEMMA SeenSkip ==
    ASSUME PrivateInv, NEW t \in Threads, optimised, optimised' = optimised, PrivateSkip(t)
    PROVE  Plain!SkipParticle(t)
<1> DEFINE p == thread[t].pidx
           c == particles[p]
           r == IF FinishesTurn(c) THEN TurnFinished(c, 0) ELSE c
           l == CopyingBack(t)
<1>1. /\ ~Idle /\ thread[t].pc = "next" /\ p \in Particles /\ ~Enters(c)
      /\ own' = [own EXCEPT ![t] = r] /\ thread' = [thread EXCEPT ![t] = l]
      /\ call' = IF call.kind = "until_turn" /\ NumElements = 0
                 THEN [call EXCEPT !.status = "failure"] ELSE call
      /\ UNCHANGED <<particles, elem_store, mon_store, begun>>
    BY DEF PrivateSkip, CopiedIn
<1>2. l \in PrivateLocals /\ l.pidx = p /\ l.pc = "back"
    BY NextPlaces
<1>3. Seen[p] = c /\ SeenThread[t] = thread[t]
    BY <1>1, ViewOfOwn
<1>4. /\ Seen' = [Seen EXCEPT ![p] = r]
      /\ SeenThread' = [SeenThread EXCEPT ![t] = Advance(t)]
    <2> HIDE DEF r, l
    <2> QED BY <1>1, <1>2, ViewStep
<1>5. Seen' = IF FinishesTurn(c) THEN [Seen EXCEPT ![p] = TurnFinished(@, 0)] ELSE Seen
    <2>1. CASE FinishesTurn(c)
        BY <1>3, <1>4, <2>1
    <2>2. CASE ~FinishesTurn(c)
        BY <1>1, <1>3, <1>4, <2>2 DEF Seen
    <2> QED BY <2>1, <2>2
<1> HIDE DEF r, l
<1> QED BY <1>1, <1>3, <1>4, <1>5, SameRecords, SamePlaces DEF Plain!SkipParticle

\* The copy that is stored is the particle as it is seen.
LEMMA SeenStore ==
    ASSUME PrivateInv, NEW t \in Threads, optimised, optimised' = optimised, PrivateStore(t)
    PROVE  Plain!StoreElemByElem(t)
<1> DEFINE p == thread[t].pidx
           l == [thread[t] EXCEPT !.pc = "track"]
<1>1. /\ thread[t].pc = "store" /\ thread' = [thread EXCEPT ![t].pc = "track"]
      /\ elem_store' = IF PrivateIndex(t) \in ElemSlots
                       THEN [elem_store EXCEPT ![PrivateIndex(t)] = own[t]]
                       ELSE elem_store
      /\ UNCHANGED <<particles, call, mon_store, begun, own>>
    BY DEF PrivateStore, PrivateSource
<1>2. p \in Particles /\ thread[t] \in PrivateLocals
    BY <1>1, PlaceFacts
<1>3. Seen[p] = own[t] /\ SeenThread[t] = thread[t]
    BY <1>1, <1>2, ViewOfOwn
<1>4. own[t].particle_id = ParticleId[p]
    BY <1>1 DEF PrivateInv, CopiesOwned, HoldsCopy
<1>5. OutIndex(t) = PrivateIndex(t)
    BY <1>4 DEF OutIndex, PrivateIndex
<1>6. l \in PrivateLocals /\ l.pidx = p /\ l.pc # "next" /\ l.pc # "back"
    BY <1>2 DEF PrivateLocals
<1>7. /\ own' = [own EXCEPT ![t] = own[t]] /\ thread' = [thread EXCEPT ![t] = l]
      /\ particles' = particles
    BY <1>1 DEF PrivateInv, PrivateTypeOK
<1>8. Seen' = [Seen EXCEPT ![p] = own[t]] /\ SeenThread' = [SeenThread EXCEPT ![t] = l]
    <2> HIDE DEF l
    <2>1. PICK r : r = own[t]
        OBVIOUS
    <2> QED BY <1>2, <1>6, <1>7, <2>1, ViewStep
<1>9. Seen' = Seen /\ SeenThread' = [SeenThread EXCEPT ![t].pc = "track"]
    BY <1>2, <1>3, <1>8 DEF Seen
<1> HIDE DEF l
<1> QED BY <1>1, <1>2, <1>3, <1>5, <1>9, SameSlots, SamePlaces DEF Plain!StoreElemByElem

\* What the dispatcher does to the private particle and to the monitors is
\* what it does to the particle as it is seen.
LEMMA SeenElement ==
    ASSUME PrivateInv, NEW t \in Threads, optimised, thread[t].pc = "track"
    PROVE  /\ thread[t].pidx \in Particles /\ thread[t] \in PrivateLocals
           /\ Seen[thread[t].pidx] = own[t] /\ SeenThread[t] = thread[t]
           /\ PrivateElement(t) => Plain!TrackElement(t)
<1>1. thread[t].pidx \in Particles /\ thread[t] \in PrivateLocals
    BY PlaceFacts
<1>2. Seen[thread[t].pidx] = own[t] /\ SeenThread[t] = thread[t]
    BY <1>1, ViewOfOwn
<1>3. PrivateElement(t) => Plain!TrackElement(t)
    BY <1>2, SameElements DEF PrivateElement, Plain!TrackElement
<1> QED BY <1>1, <1>2, <1>3

\* So are the moves to the next element, over the end of a turn, off the end
\* of a section, and to a stop.
LEMMA SeenLoop ==
    ASSUME PrivateInv, NEW t \in Threads, optimised, optimised' = optimised
    PROVE  /\ PrivateNext(t) => Plain!TrackNext(t)
           /\ PrivateTurnEnd(t) => Plain!TrackTurnEnd(t)
           /\ PrivateLineEnd(t) => Plain!TrackLineEnd(t)
           /\ PrivateStop(t) => Plain!TrackStop(t)
<1> DEFINE p == thread[t].pidx
<1>1. /\ CopyingBack(t) \in PrivateLocals /\ CopyingBack(t).pc = "back"
      /\ CopyingBack(t).pidx = p
      /\ NextElement(t) \in PrivateLocals /\ NextElement(t).pidx = p
      /\ NextElement(t).pc \in {"store", "track"}
      /\ NextTurn(t) \in PrivateLocals /\ NextTurn(t).pidx = p
      /\ NextTurn(t).pc \in {"store", "track"}
    BY NextPlaces
<1>2. ASSUME thread[t].pc = "track"
      PROVE  /\ p \in Particles /\ thread[t] \in PrivateLocals
             /\ Seen[p] = own[t] /\ SeenThread[t] = thread[t]
             /\ PrivateElement(t) => Plain!TrackElement(t)
    BY <1>2, SeenElement
<1>3. ASSUME PrivateNext(t) PROVE Plain!TrackNext(t)
    <2>1. /\ PrivateElement(t) /\ thread[t].pc = "track" /\ particles' = particles
          /\ thread[t].be + 1 < call.last
          /\ own' = [own EXCEPT ![t] = ElementPassed(own[t])]
          /\ thread' = [thread EXCEPT ![t] = NextElement(t)]
        BY <1>3 DEF PrivateNext, PrivateElement
    <2>2. PICK r : r = ElementPassed(own[t])
        OBVIOUS
    <2>3. /\ Seen' = [Seen EXCEPT ![p] = r]
          /\ SeenThread' = [SeenThread EXCEPT ![t] = NextElement(t)]
        BY <1>1, <1>2, <2>1, <2>2, ViewStep
    <2> QED BY <1>2, <2>1, <2>2, <2>3, SameRecords, SamePlaces DEF Plain!TrackNext
<1>4. ASSUME PrivateTurnEnd(t) PROVE Plain!TrackTurnEnd(t)
    <2> DEFINE more == own[t].at_turn + 1 < call.until
               l == IF more THEN NextTurn(t) ELSE CopyingBack(t)
    <2>1. /\ PrivateElement(t) /\ thread[t].pc = "track" /\ particles' = particles
          /\ thread[t].be + 1 = call.last /\ call.kind # "line"
          /\ own' = [own EXCEPT ![t] = TurnFinished(own[t], thread[t].start)]
          /\ thread' = [thread EXCEPT ![t] = l]
        BY <1>4 DEF PrivateTurnEnd, PrivateElement
    <2>2. PICK r : r = TurnFinished(own[t], thread[t].start)
        OBVIOUS
    <2>3. /\ Seen' = [Seen EXCEPT ![p] = r]
          /\ SeenThread' = [SeenThread EXCEPT ![t] =
                                IF more THEN NextTurn(t) ELSE Advance(t)]
        <3>1. CASE more
            <4>1. /\ thread' = [thread EXCEPT ![t] = NextTurn(t)]
                  /\ own' = [own EXCEPT ![t] = r] /\ particles' = particles
                BY <2>1, <2>2, <3>1
            <4>2. PICK k \in PrivateLocals :
                    /\ k = NextTurn(t) /\ k.pidx = p /\ k.pc # "next" /\ k.pc # "back"
                BY <1>1
            <4>3. p \in Particles
                BY <1>2, <2>1
            <4>4. SeenThread' = [SeenThread EXCEPT ![t] = k]
                  /\ Seen' = [Seen EXCEPT ![p] = r]
                BY <4>1, <4>2, <4>3, ViewStep
            <4> QED BY <3>1, <4>2, <4>4
        <3>2. CASE ~more
            <4>1. l = CopyingBack(t)
                BY <3>2
            <4>2. p \in Particles /\ thread' = [thread EXCEPT ![t] = CopyingBack(t)]
                BY <1>2, <2>1, <4>1
            <4>3. own' = [own EXCEPT ![t] = r] /\ particles' = particles
                BY <2>1, <2>2
            <4>4. Seen' = [Seen EXCEPT ![p] = r]
                  /\ SeenThread' = [SeenThread EXCEPT ![t] = Advance(t)]
                <5> HIDE DEF l, more
                <5> QED BY <1>1, <4>2, <4>3, ViewStep
            <4> QED BY <3>2, <4>4
        <3> QED BY <3>1, <3>2
    <2> QED BY <1>2, <2>1, <2>2, <2>3, SameRecords, SamePlaces DEF Plain!TrackTurnEnd
<1>5. ASSUME PrivateLineEnd(t) PROVE Plain!TrackLineEnd(t)
    <2>1. /\ PrivateElement(t) /\ thread[t].pc = "track" /\ particles' = particles
          /\ thread[t].be + 1 = call.last /\ call.kind = "line"
          /\ own' = [own EXCEPT ![t] = IF call.finish_turn THEN TurnFinished(own[t], 0)
                                       ELSE ElementPassed(own[t])]
          /\ thread' = [thread EXCEPT ![t] = CopyingBack(t)]
        BY <1>5 DEF PrivateLineEnd, PrivateElement
    <2>2. PICK r : r = IF call.finish_turn THEN TurnFinished(own[t], 0)
                       ELSE ElementPassed(own[t])
        OBVIOUS
    <2>3. /\ Seen' = [Seen EXCEPT ![p] = r]
          /\ SeenThread' = [SeenThread EXCEPT ![t] = Advance(t)]
        BY <1>1, <1>2, <2>1, <2>2, ViewStep
    <2> QED BY <1>2, <2>1, <2>2, <2>3, SameRecords, SamePlaces DEF Plain!TrackLineEnd
<1>6. ASSUME PrivateStop(t) PROVE Plain!TrackStop(t)
    <2>1. /\ thread[t].pc = "track" /\ particles' = particles
          /\ mon_store' = MonStoreAfter(mon_store, thread[t].be, own[t])
          /\ thread' = [thread EXCEPT ![t] = CopyingBack(t)]
          /\ UNCHANGED <<elem_store, begun>>
        BY <1>6 DEF PrivateStop
    <2>2. PICK o \in Outcomes(thread[t].be, own[t]) :
            /\ ~Continues(o)
            /\ own' = [own EXCEPT ![t].state = StopState(o)]
            /\ call' = [call EXCEPT !.status = StatusAfter(o)]
        BY <1>6 DEF PrivateStop
    <2>3. PICK r : r = [own[t] EXCEPT !.state = StopState(o)]
        OBVIOUS
    <2>4. own' = [own EXCEPT ![t] = r]
        BY <2>2, <2>3
    <2>5. /\ Seen' = [Seen EXCEPT ![p] = r]
          /\ SeenThread' = [SeenThread EXCEPT ![t] = Advance(t)]
        BY <1>1, <1>2, <2>1, <2>4, ViewStep
    <2>6. Seen' = [Seen EXCEPT ![p].state = StopState(o)]
        BY <1>2, <2>1, <2>3, <2>5
    <2> QED BY <1>2, <2>1, <2>2, <2>5, <2>6, SameElements, SameRecords, SamePlaces
            DEF Plain!TrackStop
<1> QED BY <1>3, <1>4, <1>5, <1>6

-----------------------------------------------------------------------------
(* The steps that are not those of an optimised work item.                 *)

\* The first state is seen as the first state of the plain kernels.
LEMMA SeenInit == PrivateInit => Plain!Init
<1> SUFFICES ASSUME PrivateInit PROVE Plain!Init
    OBVIOUS
<1>1. PrivateInv
    BY PrivateInitInv
<1>2. Init /\ ~optimised
    BY DEF PrivateInit
<1>3. Seen = particles /\ SeenThread = thread
    BY <1>1, <1>2, ViewIsState
<1>4. /\ Plain!Fresh = Fresh /\ Plain!NoCall = NoCall
      /\ Plain!NoElemOutput = NoElemOutput /\ Plain!NoMonOutput = NoMonOutput
    BY SameSlots, SameRecords
    DEF Fresh, Plain!Fresh, NoCall, Plain!NoCall, Request, Plain!Request, NoElemOutput,
        Plain!NoElemOutput, NoMonOutput, Plain!NoMonOutput, MonitorElements,
        Plain!MonitorElements, Elements, Plain!Elements
<1> QED BY <1>2, <1>3, <1>4, SameRecords, SamePlaces
        DEF Init, Plain!Init, Rest, Plain!Rest

\* A launch of either kind is seen as one of a plain kernel.
LEMMA SeenLaunch ==
    ASSUME PrivateInv, PrivateInv', LaunchEither
    PROVE  Plain!LaunchUntilTurn \/ Plain!LaunchElemByElem \/ Plain!LaunchLine
<1>1. /\ Idle /\ thread' = [t \in Threads |-> AtNext(t)]
      /\ UNCHANGED <<particles, elem_store, mon_store, begun>>
    BY DEF LaunchEither, LaunchUntilTurn, LaunchElemByElem, LaunchLine, Launch
<1>2. Seen = particles /\ SeenThread = thread
    <2>1. \A t \in Threads : thread[t].pc = "next"
        BY <1>1 DEF PrivateInv, CopiesOwned
    <2> QED BY <2>1, ViewIsState
<1>3. Seen' = particles' /\ SeenThread' = thread'
    <2>1. \A t \in Threads : thread'[t].pc = "next"
        BY <1>1 DEF AtNext
    <2> QED BY <2>1, ViewIsStateNext
<1>4. \A c : Launch(c) => Plain!Launch(c)
    BY <1>1, <1>2, <1>3, SameRecords, SamePlaces
    DEF Launch, Plain!Launch, WithinBounds, Plain!WithinBounds
<1>5. /\ \A kind, until : Plain!CallUntil(kind, until) = CallUntil(kind, until)
      /\ \A section, finish : Plain!CallLine(section, finish) = CallLine(section, finish)
      /\ Plain!KernelFor = KernelFor
    BY DEF CallUntil, Plain!CallUntil, CallLine, Plain!CallLine, Request, Plain!Request,
           KernelFor, Plain!KernelFor, NoAddress, Plain!NoAddress
<1> QED BY <1>4, <1>5 DEF LaunchEither, LaunchUntilTurn, Plain!LaunchUntilTurn,
        LaunchElemByElem, Plain!LaunchElemByElem, LaunchLine, Plain!LaunchLine

\* So is a return, which finds no work item with a copy.
LEMMA SeenReturn ==
    ASSUME PrivateInv, PrivateInv', Return, UNCHANGED <<optimised, own>>
    PROVE  Plain!Return
<1>1. /\ AllDone /\ UNCHANGED <<particles, thread>>
      /\ \A t \in Threads : thread[t].pc = "next"
    BY DEF Return, AllDone
<1>2. /\ Seen = particles /\ SeenThread = thread
      /\ Seen' = particles' /\ SeenThread' = thread'
    BY <1>1, ViewIsState, ViewIsStateNext
<1>3. Plain!AllDone /\ Plain!Rest = Rest /\ Plain!NoCall = NoCall
    BY <1>1, <1>2, SameRecords
    DEF AllDone, Plain!AllDone, Rest, Plain!Rest, NoCall, Plain!NoCall, Request,
        Plain!Request
<1> QED BY <1>1, <1>2, <1>3, SameRecords DEF Return, Plain!Return

\* The work items of a plain kernel are seen as they are.
LEMMA SeenPlain ==
    ASSUME PrivateInv, PrivateInv', ~optimised, optimised' = optimised, own' = own,
           NEW t \in Threads, WorkItem(t)
    PROVE  Plain!WorkItem(t)
<1>1. /\ Seen = particles /\ SeenThread = thread
      /\ Seen' = particles' /\ SeenThread' = thread'
    BY ViewIsState, ViewIsStateNext
<1>2. EnterParticle(t) => Plain!EnterParticle(t)
    BY <1>1, SameRecords, SamePlaces DEF EnterParticle, Plain!EnterParticle
<1>3. SkipParticle(t) => Plain!SkipParticle(t)
    BY <1>1, SameRecords, SamePlaces DEF SkipParticle, Plain!SkipParticle
<1>4. StoreElemByElem(t) => Plain!StoreElemByElem(t)
    BY <1>1, SameSlots, SamePlaces DEF StoreElemByElem, Plain!StoreElemByElem
<1>5. TrackElement(t) => Plain!TrackElement(t)
    BY <1>1, SameElements DEF TrackElement, Plain!TrackElement
<1>6. TrackNext(t) => Plain!TrackNext(t)
    BY <1>1, <1>5, SameRecords, SamePlaces DEF TrackNext, Plain!TrackNext
<1>7. TrackTurnEnd(t) => Plain!TrackTurnEnd(t)
    BY <1>1, <1>5, SameRecords, SamePlaces DEF TrackTurnEnd, Plain!TrackTurnEnd
<1>8. TrackLineEnd(t) => Plain!TrackLineEnd(t)
    BY <1>1, <1>5, SameRecords, SamePlaces DEF TrackLineEnd, Plain!TrackLineEnd
<1>9. TrackStop(t) => Plain!TrackStop(t)
    BY <1>1, SameElements, SameRecords, SamePlaces DEF TrackStop, Plain!TrackStop
<1> QED BY <1>2, <1>3, <1>4, <1>6, <1>7, <1>8, <1>9 DEF WorkItem, Plain!WorkItem

\* A step in which nothing changes is seen as one.
LEMMA SeenStutter ==
    ASSUME UNCHANGED pvars
    PROVE  UNCHANGED Plain!vars
    BY DEF pvars, vars, Plain!vars, Seen, SeenThread, HoldsCopy, Advance

\* The optimised kernels implement the plain ones: whatever an optimised
\* kernel does to particles and output, a plain kernel could have done.
THEOREM PrivateImplementsPlain == PrivateSpec => ImplementsPlainKernels
<1>1. PrivateInit => Plain!Init
    BY SeenInit
<1>2. PrivateInv /\ PrivateInv' /\ [PrivateNextState]_pvars => [Plain!Next]_(Plain!vars)
    <2> SUFFICES ASSUME PrivateInv, PrivateInv', [PrivateNextState]_pvars
                 PROVE  [Plain!Next]_(Plain!vars)
        OBVIOUS
    <2>1. CASE LaunchEither
        BY <2>1, SeenLaunch DEF Plain!Next
    <2>2. ASSUME NEW t \in Threads, EitherWorkItem(t)
          PROVE  [Plain!Next]_(Plain!vars)
        <3>1. optimised' = optimised
            BY <2>2 DEF EitherWorkItem
        <3>2. CASE ~optimised /\ WorkItem(t) /\ own' = own
            <4>1. Plain!WorkItem(t)
                BY <3>1, <3>2, SeenPlain
            <4> QED BY <4>1, SameRecords DEF Plain!Next
        <3>3. CASE optimised /\ CopyBack(t)
            <4>1. Seen' = Seen /\ SeenThread' = SeenThread
                BY <3>1, <3>3, ViewOfCopyBack
            <4> QED BY <3>3, <4>1 DEF CopyBack, Plain!vars
        <3>4. CASE optimised /\ PrivateWorkItem(t) /\ ~CopyBack(t)
            <4>1. Plain!WorkItem(t)
                BY <3>1, <3>4, SeenEnter, SeenSkip, SeenStore, SeenLoop
                DEF PrivateWorkItem, Plain!WorkItem
            <4> QED BY <4>1, SameRecords DEF Plain!Next
        <3> QED BY <2>2, <3>2, <3>3, <3>4 DEF EitherWorkItem
    <2>3. CASE Return /\ UNCHANGED <<optimised, own>>
        BY <2>3, SeenReturn DEF Plain!Next
    <2>4. CASE UNCHANGED pvars
        BY <2>4, SeenStutter
    <2> QED BY <2>1, <2>2, <2>3, <2>4 DEF PrivateNextState
<1> QED BY <1>1, <1>2, PrivateInvariant, PTL
        DEF PrivateSpec, ImplementsPlainKernels, Plain!Spec

-----------------------------------------------------------------------------
(* What is proved of the plain kernels is true of particles as they are    *)
(* seen.  The theorems are those of Tracking_proofs under the view; that   *)
(* their module and Plain say the same is by expanding every definition.   *)

PlainTheorems == INSTANCE Tracking_proofs WITH
    particles <- Seen, thread <- SeenThread

\* The theorems rest on assumptions about constants only.
LEMMA SameAssumptions ==
    /\ PlainTheorems!BeamlineAssumption /\ PlainTheorems!ConfigFromApi
    /\ PlainTheorems!UniqueIds /\ PlainTheorems!ThreadsAssumption
    BY BeamlineAssumption, ConfigFromApi, UniqueIds, ThreadsAssumption, Zenon
       DEF TurnElemParticles, PlainTheorems!TurnElemParticles, InvalidOrder,
           PlainTheorems!InvalidOrder, Orders, PlainTheorems!Orders, Configs,
           PlainTheorems!Configs, ValidWindow, PlainTheorems!ValidWindow,
           WindowConsistent, PlainTheorems!WindowConsistent, WindowEmpty,
           PlainTheorems!WindowEmpty, Monitors, PlainTheorems!Monitors, Particles,
           PlainTheorems!Particles, Elements, PlainTheorems!Elements, Kinds,
           PlainTheorems!Kinds, MonitorElements, PlainTheorems!MonitorElements,
           BeamlineAssumption, PlainTheorems!BeamlineAssumption, ConfigFromApi,
           PlainTheorems!ConfigFromApi, UniqueIds, PlainTheorems!UniqueIds,
           ThreadsAssumption, PlainTheorems!ThreadsAssumption

LEMMA SameInit == Plain!Init => PlainTheorems!Init
    BY Zenon
       DEF Plain!OutStoreNumParticles, PlainTheorems!OutStoreNumParticles,
           Plain!Particles, PlainTheorems!Particles, Plain!Elements,
           PlainTheorems!Elements, Plain!MonitorElements,
           PlainTheorems!MonitorElements, Plain!ElemSlots, PlainTheorems!ElemSlots,
           Plain!MonSlots, PlainTheorems!MonSlots, Plain!Fresh,
           PlainTheorems!Fresh, Plain!NoElemOutput, PlainTheorems!NoElemOutput,
           Plain!NoMonOutput, PlainTheorems!NoMonOutput, Plain!Request,
           PlainTheorems!Request, Plain!NoCall, PlainTheorems!NoCall,
           Plain!Threads, PlainTheorems!Threads, Plain!AtNext,
           PlainTheorems!AtNext, Plain!Rest, PlainTheorems!Rest, Plain!Init,
           PlainTheorems!Init

LEMMA SameNext == [Plain!Next]_(Plain!vars) => [PlainTheorems!Next]_(PlainTheorems!vars)
    BY ZenonT(60)
       DEF Plain!TurnElemParticles, PlainTheorems!TurnElemParticles,
           Plain!NoAddress, PlainTheorems!NoAddress, Plain!OutStoreNumParticles,
           PlainTheorems!OutStoreNumParticles, Plain!InWindow,
           PlainTheorems!InWindow, Plain!FlatIndex, PlainTheorems!FlatIndex,
           Plain!Wrapped, PlainTheorems!Wrapped, Plain!StoreIndex,
           PlainTheorems!StoreIndex, Plain!NullAddress, PlainTheorems!NullAddress,
           Plain!ParticlesPerTurn, PlainTheorems!ParticlesPerTurn, Plain!StoreRow,
           PlainTheorems!StoreRow, Plain!Samples, PlainTheorems!Samples,
           Plain!StoreParticleIndex, PlainTheorems!StoreParticleIndex,
           Plain!Particles, PlainTheorems!Particles, Plain!ElemSlots,
           PlainTheorems!ElemSlots, Plain!MonSlots, PlainTheorems!MonSlots,
           Plain!Request, PlainTheorems!Request, Plain!NoCall,
           PlainTheorems!NoCall, Plain!CallUntil, PlainTheorems!CallUntil,
           Plain!CallLine, PlainTheorems!CallLine, Plain!WithinBounds,
           PlainTheorems!WithinBounds, Plain!KernelFor, PlainTheorems!KernelFor,
           Plain!Lost, PlainTheorems!Lost, Plain!ElementPassed,
           PlainTheorems!ElementPassed, Plain!TurnFinished,
           PlainTheorems!TurnFinished, Plain!MonIndex, PlainTheorems!MonIndex,
           Plain!MonitorActs, PlainTheorems!MonitorActs, Plain!MonitorStores,
           PlainTheorems!MonitorStores, Plain!Outcome, PlainTheorems!Outcome,
           Plain!Outcomes, PlainTheorems!Outcomes, Plain!Continues,
           PlainTheorems!Continues, Plain!Passes, PlainTheorems!Passes,
           Plain!MonStoreAfter, PlainTheorems!MonStoreAfter, Plain!Threads,
           PlainTheorems!Threads, Plain!vars, PlainTheorems!vars, Plain!AtNext,
           PlainTheorems!AtNext, Plain!Idle, PlainTheorems!Idle, Plain!Rest,
           PlainTheorems!Rest, Plain!Launch, PlainTheorems!Launch,
           Plain!LaunchUntilTurn, PlainTheorems!LaunchUntilTurn,
           Plain!LaunchElemByElem, PlainTheorems!LaunchElemByElem,
           Plain!LaunchLine, PlainTheorems!LaunchLine, Plain!Enters,
           PlainTheorems!Enters, Plain!Advance, PlainTheorems!Advance,
           Plain!InLoop, PlainTheorems!InLoop, Plain!NextElement,
           PlainTheorems!NextElement, Plain!NextTurn, PlainTheorems!NextTurn,
           Plain!EnterParticle, PlainTheorems!EnterParticle, Plain!FinishesTurn,
           PlainTheorems!FinishesTurn, Plain!SkipParticle,
           PlainTheorems!SkipParticle, Plain!OutIndex, PlainTheorems!OutIndex,
           Plain!StoreElemByElem, PlainTheorems!StoreElemByElem,
           Plain!TrackElement, PlainTheorems!TrackElement, Plain!TrackNext,
           PlainTheorems!TrackNext, Plain!TrackTurnEnd, PlainTheorems!TrackTurnEnd,
           Plain!TrackLineEnd, PlainTheorems!TrackLineEnd, Plain!StopState,
           PlainTheorems!StopState, Plain!StatusAfter, PlainTheorems!StatusAfter,
           Plain!TrackStop, PlainTheorems!TrackStop, Plain!AllDone,
           PlainTheorems!AllDone, Plain!Return, PlainTheorems!Return,
           Plain!WorkItem, PlainTheorems!WorkItem, Plain!Next, PlainTheorems!Next

LEMMA SameInductiveInv == PlainTheorems!InductiveInv => Plain!InductiveInv
    BY Zenon
       DEF Plain!TurnElemParticles, PlainTheorems!TurnElemParticles,
           Plain!OutStoreNumParticles, PlainTheorems!OutStoreNumParticles,
           Plain!InWindow, PlainTheorems!InWindow, Plain!FlatIndex,
           PlainTheorems!FlatIndex, Plain!Wrapped, PlainTheorems!Wrapped,
           Plain!StoreIndex, PlainTheorems!StoreIndex, Plain!Particles,
           PlainTheorems!Particles, Plain!Elements, PlainTheorems!Elements,
           Plain!MonitorElements, PlainTheorems!MonitorElements, Plain!ElemSlots,
           PlainTheorems!ElemSlots, Plain!MonSlots, PlainTheorems!MonSlots,
           Plain!Records, PlainTheorems!Records, Plain!Calls, PlainTheorems!Calls,
           Plain!Threads, PlainTheorems!Threads, Plain!Locals,
           PlainTheorems!Locals, Plain!Idle, PlainTheorems!Idle, Plain!ElemOutput,
           PlainTheorems!ElemOutput, Plain!IsMonOutput, PlainTheorems!IsMonOutput,
           Plain!TypeOK, PlainTheorems!TypeOK, Plain!AtElement,
           PlainTheorems!AtElement, Plain!SlotFaithful, PlainTheorems!SlotFaithful,
           Plain!WorkItemsOwn, PlainTheorems!WorkItemsOwn, Plain!CountersInStep,
           PlainTheorems!CountersInStep, Plain!IdsKept, PlainTheorems!IdsKept,
           Plain!InductiveInv, PlainTheorems!InductiveInv

LEMMA SameNoOutputRace == PlainTheorems!NoOutputRace => Plain!NoOutputRace
    BY Zenon
       DEF Plain!TurnElemParticles, PlainTheorems!TurnElemParticles,
           Plain!OutStoreNumParticles, PlainTheorems!OutStoreNumParticles,
           Plain!InWindow, PlainTheorems!InWindow, Plain!FlatIndex,
           PlainTheorems!FlatIndex, Plain!Wrapped, PlainTheorems!Wrapped,
           Plain!StoreIndex, PlainTheorems!StoreIndex, Plain!NullAddress,
           PlainTheorems!NullAddress, Plain!ParticlesPerTurn,
           PlainTheorems!ParticlesPerTurn, Plain!StoreRow, PlainTheorems!StoreRow,
           Plain!Samples, PlainTheorems!Samples, Plain!StoreParticleIndex,
           PlainTheorems!StoreParticleIndex, Plain!Elements,
           PlainTheorems!Elements, Plain!MonitorElements,
           PlainTheorems!MonitorElements, Plain!ElemSlots, PlainTheorems!ElemSlots,
           Plain!MonSlots, PlainTheorems!MonSlots, Plain!MonIndex,
           PlainTheorems!MonIndex, Plain!MonitorActs, PlainTheorems!MonitorActs,
           Plain!Threads, PlainTheorems!Threads, Plain!OutIndex,
           PlainTheorems!OutIndex, Plain!Writes, PlainTheorems!Writes,
           Plain!WritesMonitor, PlainTheorems!WritesMonitor, Plain!NoOutputRace,
           PlainTheorems!NoOutputRace

\* What the optimised kernels do, seen, is what the theorems speak of.
LEMMA SeenAsPlain == PrivateSpec => PlainTheorems!Spec
<1> QED BY PrivateImplementsPlain, SameInit, SameNext, PTL
        DEF ImplementsPlainKernels, Plain!Spec, PlainTheorems!Spec

\* In any mix of plain and optimised kernels work items own the particles of
\* their stride, and every record is filed under the ids of its particle.
THEOREM PrivateSeenInductive == PrivateSpec => []SeenInductiveInv
<1>1. PlainTheorems!Spec => []PlainTheorems!InductiveInv
    BY PlainTheorems!TrackingInductive, SameAssumptions
<1> QED BY <1>1, SeenAsPlain, SameInductiveInv, PTL DEF SeenInductiveInv

\* No two work items of an optimised kernel, or of a plain one, ever write
\* one output slot, if the monitors were prepared for the particles.
THEOREM PrivateNoOutputRace ==
    ASSUME MonitorsCover
    PROVE  PrivateSpec => []SeenNoOutputRace
<1>1. PlainTheorems!MonitorsCover
    BY Zenon
       DEF Particles, PlainTheorems!Particles, Elements, PlainTheorems!Elements,
           MonitorElements, PlainTheorems!MonitorElements, MonitorsCover,
           PlainTheorems!MonitorsCover
<1>2. PlainTheorems!Spec => []PlainTheorems!NoOutputRace
    BY <1>1, PlainTheorems!TrackingNoOutputRace, SameAssumptions
<1> QED BY <1>2, SeenAsPlain, SameNoOutputRace, PTL DEF SeenNoOutputRace

\* A particle lost in a private copy is seen with the ids, the turn and the
\* state of its loss ever after, and copying it back changes nothing of it;
\* only the first element of a line tracked element by element acts on it.
THEOREM PrivateLostKeepsRecord == PrivateSpec => SeenLostKeepsRecord
<1>1. PlainTheorems!Spec => PlainTheorems!LostKeepsRecord
    BY PlainTheorems!TrackingLostKeepsRecord, SameAssumptions
<1>2. PlainTheorems!LostOnlyAtFirstElement' <=> Plain!LostOnlyAtFirstElement'
    BY DEF PlainTheorems!LostOnlyAtFirstElement, Plain!LostOnlyAtFirstElement,
           PlainTheorems!AtElement, Plain!AtElement, PlainTheorems!Threads,
           Plain!Threads, PlainTheorems!Lost, Plain!Lost
<1>3. [PlainTheorems!LostOnlyAtFirstElement' /\ \A p \in PlainTheorems!Particles :
            PlainTheorems!Lost(Seen[p]) => Seen'[p] = Seen[p]]_(PlainTheorems!vars) =>
      [Plain!LostOnlyAtFirstElement' /\ \A p \in Plain!Particles :
            Plain!Lost(Seen[p]) => Seen'[p] = Seen[p]]_(Plain!vars)
    BY <1>2 DEF PlainTheorems!Particles, Plain!Particles, PlainTheorems!Lost, Plain!Lost,
                PlainTheorems!vars, Plain!vars
<1> QED BY <1>1, <1>3, SeenAsPlain, PTL
        DEF SeenLostKeepsRecord, Plain!LostKeepsRecord, PlainTheorems!LostKeepsRecord

\* No work item of either kind ends the call or changes what was asked.
LEMMA KindKept ==
    ASSUME PrivateInv, NEW t \in Threads, EitherWorkItem(t)
    PROVE  call'.kind = call.kind
<1>1. \A status : [call EXCEPT !.status = status].kind = call.kind
    BY DEF PrivateInv, PrivateTypeOK, Calls
<1>2. ASSUME WorkItem(t) PROVE call'.kind = call.kind
    BY <1>1, <1>2 DEF WorkItem, EnterParticle, SkipParticle, StoreElemByElem, TrackNext,
        TrackTurnEnd, TrackLineEnd, TrackStop, TrackElement
<1>3. ASSUME PrivateWorkItem(t) PROVE call'.kind = call.kind
    BY <1>1, <1>3 DEF PrivateWorkItem, PrivateEnter, PrivateSkip, PrivateStore, PrivateNext,
        PrivateTurnEnd, PrivateLineEnd, PrivateStop, PrivateElement, CopyBack
<1> QED BY <1>2, <1>3 DEF EitherWorkItem

\* A call of kernels of either kind that returns success has taken every
\* particle that is not lost to where it was asked to: no copy is left behind.
THEOREM PrivateSuccessDelivers == PrivateSpec => SuccessDelivers
<1>1. PlainTheorems!Spec => PlainTheorems!SuccessDelivers
    BY PlainTheorems!TrackingSuccessDelivers, SameAssumptions
<1>2. /\ PlainTheorems!Idle = Idle /\ PlainTheorems!Particles = Particles
      /\ \A r : PlainTheorems!Lost(r) = Lost(r)
      /\ \A r, r0 : PlainTheorems!Delivered(r, r0) = Delivered(r, r0)
    BY Zenon DEF PlainTheorems!Idle, Idle, PlainTheorems!Particles, Particles,
        PlainTheorems!Lost, Lost, PlainTheorems!Delivered, Delivered
<1>3. (PlainTheorems!Idle = Idle)'
    BY Zenon DEF PlainTheorems!Idle, Idle
<1>4. ASSUME PrivateInv, PrivateInv', [PrivateNextState]_pvars, ~Idle, Idle'
      PROVE  Seen = particles
    <2>1. call' # call
        BY <1>4 DEF Idle
    <2>2. CASE Return
        BY <1>4, <2>2, ViewIsState DEF Return, AllDone
    <2>3. ASSUME NEW t \in Threads, EitherWorkItem(t) PROVE FALSE
        BY <1>4, <2>3, KindKept DEF Idle
    <2>4. ~LaunchEither
        BY <1>4 DEF LaunchEither, LaunchUntilTurn, LaunchElemByElem, LaunchLine, Launch
    <2>5. pvars' # pvars
        BY <2>1 DEF pvars, vars
    <2> QED BY <1>4, <2>2, <2>3, <2>4, <2>5 DEF PrivateNextState
<1>5. ASSUME PrivateInv, PrivateInv', [PrivateNextState]_pvars,
             [(~PlainTheorems!Idle /\ PlainTheorems!Idle' /\ call.status = "success"
                 /\ NumElements > 0) =>
               \A p \in PlainTheorems!Particles :
                  PlainTheorems!Lost(Seen[p])
                  \/ PlainTheorems!Delivered(Seen[p], begun.particles[p])]_(PlainTheorems!vars)
      PROVE  [(~Idle /\ Idle' /\ call.status = "success" /\ NumElements > 0) =>
               \A p \in Particles :
                  Lost(particles[p]) \/ Delivered(particles[p], begun.particles[p])]_vars
    <2> SUFFICES ASSUME ~Idle, Idle', call.status = "success", NumElements > 0,
                        NEW p \in Particles
                 PROVE  Lost(particles[p]) \/ Delivered(particles[p], begun.particles[p])
        OBVIOUS
    <2>1. Seen = particles
        BY <1>4, <1>5
    <2>2. PlainTheorems!vars' # PlainTheorems!vars
        <3>1. call' # call
            BY DEF Idle
        <3> QED BY <3>1 DEF PlainTheorems!vars
    <2> QED BY <1>2, <1>3, <1>5, <2>1, <2>2
<1> QED BY <1>1, <1>5, SeenAsPlain, PrivateInvariant, PTL
        DEF PrivateSpec, SuccessDelivers, PlainTheorems!SuccessDelivers

\* The atomic calls begin alike on both sides,
LEMMA SameAtomicInit == PlainTheorems!AtomicCalls!Init => Plain!AtomicCalls!Init
    BY Zenon
       DEF Plain!Particles, PlainTheorems!Particles, Plain!Idle, PlainTheorems!Idle,
           Plain!Unfinished, PlainTheorems!Unfinished, Plain!UnfinishedIds,
           PlainTheorems!UnfinishedIds, Plain!Shown, PlainTheorems!Shown,
           Plain!ElemSlots, PlainTheorems!ElemSlots, Plain!OutStoreNumParticles,
           PlainTheorems!OutStoreNumParticles, Plain!MonitorElements,
           PlainTheorems!MonitorElements, Plain!Elements, PlainTheorems!Elements,
           Plain!MonSlots, PlainTheorems!MonSlots,
           Plain!AtomicCalls!OutStoreNumParticles,
           PlainTheorems!AtomicCalls!OutStoreNumParticles, Plain!AtomicCalls!Particles,
           PlainTheorems!AtomicCalls!Particles, Plain!AtomicCalls!Elements,
           PlainTheorems!AtomicCalls!Elements, Plain!AtomicCalls!MonitorElements,
           PlainTheorems!AtomicCalls!MonitorElements, Plain!AtomicCalls!ElemSlots,
           PlainTheorems!AtomicCalls!ElemSlots, Plain!AtomicCalls!MonSlots,
           PlainTheorems!AtomicCalls!MonSlots, Plain!AtomicCalls!Fresh,
           PlainTheorems!AtomicCalls!Fresh, Plain!AtomicCalls!Request,
           PlainTheorems!AtomicCalls!Request, Plain!AtomicCalls!NoCall,
           PlainTheorems!AtomicCalls!NoCall, Plain!AtomicCalls!NoElemOutput,
           PlainTheorems!AtomicCalls!NoElemOutput, Plain!AtomicCalls!NoMonOutput,
           PlainTheorems!AtomicCalls!NoMonOutput, Plain!AtomicCalls!Init,
           PlainTheorems!AtomicCalls!Init

\* and go on alike.
LEMMA SameAtomicNext ==
    [PlainTheorems!AtomicCalls!Next]_(PlainTheorems!AtomicCalls!cvars) =>
    [Plain!AtomicCalls!Next]_(Plain!AtomicCalls!cvars)
<1>1. PlainTheorems!AtomicCalls!cvars = Plain!AtomicCalls!cvars
    BY Zenon
       DEF Plain!Particles, PlainTheorems!Particles, Plain!Idle, PlainTheorems!Idle,
           Plain!Unfinished, PlainTheorems!Unfinished, Plain!UnfinishedIds,
           PlainTheorems!UnfinishedIds, Plain!Shown, PlainTheorems!Shown,
           Plain!ElemSlots, PlainTheorems!ElemSlots, Plain!OutStoreNumParticles,
           PlainTheorems!OutStoreNumParticles, Plain!MonitorElements,
           PlainTheorems!MonitorElements, Plain!Elements, PlainTheorems!Elements,
           Plain!MonSlots, PlainTheorems!MonSlots, Plain!AtomicCalls!cvars,
           PlainTheorems!AtomicCalls!cvars
<1>2. (PlainTheorems!AtomicCalls!cvars = Plain!AtomicCalls!cvars)'
    BY Zenon
       DEF Plain!Particles, PlainTheorems!Particles, Plain!Idle, PlainTheorems!Idle,
           Plain!Unfinished, PlainTheorems!Unfinished, Plain!UnfinishedIds,
           PlainTheorems!UnfinishedIds, Plain!Shown, PlainTheorems!Shown,
           Plain!ElemSlots, PlainTheorems!ElemSlots, Plain!OutStoreNumParticles,
           PlainTheorems!OutStoreNumParticles, Plain!MonitorElements,
           PlainTheorems!MonitorElements, Plain!Elements, PlainTheorems!Elements,
           Plain!MonSlots, PlainTheorems!MonSlots, Plain!AtomicCalls!cvars,
           PlainTheorems!AtomicCalls!cvars
<1>3. PlainTheorems!AtomicCalls!Begin => Plain!AtomicCalls!Begin
    <2>1. \A kind, until :
              PlainTheorems!AtomicCalls!CallUntil(kind, until)
                = Plain!AtomicCalls!CallUntil(kind, until)
        BY Zenon
           DEF Plain!AtomicCalls!Request, PlainTheorems!AtomicCalls!Request,
               Plain!AtomicCalls!CallUntil, PlainTheorems!AtomicCalls!CallUntil
    <2>2. \A section, finish :
              PlainTheorems!AtomicCalls!CallLine(section, finish)
                = Plain!AtomicCalls!CallLine(section, finish)
        BY Zenon
           DEF Plain!AtomicCalls!Request, PlainTheorems!AtomicCalls!Request,
               Plain!AtomicCalls!CallLine, PlainTheorems!AtomicCalls!CallLine
    <2>3. PlainTheorems!AtomicCalls!KernelFor = Plain!AtomicCalls!KernelFor
        BY Zenon
           DEF Plain!AtomicCalls!NoAddress, PlainTheorems!AtomicCalls!NoAddress,
               Plain!AtomicCalls!KernelFor, PlainTheorems!AtomicCalls!KernelFor
    <2>4. PlainTheorems!AtomicCalls!Requests = Plain!AtomicCalls!Requests
        BY <2>1, <2>2, <2>3, SMT DEF PlainTheorems!AtomicCalls!Requests, Plain!AtomicCalls!Requests
    <2> QED BY <2>4, Zenon
       DEF Plain!Particles, PlainTheorems!Particles, Plain!Idle, PlainTheorems!Idle,
           Plain!Unfinished, PlainTheorems!Unfinished, Plain!UnfinishedIds,
           PlainTheorems!UnfinishedIds, Plain!Shown, PlainTheorems!Shown,
           Plain!ElemSlots, PlainTheorems!ElemSlots, Plain!OutStoreNumParticles,
           PlainTheorems!OutStoreNumParticles, Plain!MonitorElements,
           PlainTheorems!MonitorElements, Plain!Elements, PlainTheorems!Elements,
           Plain!MonSlots, PlainTheorems!MonSlots, Plain!AtomicCalls!Particles,
           PlainTheorems!AtomicCalls!Particles, Plain!AtomicCalls!Begin,
           PlainTheorems!AtomicCalls!Begin
<1>4. PlainTheorems!AtomicCalls!End => Plain!AtomicCalls!End
    BY Zenon
       DEF Plain!Particles, PlainTheorems!Particles, Plain!Idle, PlainTheorems!Idle,
           Plain!Unfinished, PlainTheorems!Unfinished, Plain!UnfinishedIds,
           PlainTheorems!UnfinishedIds, Plain!Shown, PlainTheorems!Shown,
           Plain!ElemSlots, PlainTheorems!ElemSlots, Plain!OutStoreNumParticles,
           PlainTheorems!OutStoreNumParticles, Plain!MonitorElements,
           PlainTheorems!MonitorElements, Plain!Elements, PlainTheorems!Elements,
           Plain!MonSlots, PlainTheorems!MonSlots, Plain!AtomicCalls!NoCall,
           PlainTheorems!AtomicCalls!NoCall, Plain!AtomicCalls!Request,
           PlainTheorems!AtomicCalls!Request, Plain!AtomicCalls!End,
           PlainTheorems!AtomicCalls!End
<1>5. ASSUME NEW p, PlainTheorems!AtomicCalls!TrackParticle(p)
      PROVE  Plain!AtomicCalls!TrackParticle(p)
    BY <1>5, ZenonT(60)
       DEF Plain!Particles, PlainTheorems!Particles, Plain!Idle, PlainTheorems!Idle,
           Plain!Unfinished, PlainTheorems!Unfinished, Plain!UnfinishedIds,
           PlainTheorems!UnfinishedIds, Plain!Shown, PlainTheorems!Shown,
           Plain!ElemSlots, PlainTheorems!ElemSlots, Plain!OutStoreNumParticles,
           PlainTheorems!OutStoreNumParticles, Plain!MonitorElements,
           PlainTheorems!MonitorElements, Plain!Elements, PlainTheorems!Elements,
           Plain!MonSlots, PlainTheorems!MonSlots, Plain!AtomicCalls!TurnElemParticles,
           PlainTheorems!AtomicCalls!TurnElemParticles,
           Plain!AtomicCalls!OutStoreNumParticles,
           PlainTheorems!AtomicCalls!OutStoreNumParticles, Plain!AtomicCalls!InWindow,
           PlainTheorems!AtomicCalls!InWindow, Plain!AtomicCalls!FlatIndex,
           PlainTheorems!AtomicCalls!FlatIndex, Plain!AtomicCalls!Wrapped,
           PlainTheorems!AtomicCalls!Wrapped, Plain!AtomicCalls!StoreIndex,
           PlainTheorems!AtomicCalls!StoreIndex, Plain!AtomicCalls!NullAddress,
           PlainTheorems!AtomicCalls!NullAddress, Plain!AtomicCalls!ParticlesPerTurn,
           PlainTheorems!AtomicCalls!ParticlesPerTurn, Plain!AtomicCalls!StoreRow,
           PlainTheorems!AtomicCalls!StoreRow, Plain!AtomicCalls!Samples,
           PlainTheorems!AtomicCalls!Samples, Plain!AtomicCalls!StoreParticleIndex,
           PlainTheorems!AtomicCalls!StoreParticleIndex, Plain!AtomicCalls!Particles,
           PlainTheorems!AtomicCalls!Particles, Plain!AtomicCalls!Elements,
           PlainTheorems!AtomicCalls!Elements, Plain!AtomicCalls!MonitorElements,
           PlainTheorems!AtomicCalls!MonitorElements, Plain!AtomicCalls!ElemSlots,
           PlainTheorems!AtomicCalls!ElemSlots, Plain!AtomicCalls!MonSlots,
           PlainTheorems!AtomicCalls!MonSlots, Plain!AtomicCalls!Lost,
           PlainTheorems!AtomicCalls!Lost, Plain!AtomicCalls!TurnFinished,
           PlainTheorems!AtomicCalls!TurnFinished, Plain!AtomicCalls!MonIndex,
           PlainTheorems!AtomicCalls!MonIndex, Plain!AtomicCalls!MonitorActs,
           PlainTheorems!AtomicCalls!MonitorActs, Plain!AtomicCalls!MonitorStores,
           PlainTheorems!AtomicCalls!MonitorStores, Plain!AtomicCalls!Outcome,
           PlainTheorems!AtomicCalls!Outcome, Plain!AtomicCalls!Outcomes,
           PlainTheorems!AtomicCalls!Outcomes, Plain!AtomicCalls!Continues,
           PlainTheorems!AtomicCalls!Continues, Plain!AtomicCalls!Passes,
           PlainTheorems!AtomicCalls!Passes, Plain!AtomicCalls!Lap,
           PlainTheorems!AtomicCalls!Lap, Plain!AtomicCalls!JourneyLength,
           PlainTheorems!AtomicCalls!JourneyLength, Plain!AtomicCalls!ElementAt,
           PlainTheorems!AtomicCalls!ElementAt, Plain!AtomicCalls!AtPoint,
           PlainTheorems!AtomicCalls!AtPoint, Plain!AtomicCalls!PassesTo,
           PlainTheorems!AtomicCalls!PassesTo, Plain!AtomicCalls!Arrived,
           PlainTheorems!AtomicCalls!Arrived, Plain!AtomicCalls!Arrivals,
           PlainTheorems!AtomicCalls!Arrivals, Plain!AtomicCalls!StopsAt,
           PlainTheorems!AtomicCalls!StopsAt, Plain!AtomicCalls!Ends,
           PlainTheorems!AtomicCalls!Ends, Plain!AtomicCalls!Max,
           PlainTheorems!AtomicCalls!Max, Plain!AtomicCalls!LastOf,
           PlainTheorems!AtomicCalls!LastOf, Plain!AtomicCalls!ElemHits,
           PlainTheorems!AtomicCalls!ElemHits, Plain!AtomicCalls!MonHits,
           PlainTheorems!AtomicCalls!MonHits, Plain!AtomicCalls!TrackParticle,
           PlainTheorems!AtomicCalls!TrackParticle
<1> QED BY <1>1, <1>2, <1>3, <1>4, <1>5, Zenon
    DEF PlainTheorems!AtomicCalls!Next, Plain!AtomicCalls!Next,
        PlainTheorems!AtomicCalls!Particles, Plain!AtomicCalls!Particles

\* Whatever mix of plain and optimised kernels runs on however many work
\* items, the particles and the output are those of tracking the particles
\* one after the other, if no slot of a monitor is computed for two particles.
THEOREM PrivateAtomicCalls ==
    ASSUME MonitorSlotsDistinct
    PROVE  PrivateSpec => SeenAtomicCalls
<1>1. PlainTheorems!MonitorSlotsDistinct
    BY Zenon
       DEF NullAddress, PlainTheorems!NullAddress, ParticlesPerTurn,
           PlainTheorems!ParticlesPerTurn, StoreRow, PlainTheorems!StoreRow, Samples,
           PlainTheorems!Samples, StoreParticleIndex, PlainTheorems!StoreParticleIndex,
           Particles, PlainTheorems!Particles, Elements, PlainTheorems!Elements,
           MonitorElements, PlainTheorems!MonitorElements, MonitorSlotsDistinct,
           PlainTheorems!MonitorSlotsDistinct
<1>2. PlainTheorems!Spec => PlainTheorems!ImplementsAtomicCalls
    BY <1>1, PlainTheorems!TrackingImplementsAtomicCalls, SameAssumptions
<1> QED BY <1>2, SeenAsPlain, SameAtomicInit, SameAtomicNext, PTL
        DEF SeenAtomicCalls, Plain!ImplementsAtomicCalls, Plain!AtomicCalls!Spec,
            PlainTheorems!ImplementsAtomicCalls, PlainTheorems!AtomicCalls!Spec
=============================================================================
