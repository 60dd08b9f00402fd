--------------------------- MODULE Tracking_proofs ---------------------------
(***************************************************************************)
(* Theorems about Tracking, for any number of particles, work items and    *)
(* elements, any line and any configuration.                               *)
(***************************************************************************)
EXTENDS TrackingRefinement, ElemByElemConfig_lemmas

-----------------------------------------------------------------------------
(* What an element does to a particle.                                     *)

\* The dispatcher leaves a state and a status, never revives a lost particle,
\* and lets only particles pass that are not lost.
LEMMA OutcomeFacts ==
    ASSUME NEW e \in Elements, NEW r \in Records, NEW o \in Outcomes(e, r)
    PROVE  /\ o.state \in {0, 1}
           /\ o.status \in {"success", "failure"}
           /\ Lost(r) => o.state = 0 /\ ~Continues(o)
<1>1. Kind[e] \in Kinds /\ r.state \in {0, 1}
    BY BeamlineAssumption DEF Records
<1>2. o \in {Outcome(r.state, "success"), Outcome(0, "success"),
             Outcome(r.state, "failure"), Outcome(0, "failure")}
    BY <1>1 DEF Outcomes, Kinds
<1> QED BY <1>1, <1>2 DEF Lost, Continues, Outcome

\* Only a particle that is not lost gets past an element.
LEMMA PassesAlive ==
    ASSUME NEW e \in Elements, NEW r \in Records, Passes(e, r)
    PROVE  ~Lost(r)
    BY OutcomeFacts DEF Passes

\* A monitor keeps the shape of the output.
LEMMA MonStoreAfterType ==
    ASSUME NEW store, IsMonOutput(store), NEW e \in Elements, NEW r \in Records
    PROVE  IsMonOutput(MonStoreAfter(store, e, r))
<1>1. CASE Kind[e] = "monitor" /\ MonitorStores(e, r)
    <2> DEFINE i == MonIndex(e, r)
               new == [store EXCEPT ![e][i] = r]
    <2>1. e \in MonitorElements /\ i \in MonSlots(e)
        BY <1>1 DEF MonitorElements, MonitorStores
    <2> HIDE DEF i
    <2>2. DOMAIN new = MonitorElements
        BY DEF IsMonOutput
    <2>3. ASSUME NEW f \in MonitorElements
          PROVE  new[f] \in [MonSlots(f) -> Records \cup {Empty}]
        BY <2>1 DEF IsMonOutput
    <2> QED BY <1>1, <2>2, <2>3 DEF MonStoreAfter, IsMonOutput, i
<1>2. CASE ~ (Kind[e] = "monitor" /\ MonitorStores(e, r))
    BY <1>2 DEF MonStoreAfter
<1> QED BY <1>1, <1>2

\* The bookkeeping of a particle keeps its shape and its id.
LEMMA TurnFinishedRecord ==
    ASSUME NEW r \in Records, NEW n \in Nat
    PROVE  /\ TurnFinished(r, n) \in Records
           /\ TurnFinished(r, n).particle_id = r.particle_id
           /\ TurnFinished(r, n).at_element_id = n
           /\ TurnFinished(r, n).at_turn = r.at_turn + 1
    BY DEF TurnFinished, Records

\* So does the bookkeeping after an element, which moves the element id by one.
LEMMA ElementPassedRecord ==
    ASSUME NEW r \in Records
    PROVE  /\ ElementPassed(r) \in Records
           /\ ElementPassed(r).particle_id = r.particle_id
           /\ ElementPassed(r).at_element_id = r.at_element_id + 1
           /\ ElementPassed(r).at_turn = r.at_turn
    BY DEF ElementPassed, Records

\* Stopping a particle changes its state and nothing else of its record.
LEMMA StoppedRecord ==
    ASSUME NEW r \in Records, NEW s \in {0, 1}
    PROVE  /\ [r EXCEPT !.state = s] \in Records
           /\ [r EXCEPT !.state = s].particle_id = r.particle_id
           /\ [r EXCEPT !.state = s].at_element_id = r.at_element_id
           /\ [r EXCEPT !.state = s].at_turn = r.at_turn
    BY DEF Records

-----------------------------------------------------------------------------
(* Work items.                                                             *)

\* Stepping by the stride keeps a work item on its own particles.
LEMMA StrideKeepsRemainder ==
    ASSUME NEW t \in Threads, NEW x \in Nat, x % NumThreads = t
    PROVE  (x + NumThreads) % NumThreads = t
<1>1. PICK n \in Nat \ {0} : n = NumThreads
    BY ThreadsAssumption
<1>2. PICK q \in Int : q = x \div n
    BY <1>1
<1>3. t \in 0 .. n - 1
    BY <1>1 DEF Threads
<1>4. x = q * n + t
    BY <1>1, <1>2
<1>5. x + n = (q + 1) * n + t
    <2>1. PICK y \in Int : y = q * n
        BY <1>1, <1>2
    <2>2. (q + 1) * n = y + n
        BY <1>1, <1>2, <2>1
    <2> QED BY <1>1, <1>3, <1>4, <2>1, <2>2
<1>6. ((q + 1) * n + t) % n = t
    <2>1. PICK j \in Int : j = q + 1
        BY <1>2
    <2>2. (j * n + t) % n = t
        BY <1>3, DivModRadix
    <2> QED BY <2>1, <2>2
<1> QED BY <1>1, <1>5, <1>6

\* The first particle of a work item is the one with its own number.
LEMMA OwnRemainder ==
    ASSUME NEW t \in Threads
    PROVE  t % NumThreads = t /\ t \in Nat
    BY ThreadsAssumption, SmallMod DEF Threads

\* Work items that own their particles share none.
LEMMA OwnersDiffer ==
    ASSUME TypeOK, WorkItemsOwn,
           NEW s \in Threads, NEW t \in Threads, s # t
    PROVE  thread[s].pidx # thread[t].pidx
    BY DEF WorkItemsOwn

\* A work item that moves on to its next particle.
LEMMA AdvanceFacts ==
    ASSUME TypeOK, WorkItemsOwn, NEW t \in Threads
    PROVE  /\ Advance(t) \in Locals
           /\ Advance(t).pc = "next"
           /\ Advance(t).pidx % NumThreads = t
<1>1. thread[t].pidx \in Nat /\ thread[t].pidx % NumThreads = t
    BY DEF TypeOK, Locals, WorkItemsOwn
<1>2. (thread[t].pidx + NumThreads) % NumThreads = t
    BY <1>1, StrideKeepsRemainder
<1>3. thread[t].pidx + NumThreads \in Nat
    BY <1>1, ThreadsAssumption
<1> QED BY <1>2, <1>3 DEF Advance, AtNext, Locals

-----------------------------------------------------------------------------
(* The inductive invariant.                                                *)

\* The inductive invariant holds before the first call.
LEMMA InitInductive == Init => InductiveInv
<1> SUFFICES ASSUME Init PROVE InductiveInv
    OBVIOUS
<1>1. TypeOK
    <2>1. Fresh \in [Particles -> Records]
        BY BeamlineAssumption DEF Fresh, Records
    <2>2. thread \in [Threads -> Locals]
        BY OwnRemainder DEF Init, AtNext, Locals
    <2>3. NoCall \in Calls
        BY DEF NoCall, Request, Calls
    <2>4. NoElemOutput \in ElemOutput /\ IsMonOutput(NoMonOutput)
        BY DEF NoElemOutput, ElemOutput, NoMonOutput, IsMonOutput
    <2> QED BY <2>1, <2>2, <2>3, <2>4, BeamlineAssumption
            DEF Init, TypeOK, Rest, NoCall, Request
<1>2. WorkItemsOwn
    BY OwnRemainder DEF Init, WorkItemsOwn, AtNext, AtElement
<1>3. CountersInStep
    BY DEF Init, CountersInStep, AtElement, AtNext
<1>4. IdsKept
    BY DEF Init, IdsKept, Fresh
<1>5. SlotFaithful
    BY DEF Init, SlotFaithful, NoElemOutput
<1> QED BY <1>1, <1>2, <1>3, <1>4, <1>5 DEF InductiveInv

\* A launch is well formed: its section lies inside the line.
LEMMA RequestFacts ==
    /\ \A until \in UntilTurns, kind \in {"until_turn", "elem_by_elem"} :
          LET c == CallUntil(kind, until)
          IN  c \in Calls /\ c.first = 0 /\ c.last = NumElements
    /\ \A section \in Sections, finish \in BOOLEAN :
          LET c == CallLine(section, finish)
          IN  c \in Calls /\ c.kind = "line" /\ c.first <= c.last
              /\ c.last <= NumElements
    /\ KernelFor \in {"until_turn", "elem_by_elem"}
    BY BeamlineAssumption DEF Calls, CallUntil, CallLine, Request, KernelFor

\* Launching a kernel sends every work item to the first of its particles.
LEMMA LaunchStep ==
    ASSUME InductiveInv, NEW c \in Calls, Launch(c),
           c.first <= c.last, c.last <= NumElements,
           c.kind \in {"until_turn", "elem_by_elem"} =>
                c.first = 0 /\ c.last = NumElements
    PROVE  InductiveInv'
<1> USE DEF Launch, InductiveInv
<1>1. /\ thread' = [t \in Threads |-> AtNext(t)]
      /\ thread' \in [Threads -> Locals]
      /\ \A t \in Threads : thread'[t].pc = "next" /\ thread'[t].pidx = t
    BY OwnRemainder DEF AtNext, Locals
<1>2. TypeOK'
    BY <1>1 DEF TypeOK
<1>3. WorkItemsOwn'
    BY <1>1, OwnRemainder DEF WorkItemsOwn, AtElement
<1>4. CountersInStep'
    BY <1>1 DEF CountersInStep, AtElement
<1>5. IdsKept' /\ SlotFaithful'
    BY DEF IdsKept, SlotFaithful
<1> QED BY <1>2, <1>3, <1>4, <1>5

\* A work item that enters the loop is at an element, with the element id and
\* turn of its particle.
LEMMA EnterStep ==
    ASSUME InductiveInv, NEW t \in Threads, EnterParticle(t)
    PROVE  InductiveInv'
<1> DEFINE p == thread[t].pidx
           r == particles[p]
           l == InLoop(p, call.first, r.at_element_id, r.at_element_id, r.at_turn)
<1>1. /\ ~Idle /\ p \in Particles /\ Enters(r)
      /\ thread' = [thread EXCEPT ![t] = l]
      /\ UNCHANGED <<particles, call, elem_store, mon_store, begun>>
    BY DEF EnterParticle
<1>2. /\ p \in Nat /\ r \in Records /\ p % NumThreads = t
      /\ thread \in [Threads -> Locals] /\ call \in Calls
      /\ call.first <= call.last /\ call.last <= NumElements
      /\ call.kind \in {"until_turn", "elem_by_elem"} =>
            call.first = 0 /\ call.last = NumElements
    BY <1>1 DEF InductiveInv, TypeOK, WorkItemsOwn, Locals
<1>3. /\ r.at_element_id \in Nat /\ r.at_turn \in Nat /\ call.first \in Nat
      /\ call.last \in Nat
      /\ call.kind \in {"none", "until_turn", "elem_by_elem", "line"}
    BY <1>2 DEF Records, Calls
<1>4. /\ l \in Locals /\ l.pidx = p /\ l.be = call.first /\ l.pc # "next"
      /\ l.elem = r.at_element_id /\ l.turn = r.at_turn
      /\ l.pc = "store" => call.kind = "elem_by_elem"
    BY <1>2, <1>3 DEF InLoop, Locals
<1>5. call.first < call.last
    <2>1. CASE call.kind = "line"
        BY <1>1, <1>2, <1>3, <2>1 DEF Enters
    <2>2. CASE call.kind # "line"
        <3>1. NumElements > 0 /\ call.kind \in {"until_turn", "elem_by_elem"}
            BY <1>1, <1>3, <2>2 DEF Enters, Idle
        <3> QED BY <1>2, <1>3, <3>1
    <2> QED BY <2>1, <2>2
<1> HIDE DEF l
<1>6. TypeOK'
    BY <1>1, <1>2, <1>4 DEF InductiveInv, TypeOK
<1>7. WorkItemsOwn'
    BY <1>1, <1>2, <1>4, <1>5 DEF InductiveInv, WorkItemsOwn, AtElement, Idle
<1>8. CountersInStep'
    BY <1>1, <1>2, <1>4 DEF InductiveInv, CountersInStep, AtElement
<1>9. IdsKept' /\ SlotFaithful'
    BY <1>1 DEF InductiveInv, IdsKept, SlotFaithful
<1> QED BY <1>6, <1>7, <1>8, <1>9 DEF InductiveInv

\* What all the other steps of a work item have in common: it changes its own
\* particle and its own locals, and leaves the element by element store alone.
LEMMA OwnStep ==
    ASSUME InductiveInv, NEW t \in Threads, NEW r \in Records, NEW l \in Locals,
           thread[t].pidx \in Particles,
           r.particle_id = particles[thread[t].pidx].particle_id,
           l.pidx % NumThreads = t,
           l.pc # "next" => /\ l.pidx = thread[t].pidx /\ l.be < call.last /\ ~Idle
                            /\ l.elem = r.at_element_id /\ l.turn = r.at_turn,
           l.pc = "store" => call.kind = "elem_by_elem",
           particles' = [particles EXCEPT ![thread[t].pidx] = r],
           thread' = [thread EXCEPT ![t] = l],
           call' \in Calls, call'.kind = call.kind, call'.first = call.first,
           call'.last = call.last,
           IsMonOutput(mon_store'), UNCHANGED <<elem_store, begun>>
    PROVE  InductiveInv'
<1> DEFINE p == thread[t].pidx
<1>1. /\ particles \in [Particles -> Records] /\ thread \in [Threads -> Locals]
      /\ p \in Particles
    BY DEF InductiveInv, TypeOK
<1>2. \A s \in Threads : s # t => thread[s].pidx # p
    BY OwnersDiffer DEF InductiveInv
<1>3. \A s \in Threads : thread'[s] = IF s = t THEN l ELSE thread[s]
    BY <1>1
<1>4. \A q \in Particles : particles'[q] = IF q = p THEN r ELSE particles[q]
    BY <1>1
<1>5. TypeOK'
    BY <1>1 DEF InductiveInv, TypeOK
<1>6. WorkItemsOwn'
    BY <1>1, <1>3 DEF InductiveInv, WorkItemsOwn, AtElement, Idle
<1>7. CountersInStep'
    BY <1>1, <1>2, <1>3, <1>4
    DEF InductiveInv, CountersInStep, AtElement, WorkItemsOwn
<1>8. IdsKept' /\ SlotFaithful'
    BY <1>1, <1>4 DEF InductiveInv, IdsKept, SlotFaithful
<1> QED BY <1>5, <1>6, <1>7, <1>8 DEF InductiveInv

\* A particle that is passed over leaves the work item at its next one.
LEMMA SkipStep ==
    ASSUME InductiveInv, NEW t \in Threads, SkipParticle(t)
    PROVE  InductiveInv'
<1> DEFINE p == thread[t].pidx
           r == IF FinishesTurn(particles[p])
                THEN TurnFinished(particles[p], 0) ELSE particles[p]
<1>1. /\ p \in Particles /\ thread' = [thread EXCEPT ![t] = Advance(t)]
      /\ call' = IF call.kind = "until_turn" /\ NumElements = 0
                 THEN [call EXCEPT !.status = "failure"] ELSE call
      /\ UNCHANGED <<elem_store, mon_store, begun>>
    BY DEF SkipParticle
<1>2. /\ particles \in [Particles -> Records] /\ call \in Calls
      /\ IsMonOutput(mon_store)
    BY DEF InductiveInv, TypeOK
<1>3. r \in Records /\ r.particle_id = particles[p].particle_id
    BY <1>1, <1>2, TurnFinishedRecord
<1>4. particles' = [particles EXCEPT ![p] = r]
    BY <1>1, <1>2 DEF SkipParticle
<1>5. /\ Advance(t) \in Locals /\ Advance(t).pc = "next"
      /\ Advance(t).pidx % NumThreads = t
    BY AdvanceFacts DEF InductiveInv
<1>6. /\ call' \in Calls /\ call'.kind = call.kind /\ call'.first = call.first
      /\ call'.last = call.last
    BY <1>1, <1>2 DEF Calls
<1>7. IsMonOutput(mon_store')
    BY <1>1, <1>2 DEF IsMonOutput
<1> HIDE DEF r, p
<1> QED BY <1>1, <1>3, <1>4, <1>5, <1>6, <1>7, OwnStep DEF p

\* What is copied to the element by element store lands in the slot of its
\* own ids.
LEMMA StoreStep ==
    ASSUME InductiveInv, NEW t \in Threads, StoreElemByElem(t)
    PROVE  InductiveInv'
<1> DEFINE p == thread[t].pidx
           r == particles[p]
           i == OutIndex(t)
<1>1. /\ thread[t].pc = "store"
      /\ elem_store' = IF i \in ElemSlots
                       THEN [elem_store EXCEPT ![i] = r] ELSE elem_store
      /\ thread' = [thread EXCEPT ![t].pc = "track"]
      /\ UNCHANGED <<particles, call, mon_store, begun>>
    BY DEF StoreElemByElem
<1>2. /\ p \in Particles /\ r \in Records /\ r.particle_id = ParticleId[p]
      /\ thread[t].elem = r.at_element_id /\ thread[t].turn = r.at_turn
      /\ thread \in [Threads -> Locals] /\ elem_store \in ElemOutput
    BY <1>1 DEF InductiveInv, TypeOK, WorkItemsOwn, CountersInStep, IdsKept,
                AtElement
<1>3. i = StoreIndex(Config, r.particle_id, r.at_element_id, r.at_turn)
    BY <1>2 DEF OutIndex
<1>4. /\ thread' \in [Threads -> Locals]
      /\ \A s \in Threads :
            /\ thread'[s].pidx = thread[s].pidx /\ thread'[s].be = thread[s].be
            /\ thread'[s].elem = thread[s].elem /\ thread'[s].turn = thread[s].turn
            /\ thread'[s].pc = IF s = t THEN "track" ELSE thread[s].pc
    BY <1>1, <1>2 DEF Locals
<1> HIDE DEF i
<1>5. TypeOK'
    BY <1>1, <1>2, <1>4 DEF InductiveInv, TypeOK, ElemOutput
<1>6. WorkItemsOwn'
    BY <1>1, <1>4 DEF InductiveInv, WorkItemsOwn, AtElement, Idle
<1>7. CountersInStep'
    BY <1>1, <1>4 DEF InductiveInv, CountersInStep, AtElement
<1>8. SlotFaithful'
    BY <1>1, <1>2, <1>3 DEF InductiveInv, SlotFaithful, ElemOutput
<1>9. IdsKept'
    BY <1>1 DEF InductiveInv, IdsKept
<1> QED BY <1>5, <1>6, <1>7, <1>8, <1>9 DEF InductiveInv

\* A work item in the loop is at an element of the line.
LEMMA AtElementFacts ==
    ASSUME InductiveInv, NEW t \in Threads, AtElement(t)
    PROVE  /\ thread[t].pidx \in Particles
           /\ thread[t].pidx % NumThreads = t
           /\ thread[t].be \in Elements /\ thread[t].be < call.last
           /\ particles[thread[t].pidx] \in Records
           /\ thread[t].elem = particles[thread[t].pidx].at_element_id
           /\ thread[t].turn = particles[thread[t].pidx].at_turn
           /\ thread[t] \in Locals /\ call \in Calls /\ ~Idle
<1>1. /\ thread[t].pidx \in Particles /\ thread[t].be < call.last
      /\ thread[t] \in Locals /\ call \in Calls /\ call.last <= NumElements
    BY DEF InductiveInv, WorkItemsOwn, TypeOK
<1>2. thread[t].be \in Elements
    BY <1>1, BeamlineAssumption DEF Locals, Calls, Elements
<1> QED BY <1>1, <1>2 DEF InductiveInv, WorkItemsOwn, TypeOK, CountersInStep

\* Inside a turn, the element id counted beside the particle moves with it.
LEMMA TrackNextStep ==
    ASSUME InductiveInv, NEW t \in Threads, TrackNext(t)
    PROVE  InductiveInv'
<1> DEFINE p == thread[t].pidx
           r == ElementPassed(particles[p])
           l == NextElement(t)
<1>1. /\ AtElement(t) /\ thread[t].be + 1 < call.last
      /\ mon_store' = MonStoreAfter(mon_store, thread[t].be, particles[p])
      /\ particles' = [particles EXCEPT ![p] = ElementPassed(@)]
      /\ thread' = [thread EXCEPT ![t] = l]
      /\ UNCHANGED <<call, elem_store, begun>>
    BY DEF TrackNext, TrackElement, AtElement
<1>2. /\ p \in Particles /\ p % NumThreads = t /\ thread[t].be \in Elements
      /\ particles[p] \in Records /\ thread[t] \in Locals /\ call \in Calls
      /\ thread[t].elem = particles[p].at_element_id
      /\ thread[t].turn = particles[p].at_turn /\ ~Idle
    BY <1>1, AtElementFacts
<1>3. /\ r \in Records /\ r.particle_id = particles[p].particle_id
      /\ r.at_element_id = particles[p].at_element_id + 1
      /\ r.at_turn = particles[p].at_turn
    BY <1>2, ElementPassedRecord
<1>4. /\ l \in Locals /\ l.pidx = p /\ l.be = thread[t].be + 1
      /\ l.elem = r.at_element_id /\ l.turn = r.at_turn
      /\ l.pc = "store" => call.kind = "elem_by_elem"
    BY <1>2, <1>3 DEF NextElement, InLoop, Locals
<1>5. IsMonOutput(mon_store')
    BY <1>1, <1>2, MonStoreAfterType DEF InductiveInv, TypeOK
<1>6. particles' = [particles EXCEPT ![p] = r]
    BY <1>1
<1> HIDE DEF r, l, p
<1> QED BY <1>1, <1>2, <1>3, <1>4, <1>5, <1>6, OwnStep DEF p

\* At the end of a turn both counts go back to where the particle started.
LEMMA TrackTurnEndStep ==
    ASSUME InductiveInv, NEW t \in Threads, TrackTurnEnd(t)
    PROVE  InductiveInv'
<1> DEFINE p == thread[t].pidx
           r == TurnFinished(particles[p], thread[t].start)
           l == IF particles[p].at_turn + 1 < call.until
                THEN NextTurn(t) ELSE Advance(t)
<1>1. /\ AtElement(t) /\ thread[t].be + 1 = call.last
      /\ mon_store' = MonStoreAfter(mon_store, thread[t].be, particles[p])
      /\ particles' = [particles EXCEPT ![p] = r]
      /\ thread' = [thread EXCEPT ![t] = l]
      /\ UNCHANGED <<call, elem_store, begun>>
    BY DEF TrackTurnEnd, TrackElement, AtElement
<1>2. /\ p \in Particles /\ p % NumThreads = t /\ thread[t].be \in Elements
      /\ particles[p] \in Records /\ thread[t] \in Locals /\ call \in Calls
      /\ thread[t].turn = particles[p].at_turn /\ ~Idle
    BY <1>1, AtElementFacts
<1>3. /\ r \in Records /\ r.particle_id = particles[p].particle_id
      /\ r.at_element_id = thread[t].start
      /\ r.at_turn = particles[p].at_turn + 1
    BY <1>2, TurnFinishedRecord DEF Locals
<1>4. /\ NextTurn(t) \in Locals /\ NextTurn(t).pidx = p /\ NextTurn(t).be = 0
      /\ NextTurn(t).elem = r.at_element_id /\ NextTurn(t).turn = r.at_turn
      /\ NextTurn(t).pc = "store" => call.kind = "elem_by_elem"
    BY <1>2, <1>3 DEF NextTurn, InLoop, Locals
<1>5. /\ Advance(t) \in Locals /\ Advance(t).pc = "next"
      /\ Advance(t).pidx % NumThreads = t
    BY AdvanceFacts DEF InductiveInv
<1>6. 0 < call.last
    BY <1>1, <1>2, BeamlineAssumption DEF Elements
<1>7. /\ l \in Locals /\ l.pidx % NumThreads = t
      /\ l.pc # "next" => /\ l.pidx = p /\ l.be < call.last
                          /\ l.elem = r.at_element_id /\ l.turn = r.at_turn
      /\ l.pc = "store" => call.kind = "elem_by_elem"
    BY <1>2, <1>4, <1>5, <1>6
<1>8. IsMonOutput(mon_store')
    BY <1>1, <1>2, MonStoreAfterType DEF InductiveInv, TypeOK
<1> HIDE DEF r, l, p
<1> QED BY <1>1, <1>2, <1>3, <1>7, <1>8, OwnStep DEF p

\* At the end of a section the work item leaves the particle.
LEMMA TrackLineEndStep ==
    ASSUME InductiveInv, NEW t \in Threads, TrackLineEnd(t)
    PROVE  InductiveInv'
<1> DEFINE p == thread[t].pidx
           r == IF call.finish_turn THEN TurnFinished(particles[p], 0)
                ELSE ElementPassed(particles[p])
<1>1. /\ AtElement(t)
      /\ mon_store' = MonStoreAfter(mon_store, thread[t].be, particles[p])
      /\ thread' = [thread EXCEPT ![t] = Advance(t)]
      /\ UNCHANGED <<call, elem_store, begun>>
    BY DEF TrackLineEnd, TrackElement, AtElement
<1>2. /\ p \in Particles /\ thread[t].be \in Elements
      /\ particles[p] \in Records /\ call \in Calls
    BY <1>1, AtElementFacts
<1>3. r \in Records /\ r.particle_id = particles[p].particle_id
    BY <1>2, TurnFinishedRecord, ElementPassedRecord
<1>4. particles' = [particles EXCEPT ![p] = r]
    BY DEF TrackLineEnd
<1>5. /\ Advance(t) \in Locals /\ Advance(t).pc = "next"
      /\ Advance(t).pidx % NumThreads = t
    BY AdvanceFacts DEF InductiveInv
<1>6. IsMonOutput(mon_store')
    BY <1>1, <1>2, MonStoreAfterType DEF InductiveInv, TypeOK
<1> HIDE DEF r, p
<1> QED BY <1>1, <1>2, <1>3, <1>4, <1>5, <1>6, OwnStep DEF p

\* So it does when an element stopped the particle.
LEMMA TrackStopStep ==
    ASSUME InductiveInv, NEW t \in Threads, TrackStop(t)
    PROVE  InductiveInv'
<1> DEFINE p == thread[t].pidx
<1>1. /\ AtElement(t)
      /\ mon_store' = MonStoreAfter(mon_store, thread[t].be, particles[p])
      /\ thread' = [thread EXCEPT ![t] = Advance(t)]
      /\ UNCHANGED <<elem_store, begun>>
    BY DEF TrackStop, AtElement
<1>2. /\ p \in Particles /\ thread[t].be \in Elements
      /\ particles[p] \in Records /\ call \in Calls
    BY <1>1, AtElementFacts
<1>3. PICK o \in Outcomes(thread[t].be, particles[p]) :
        /\ particles' = [particles EXCEPT ![p].state = StopState(o)]
        /\ call' = [call EXCEPT !.status = StatusAfter(o)]
    BY DEF TrackStop
<1>4. StopState(o) \in {0, 1} /\ StatusAfter(o) \in {"success", "failure"}
    BY <1>2, <1>3, OutcomeFacts DEF StopState, StatusAfter, Calls
<1>5. PICK s \in {0, 1}, status \in {"success", "failure"} :
        s = StopState(o) /\ status = StatusAfter(o)
    BY <1>4
<1> DEFINE r == [particles[p] EXCEPT !.state = s]
<1>6. r \in Records /\ r.particle_id = particles[p].particle_id
    BY <1>2, StoppedRecord
<1>7. particles' = [particles EXCEPT ![p] = r]
    BY <1>3, <1>5
<1>8. /\ call' \in Calls /\ call'.kind = call.kind /\ call'.first = call.first
      /\ call'.last = call.last
    BY <1>2, <1>3, <1>5 DEF Calls
<1>9. /\ Advance(t) \in Locals /\ Advance(t).pc = "next"
      /\ Advance(t).pidx % NumThreads = t
    BY AdvanceFacts DEF InductiveInv
<1>10. IsMonOutput(mon_store')
    BY <1>1, <1>2, MonStoreAfterType DEF InductiveInv, TypeOK
<1> HIDE DEF r, p
<1> QED BY <1>1, <1>2, <1>6, <1>7, <1>8, <1>9, <1>10, OwnStep DEF p

\* When a call returns no work item is in its loop.
LEMMA ReturnStep ==
    ASSUME InductiveInv, Return
    PROVE  InductiveInv'
<1>1. /\ \A t \in Threads : thread[t].pc = "next"
      /\ call' = [NoCall EXCEPT !.status = call.status]
      /\ begun' = Rest
      /\ UNCHANGED <<particles, thread, elem_store, mon_store>>
    BY DEF Return, AllDone
<1>2. /\ call' \in Calls /\ call'.kind = "none" /\ call'.first = 0 /\ call'.last = 0
    BY <1>1 DEF InductiveInv, TypeOK, NoCall, Request, Calls
<1>3. TypeOK'
    BY <1>1, <1>2, BeamlineAssumption DEF InductiveInv, TypeOK, Rest, IsMonOutput
<1>4. WorkItemsOwn' /\ CountersInStep'
    BY <1>1 DEF InductiveInv, WorkItemsOwn, CountersInStep, AtElement
<1>5. IdsKept' /\ SlotFaithful'
    BY <1>1 DEF InductiveInv, IdsKept, SlotFaithful
<1> QED BY <1>3, <1>4, <1>5 DEF InductiveInv

\* Every step of the system preserves the inductive invariant.
LEMMA NextInductive == InductiveInv /\ [Next]_vars => InductiveInv'
<1> SUFFICES ASSUME InductiveInv, [Next]_vars PROVE InductiveInv'
    OBVIOUS
<1>1. CASE LaunchUntilTurn
    <2>1. PICK until \in UntilTurns : Launch(CallUntil("until_turn", until))
        BY <1>1 DEF LaunchUntilTurn
    <2> QED BY <2>1, RequestFacts, LaunchStep, BeamlineAssumption
<1>2. CASE LaunchElemByElem
    <2>1. PICK until \in UntilTurns : Launch(CallUntil(KernelFor, until))
        BY <1>2 DEF LaunchElemByElem
    <2> QED BY <2>1, RequestFacts, LaunchStep, BeamlineAssumption
<1>3. CASE LaunchLine
    <2>1. PICK section \in Sections, finish \in BOOLEAN :
            Launch(CallLine(section, finish))
        BY <1>3 DEF LaunchLine
    <2>2. CallLine(section, finish).kind = "line"
        BY RequestFacts
    <2> QED BY <2>1, <2>2, RequestFacts, LaunchStep
<1>4. ASSUME NEW t \in Threads, WorkItem(t) PROVE InductiveInv'
    BY <1>4, EnterStep, SkipStep, StoreStep, TrackNextStep, TrackTurnEndStep,
       TrackLineEndStep, TrackStopStep DEF WorkItem
<1>5. CASE Return
    BY <1>5, ReturnStep
<1>6. CASE UNCHANGED vars
    BY <1>6 DEF vars, InductiveInv, TypeOK, WorkItemsOwn, CountersInStep, IdsKept,
       SlotFaithful, AtElement, Idle, IsMonOutput
<1> QED BY <1>1, <1>2, <1>3, <1>4, <1>5, <1>6 DEF Next

-----------------------------------------------------------------------------
(* The theorems.                                                           *)

\* The inductive invariant holds in every reachable state.
THEOREM TrackingInductive == Spec => []InductiveInv
    BY InitInductive, NextInductive, PTL DEF Spec

\* The state keeps its shape under every kernel.
THEOREM TrackingTypeOK == Spec => []TypeOK
<1>1. InductiveInv => TypeOK
    BY DEF InductiveInv
<1> QED BY <1>1, TrackingInductive, PTL

\* No two work items hold the same particle, however many there are of each.
THEOREM TrackingNoParticleShared == Spec => []NoParticleShared
<1>1. InductiveInv => NoParticleShared
    BY OwnersDiffer DEF InductiveInv, NoParticleShared
<1> QED BY <1>1, TrackingInductive, PTL

\* Every record in the element by element store is in its own slot.
THEOREM TrackingSlotFaithful == Spec => []SlotFaithful
<1>1. InductiveInv => SlotFaithful
    BY DEF InductiveInv
<1> QED BY <1>1, TrackingInductive, PTL

\* A turn ordered monitor gives different particles different indices, in
\* whatever turns they are.
LEMMA MonitorIndexUnique ==
    ASSUME NEW m \in Monitors, m.is_turn_ordered, m.num_stores > 0,
           NEW t1 \in Nat, NEW t2 \in Nat, NEW p1 \in Nat, NEW p2 \in Nat,
           m.min_particle_id <= p1, p1 <= m.max_particle_id,
           m.min_particle_id <= p2, p2 <= m.max_particle_id,
           StoreParticleIndex(m, t1, p1) >= 0,
           StoreParticleIndex(m, t1, p1) = StoreParticleIndex(m, t2, p2)
    PROVE  p1 = p2
<1> DEFINE n  == ParticlesPerTurn(m)
           q1 == StoreRow(m, t1)
           q2 == StoreRow(m, t2)
<1>1. n \in Nat
    BY DEF ParticlesPerTurn, Monitors
<1>2. /\ m.num_stores \in Nat \ {0} /\ m.skip \in Nat \ {0} /\ m.start \in Nat
      /\ m.is_rolling \in BOOLEAN
    BY DEF Monitors
<1>3. \A t \in Nat : StoreRow(m, t) \in Int
    <2> TAKE t \in Nat
    <2>1. PICK d \in Int : d = t - m.start
        BY <1>2
    <2>2. d \div m.skip \in Int
        BY <1>2
    <2>3. PICK row \in Int : row = (t - m.start) \div m.skip
        BY <2>1, <2>2
    <2>4. row % m.num_stores \in Int
        BY <1>2
    <2> QED BY <2>3, <2>4 DEF StoreRow
<1>4. /\ p1 - m.min_particle_id \in 0 .. n - 1
      /\ p2 - m.min_particle_id \in 0 .. n - 1
    BY DEF ParticlesPerTurn, Monitors
<1>5. PICK j1 \in Int, j2 \in Int : j1 = q1 /\ j2 = q2
    BY <1>3
<1>6. PICK r1 \in 0 .. n - 1, r2 \in 0 .. n - 1 :
        r1 = p1 - m.min_particle_id /\ r2 = p2 - m.min_particle_id
    BY <1>4
<1>7. StoreParticleIndex(m, t1, p1) = n * j1 + r1
    BY <1>5, <1>6 DEF StoreParticleIndex
<1>8. StoreParticleIndex(m, t2, p2) = n * j2 + r2
    BY <1>5, <1>6 DEF StoreParticleIndex
<1> HIDE DEF n
<1>9. n * j1 = j1 * n /\ n * j2 = j2 * n
    BY <1>1
<1>10. r1 = r2
    <2>1. j1 * n + r1 = j2 * n + r2
        BY <1>7, <1>8, <1>9
    <2> QED BY <1>1, <2>1, RadixUnique
<1> QED BY <1>6, <1>10 DEF Monitors

\* Work items never aim at the same output slot, if the monitors were prepared
\* for the particles that are tracked.
LEMMA NoRace ==
    ASSUME InductiveInv, MonitorsCover
    PROVE  NoOutputRace
<1> SUFFICES ASSUME NEW s \in Threads, NEW t \in Threads, s # t
             PROVE  /\ \A i \in ElemSlots : ~(Writes(s, i) /\ Writes(t, i))
                    /\ \A e \in MonitorElements : \A i \in MonSlots(e) :
                          ~(WritesMonitor(s, e, i) /\ WritesMonitor(t, e, i))
    BY DEF NoOutputRace
<1> DEFINE p == thread[s].pidx
           q == thread[t].pidx
<1>1. p # q
    BY OwnersDiffer DEF InductiveInv
<1>2. p \in Particles /\ q \in Particles => ParticleId[p] # ParticleId[q]
    BY <1>1, UniqueIds
<1>3. ASSUME NEW i \in ElemSlots, Writes(s, i), Writes(t, i) PROVE FALSE
    <2>1. AtElement(s) /\ AtElement(t) /\ OutIndex(s) = i /\ OutIndex(t) = i
        BY <1>3 DEF Writes, AtElement
    <2>2. /\ p \in Particles /\ q \in Particles
          /\ thread[s] \in Locals /\ thread[t] \in Locals
        BY <2>1, AtElementFacts
    <2>3. /\ ParticleId[p] \in Int /\ thread[s].elem \in Int /\ thread[s].turn \in Int
          /\ ParticleId[q] \in Int /\ thread[t].elem \in Int /\ thread[t].turn \in Int
        BY <2>2, BeamlineAssumption DEF Locals
    <2>4. Config \in Configs
        BY BeamlineAssumption
    <2>5. i >= 0 /\ i # -1
        <3>1. OutStoreNumParticles(Config) \in Int
            BY <2>4 DEF OutStoreNumParticles, Configs
        <3> QED BY <3>1 DEF ElemSlots
    <2>6. WindowConsistent(Config)
        <3>1. WindowEmpty(Config) => StoreIndex(Config, ParticleId[p],
                                       thread[s].elem, thread[s].turn) = -1
            BY <2>2, <2>4, BeamlineAssumption, EmptyWindowStoresNothing DEF Locals
        <3> QED BY <2>1, <2>5, <3>1, ConfigFromApi DEF OutIndex
    <2>7. /\ InWindow(Config, ParticleId[p], thread[s].elem, thread[s].turn)
          /\ InWindow(Config, ParticleId[q], thread[t].elem, thread[t].turn)
          /\ Config.order = TurnElemParticles
        BY <2>1, <2>5 DEF OutIndex, StoreIndex
    <2>8. ParticleId[p] = ParticleId[q]
        BY <2>1, <2>3, <2>4, <2>6, <2>7, StoreIndexCollision DEF OutIndex
    <2> QED BY <1>2, <2>2, <2>8
<1>4. ASSUME NEW e \in MonitorElements, NEW i \in MonSlots(e),
             WritesMonitor(s, e, i), WritesMonitor(t, e, i)
      PROVE  FALSE
    <2>1. AtElement(s) /\ AtElement(t)
        BY <1>4 DEF WritesMonitor, AtElement
    <2>2. /\ p \in Particles /\ q \in Particles
          /\ particles[p] \in Records /\ particles[q] \in Records
        BY <2>1, AtElementFacts
    <2>3. /\ particles[p].particle_id = ParticleId[p]
          /\ particles[q].particle_id = ParticleId[q]
        BY <2>2 DEF InductiveInv, IdsKept
    <2>4. /\ MonIndex(e, particles[p]) >= 0
          /\ MonIndex(e, particles[p]) = MonIndex(e, particles[q])
        BY <1>4 DEF WritesMonitor, MonitorActs
    <2>5. /\ Monitor[e] \in Monitors /\ Monitor[e].is_turn_ordered
          /\ Monitor[e].num_stores > 0
          /\ Monitor[e].min_particle_id <= ParticleId[p]
          /\ ParticleId[p] <= Monitor[e].max_particle_id
          /\ Monitor[e].min_particle_id <= ParticleId[q]
          /\ ParticleId[q] <= Monitor[e].max_particle_id
        BY <2>2, BeamlineAssumption DEF MonitorsCover
    <2>6. /\ StoreParticleIndex(Monitor[e], particles[p].at_turn, ParticleId[p]) >= 0
          /\ StoreParticleIndex(Monitor[e], particles[p].at_turn, ParticleId[p])
             = StoreParticleIndex(Monitor[e], particles[q].at_turn, ParticleId[q])
        BY <2>3, <2>4 DEF MonIndex
    <2>7. /\ ParticleId[p] \in Nat /\ ParticleId[q] \in Nat
          /\ particles[p].at_turn \in Nat /\ particles[q].at_turn \in Nat
        BY <2>2, BeamlineAssumption DEF Records
    <2>8. ParticleId[p] = ParticleId[q]
        BY <2>5, <2>6, <2>7, MonitorIndexUnique
    <2> QED BY <1>2, <2>2, <2>8
<1> QED BY <1>3, <1>4

\* No two copies into the output ever race, if the monitors were prepared for
\* the particles that are tracked.
THEOREM TrackingNoOutputRace ==
    ASSUME MonitorsCover
    PROVE  Spec => []NoOutputRace
<1>1. InductiveInv => NoOutputRace
    BY NoRace
<1> QED BY <1>1, TrackingInductive, PTL

\* A lost particle never passes an element, and stopping it again changes
\* nothing.
LEMMA LostStays ==
    ASSUME InductiveInv, [Next]_vars, NEW p \in Particles, Lost(particles[p])
    PROVE  particles'[p] = particles[p]
<1>1. particles \in [Particles -> Records] /\ particles[p] \in Records
    BY DEF InductiveInv, TypeOK
<1>2. particles[p].state = 0
    BY <1>1 DEF Lost, Records
<1>3. CASE particles' = particles
    BY <1>3
<1>4. ASSUME NEW t \in Threads, SkipParticle(t) PROVE particles'[p] = particles[p]
    BY <1>1, <1>4 DEF SkipParticle, FinishesTurn
<1>5. ASSUME NEW t \in Threads, TrackElement(t), thread[t].pidx = p PROVE FALSE
    <2>1. AtElement(t)
        BY <1>5 DEF TrackElement, AtElement
    <2> QED BY <1>5, <2>1, AtElementFacts, PassesAlive DEF TrackElement
<1>6. ASSUME NEW t \in Threads, TrackNext(t) \/ TrackTurnEnd(t) \/ TrackLineEnd(t)
      PROVE  particles'[p] = particles[p]
    <2>1. thread[t].pidx # p
        BY <1>5, <1>6 DEF TrackNext, TrackTurnEnd, TrackLineEnd
    <2> QED BY <1>1, <1>6, <2>1 DEF TrackNext, TrackTurnEnd, TrackLineEnd
<1>7. ASSUME NEW t \in Threads, TrackStop(t) PROVE particles'[p] = particles[p]
    <2>1. CASE thread[t].pidx # p
        BY <1>1, <1>7, <2>1 DEF TrackStop
    <2>2. CASE thread[t].pidx = p
        <3>1. thread[t].be \in Elements
            BY <1>7, AtElementFacts DEF TrackStop, AtElement
        <3>2. PICK o \in Outcomes(thread[t].be, particles[p]) :
                particles' = [particles EXCEPT ![p].state = StopState(o)]
            BY <1>7, <2>2 DEF TrackStop
        <3>3. StopState(o) = 0
            BY <1>1, <3>1, OutcomeFacts DEF StopState
        <3>4. [particles[p] EXCEPT !.state = 0] = particles[p]
            BY <1>1, <1>2 DEF Records
        <3> QED BY <1>1, <3>2, <3>3, <3>4
    <2> QED BY <2>1, <2>2
<1>8. ASSUME NEW t \in Threads, WorkItem(t) PROVE particles'[p] = particles[p]
    BY <1>4, <1>6, <1>7, <1>8 DEF WorkItem, EnterParticle, StoreElemByElem
<1> QED BY <1>3, <1>8 DEF Next, LaunchUntilTurn, LaunchElemByElem, LaunchLine,
                          Launch, Return, vars

\* A work item comes to a lost particle only at the first element and only in
\* the element by element kernel; and it leaves a particle that it loses.
LEMMA LostAtFirstKept ==
    ASSUME InductiveInv, [Next]_vars, LostOnlyAtFirstElement
    PROVE  LostOnlyAtFirstElement'
<1>1. SUFFICES ASSUME NEW t \in Threads, AtElement(t)', Lost(particles[thread[t].pidx])'
               PROVE  call'.kind = "elem_by_elem" /\ thread'[t].be = 0
    BY DEF LostOnlyAtFirstElement
<1>2. /\ particles \in [Particles -> Records] /\ call \in Calls
      /\ thread \in [Threads -> Locals]
      /\ call.kind = "elem_by_elem" => call.first = 0
    BY DEF InductiveInv, TypeOK
<1>3. \A status : [call EXCEPT !.status = status].kind = call.kind
    BY <1>2 DEF Calls
<1>4. ASSUME thread'[t] = thread[t], call'.kind = call.kind,
             particles'[thread[t].pidx] = particles[thread[t].pidx]
      PROVE  call'.kind = "elem_by_elem" /\ thread'[t].be = 0
    BY <1>1, <1>4 DEF LostOnlyAtFirstElement, AtElement, Lost
<1>5. ASSUME NEW u \in Threads, WorkItem(u), u # t
      PROVE  call'.kind = "elem_by_elem" /\ thread'[t].be = 0
    <2>1. thread'[t] = thread[t] /\ call'.kind = call.kind
        BY <1>2, <1>3, <1>5
           DEF WorkItem, EnterParticle, SkipParticle, StoreElemByElem, TrackElement,
               TrackNext, TrackTurnEnd, TrackLineEnd, TrackStop
    <2>2. AtElement(t) /\ thread[t].pidx \in Particles
        BY <1>1, <2>1, AtElementFacts DEF AtElement
    <2>3. thread[u].pidx # thread[t].pidx
        BY <1>5, OwnersDiffer DEF InductiveInv, WorkItemsOwn, TypeOK, Locals
    <2>4. particles'[thread[t].pidx] = particles[thread[t].pidx]
        BY <1>2, <1>5, <2>2, <2>3
           DEF WorkItem, EnterParticle, SkipParticle, StoreElemByElem, TrackNext,
               TrackTurnEnd, TrackLineEnd, TrackStop
    <2> QED BY <1>4, <2>1, <2>4
<1>6. ASSUME WorkItem(t) PROVE call'.kind = "elem_by_elem" /\ thread'[t].be = 0
    <2>1. CASE EnterParticle(t)
        <3>1. PICK p : p = thread[t].pidx
            OBVIOUS
        <3>2. thread'[t] = InLoop(p, call.first, particles[p].at_element_id,
                                  particles[p].at_element_id, particles[p].at_turn)
            BY <1>2, <2>1, <3>1 DEF EnterParticle
        <3>3. thread'[t].pidx = p /\ thread'[t].be = call.first
            BY <3>2 DEF InLoop
        <3>4. Lost(particles[p]) /\ Enters(particles[p]) /\ call' = call /\ ~Idle
            BY <1>1, <2>1, <3>1, <3>3 DEF EnterParticle, Lost
        <3>5. call.kind = "elem_by_elem"
            BY <1>2, <3>4 DEF Enters, Calls, Idle
        <3> QED BY <1>2, <3>3, <3>4, <3>5
    <2>2. CASE StoreElemByElem(t)
        <3>1. AtElement(t) /\ particles' = particles /\ call' = call
            BY <2>2 DEF StoreElemByElem, AtElement
        <3>2. thread'[t].pidx = thread[t].pidx /\ thread'[t].be = thread[t].be
            BY <1>2, <2>2 DEF StoreElemByElem, Locals
        <3> QED BY <1>1, <3>1, <3>2 DEF LostOnlyAtFirstElement, Lost
    <2>3. CASE TrackNext(t) \/ TrackTurnEnd(t) \/ TrackLineEnd(t)
        <3>1. ~Lost(particles[thread[t].pidx]) /\ thread[t].pidx \in Particles
            <4>1. AtElement(t) /\ TrackElement(t)
                BY <2>3 DEF TrackNext, TrackTurnEnd, TrackLineEnd, TrackElement, AtElement
            <4> QED BY <4>1, AtElementFacts, PassesAlive DEF TrackElement
        <3>2. \/ thread'[t].pidx = thread[t].pidx
              \/ thread'[t].pc = "next"
            BY <1>2, <2>3
               DEF TrackNext, TrackTurnEnd, TrackLineEnd, NextElement, NextTurn, InLoop,
                   Advance, AtNext
        <3>3. particles'[thread[t].pidx].state = particles[thread[t].pidx].state
            BY <1>2, <2>3, <3>1
               DEF TrackNext, TrackTurnEnd, TrackLineEnd, TurnFinished, ElementPassed,
                   Records
        <3> QED BY <1>1, <3>1, <3>2, <3>3 DEF AtElement, Lost
    <2>4. CASE SkipParticle(t) \/ TrackStop(t)
        <3>1. thread'[t].pc = "next"
            BY <1>2, <2>4 DEF SkipParticle, TrackStop, Advance, AtNext
        <3> QED BY <1>1, <3>1 DEF AtElement
    <2> QED BY <1>6, <2>1, <2>2, <2>3, <2>4 DEF WorkItem
<1>7. ASSUME NEW c, Launch(c) PROVE FALSE
    <2>1. thread'[t].pc = "next"
        BY <1>7 DEF Launch, AtNext
    <2> QED BY <1>1, <2>1 DEF AtElement
<1>8. ~Return
    BY <1>1 DEF Return, AllDone, AtElement
<1>9. CASE UNCHANGED vars
    BY <1>4, <1>9 DEF vars
<1> QED BY <1>5, <1>6, <1>7, <1>8, <1>9
        DEF Next, LaunchUntilTurn, LaunchElemByElem, LaunchLine

\* A lost particle keeps its ids, turn and state through every later call, and
\* only the first element of a line tracked element by element acts on it.
THEOREM TrackingLostKeepsRecord == Spec => LostKeepsRecord
<1>1. Init => LostOnlyAtFirstElement
    BY DEF Init, LostOnlyAtFirstElement, AtElement, AtNext
<1>2. InductiveInv /\ [Next]_vars /\ LostOnlyAtFirstElement => LostOnlyAtFirstElement'
    BY LostAtFirstKept
<1>3. InductiveInv /\ [Next]_vars /\ LostOnlyAtFirstElement =>
        [LostOnlyAtFirstElement' /\ \A p \in Particles :
            Lost(particles[p]) => particles'[p] = particles[p]]_vars
    BY <1>2, LostStays
<1> QED BY <1>1, <1>2, <1>3, TrackingInductive, PTL DEF Spec, LostKeepsRecord

-----------------------------------------------------------------------------
(* Where the particles of a call are.                                      *)

\* The work item of a particle has not come to it, or has left it behind.
Ahead(p) ==
    \/ thread[p % NumThreads].pidx < p
    \/ thread[p % NumThreads].pidx = p /\ thread[p % NumThreads].pc = "next"

DoneWith(p) == p < thread[p % NumThreads].pidx

\* A particle that the call found as r0 and that is at an element, as r: as
\* many elements and turns further as the locals of the work item say, and
\* with some of its way before it.
OnWay(l, r, r0) ==
    /\ call.first <= l.be /\ l.start = r0.at_element_id
    /\ r.at_turn >= r0.at_turn
    /\ r = [r0 EXCEPT !.at_element_id = @ + (l.be - call.first),
                      !.at_turn = r.at_turn]
    /\ call.kind = "line" => r.at_turn = r0.at_turn
    /\ call.kind # "line" => r.at_turn < call.until
    /\ call.kind # "elem_by_elem" => ~Lost(r)

\* What a call that has not failed makes of a particle.
Served(r, r0) == Lost(r) \/ Delivered(r, r0)

\* Between calls the history is the present.  During one, a particle is as
\* the call found it, then on its way, then lost or where it was to go.
PositionInv ==
    /\ Idle => begun = Rest
    /\ ~Idle => \A p \in Particles : Ahead(p) => particles[p] = begun.particles[p]
    /\ \A t \in Threads :
          AtElement(t) => OnWay(thread[t], particles[thread[t].pidx],
                                begun.particles[thread[t].pidx])
    /\ ~Idle /\ NumElements > 0 /\ call.status = "success" =>
          \A p \in Particles :
              DoneWith(p) => Served(particles[p], begun.particles[p])

\* Numbers with one remainder are a divisor apart at least.
LEMMA StrideApart ==
    ASSUME NEW n \in Nat \ {0}, NEW x \in Nat, NEW y \in Nat, x % n = y % n, x < y
    PROVE  x + n <= y
<1>1. PICK q \in Int : q = x \div n
    OBVIOUS
<1>2. PICK k \in Int : k = y \div n
    OBVIOUS
<1>3. PICK m \in 0 .. n - 1 : m = x % n
    OBVIOUS
<1>4. x = q * n + m /\ y = k * n + m /\ q * n \in Int /\ k * n \in Int
    BY <1>1, <1>2, <1>3
<1>5. q < k
    <2> SUFFICES ASSUME k <= q PROVE FALSE
        OBVIOUS
    <2>1. k * n <= q * n
        BY ProductMonotone
    <2> QED BY <1>4, <2>1
<1>6. (q + 1) * n <= k * n
    BY <1>5, ProductMonotone
<1>7. (q + 1) * n = q * n + n
    OBVIOUS
<1> QED BY <1>4, <1>6, <1>7

\* Every particle belongs to a work item.
LEMMA OwnerIsThread ==
    ASSUME NEW p \in Particles
    PROVE  p % NumThreads \in Threads /\ p \in Nat
<1>1. p \in Nat
    BY BeamlineAssumption DEF Particles
<1>2. PICK n \in Nat \ {0} : n = NumThreads
    BY ThreadsAssumption
<1>3. p % n \in 0 .. n - 1
    BY <1>1, <1>2
<1> QED BY <1>1, <1>2, <1>3 DEF Threads

\* Moving on by the stride a work item passes over no particle of its own but
\* the one it was at.
LEMMA StridePassesOne ==
    ASSUME TypeOK, WorkItemsOwn, NEW t \in Threads, NEW p \in Particles,
           p % NumThreads = t, p # thread[t].pidx
    PROVE  /\ thread[t].pidx + NumThreads <= p <=> thread[t].pidx < p
           /\ p < thread[t].pidx + NumThreads <=> p < thread[t].pidx
<1>1. PICK x \in Nat : x = thread[t].pidx
    BY DEF TypeOK, Locals
<1>2. x % NumThreads = p % NumThreads
    BY <1>1 DEF WorkItemsOwn
<1>3. p \in Nat
    BY OwnerIsThread
<1>4. PICK n \in Nat \ {0} : n = NumThreads
    BY ThreadsAssumption
<1>5. x < p => x + n <= p
    BY <1>2, <1>3, <1>4, StrideApart
<1> QED BY <1>1, <1>3, <1>4, <1>5

\* What the steps of a work item do to the position of its particle: it stays
\* on its way, or is served and left behind.
LEMMA PositionStep ==
    ASSUME InductiveInv, PositionInv, NEW t \in Threads, NEW r \in Records,
           NEW l \in Locals, NEW s \in {"success", "failure"},
           thread[t].pidx \in Particles, ~Idle,
           \/ /\ l.pidx = thread[t].pidx /\ l.pc # "next"
              /\ OnWay(l, r, begun.particles[thread[t].pidx])
           \/ /\ l = Advance(t)
              /\ NumElements > 0 /\ s = "success" =>
                    Served(r, begun.particles[thread[t].pidx]),
           s = "success" => call.status = "success",
           particles' = [particles EXCEPT ![thread[t].pidx] = r],
           thread' = [thread EXCEPT ![t] = l],
           call' = [call EXCEPT !.status = s],
           begun' = begun
    PROVE  PositionInv'
<1>0. PICK p \in Particles : p = thread[t].pidx
    OBVIOUS
<1>1. /\ particles \in [Particles -> Records] /\ thread \in [Threads -> Locals]
      /\ p % NumThreads = t /\ p \in Nat /\ call \in Calls
    BY <1>0, OwnerIsThread DEF InductiveInv, TypeOK, WorkItemsOwn
<1>2. /\ call'.kind = call.kind /\ call'.first = call.first /\ call'.last = call.last
      /\ call'.until = call.until /\ call'.finish_turn = call.finish_turn
      /\ call'.status = s /\ ~Idle'
    BY <1>1 DEF Calls, Idle
<1>3. \A u \in Threads : thread'[u] = IF u = t THEN l ELSE thread[u]
    BY <1>1
<1>4. \A q \in Particles : particles'[q] = IF q = p THEN r ELSE particles[q]
    BY <1>0, <1>1
<1>5. \A u \in Threads : u # t => thread[u].pidx # p
    BY <1>0, OwnersDiffer DEF InductiveInv
<1>6. l.pidx \in Nat /\ l.pidx \in {p, p + NumThreads} /\ (l.pc = "next" => l.pidx = p + NumThreads)
    BY <1>0 DEF Advance, AtNext, Locals
<1>7. ASSUME NEW q \in Particles, q # p
      PROVE  (Ahead(q)' => Ahead(q)) /\ (DoneWith(q)' => DoneWith(q))
    <2>1. q % NumThreads \in Threads /\ q \in Nat
        BY OwnerIsThread
    <2>2. CASE q % NumThreads # t
        BY <1>3, <2>1, <2>2 DEF Ahead, DoneWith
    <2>3. CASE q % NumThreads = t
        <3>1. thread'[t] = l
            BY <1>3
        <3>2. /\ p + NumThreads <= q <=> p < q
              /\ q < p + NumThreads <=> q < p
            BY <1>0, <1>7, <2>3, StridePassesOne DEF InductiveInv
        <3>3. Ahead(q)' => l.pidx <= q
            BY <1>6, <2>1, <2>3, <3>1 DEF Ahead
        <3>4. DoneWith(q)' => q < l.pidx
            BY <2>3, <3>1 DEF DoneWith
        <3>5. p < q => Ahead(q)
            BY <1>0, <2>3 DEF Ahead
        <3>6. q < p => DoneWith(q)
            BY <1>0, <2>3 DEF DoneWith
        <3>7. NumThreads \in Nat
            BY ThreadsAssumption
        <3> QED BY <1>1, <1>6, <1>7, <2>1, <3>2, <3>3, <3>4, <3>5, <3>6, <3>7
    <2> QED BY <2>2, <2>3
<1>8. ~Ahead(p)'
    <2>1. thread'[t] = l /\ NumThreads \in Nat \ {0}
        BY <1>3, ThreadsAssumption
    <2> QED BY <1>1, <1>6, <2>1 DEF Ahead
<1>9. DoneWith(p)' => l = Advance(t)
    <2>1. thread'[t] = l
        BY <1>3
    <2>2. l.pidx = p => ~DoneWith(p)'
        BY <1>1, <2>1 DEF DoneWith
    <2> QED BY <1>0, <2>2
<1>10. \A q \in Particles : Ahead(q)' => particles'[q] = begun'.particles[q]
    BY <1>4, <1>7, <1>8 DEF PositionInv
<1>11. ASSUME NEW u \in Threads, AtElement(u)'
       PROVE  OnWay(thread[u], particles[thread[u].pidx], begun.particles[thread[u].pidx])'
    <2>1. CASE u = t
        <3>1. l.pc # "next" /\ thread'[u] = l
            BY <1>3, <1>11, <2>1 DEF AtElement
        <3>2. l.pidx = p /\ OnWay(l, r, begun.particles[p])
            BY <1>0, <3>1 DEF Advance, AtNext
        <3>3. particles'[l.pidx] = r
            BY <1>4, <3>2
        <3>4. /\ call.first <= l.be /\ l.start = begun.particles[p].at_element_id
              /\ r.at_turn >= begun.particles[p].at_turn
              /\ r = [begun.particles[p] EXCEPT !.at_element_id = @ + (l.be - call.first),
                                                !.at_turn = r.at_turn]
              /\ call.kind = "line" => r.at_turn = begun.particles[p].at_turn
              /\ call.kind # "line" => r.at_turn < call.until
              /\ call.kind # "elem_by_elem" => ~(r.state # 1)
            BY <3>2 DEF OnWay, Lost
        <3>5. /\ particles'[thread'[u].pidx] = r /\ thread'[u] = l
              /\ begun'.particles[thread'[u].pidx] = begun.particles[p]
            BY <3>1, <3>2, <3>3
        <3> QED BY <1>2, <3>4, <3>5 DEF OnWay, Lost
    <2>2. CASE u # t
        <3>1. thread'[u] = thread[u] /\ AtElement(u) /\ thread[u].pidx # p
            BY <1>3, <1>5, <1>11, <2>2 DEF AtElement
        <3>2. thread[u].pidx \in Particles
            BY <3>1, AtElementFacts
        <3>3. particles'[thread[u].pidx] = particles[thread[u].pidx]
            BY <1>4, <3>1, <3>2
        <3>4. OnWay(thread[u], particles[thread[u].pidx], begun.particles[thread[u].pidx])
            BY <3>1 DEF PositionInv
        <3> QED BY <1>2, <3>1, <3>3, <3>4 DEF OnWay, Lost
    <2> QED BY <2>1, <2>2
<1>12. ASSUME NumElements > 0, call'.status = "success", NEW q \in Particles, DoneWith(q)'
       PROVE  Served(particles[q], begun.particles[q])'
    <2>1. s = "success" /\ call.status = "success"
        BY <1>2, <1>12
    <2>2. CASE q = p
        <3>1. Served(r, begun.particles[p])
            <4>1. l = Advance(t)
                BY <1>9, <1>12, <2>2
            <4>2. l.pc = "next"
                BY <4>1 DEF Advance, AtNext
            <4> QED BY <1>0, <1>12, <2>1, <4>2
        <3>2. particles'[q] = r
            BY <1>4, <2>2
        <3> QED BY <1>2, <2>2, <3>1, <3>2 DEF Served, Delivered, Lost
    <2>3. CASE q # p
        <3>1. DoneWith(q)
            BY <1>7, <1>12, <2>3
        <3>2. Served(particles[q], begun.particles[q])
            BY <1>12, <2>1, <3>1 DEF PositionInv
        <3>3. particles'[q] = particles[q]
            BY <1>4, <2>3
        <3> QED BY <1>2, <3>2, <3>3 DEF Served, Delivered, Lost
    <2> QED BY <2>2, <2>3
<1> QED BY <1>2, <1>10, <1>11, <1>12 DEF PositionInv

\* What the steps in the loop find: the particle of the work item on its way.
LEMMA OnWayFacts ==
    ASSUME InductiveInv, PositionInv, NEW t \in Threads, AtElement(t)
    PROVE  /\ OnWay(thread[t], particles[thread[t].pidx],
                    begun.particles[thread[t].pidx])
           /\ begun.particles[thread[t].pidx] \in Records
           /\ thread[t].pidx \in Particles /\ particles[thread[t].pidx] \in Records
           /\ thread[t] \in Locals /\ call \in Calls /\ ~Idle
           /\ call.first <= call.last
           /\ call.kind # "line" => call.first = 0 /\ call.last = NumElements
<1>1. call.kind \in {"none", "until_turn", "elem_by_elem", "line"}
    BY DEF InductiveInv, TypeOK, Calls
<1> QED BY <1>1, AtElementFacts DEF PositionInv, InductiveInv, TypeOK, Idle

\* A work item enters the loop with the particle as the call found it.
LEMMA EnterPosition ==
    ASSUME InductiveInv, PositionInv, NEW t \in Threads, EnterParticle(t)
    PROVE  PositionInv'
<1> DEFINE p == thread[t].pidx
           r == particles[p]
           l == InLoop(p, call.first, r.at_element_id, r.at_element_id, r.at_turn)
<1>1. /\ ~Idle /\ thread[t].pc = "next" /\ p \in Particles /\ Enters(r)
      /\ thread' = [thread EXCEPT ![t] = l]
      /\ UNCHANGED <<particles, call, elem_store, mon_store, begun>>
    BY DEF EnterParticle
<1>2. /\ r \in Records /\ call \in Calls /\ p % NumThreads = t
      /\ particles \in [Particles -> Records] /\ p \in Nat
    BY <1>1, OwnerIsThread DEF InductiveInv, TypeOK, WorkItemsOwn
<1>3. r = begun.particles[p]
    BY <1>1, <1>2 DEF PositionInv, Ahead
<1>4. /\ l \in Locals /\ l.pidx = p /\ l.pc # "next" /\ l.be = call.first
      /\ l.start = r.at_element_id
    BY <1>2 DEF InLoop, Locals, Records, Calls
<1>5. OnWay(l, r, r)
    <2>1. r.at_element_id \in Nat /\ r.at_turn \in Nat /\ call.first \in Nat
          /\ call.until \in Nat
        BY <1>2 DEF Records, Calls
    <2>2. r.at_element_id + (call.first - call.first) = r.at_element_id
        BY <2>1
    <2>3. r = [r EXCEPT !.at_element_id = r.at_element_id, !.at_turn = r.at_turn]
        BY <1>2 DEF Records
    <2>4. call.kind \in {"until_turn", "elem_by_elem", "line"}
        BY <1>1, <1>2 DEF Calls, Idle
    <2>5. /\ call.kind # "line" => r.at_turn < call.until
          /\ call.kind # "elem_by_elem" => ~Lost(r)
        BY <1>1, <2>1, <2>4 DEF Enters
    <2>6. r.at_element_id + (l.be - call.first) = r.at_element_id
        BY <1>4, <2>2
    <2> HIDE DEF l, r
    <2>7. call.first <= l.be /\ r.at_turn >= r.at_turn
        BY <1>4, <2>1
    <2> QED BY <1>4, <2>3, <2>5, <2>6, <2>7 DEF OnWay
<1>6. particles' = [particles EXCEPT ![p] = r] /\ call' = [call EXCEPT !.status = call.status]
    BY <1>1, <1>2 DEF Calls
<1>7. call.status \in {"success", "failure"}
    BY <1>2 DEF Calls
<1> HIDE DEF l
<1> QED BY <1>1, <1>2, <1>3, <1>4, <1>5, <1>6, <1>7, PositionStep

\* A particle that is passed over is served: it has nowhere to go.
LEMMA SkipPosition ==
    ASSUME InductiveInv, PositionInv, NEW t \in Threads, SkipParticle(t)
    PROVE  PositionInv'
<1> DEFINE p == thread[t].pidx
           r == particles[p]
           new == IF FinishesTurn(r) THEN TurnFinished(r, 0) ELSE r
           s == IF call.kind = "until_turn" /\ NumElements = 0
                THEN "failure" ELSE call.status
<1>1. /\ ~Idle /\ thread[t].pc = "next" /\ p \in Particles /\ ~Enters(r)
      /\ thread' = [thread EXCEPT ![t] = Advance(t)]
      /\ begun' = begun
    BY DEF SkipParticle
<1>2. /\ r \in Records /\ call \in Calls /\ p % NumThreads = t
      /\ particles \in [Particles -> Records] /\ p \in Nat /\ call.first <= call.last
    BY <1>1, OwnerIsThread DEF InductiveInv, TypeOK, WorkItemsOwn
<1>3. r = begun.particles[p]
    BY <1>1, <1>2 DEF PositionInv, Ahead
<1>4. new \in Records
    BY <1>2, TurnFinishedRecord
<1>5. particles' = [particles EXCEPT ![p] = new] /\ call' = [call EXCEPT !.status = s]
    BY <1>1, <1>2 DEF SkipParticle, Calls
<1>6. s \in {"success", "failure"} /\ (s = "success" => call.status = "success")
    BY <1>2 DEF Calls
<1>7. NumElements > 0 => Served(new, r)
    <2>1. r.at_element_id \in Nat /\ r.at_turn \in Nat /\ call.first \in Nat
          /\ call.last \in Nat /\ call.until \in Nat
        BY <1>2 DEF Records, Calls
    <2>2. call.kind \in {"until_turn", "elem_by_elem", "line"}
        BY <1>1, <1>2 DEF Calls, Idle
    <2>3. CASE call.kind = "line"
        BY <1>1, <2>1, <2>3 DEF Served, Delivered, Enters, FinishesTurn, TurnFinished
    <2>4. CASE call.kind # "line"
        BY <1>1, <2>1, <2>2, <2>4 DEF Served, Delivered, Enters, FinishesTurn
    <2> QED BY <2>3, <2>4
<1>8. Advance(t) \in Locals
    BY AdvanceFacts DEF InductiveInv
<1> HIDE DEF new, s
<1> QED BY <1>1, <1>2, <1>3, <1>4, <1>5, <1>6, <1>7, <1>8, PositionStep

\* Copying a particle out does not move it.
LEMMA StorePosition ==
    ASSUME InductiveInv, PositionInv, NEW t \in Threads, StoreElemByElem(t)
    PROVE  PositionInv'
<1> DEFINE p == thread[t].pidx
           r == particles[p]
           l == [thread[t] EXCEPT !.pc = "track"]
<1>1. /\ AtElement(t) /\ UNCHANGED <<particles, call, begun>>
      /\ thread' = [thread EXCEPT ![t] = l]
    BY DEF StoreElemByElem, AtElement
<1>2. /\ OnWay(thread[t], r, begun.particles[p]) /\ r \in Records
      /\ p \in Particles /\ thread[t] \in Locals /\ call \in Calls /\ ~Idle
    BY <1>1, OnWayFacts
<1>3. l \in Locals /\ l.pidx = p /\ l.pc # "next" /\ l.be = thread[t].be
      /\ l.start = thread[t].start
    BY <1>2 DEF Locals
<1> HIDE DEF l
<1>4. OnWay(l, r, begun.particles[p])
    BY <1>2, <1>3 DEF OnWay
<1>5. particles' = [particles EXCEPT ![p] = r] /\ call' = [call EXCEPT !.status = call.status]
    BY <1>1, <1>2 DEF Calls, InductiveInv, TypeOK
<1>6. call.status \in {"success", "failure"}
    BY <1>2 DEF Calls
<1> QED BY <1>1, <1>2, <1>3, <1>4, <1>5, <1>6, PositionStep

\* Past an element inside the turn it is one element further.
LEMMA TrackNextPosition ==
    ASSUME InductiveInv, PositionInv, NEW t \in Threads, TrackNext(t)
    PROVE  PositionInv'
<1> DEFINE p == thread[t].pidx
           r == particles[p]
           r0 == begun.particles[p]
           new == ElementPassed(r)
           l == NextElement(t)
<1>1. /\ AtElement(t) /\ UNCHANGED <<call, begun>>
      /\ particles' = [particles EXCEPT ![p] = ElementPassed(@)]
      /\ thread' = [thread EXCEPT ![t] = l]
    BY DEF TrackNext, TrackElement, AtElement
<1>2. /\ OnWay(thread[t], r, r0) /\ r \in Records /\ r0 \in Records
      /\ p \in Particles /\ thread[t] \in Locals /\ call \in Calls /\ ~Idle
    BY <1>1, OnWayFacts
<1>3. /\ l \in Locals /\ l.pidx = p /\ l.pc # "next" /\ l.be = thread[t].be + 1
      /\ l.start = thread[t].start
    BY <1>2 DEF NextElement, InLoop, Locals
<1>4. /\ new \in Records /\ new.at_turn = r.at_turn /\ new.state = r.state
    BY <1>2, ElementPassedRecord DEF ElementPassed, Records
<1>5. new = [r0 EXCEPT !.at_element_id = @ + (l.be - call.first), !.at_turn = new.at_turn]
    <2>1. r = [r0 EXCEPT !.at_element_id = @ + (thread[t].be - call.first), !.at_turn = r.at_turn]
        BY <1>2 DEF OnWay
    <2>2. /\ r0.at_element_id \in Nat /\ thread[t].be \in Nat /\ call.first \in Nat
        BY <1>2 DEF Records, Locals, Calls
    <2>3. r.at_element_id + 1 = r0.at_element_id + (l.be - call.first)
        <3>1. r.at_element_id = r0.at_element_id + (thread[t].be - call.first)
            BY <1>2, <2>1 DEF Records
        <3> QED BY <1>3, <2>2, <3>1
    <2>4. new = [r EXCEPT !.at_element_id = r0.at_element_id + (l.be - call.first)]
        BY <2>3 DEF ElementPassed
    <2> HIDE DEF l, r, r0
    <2> QED BY <1>2, <1>4, <2>1, <2>4 DEF Records
<1>6. OnWay(l, new, r0)
    <2>1. call.first <= l.be
        BY <1>2, <1>3 DEF OnWay, Locals, Calls
    <2> HIDE DEF l, r, r0, new
    <2> QED BY <1>2, <1>3, <1>4, <1>5, <2>1 DEF OnWay, Lost
<1>7. particles' = [particles EXCEPT ![p] = new] /\ call' = [call EXCEPT !.status = call.status]
    BY <1>1, <1>2 DEF Calls, InductiveInv, TypeOK
<1>8. call.status \in {"success", "failure"}
    BY <1>2 DEF Calls
<1> HIDE DEF l, new
<1> QED BY <1>1, <1>2, <1>3, <1>4, <1>6, <1>7, <1>8, PositionStep

\* At the end of a turn it is back at its starting element, one turn further,
\* and the turn is the last one when it is where the call was to take it.
LEMMA TrackTurnEndPosition ==
    ASSUME InductiveInv, PositionInv, NEW t \in Threads, TrackTurnEnd(t)
    PROVE  PositionInv'
<1> DEFINE p == thread[t].pidx
           r == particles[p]
           r0 == begun.particles[p]
           new == TurnFinished(r, thread[t].start)
           l == NextTurn(t)
<1>1. /\ AtElement(t) /\ UNCHANGED <<call, begun>> /\ call.kind # "line"
      /\ particles' = [particles EXCEPT ![p] = new]
      /\ thread' = [thread EXCEPT ![t] =
            IF r.at_turn + 1 < call.until THEN l ELSE Advance(t)]
    BY DEF TrackTurnEnd, TrackElement, AtElement
<1>2. /\ OnWay(thread[t], r, r0) /\ r \in Records /\ r0 \in Records
      /\ p \in Particles /\ thread[t] \in Locals /\ call \in Calls /\ ~Idle
      /\ call.first = 0
    BY <1>1, OnWayFacts
<1>3. /\ l \in Locals /\ l.pidx = p /\ l.pc # "next" /\ l.be = 0
      /\ l.start = thread[t].start
    BY <1>2 DEF NextTurn, InLoop, Locals
<1>4. /\ new \in Records /\ new.at_turn = r.at_turn + 1 /\ new.state = r.state
      /\ new.at_element_id = thread[t].start /\ new.particle_id = r.particle_id
    BY <1>2, TurnFinishedRecord DEF TurnFinished, Locals
<1>5. /\ r0.at_element_id \in Nat /\ r0.at_turn \in Nat /\ r.at_turn \in Nat
      /\ call.until \in Nat
    BY <1>2 DEF Records, Calls
<1>6. /\ thread[t].start = r0.at_element_id /\ r.at_turn >= r0.at_turn
      /\ r.at_turn < call.until /\ r.state = r0.state /\ r.particle_id = r0.particle_id
      /\ call.kind # "elem_by_elem" => ~Lost(r)
    BY <1>1, <1>2 DEF OnWay, Records
<1>7. ASSUME r.at_turn + 1 < call.until PROVE OnWay(l, new, r0)
    <2>1. r0.at_element_id + (l.be - call.first) = r0.at_element_id
        BY <1>2, <1>3, <1>5
    <2>2. new = [r0 EXCEPT !.at_element_id = r0.at_element_id, !.at_turn = new.at_turn]
        <3> HIDE DEF r, r0, new
        <3> QED BY <1>2, <1>4, <1>6 DEF Records
    <2>3. call.first <= l.be /\ new.at_turn >= r0.at_turn /\ new.at_turn < call.until
        <3> HIDE DEF r, r0, new, l
        <3> QED BY <1>2, <1>3, <1>4, <1>5, <1>6, <1>7
    <2> HIDE DEF l, r, r0, new
    <2> QED BY <1>1, <1>3, <1>4, <1>6, <2>1, <2>2, <2>3 DEF OnWay, Lost
<1>8. ASSUME ~(r.at_turn + 1 < call.until) PROVE Served(new, r0)
    <2> HIDE DEF r, r0, new
    <2> QED BY <1>1, <1>4, <1>5, <1>6, <1>8 DEF Served, Delivered
<1>9. call' = [call EXCEPT !.status = call.status] /\ call.status \in {"success", "failure"}
    BY <1>1, <1>2 DEF Calls
<1>10. Advance(t) \in Locals
    BY AdvanceFacts DEF InductiveInv
<1> HIDE DEF l, new
<1>11. CASE r.at_turn + 1 < call.until
    BY <1>1, <1>2, <1>3, <1>4, <1>7, <1>9, <1>11, PositionStep
<1>12. CASE ~(r.at_turn + 1 < call.until)
    BY <1>1, <1>2, <1>4, <1>8, <1>9, <1>10, <1>12, PositionStep
<1> QED BY <1>11, <1>12

\* At the end of a section it is where the call was to take it.
LEMMA TrackLineEndPosition ==
    ASSUME InductiveInv, PositionInv, NEW t \in Threads, TrackLineEnd(t)
    PROVE  PositionInv'
<1> DEFINE p == thread[t].pidx
           r == particles[p]
           r0 == begun.particles[p]
           new == IF call.finish_turn THEN TurnFinished(r, 0) ELSE ElementPassed(r)
<1>1. /\ AtElement(t) /\ UNCHANGED <<call, begun>> /\ call.kind = "line"
      /\ thread[t].be + 1 = call.last
      /\ thread' = [thread EXCEPT ![t] = Advance(t)]
    BY DEF TrackLineEnd, TrackElement, AtElement
<1>2. /\ OnWay(thread[t], r, r0) /\ r \in Records /\ r0 \in Records
      /\ p \in Particles /\ thread[t] \in Locals /\ call \in Calls /\ ~Idle
    BY <1>1, OnWayFacts
<1>3. new \in Records
    BY <1>2, TurnFinishedRecord, ElementPassedRecord
<1>4. particles' = [particles EXCEPT ![p] = new]
    BY DEF TrackLineEnd
<1>5. Served(new, r0)
    <2>1. /\ r0.at_element_id \in Nat /\ thread[t].be \in Nat /\ call.first \in Nat
          /\ call.last \in Nat
        BY <1>2 DEF Records, Locals, Calls
    <2>2. /\ r.at_turn = r0.at_turn
          /\ r.at_element_id = r0.at_element_id + (thread[t].be - call.first)
        BY <1>1, <1>2 DEF OnWay, Records
    <2>3. CASE call.finish_turn
        <3>1. new.at_element_id = 0 /\ new.at_turn = r.at_turn + 1
            BY <1>2, <2>3, TurnFinishedRecord
        <3> QED BY <1>1, <2>2, <2>3, <3>1 DEF Served, Delivered
    <2>4. CASE ~call.finish_turn
        <3>1. new.at_element_id = r.at_element_id + 1 /\ new.at_turn = r.at_turn
            BY <1>2, <2>4, ElementPassedRecord
        <3>2. r.at_element_id + 1 = r0.at_element_id + (call.last - call.first)
            BY <1>1, <2>1, <2>2
        <3> QED BY <1>1, <2>2, <2>4, <3>1, <3>2 DEF Served, Delivered
    <2> QED BY <2>3, <2>4
<1>6. call' = [call EXCEPT !.status = call.status] /\ call.status \in {"success", "failure"}
    BY <1>1, <1>2 DEF Calls
<1>7. Advance(t) \in Locals
    BY AdvanceFacts DEF InductiveInv
<1> HIDE DEF new
<1> QED BY <1>1, <1>2, <1>3, <1>4, <1>5, <1>6, <1>7, PositionStep

\* What stopped a particle lost it or failed the call.
LEMMA TrackStopPosition ==
    ASSUME InductiveInv, PositionInv, NEW t \in Threads, TrackStop(t)
    PROVE  PositionInv'
<1> DEFINE p == thread[t].pidx
           r == particles[p]
<1>1. /\ AtElement(t) /\ begun' = begun
      /\ thread' = [thread EXCEPT ![t] = Advance(t)]
    BY DEF TrackStop, AtElement
<1>2. /\ p \in Particles /\ thread[t].be \in Elements
      /\ r \in Records /\ call \in Calls /\ ~Idle
    BY <1>1, AtElementFacts
<1>3. PICK o \in Outcomes(thread[t].be, r) :
        /\ ~Continues(o)
        /\ particles' = [particles EXCEPT ![p].state = StopState(o)]
        /\ call' = [call EXCEPT !.status = StatusAfter(o)]
    BY DEF TrackStop
<1>4. o.state \in {0, 1} /\ o.status \in {"success", "failure"}
    BY <1>2, <1>3, OutcomeFacts
<1>5. /\ StopState(o) \in {0, 1} /\ StatusAfter(o) \in {"success", "failure"}
      /\ StatusAfter(o) = "success" => call.status = "success" /\ StopState(o) = 0
    BY <1>2, <1>3, <1>4 DEF StopState, StatusAfter, Calls, Continues
<1>6. PICK x \in {0, 1}, s \in {"success", "failure"} :
        x = StopState(o) /\ s = StatusAfter(o)
    BY <1>5
<1> DEFINE new == [r EXCEPT !.state = x]
<1>7. new \in Records /\ new.state = x
    BY <1>2 DEF Records
<1>8. particles' = [particles EXCEPT ![p] = new] /\ call' = [call EXCEPT !.status = s]
    BY <1>3, <1>6
<1>9. s = "success" => call.status = "success" /\ Served(new, begun.particles[p])
    BY <1>5, <1>6, <1>7 DEF Served, Lost
<1>10. Advance(t) \in Locals
    BY AdvanceFacts DEF InductiveInv
<1> HIDE DEF new
<1> QED BY <1>1, <1>2, <1>7, <1>8, <1>9, <1>10, PositionStep

\* The work item that owns a particle starts at it or before it.
LEMMA OwnerIsNotAhead ==
    ASSUME NEW p \in Particles
    PROVE  \E j \in Nat : j = p % NumThreads /\ j <= p
<1>1. PICK n \in Nat \ {0} : n = NumThreads
    BY ThreadsAssumption
<1>2. p \in Nat
    BY OwnerIsThread
<1>3. PICK j \in Int, d \in Nat : j = p % n /\ d = p \div n /\ j >= 0
    BY <1>1, <1>2
<1>4. p = d * n + j
    BY <1>1, <1>2, <1>3
<1>5. d * n \in Nat
    BY <1>1, <1>3
<1>6. j <= p
    BY <1>2, <1>3, <1>4, <1>5
<1> QED BY <1>1, <1>3, <1>6

\* When a kernel is launched every particle is ahead, as the call finds it.
LEMMA LaunchPosition ==
    ASSUME InductiveInv, PositionInv, NEW c \in Calls, Launch(c)
    PROVE  PositionInv'
<1>1. /\ Idle /\ begun = Rest /\ UNCHANGED <<particles, elem_store, mon_store, begun>>
      /\ thread' = [t \in Threads |-> AtNext(t)]
    BY DEF Launch, PositionInv
<1>2. \A t \in Threads : thread'[t].pidx = t /\ thread'[t].pc = "next"
    BY <1>1 DEF AtNext
<1>3. begun'.particles = particles'
    BY <1>1 DEF Rest
<1>4. ASSUME NEW p \in Particles PROVE ~DoneWith(p)'
    <2>1. p % NumThreads \in Threads /\ p \in Nat
        BY OwnerIsThread
    <2>2. PICK j \in Nat : j = p % NumThreads /\ j <= p
        BY OwnerIsNotAhead
    <2>3. thread'[p % NumThreads].pidx = p % NumThreads
        BY <1>2, <2>1
    <2> QED BY <2>1, <2>2, <2>3 DEF DoneWith
<1>5. Idle' => begun' = Rest'
    BY <1>1 DEF Rest
<1> QED BY <1>2, <1>3, <1>4, <1>5 DEF PositionInv, AtElement

\* When it returns, the history is brought up to the present.
LEMMA ReturnPosition ==
    ASSUME InductiveInv, PositionInv, Return
    PROVE  PositionInv'
<1>1. /\ begun' = Rest /\ UNCHANGED <<particles, thread, elem_store, mon_store>>
      /\ call' = [NoCall EXCEPT !.status = call.status]
      /\ \A t \in Threads : thread[t].pc = "next"
    BY DEF Return, AllDone
<1>2. Rest' = Rest /\ Idle' /\ \A t \in Threads : ~AtElement(t)'
    BY <1>1 DEF Rest, Idle, NoCall, Request, AtElement
<1> QED BY <1>1, <1>2 DEF PositionInv

\* The positions are as they should be after every step.
LEMMA NextPosition ==
    ASSUME InductiveInv, PositionInv, [Next]_vars
    PROVE  PositionInv'
<1>1. CASE LaunchUntilTurn
    <2>1. PICK until \in UntilTurns : Launch(CallUntil("until_turn", until))
        BY <1>1 DEF LaunchUntilTurn
    <2> QED BY <2>1, RequestFacts, LaunchPosition
<1>2. CASE LaunchElemByElem
    <2>1. PICK until \in UntilTurns : Launch(CallUntil(KernelFor, until))
        BY <1>2 DEF LaunchElemByElem
    <2> QED BY <2>1, RequestFacts, LaunchPosition
<1>3. CASE LaunchLine
    <2>1. PICK section \in Sections, finish \in BOOLEAN :
            Launch(CallLine(section, finish))
        BY <1>3 DEF LaunchLine
    <2> QED BY <2>1, RequestFacts, LaunchPosition
<1>4. ASSUME NEW t \in Threads, WorkItem(t) PROVE PositionInv'
    BY <1>4, EnterPosition, SkipPosition, StorePosition, TrackNextPosition,
       TrackTurnEndPosition, TrackLineEndPosition, TrackStopPosition DEF WorkItem
<1>5. CASE Return
    BY <1>5, ReturnPosition
<1>6. CASE UNCHANGED vars
    BY <1>6 DEF vars, PositionInv, Idle, Rest, Ahead, DoneWith, AtElement, OnWay,
       Served, Delivered, Lost
<1> QED BY <1>1, <1>2, <1>3, <1>4, <1>5, <1>6 DEF Next

\* Before the first call everything is at rest.
LEMMA InitPosition == Init => PositionInv
    BY DEF Init, PositionInv, Idle, NoCall, Request, AtElement, AtNext

\* When all work items have run out of particles, every particle is done with.
LEMMA AllServed ==
    ASSUME InductiveInv, PositionInv, ~Idle, AllDone, call.status = "success",
           NumElements > 0, NEW p \in Particles
    PROVE  Served(particles[p], begun.particles[p])
<1>1. p % NumThreads \in Threads /\ p \in Nat
    BY OwnerIsThread
<1>2. PICK x \in Nat : x = thread[p % NumThreads].pidx
    BY <1>1 DEF InductiveInv, TypeOK, Locals
<1>3. x \notin Particles
    BY <1>1, <1>2 DEF AllDone
<1>4. p < x
    BY <1>1, <1>3, BeamlineAssumption DEF Particles
<1>5. DoneWith(p)
    BY <1>2, <1>4 DEF DoneWith
<1> QED BY <1>5 DEF PositionInv

\* The positions hold in every reachable state.
THEOREM TrackingPositions == Spec => []PositionInv
    BY InitPosition, NextPosition, TrackingInductive, PTL DEF Spec

\* A call that returns success has taken every particle that is not lost to
\* where it was asked to.
THEOREM TrackingSuccessDelivers == Spec => SuccessDelivers
<1>1. InductiveInv /\ PositionInv /\ [Next]_vars =>
        [(~Idle /\ Idle' /\ call.status = "success" /\ NumElements > 0) =>
            \A p \in Particles :
                Lost(particles[p]) \/ Delivered(particles[p], begun.particles[p])]_vars
    <2> SUFFICES ASSUME InductiveInv, PositionInv, [Next]_vars, ~Idle, Idle',
                        call.status = "success", NumElements > 0, NEW p \in Particles
                 PROVE  Lost(particles[p]) \/ Delivered(particles[p], begun.particles[p])
        OBVIOUS
    <2>1. call' # call
        BY DEF Idle
    <2>2. ASSUME NEW t \in Threads, WorkItem(t) PROVE FALSE
        <3>1. call \in Calls
            BY DEF InductiveInv, TypeOK
        <3>2. call'.kind = call.kind
            BY <2>1, <2>2, <3>1
            DEF WorkItem, EnterParticle, SkipParticle, StoreElemByElem, TrackNext,
                TrackTurnEnd, TrackLineEnd, TrackElement, TrackStop, Calls
        <3> QED BY <3>2 DEF Idle
    <2>3. AllDone
        BY <2>1, <2>2 DEF Next, LaunchUntilTurn, LaunchElemByElem, LaunchLine, Launch,
           Return, vars
    <2> QED BY <2>3, AllServed DEF Served
<1> QED BY <1>1, TrackingInductive, TrackingPositions, PTL DEF Spec, SuccessDelivers

-----------------------------------------------------------------------------
(* Refinement: the work items implement the atomic calls of TrackCalls, if *)
(* no slot of a monitor is computed for two particles.                     *)


\* No slot is computed for two particles when the monitors were prepared for the particles that are
\* tracked, in the default order.
LEMMA CoverDistinct == MonitorsCover => MonitorSlotsDistinct
<1> SUFFICES ASSUME MonitorsCover,
                    NEW e \in MonitorElements, NEW p \in Particles, NEW q \in Particles,
                    NEW t1 \in Nat, NEW t2 \in Nat,
                    StoreParticleIndex(Monitor[e], t1, ParticleId[p]) >= 0,
                    StoreParticleIndex(Monitor[e], t1, ParticleId[p])
                      = StoreParticleIndex(Monitor[e], t2, ParticleId[q])
             PROVE  p = q
    BY DEF MonitorSlotsDistinct
<1>1. /\ ParticleId[p] \in Nat /\ ParticleId[q] \in Nat /\ Monitor[e] \in Monitors
      /\ Monitor[e].is_turn_ordered /\ Monitor[e].num_stores > 0
      /\ Monitor[e].min_particle_id <= ParticleId[p]
      /\ ParticleId[p] <= Monitor[e].max_particle_id
      /\ Monitor[e].min_particle_id <= ParticleId[q]
      /\ ParticleId[q] <= Monitor[e].max_particle_id
    BY BeamlineAssumption DEF MonitorsCover
<1>2. ParticleId[p] = ParticleId[q]
    BY <1>1, MonitorIndexUnique
<1> QED BY <1>2, UniqueIds

-----------------------------------------------------------------------------
(* One particle at one element is the same thing in both specifications.   *)

\* Both specifications have the same particles, elements and slots.
LEMMA SameSets ==
    /\ AtomicCalls!Particles = Particles /\ AtomicCalls!ElemSlots = ElemSlots
    /\ AtomicCalls!MonitorElements = MonitorElements
    /\ \A e : AtomicCalls!MonSlots(e) = MonSlots(e)
    BY Zenon DEF AtomicCalls!Particles, Particles, AtomicCalls!ElemSlots, ElemSlots,
        AtomicCalls!OutStoreNumParticles, OutStoreNumParticles,
        AtomicCalls!MonitorElements, MonitorElements, AtomicCalls!Elements, Elements,
        AtomicCalls!MonSlots, MonSlots

\* Both compute the same indices into the outputs.
LEMMA SameIndex ==
    /\ \A c, id, elem, turn :
          AtomicCalls!StoreIndex(c, id, elem, turn) = StoreIndex(c, id, elem, turn)
    /\ \A e, r : AtomicCalls!MonIndex(e, r) = MonIndex(e, r)
    /\ \A e, r : AtomicCalls!MonitorActs(e, r) = MonitorActs(e, r)
    /\ \A e, r : AtomicCalls!MonitorStores(e, r) = MonitorStores(e, r)
<1>1. \A c, id, elem, turn :
          AtomicCalls!StoreIndex(c, id, elem, turn) = StoreIndex(c, id, elem, turn)
    <2>1. \A c, id, elem, turn :
              AtomicCalls!InWindow(c, id, elem, turn) = InWindow(c, id, elem, turn)
        BY Zenon DEF AtomicCalls!InWindow, InWindow
    <2>2. \A c, id, elem, turn :
              AtomicCalls!FlatIndex(c, id, elem, turn) = FlatIndex(c, id, elem, turn)
        BY Zenon DEF AtomicCalls!FlatIndex, FlatIndex
    <2>3. \A c, i : AtomicCalls!Wrapped(c, i) = Wrapped(c, i)
        BY Zenon DEF AtomicCalls!Wrapped, Wrapped, AtomicCalls!OutStoreNumParticles,
            OutStoreNumParticles
    <2> QED BY <2>1, <2>2, <2>3, Zenon DEF AtomicCalls!StoreIndex, StoreIndex,
            AtomicCalls!TurnElemParticles, TurnElemParticles
<1>2. \A e, r : AtomicCalls!MonIndex(e, r) = MonIndex(e, r)
    BY Zenon DEF AtomicCalls!MonIndex, MonIndex, AtomicCalls!StoreParticleIndex,
        StoreParticleIndex, AtomicCalls!Samples, Samples, AtomicCalls!StoreRow, StoreRow,
        AtomicCalls!ParticlesPerTurn, ParticlesPerTurn
<1>3. \A e, r : AtomicCalls!MonitorActs(e, r) = MonitorActs(e, r)
    BY <1>2, Zenon DEF AtomicCalls!MonitorActs, MonitorActs, AtomicCalls!NullAddress,
        NullAddress
<1>4. \A e, r : AtomicCalls!MonitorStores(e, r) = MonitorStores(e, r)
    BY <1>2, <1>3, SameSets, Zenon DEF AtomicCalls!MonitorStores, MonitorStores
<1> QED BY <1>1, <1>2, <1>3, <1>4

\* Both let one element act on a particle, and write outputs, in the same way.
LEMMA SameElement ==
    /\ \A r : AtomicCalls!Lost(r) = Lost(r)
    /\ \A e, r : AtomicCalls!Outcomes(e, r) = Outcomes(e, r)
    /\ \A o : AtomicCalls!Continues(o) = Continues(o)
    /\ \A e, r : AtomicCalls!Passes(e, r) = Passes(e, r)
    /\ \A r, n : AtomicCalls!TurnFinished(r, n) = TurnFinished(r, n)
<1>1. \A e, r : AtomicCalls!Outcomes(e, r) = Outcomes(e, r)
    BY SameIndex, Zenon DEF AtomicCalls!Outcomes, Outcomes, AtomicCalls!Outcome, Outcome
<1>2. \A o : AtomicCalls!Continues(o) = Continues(o)
    BY Zenon DEF AtomicCalls!Continues, Continues
<1> QED BY <1>1, <1>2, Zenon DEF AtomicCalls!Lost, Lost, AtomicCalls!Passes, Passes,
        AtomicCalls!TurnFinished, TurnFinished

-----------------------------------------------------------------------------
(* The journey of a particle.                                              *)

\* The point of its journey the particle of work item t is at.
Point(t) ==
    (particles[thread[t].pidx].at_turn - begun.particles[thread[t].pidx].at_turn)
      * (call.last - call.first)
    + (thread[t].be - call.first)

\* A record m elements and q turns on.
Moved(r, m, q) == [r EXCEPT !.at_element_id = @ + m, !.at_turn = @ + q]

\* A number of laps and elements: what the division by the lap gives back.
LEMMA LapDigits ==
    ASSUME NEW lap \in Nat \ {0}, NEW q \in Nat, NEW m \in 0 .. lap - 1
    PROVE  /\ q * lap + m \in Nat
           /\ (q * lap + m) \div lap = q /\ (q * lap + m) % lap = m
<1>1. q * lap + m \in Nat
    <2>1. q * lap \in Nat
        OBVIOUS
    <2> QED BY <2>1
<1> QED BY <1>1, DivModRadix

\* And every number has them.
LEMMA LapDivision ==
    ASSUME NEW lap \in Nat \ {0}, NEW k \in Nat
    PROVE  k \div lap \in Nat /\ k % lap \in 0 .. lap - 1
    OBVIOUS

\* A point is a number of whole laps and a number of elements.
LEMMA PointDigits ==
    ASSUME NEW r, NEW k
    PROVE  /\ AtomicCalls!AtPoint(r, k) =
                Moved(r, k % (call.last - call.first), k \div (call.last - call.first))
           /\ AtomicCalls!ElementAt(k) = call.first + (k % (call.last - call.first))
    BY Zenon DEF AtomicCalls!AtPoint, AtomicCalls!ElementAt, AtomicCalls!Lap, Moved

\* At every point a particle has the id and the state it started with.
LEMMA PointRecord ==
    ASSUME NEW lap \in Nat \ {0}, lap = call.last - call.first,
           NEW k \in Nat, NEW r \in Records
    PROVE  /\ AtomicCalls!AtPoint(r, k) \in Records
           /\ AtomicCalls!AtPoint(r, k).particle_id = r.particle_id
           /\ AtomicCalls!AtPoint(r, k).state = r.state
<1>1. PICK q \in Nat, m \in 0 .. lap - 1 : q = k \div lap /\ m = k % lap
    BY LapDivision
<1>3. AtomicCalls!AtPoint(r, k) = Moved(r, m, q)
    BY <1>1, PointDigits, Zenon
<1>4. r.at_element_id + m \in Nat /\ r.at_turn + q \in Nat
    BY DEF Records
<1> QED BY <1>3, <1>4 DEF Records, Moved

\* A particle in the loop is at the point that its work item counts, which is
\* not the last of its journey.
LEMMA PointFacts ==
    ASSUME InductiveInv, PositionInv, NEW t \in Threads, AtElement(t),
           NEW p \in Particles, p = thread[t].pidx,
           NEW r0, r0 = begun.particles[p]
    PROVE  /\ r0 \in Records
           /\ Point(t) \in Nat
           /\ particles[p] = AtomicCalls!AtPoint(r0, Point(t))
           /\ thread[t].be = AtomicCalls!ElementAt(Point(t))
           /\ Point(t) < AtomicCalls!JourneyLength(r0)
           /\ call.last - call.first \in Nat \ {0}
<1> DEFINE r == particles[p]
           lap == call.last - call.first
           q == r.at_turn - r0.at_turn
           m == thread[t].be - call.first
<1>1. /\ OnWay(thread[t], r, r0) /\ r0 \in Records /\ r \in Records
      /\ thread[t] \in Locals /\ call \in Calls /\ ~Idle
      /\ thread[t].be < call.last
    BY OnWayFacts, AtElementFacts
<1>2. /\ r.at_turn \in Nat /\ r0.at_turn \in Nat /\ r0.at_element_id \in Nat
      /\ thread[t].be \in Nat
      /\ call.first \in Nat /\ call.last \in Nat /\ call.until \in Nat
      /\ call.kind \in {"until_turn", "elem_by_elem", "line"}
    BY <1>1 DEF Records, Locals, Calls, Idle
<1>3. /\ call.first <= thread[t].be /\ r.at_turn >= r0.at_turn
      /\ r = [r0 EXCEPT !.at_element_id = @ + m, !.at_turn = r.at_turn]
      /\ call.kind = "line" => r.at_turn = r0.at_turn
      /\ call.kind # "line" => r.at_turn < call.until
      /\ call.kind # "elem_by_elem" => ~Lost(r)
    BY <1>1 DEF OnWay
<1>4. lap \in Nat \ {0} /\ q \in Nat /\ m \in 0 .. lap - 1
    BY <1>1, <1>2, <1>3
<1>5. Point(t) = q * lap + m
    BY DEF Point
<1>6. r = Moved(r0, m, q)
    <2>1. r0.at_turn + q = r.at_turn
        BY <1>2
    <2> HIDE DEF r, q, m
    <2> QED BY <1>1, <1>3, <2>1 DEF Records, Moved
<1>7. call.first + m = thread[t].be
    BY <1>2
<1>8. r0.state = r.state
    BY <1>1, <1>3 DEF Records
<1>9. AtomicCalls!JourneyLength(r0) =
        IF call.kind = "line" THEN lap ELSE (call.until - r0.at_turn) * lap
    <2>1. ~(AtomicCalls!Lost(r0) /\ call.kind # "elem_by_elem")
        BY <1>3, <1>8, SameElement DEF Lost
    <2>2. call.kind # "line" => call.until > r0.at_turn
        BY <1>2, <1>3
    <2> HIDE DEF r
    <2> QED BY <2>1, <2>2 DEF AtomicCalls!JourneyLength, AtomicCalls!Lap
<1> HIDE DEF r, lap, q, m
<1>10. q * lap + m < AtomicCalls!JourneyLength(r0)
    <2>1. CASE call.kind = "line"
        <3>1. q = 0
            BY <1>2, <1>3, <2>1 DEF q
        <3> QED BY <1>4, <1>9, <2>1, <3>1
    <2>2. CASE call.kind # "line"
        <3>1. q + 1 <= call.until - r0.at_turn
            BY <1>2, <1>3, <2>2 DEF q
        <3>2. PICK n \in Int : n = call.until - r0.at_turn
            BY <1>2
        <3>3. (q + 1) * lap <= n * lap
            BY <1>4, <3>1, <3>2, ProductMonotone
        <3>4. (q + 1) * lap = q * lap + lap /\ q * lap \in Int /\ n * lap \in Int
            BY <1>4, <3>2
        <3> QED BY <1>4, <1>9, <2>2, <3>2, <3>3, <3>4
    <2> QED BY <2>1, <2>2
<1>11. lap = call.last - call.first
    BY DEF lap
<1>12. PICK n \in Nat \ {0}, x \in Nat : n = lap /\ x = q
    BY <1>4
<1>13. PICK y \in 0 .. n - 1 : y = m
    BY <1>4, <1>12
<1>14. PICK k \in Nat : k = x * n + y
    BY LapDigits
<1>15. /\ AtomicCalls!AtPoint(r0, k) = Moved(r0, y, x)
       /\ AtomicCalls!ElementAt(k) = call.first + y
    <2>1. n = call.last - call.first
        BY <1>11, <1>12
    <2>2. k \div n = x /\ k % n = y
        BY <1>12, <1>13, <1>14, LapDigits
    <2> QED BY <2>1, <2>2, PointDigits, Zenon
<1>16. k = Point(t)
    BY <1>5, <1>12, <1>13, <1>14
<1>17. AtomicCalls!AtPoint(r0, k) = r /\ AtomicCalls!ElementAt(k) = thread[t].be
    BY <1>6, <1>7, <1>12, <1>13, <1>15
<1>18. k < AtomicCalls!JourneyLength(r0)
    BY <1>10, <1>12, <1>13, <1>14
<1> QED BY <1>1, <1>4, <1>11, <1>14, <1>16, <1>17, <1>18 DEF r

-----------------------------------------------------------------------------
(* Journeys, point by point.                                               *)

\* A particle that passes one more point passes to the next.
LEMMA PassesOneMore ==
    ASSUME NEW r, NEW k \in Nat, AtomicCalls!PassesTo(r, k),
           AtomicCalls!Passes(AtomicCalls!ElementAt(k), AtomicCalls!AtPoint(r, k))
    PROVE  AtomicCalls!PassesTo(r, k + 1)
<1>1. \A j \in 0 .. (k + 1) - 1 : j \in 0 .. k - 1 \/ j = k
    OBVIOUS
<1> QED BY <1>1, Zenon DEF AtomicCalls!PassesTo

\* What falls on a slot of the element by element store with one point more.
LEMMA ElemHitsOneMore ==
    ASSUME NEW r, NEW k \in Nat, NEW i
    PROVE  /\ AtomicCalls!ElemHits(r, k, i) \subseteq 0 .. k - 1
           /\ AtomicCalls!ElemHits(r, k + 1, i) =
                IF /\ call.kind = "elem_by_elem"
                   /\ StoreIndex(Config, r.particle_id,
                                 AtomicCalls!AtPoint(r, k).at_element_id,
                                 AtomicCalls!AtPoint(r, k).at_turn) = i
                THEN AtomicCalls!ElemHits(r, k, i) \cup {k}
                ELSE AtomicCalls!ElemHits(r, k, i)
<1>1. \A j : j \in 0 .. (k + 1) - 1 <=> j \in 0 .. k - 1 \/ j = k
    OBVIOUS
<1> QED BY <1>1, SameIndex, Zenon DEF AtomicCalls!ElemHits

\* And on a slot of a monitor.
LEMMA MonHitsOneMore ==
    ASSUME NEW r, NEW k \in Nat, NEW e, NEW i
    PROVE  /\ AtomicCalls!MonHits(r, k, e, i) \subseteq 0 .. k - 1
           /\ AtomicCalls!MonHits(r, k + 1, e, i) =
                IF /\ AtomicCalls!ElementAt(k) = e
                   /\ MonitorStores(e, AtomicCalls!AtPoint(r, k))
                   /\ MonIndex(e, AtomicCalls!AtPoint(r, k)) = i
                THEN AtomicCalls!MonHits(r, k, e, i) \cup {k}
                ELSE AtomicCalls!MonHits(r, k, e, i)
<1>1. \A j : j \in 0 .. (k + 1) - 1 <=> j \in 0 .. k - 1 \/ j = k
    OBVIOUS
<1> QED BY <1>1, SameIndex, Zenon DEF AtomicCalls!MonHits

\* The last of the points up to k is k.
LEMMA LatestIsLast ==
    ASSUME NEW k \in Nat, NEW hits, hits \subseteq 0 .. k - 1
    PROVE  AtomicCalls!Max(hits \cup {k}) = k
<1>1. \A y \in hits \cup {k} : k >= y /\ y \in Int
    OBVIOUS
<1>2. \A x \in hits \cup {k} : (\A y \in hits \cup {k} : x >= y) => x = k
    <2> TAKE x \in hits \cup {k}
    <2>1. x >= k => x = k
        BY <1>1
    <2> QED BY <2>1
<1>3. AtomicCalls!Max(hits \cup {k}) =
        CHOOSE x \in hits \cup {k} : \A y \in hits \cup {k} : x >= y
    BY DEF AtomicCalls!Max
<1>4. \E x \in hits \cup {k} : \A y \in hits \cup {k} : x >= y
    BY <1>1
<1> QED BY <1>2, <1>3, <1>4, Zenon

\* The journey depends on what was asked, not on how it went so far.
LEMMA SameJourney ==
    ASSUME call'.kind = call.kind, call'.first = call.first, call'.last = call.last,
           NEW r
    PROVE  /\ \A k : AtomicCalls!PassesTo(r, k)' <=> AtomicCalls!PassesTo(r, k)
           /\ \A n, i : AtomicCalls!ElemHits(r, n, i)' = AtomicCalls!ElemHits(r, n, i)
           /\ \A n, e, i : AtomicCalls!MonHits(r, n, e, i)' = AtomicCalls!MonHits(r, n, e, i)
           /\ \A k : AtomicCalls!AtPoint(r, k)' = AtomicCalls!AtPoint(r, k)
<1>1. \A k : AtomicCalls!AtPoint(r, k)' = AtomicCalls!AtPoint(r, k)
    BY Zenon DEF AtomicCalls!AtPoint, AtomicCalls!Lap
<1>2. \A k : AtomicCalls!ElementAt(k)' = AtomicCalls!ElementAt(k)
    BY Zenon DEF AtomicCalls!ElementAt, AtomicCalls!Lap
<1>3. \A k : AtomicCalls!PassesTo(r, k)' <=> AtomicCalls!PassesTo(r, k)
    BY <1>1, <1>2, Zenon DEF AtomicCalls!PassesTo
<1>4. \A n, i : AtomicCalls!ElemHits(r, n, i)' = AtomicCalls!ElemHits(r, n, i)
    BY <1>1, SMT DEF AtomicCalls!ElemHits
<1>5. \A n, e, i : AtomicCalls!MonHits(r, n, e, i)' = AtomicCalls!MonHits(r, n, e, i)
    BY <1>1, <1>2, SMT DEF AtomicCalls!MonHits
<1> QED BY <1>1, <1>3, <1>4, <1>5

-----------------------------------------------------------------------------
(* The output.                                                             *)

\* The particles that a slot can be computed for.
ElemOwners(i) ==
    {p \in Particles : \E elem, turn \in Nat :
        StoreIndex(Config, ParticleId[p], elem, turn) = i}

MonOwners(e, i) ==
    {p \in Particles : \E turn \in Nat :
        StoreParticleIndex(Monitor[e], turn, ParticleId[p]) = i}

OneOwner(owners) == \A p, q \in owners : p = q

\* Two particles never share a slot of the element by element store.
LEMMA ElemOneOwner ==
    ASSUME NEW i \in ElemSlots
    PROVE  OneOwner(ElemOwners(i))
<1> SUFFICES ASSUME NEW p \in ElemOwners(i), NEW q \in ElemOwners(i) PROVE p = q
    BY DEF OneOwner
<1>1. /\ p \in Particles /\ q \in Particles
      /\ \E elem, turn \in Nat : StoreIndex(Config, ParticleId[p], elem, turn) = i
      /\ \E elem, turn \in Nat : StoreIndex(Config, ParticleId[q], elem, turn) = i
    BY DEF ElemOwners
<1>2. PICK e1 \in Nat, t1 \in Nat : StoreIndex(Config, ParticleId[p], e1, t1) = i
    BY <1>1
<1>3. PICK e2 \in Nat, t2 \in Nat : StoreIndex(Config, ParticleId[q], e2, t2) = i
    BY <1>1
<1>4. ParticleId[p] \in Nat /\ ParticleId[q] \in Nat /\ Config \in Configs
    BY <1>1, BeamlineAssumption
<1>5. i >= 0 /\ i # -1
    <2>1. OutStoreNumParticles(Config) \in Int
        BY <1>4 DEF OutStoreNumParticles, Configs
    <2> QED BY <2>1 DEF ElemSlots
<1>6. WindowConsistent(Config)
    <2>1. WindowEmpty(Config) => StoreIndex(Config, ParticleId[p], e1, t1) = -1
        BY <1>2, <1>4, EmptyWindowStoresNothing
    <2> QED BY <1>2, <1>5, <2>1, ConfigFromApi
<1>7. /\ InWindow(Config, ParticleId[p], e1, t1)
      /\ InWindow(Config, ParticleId[q], e2, t2)
      /\ Config.order = TurnElemParticles
    BY <1>2, <1>3, <1>5 DEF StoreIndex
<1>8. PICK p1 \in Int, p2 \in Int : p1 = ParticleId[p] /\ p2 = ParticleId[q]
    BY <1>4
<1>9. e1 \in Int /\ t1 \in Int /\ e2 \in Int /\ t2 \in Int
    BY <1>2, <1>3
<1>10. StoreIndex(Config, p1, e1, t1) = StoreIndex(Config, p2, e2, t2)
    BY <1>2, <1>3, <1>8
<1>11. p1 = p2
    BY <1>4, <1>6, <1>7, <1>8, <1>9, <1>10, StoreIndexCollision
<1> QED BY <1>1, <1>8, <1>11, UniqueIds

\* Nor a slot of a monitor.
LEMMA MonOneOwner ==
    ASSUME MonitorSlotsDistinct, NEW e \in MonitorElements, NEW i \in MonSlots(e)
    PROVE  OneOwner(MonOwners(e, i))
<1>1. i >= 0
    BY BeamlineAssumption DEF MonSlots
<1> QED BY <1>1 DEF OneOwner, MonOwners, MonitorSlotsDistinct

\* A slot holds what it did when the call began, or a record of an owner that
\* its work item has come to.
Touched(now, before, owners) ==
    \/ now = before
    \/ \E p \in owners : ~Ahead(p) /\ now.particle_id = ParticleId[p]

\* For a particle that began as r0 and was at some points, hits of which fall
\* on the slot: the slot holds the record of the last of them.  If there was
\* none, it holds what it did when the call began or a record of another.
Latest(r0, hits, now, before) ==
    IF hits = {} THEN now = before \/ now.particle_id # r0.particle_id
    ELSE now = AtomicCalls!AtPoint(r0, AtomicCalls!Max(hits))

\* A particle that began as r0, is at point k and was copied to the element by
\* element store at n points.
Journey(r0, k, n) ==
    /\ AtomicCalls!PassesTo(r0, k)
    /\ \A i \in ElemSlots :
          Latest(r0, AtomicCalls!ElemHits(r0, n, i), elem_store[i], begun.elem_store[i])
    /\ \A e \in MonitorElements : \A i \in MonSlots(e) :
          Latest(r0, AtomicCalls!MonHits(r0, k, e, i), mon_store[e][i],
                 begun.mon_store[e][i])

\* The points at which the particle of work item t was copied out.
ElemPoints(t) ==
    IF call.kind = "elem_by_elem" /\ thread[t].pc = "track" THEN Point(t) + 1 ELSE Point(t)

\* Work item t is with particle p, which began as r0.
OnJourney(t, p, r0, k, n) ==
    /\ AtElement(t) /\ p = thread[t].pidx /\ r0 = begun.particles[p]
    /\ k = Point(t) /\ n = ElemPoints(t)

\* Every change of the output is that of a particle that came by, and what a
\* particle under way has left there is its last record.
OutputInv ==
    /\ \A i \in ElemSlots :
          Touched(elem_store[i], begun.elem_store[i], ElemOwners(i))
    /\ \A e \in MonitorElements : \A i \in MonSlots(e) :
          Touched(mon_store[e][i], begun.mon_store[e][i], MonOwners(e, i))
    /\ \A t \in Threads, p \in Particles, r0 \in Records, k, n \in Nat :
          OnJourney(t, p, r0, k, n) => Journey(r0, k, n)

\* What falls on a slot falls there for the particle that owns it.
LEMMA ElemHitsOwned ==
    ASSUME NEW lap \in Nat \ {0}, lap = call.last - call.first,
           NEW p \in Particles, NEW r0 \in Records, r0.particle_id = ParticleId[p],
           NEW n \in Nat, NEW i, AtomicCalls!ElemHits(r0, n, i) # {}
    PROVE  p \in ElemOwners(i)
<1>1. PICK k \in 0 .. n - 1 :
        StoreIndex(Config, r0.particle_id, AtomicCalls!AtPoint(r0, k).at_element_id,
                   AtomicCalls!AtPoint(r0, k).at_turn) = i
    BY SameIndex, Zenon DEF AtomicCalls!ElemHits
<1>2. k \in Nat
    BY <1>1
<1>3. AtomicCalls!AtPoint(r0, k) \in Records
    BY <1>2, PointRecord
<1>4. /\ AtomicCalls!AtPoint(r0, k).at_element_id \in Nat
      /\ AtomicCalls!AtPoint(r0, k).at_turn \in Nat
    BY <1>3 DEF Records
<1> QED BY <1>1, <1>4 DEF ElemOwners

\* And for monitors.
LEMMA MonHitsOwned ==
    ASSUME NEW lap \in Nat \ {0}, lap = call.last - call.first,
           NEW p \in Particles, NEW r0 \in Records, r0.particle_id = ParticleId[p],
           NEW n \in Nat, NEW e, NEW i, AtomicCalls!MonHits(r0, n, e, i) # {}
    PROVE  p \in MonOwners(e, i)
<1>1. PICK k \in 0 .. n - 1 : MonIndex(e, AtomicCalls!AtPoint(r0, k)) = i
    BY SameIndex, Zenon DEF AtomicCalls!MonHits
<1>2. k \in Nat
    BY <1>1
<1>3. /\ AtomicCalls!AtPoint(r0, k) \in Records
      /\ AtomicCalls!AtPoint(r0, k).particle_id = ParticleId[p]
    BY <1>2, PointRecord
<1>4. AtomicCalls!AtPoint(r0, k).at_turn \in Nat
    BY <1>3 DEF Records
<1> QED BY <1>1, <1>3, <1>4 DEF MonOwners, MonIndex

\* A slot after a step that may have written a record of p to it.
WrittenBy(p, now2, now, owners) ==
    now2 = now \/ (p \in owners /\ now2.particle_id = ParticleId[p])

\* A written slot is one that changed for an owner its work item has come to.
LEMMA TouchedKept ==
    ASSUME NEW p \in Particles, NEW owners, owners \subseteq Particles,
           NEW before, NEW now, NEW now2, Touched(now, before, owners),
           WrittenBy(p, now2, now, owners), ~Ahead(p)',
           \A q \in Particles : ~Ahead(q) => ~Ahead(q)'
    PROVE  Touched(now2, before, owners)'
    BY Zenon DEF Touched, WrittenBy

\* What another particle writes does not touch the last record of q.
LEMMA LatestOfOthers ==
    ASSUME NEW p \in Particles, NEW q \in Particles, p # q,
           NEW r0, r0.particle_id = ParticleId[q], NEW hits, NEW before, NEW now, NEW now2,
           NEW owners, OneOwner(owners), hits # {} => q \in owners,
           Latest(r0, hits, now, before), WrittenBy(p, now2, now, owners)
    PROVE  Latest(r0, hits, now2, before)
<1>1. ParticleId[p] # ParticleId[q]
    BY UniqueIds
<1>2. CASE hits = {}
    BY <1>1, <1>2, Zenon DEF Latest, WrittenBy
<1>3. CASE hits # {}
    <2>1. p \notin owners
        BY <1>3 DEF OneOwner
    <2> QED BY <2>1, Zenon DEF WrittenBy
<1> QED BY <1>2, <1>3

\* What the particle itself writes at its point k is its last record.
LEMMA LatestRecorded ==
    ASSUME NEW r0, NEW k \in Nat, NEW hits, hits \subseteq 0 .. k - 1,
           NEW before, NEW now, NEW now2, NEW hits2, NEW hit \in BOOLEAN,
           Latest(r0, hits, now, before),
           hits2 = IF hit THEN hits \cup {k} ELSE hits,
           now2 = IF hit THEN AtomicCalls!AtPoint(r0, k) ELSE now
    PROVE  Latest(r0, hits2, now2, before)
<1>1. CASE hit
    <2>1. AtomicCalls!Max(hits2) = k /\ hits2 # {}
        BY <1>1, LatestIsLast
    <2> QED BY <1>1, <2>1, Zenon DEF Latest
<1>2. CASE ~hit
    BY <1>2, Zenon
<1> QED BY <1>1, <1>2

\* What there is to know of a particle under way.
LEMMA JourneyFacts ==
    ASSUME InductiveInv, PositionInv, NEW t \in Threads, AtElement(t),
           NEW p \in Particles, p = thread[t].pidx,
           NEW r0, r0 = begun.particles[p]
    PROVE  /\ r0 \in Records /\ r0.particle_id = ParticleId[p]
           /\ Point(t) \in Nat /\ ElemPoints(t) \in Nat
           /\ call.last - call.first \in Nat \ {0}
<1>1. /\ r0 \in Records /\ Point(t) \in Nat
      /\ particles[p] = AtomicCalls!AtPoint(r0, Point(t))
      /\ call.last - call.first \in Nat \ {0}
    BY PointFacts
<1>2. PICK k \in Nat, lap \in Nat \ {0} : k = Point(t) /\ lap = call.last - call.first
    BY <1>1
<1>3. AtomicCalls!AtPoint(r0, k).particle_id = r0.particle_id
    BY <1>1, <1>2, PointRecord
<1>4. particles[p].particle_id = ParticleId[p]
    BY DEF InductiveInv, IdsKept
<1>5. ElemPoints(t) \in Nat
    BY <1>1 DEF ElemPoints
<1> QED BY <1>1, <1>2, <1>3, <1>4, <1>5

\* A work item that works on its particle or moves on: no particle is ahead
\* again, and the call is finished with the one that it leaves.
LEMMA WorkerMoves ==
    ASSUME InductiveInv, NEW t \in Threads, NEW p \in Particles, p = thread[t].pidx,
           NEW l \in Locals, thread' = [thread EXCEPT ![t] = l], ~Idle, ~Idle',
           l = Advance(t) \/ (l.pidx = p /\ l.pc # "next")
    PROVE  /\ p \in Unfinished
           /\ ~Ahead(p)'
           /\ \A q \in Particles : ~Ahead(q) => ~Ahead(q)'
           /\ l = Advance(t) => Unfinished' = Unfinished \ {p}
           /\ l # Advance(t) => Unfinished' = Unfinished
<1>1. /\ thread \in [Threads -> Locals] /\ p % NumThreads = t /\ p \in Nat
      /\ NumThreads \in Nat \ {0}
    BY OwnerIsThread, ThreadsAssumption DEF InductiveInv, TypeOK, WorkItemsOwn
<1>2. \A u \in Threads : thread'[u] = IF u = t THEN l ELSE thread[u]
    BY <1>1
<1>3. /\ l.pidx \in Nat
      /\ l = Advance(t) => l.pidx = p + NumThreads
      /\ l # Advance(t) => l.pidx = p /\ l.pc # "next"
    BY DEF Advance, AtNext, Locals
<1>4. ASSUME NEW q \in Particles, q # p
      PROVE  /\ ~Ahead(q) => ~Ahead(q)'
             /\ (thread'[q % NumThreads].pidx <= q <=> thread[q % NumThreads].pidx <= q)
    <2>1. q % NumThreads \in Threads /\ q \in Nat
        BY OwnerIsThread
    <2>2. CASE q % NumThreads # t
        BY <1>2, <2>1, <2>2 DEF Ahead
    <2>3. CASE q % NumThreads = t
        <3>1. thread'[t] = l
            BY <1>2
        <3>2. /\ p + NumThreads <= q <=> p < q
              /\ q < p + NumThreads <=> q < p
            BY <1>4, <2>3, StridePassesOne DEF InductiveInv
        <3>3. Ahead(q)' => l.pidx <= q
            BY <1>3, <2>1, <2>3, <3>1 DEF Ahead
        <3>4. p < q => Ahead(q)
            BY <2>3 DEF Ahead
        <3>5. l.pidx <= q <=> p <= q
            BY <1>1, <1>3, <1>4, <2>1, <3>2
        <3> QED BY <1>1, <1>4, <2>1, <2>3, <3>1, <3>3, <3>4, <3>5
    <2> QED BY <2>2, <2>3
<1>5. thread'[p % NumThreads] = l
    BY <1>1, <1>2
<1>6. ~Ahead(p)'
    BY <1>1, <1>3, <1>5 DEF Ahead
<1>7. p \in Unfinished
    BY <1>1 DEF Unfinished
<1>8. l.pidx <= p <=> l # Advance(t)
    BY <1>1, <1>3
<1>9. \A q \in Particles : q \in Unfinished' <=> q \in Unfinished /\ (l = Advance(t) => q # p)
    BY <1>4, <1>5, <1>7, <1>8 DEF Unfinished
<1>10. Unfinished \subseteq Particles /\ Unfinished' \subseteq Particles
    BY DEF Unfinished
<1> QED BY <1>4, <1>6, <1>7, <1>9, <1>10

\* The output after a step that may have written for p.
OutputWrittenBy(p) ==
    /\ \A i \in ElemSlots :
          WrittenBy(p, elem_store'[i], elem_store[i], ElemOwners(i))
    /\ \A e \in MonitorElements : \A i \in MonSlots(e) :
          WrittenBy(p, mon_store'[e][i], mon_store[e][i], MonOwners(e, i))

\* Its step leaves the journey of every other particle as it was.
LEMMA OthersJourney ==
    ASSUME InductiveInv, PositionInv, MonitorSlotsDistinct,
           NEW p \in Particles, OutputWrittenBy(p), begun' = begun,
           call'.kind = call.kind, call'.first = call.first, call'.last = call.last,
           NEW u \in Threads, NEW q \in Particles, p # q,
           NEW r0 \in Records, NEW k \in Nat, NEW n \in Nat,
           OnJourney(u, q, r0, k, n), Journey(r0, k, n)
    PROVE  Journey(r0, k, n)'
<1>1. r0.particle_id = ParticleId[q] /\ call.last - call.first \in Nat \ {0}
    BY JourneyFacts DEF OnJourney
<1>2. PICK lap \in Nat \ {0} : lap = call.last - call.first
    BY <1>1
<1>3. ASSUME NEW i \in ElemSlots
      PROVE  Latest(r0, AtomicCalls!ElemHits(r0, n, i), elem_store'[i], begun.elem_store[i])
    <2>1. PICK hits, owners, before, now, now2 :
            /\ hits = AtomicCalls!ElemHits(r0, n, i) /\ owners = ElemOwners(i)
            /\ before = begun.elem_store[i] /\ now = elem_store[i] /\ now2 = elem_store'[i]
        OBVIOUS
    <2>2. OneOwner(owners) /\ (hits # {} => q \in owners)
        BY <1>1, <1>2, <2>1, ElemOneOwner, ElemHitsOwned
    <2>3. Latest(r0, hits, now, before) /\ WrittenBy(p, now2, now, owners)
        BY <2>1 DEF Journey, OutputWrittenBy
    <2> QED BY <1>1, <2>1, <2>2, <2>3, LatestOfOthers
<1>4. ASSUME NEW e \in MonitorElements, NEW i \in MonSlots(e)
      PROVE  Latest(r0, AtomicCalls!MonHits(r0, k, e, i), mon_store'[e][i],
                    begun.mon_store[e][i])
    <2>1. PICK hits, owners, before, now, now2 :
            /\ hits = AtomicCalls!MonHits(r0, k, e, i) /\ owners = MonOwners(e, i)
            /\ before = begun.mon_store[e][i] /\ now = mon_store[e][i]
            /\ now2 = mon_store'[e][i]
        OBVIOUS
    <2>2. OneOwner(owners) /\ (hits # {} => q \in owners)
        BY <1>1, <1>2, <2>1, MonOneOwner, MonHitsOwned
    <2>3. Latest(r0, hits, now, before) /\ WrittenBy(p, now2, now, owners)
        BY <2>1 DEF Journey, OutputWrittenBy
    <2> QED BY <1>1, <2>1, <2>2, <2>3, LatestOfOthers
<1>5. AtomicCalls!PassesTo(r0, k)
    BY DEF Journey
<1> QED BY <1>3, <1>4, <1>5, SameJourney DEF Journey, Latest

\* What the steps of a work item have in common: all output is as it should be
\* if the output that the step writes is its particle's, and the particle is
\* left behind or its own journey is accounted for.
LEMMA OutputStep ==
    ASSUME InductiveInv, PositionInv, OutputInv, MonitorSlotsDistinct,
           NEW t \in Threads, NEW p \in Particles, p = thread[t].pidx,
           NEW r, NEW l \in Locals, ~Idle, ~Idle',
           thread' = [thread EXCEPT ![t] = l],
           particles' = [particles EXCEPT ![p] = r],
           begun' = begun, OutputWrittenBy(p),
           call'.kind = call.kind, call'.first = call.first, call'.last = call.last,
           l = Advance(t) \/ (l.pidx = p /\ l.pc # "next"),
           \A r0 \in Records, k, n \in Nat :
                OnJourney(t, p, r0, k, n)' => Journey(r0, k, n)'
    PROVE  OutputInv'
<1>1. /\ thread \in [Threads -> Locals] /\ particles \in [Particles -> Records]
      /\ \A u \in Threads : thread'[u] = IF u = t THEN l ELSE thread[u]
      /\ \A q \in Particles : particles'[q] = IF q = p THEN r ELSE particles[q]
    BY DEF InductiveInv, TypeOK
<1>2. ~Ahead(p)' /\ \A q \in Particles : ~Ahead(q) => ~Ahead(q)'
    BY WorkerMoves
<1>3. ASSUME NEW i \in ElemSlots
      PROVE  Touched(elem_store[i], begun.elem_store[i], ElemOwners(i))'
    <2>1. PICK owners, before, now, now2 :
            /\ owners = ElemOwners(i) /\ before = begun.elem_store[i]
            /\ now = elem_store[i] /\ now2 = elem_store'[i]
        OBVIOUS
    <2>2. Touched(now, before, owners) /\ WrittenBy(p, now2, now, owners)
        BY <2>1 DEF OutputInv, OutputWrittenBy
    <2>3. owners \subseteq Particles
        BY <2>1 DEF ElemOwners
    <2>4. Touched(now2, before, owners)'
        BY <1>2, <2>2, <2>3, TouchedKept
    <2> QED BY <2>1, <2>4 DEF Touched
<1>4. ASSUME NEW e \in MonitorElements, NEW i \in MonSlots(e)
      PROVE  Touched(mon_store[e][i], begun.mon_store[e][i], MonOwners(e, i))'
    <2>1. PICK owners, before, now, now2 :
            /\ owners = MonOwners(e, i) /\ before = begun.mon_store[e][i]
            /\ now = mon_store[e][i] /\ now2 = mon_store'[e][i]
        OBVIOUS
    <2>2. Touched(now, before, owners) /\ WrittenBy(p, now2, now, owners)
        BY <2>1 DEF OutputInv, OutputWrittenBy
    <2>3. owners \subseteq Particles
        BY <2>1 DEF MonOwners
    <2>4. Touched(now2, before, owners)'
        BY <1>2, <2>2, <2>3, TouchedKept
    <2> QED BY <2>1, <2>4 DEF Touched
<1>5. ASSUME NEW u \in Threads, NEW q \in Particles, NEW r0 \in Records,
             NEW k \in Nat, NEW n \in Nat, OnJourney(u, q, r0, k, n)'
      PROVE  Journey(r0, k, n)'
    <2>1. CASE u = t
        <3>1. q = p
            <4>1. AtElement(t)' /\ q = thread'[t].pidx
                BY <1>5, <2>1 DEF OnJourney
            <4>2. l.pc # "next" /\ q = l.pidx
                BY <1>1, <4>1 DEF AtElement
            <4> QED BY <4>2 DEF Advance, AtNext
        <3> QED BY <1>5, <2>1, <3>1
    <2>2. CASE u # t
        <3>1. thread'[u] = thread[u]
            BY <1>1, <2>2
        <3>2. AtElement(u) /\ q = thread[u].pidx
            BY <1>5, <3>1 DEF OnJourney, AtElement
        <3>3. p # q
            BY <2>2, <3>2, OwnersDiffer DEF InductiveInv
        <3>4. particles'[q] = particles[q]
            BY <1>1, <3>3
        <3>5. Point(u)' = Point(u)
            BY <3>1, <3>2, <3>4 DEF Point
        <3>6. ElemPoints(u)' = ElemPoints(u)
            BY <3>1, <3>5 DEF ElemPoints
        <3>7. OnJourney(u, q, r0, k, n)
            BY <1>5, <3>2, <3>5, <3>6 DEF OnJourney
        <3>8. Journey(r0, k, n)
            BY <3>7 DEF OutputInv
        <3> QED BY <3>3, <3>7, <3>8, OthersJourney
    <2> QED BY <2>1, <2>2
<1> QED BY <1>3, <1>4, <1>5 DEF OutputInv

-----------------------------------------------------------------------------
(* What the steps in the loop leave in the output.                         *)

\* A monitor writes one slot of its own.
LEMMA MonStoreAfterSlots ==
    ASSUME NEW store, IsMonOutput(store), NEW e \in Elements, NEW r \in Records,
           NEW f \in MonitorElements, NEW i \in MonSlots(f)
    PROVE  MonStoreAfter(store, e, r)[f][i] =
             IF f = e /\ MonitorStores(e, r) /\ MonIndex(e, r) = i THEN r ELSE store[f][i]
<1>1. Kind[f] = "monitor"
    BY DEF MonitorElements
<1>2. CASE Kind[e] = "monitor" /\ MonitorStores(e, r)
    <2>1. e \in MonitorElements /\ MonIndex(e, r) \in MonSlots(e)
        BY <1>2 DEF MonitorElements, MonitorStores
    <2>2. PICK j : j = MonIndex(e, r)
        OBVIOUS
    <2>3. MonStoreAfter(store, e, r) = [store EXCEPT ![e][j] = r]
        BY <1>2, <2>2 DEF MonStoreAfter
    <2>4. [store EXCEPT ![e][j] = r][f][i] = IF f = e /\ j = i THEN r ELSE store[f][i]
        BY <2>1, <2>2 DEF IsMonOutput
    <2> QED BY <1>2, <2>2, <2>3, <2>4
<1>3. CASE ~(Kind[e] = "monitor" /\ MonitorStores(e, r))
    BY <1>1, <1>3 DEF MonStoreAfter
<1> QED BY <1>2, <1>3

\* The output after n points of the particle that began as r0.
Recorded(r0, n) ==
    /\ \A i \in ElemSlots :
          Latest(r0, AtomicCalls!ElemHits(r0, n, i), elem_store'[i], begun.elem_store[i])
    /\ \A e \in MonitorElements : \A i \in MonSlots(e) :
          Latest(r0, AtomicCalls!MonHits(r0, n, e, i), mon_store'[e][i],
                 begun.mon_store[e][i])

\* After the particle was at the element of its point k, the output is that of
\* its points up to k.
LEMMA TrackedOutput ==
    ASSUME InductiveInv, PositionInv, OutputInv, NEW t \in Threads, thread[t].pc = "track",
           NEW p \in Particles, NEW r0 \in Records, NEW k \in Nat, NEW n \in Nat,
           OnJourney(t, p, r0, k, n),
           mon_store' = MonStoreAfter(mon_store, thread[t].be, particles[p]),
           elem_store' = elem_store
    PROVE  /\ OutputWrittenBy(p)
           /\ Recorded(r0, k + 1)
<1>1. /\ AtElement(t) /\ Journey(r0, k, n) /\ p = thread[t].pidx /\ r0 = begun.particles[p]
      /\ k = Point(t) /\ n = ElemPoints(t)
    BY DEF OnJourney, OutputInv
<1>2. PICK e0 \in Elements, r \in Records : e0 = thread[t].be /\ r = particles[p]
    BY <1>1, AtElementFacts
<1>3. r = AtomicCalls!AtPoint(r0, k) /\ e0 = AtomicCalls!ElementAt(k)
    BY <1>1, <1>2, PointFacts
<1>4. r.particle_id = ParticleId[p] /\ r.at_turn \in Nat
    BY <1>2 DEF InductiveInv, IdsKept, Records
<1>5. ASSUME NEW i \in ElemSlots
      PROVE  Latest(r0, AtomicCalls!ElemHits(r0, k + 1, i), elem_store[i],
                    begun.elem_store[i])
    <2>1. Latest(r0, AtomicCalls!ElemHits(r0, n, i), elem_store[i], begun.elem_store[i])
        BY <1>1 DEF Journey
    <2>2. AtomicCalls!ElemHits(r0, n, i) = AtomicCalls!ElemHits(r0, k + 1, i)
        <3>1. CASE call.kind = "elem_by_elem"
            BY <1>1, <3>1 DEF ElemPoints
        <3>2. CASE call.kind # "elem_by_elem"
            BY <1>1, <3>2, ElemHitsOneMore DEF ElemPoints
        <3> QED BY <3>1, <3>2
    <2> QED BY <2>1, <2>2
<1>6. ASSUME NEW e \in MonitorElements, NEW i \in MonSlots(e)
      PROVE  /\ WrittenBy(p, mon_store'[e][i], mon_store[e][i], MonOwners(e, i))
             /\ Latest(r0, AtomicCalls!MonHits(r0, k + 1, e, i), mon_store'[e][i],
                       begun.mon_store[e][i])
    <2>1. PICK hit \in BOOLEAN : hit <=> e = e0 /\ MonitorStores(e0, r) /\ MonIndex(e0, r) = i
        OBVIOUS
    <2>2. mon_store'[e][i] = IF hit THEN r ELSE mon_store[e][i]
        <3>1. mon_store' = MonStoreAfter(mon_store, e0, r) /\ IsMonOutput(mon_store)
            BY <1>2 DEF InductiveInv, TypeOK
        <3>2. MonStoreAfter(mon_store, e0, r)[e][i] =
                IF e = e0 /\ MonitorStores(e0, r) /\ MonIndex(e0, r) = i
                THEN r ELSE mon_store[e][i]
            BY <3>1, MonStoreAfterSlots
        <3> QED BY <2>1, <3>1, <3>2, Zenon
    <2>3. hit => p \in MonOwners(e, i)
        BY <1>4, <2>1 DEF MonOwners, MonIndex
    <2>4. WrittenBy(p, mon_store'[e][i], mon_store[e][i], MonOwners(e, i))
        BY <1>4, <2>2, <2>3 DEF WrittenBy
    <2>5. PICK hits, hits2, before, now, now2 :
            /\ hits = AtomicCalls!MonHits(r0, k, e, i)
            /\ hits2 = AtomicCalls!MonHits(r0, k + 1, e, i)
            /\ before = begun.mon_store[e][i] /\ now = mon_store[e][i]
            /\ now2 = mon_store'[e][i]
        OBVIOUS
    <2>6. /\ hits \subseteq 0 .. k - 1
          /\ hits2 = IF hit THEN hits \cup {k} ELSE hits
        <3>1. hit <=> /\ AtomicCalls!ElementAt(k) = e
                      /\ MonitorStores(e, AtomicCalls!AtPoint(r0, k))
                      /\ MonIndex(e, AtomicCalls!AtPoint(r0, k)) = i
            BY <1>3, <2>1
        <3> QED BY <2>5, <3>1, MonHitsOneMore, Zenon
    <2>7. Latest(r0, hits, now, before)
        BY <1>1, <2>5 DEF Journey
    <2>8. now2 = IF hit THEN AtomicCalls!AtPoint(r0, k) ELSE now
        BY <1>3, <2>2, <2>5
    <2>9. Latest(r0, hits2, now2, before)
        BY <2>6, <2>7, <2>8, LatestRecorded
    <2> QED BY <2>4, <2>5, <2>9
<1>7. OutputWrittenBy(p)
    BY <1>6 DEF OutputWrittenBy, WrittenBy
<1> QED BY <1>5, <1>6, <1>7 DEF Recorded

\* And if it passed, it is at its next point.
LEMMA TrackedJourney ==
    ASSUME InductiveInv, PositionInv, OutputInv, NEW t \in Threads, TrackElement(t),
           NEW p \in Particles, NEW r0 \in Records, NEW k \in Nat, NEW n \in Nat,
           OnJourney(t, p, r0, k, n)
    PROVE  /\ AtomicCalls!PassesTo(r0, k + 1)
           /\ Journey(r0, k + 1, k + 1)'
<1>1. /\ AtElement(t) /\ Journey(r0, k, n) /\ p = thread[t].pidx /\ r0 = begun.particles[p]
      /\ k = Point(t) /\ n = ElemPoints(t)
    BY DEF OnJourney, OutputInv
<1>2. /\ thread[t].pc = "track" /\ Passes(thread[t].be, particles[p])
      /\ mon_store' = MonStoreAfter(mon_store, thread[t].be, particles[p])
      /\ UNCHANGED <<call, elem_store, begun>>
    BY <1>1 DEF TrackElement
<1>3. /\ particles[p] = AtomicCalls!AtPoint(r0, k)
      /\ thread[t].be = AtomicCalls!ElementAt(k)
    BY <1>1, PointFacts
<1>4. AtomicCalls!Passes(AtomicCalls!ElementAt(k), AtomicCalls!AtPoint(r0, k))
    BY <1>2, <1>3, SameElement
<1>5. AtomicCalls!PassesTo(r0, k + 1)
    BY <1>1, <1>4, PassesOneMore DEF Journey
<1>6. Recorded(r0, k + 1)
    BY <1>2, TrackedOutput
<1> QED BY <1>2, <1>5, <1>6, SameJourney DEF Recorded, Journey, Latest

-----------------------------------------------------------------------------
(* What the atomic calls see of a step.                                    *)

\* The slots are seen unchanged while the particle that writes them is under
\* way.
LEMMA ShownStays ==
    ASSUME NEW p \in Particles, p \in Unfinished, NEW owners, OneOwner(owners),
           NEW before, NEW now, NEW now2, Touched(now, before, owners),
           WrittenBy(p, now2, now, owners)
    PROVE  Shown(now2, before) = Shown(now, before)
<1>1. ParticleId[p] \in UnfinishedIds
    BY DEF UnfinishedIds
<1>2. CASE now2 = now
    BY <1>2
<1>3. CASE now2 # now
    <2>1. p \in owners /\ now2.particle_id = ParticleId[p]
        BY <1>3, Zenon DEF WrittenBy
    <2>2. Shown(now2, before) = before
        BY <1>1, <2>1, Zenon DEF Shown
    <2>3. now = before \/ now.particle_id = ParticleId[p]
        BY <2>1, Zenon DEF Touched, OneOwner
    <2>4. Shown(now, before) = before
        BY <1>1, <2>3, Zenon DEF Shown
    <2> QED BY <2>2, <2>4
<1> QED BY <1>2, <1>3

\* When the call is finished with it they are seen with its last records.
LEMMA ShownLeaves ==
    ASSUME NEW p \in Particles, p \in Unfinished, Unfinished' = Unfinished \ {p},
           NEW owners, OneOwner(owners),
           NEW r0, r0.particle_id = ParticleId[p], NEW hits,
           hits # {} => AtomicCalls!AtPoint(r0, AtomicCalls!Max(hits)).particle_id
                            = ParticleId[p],
           NEW before, NEW now, NEW now2, Touched(now, before, owners),
           WrittenBy(p, now2, now, owners), Latest(r0, hits, now2, before)
    PROVE  (IF now2 # before /\ now2.particle_id \in UnfinishedIds' THEN before ELSE now2)
             = AtomicCalls!LastOf(r0, hits, Shown(now, before))
<1>1. ParticleId[p] \in UnfinishedIds
    BY DEF UnfinishedIds
<1>2. Unfinished \subseteq Particles
    BY DEF Unfinished
<1>3. \A id : id \in UnfinishedIds' <=> id \in UnfinishedIds /\ id # ParticleId[p]
    BY <1>2, UniqueIds DEF UnfinishedIds
<1>4. CASE hits # {}
    <2>1. now2 = AtomicCalls!AtPoint(r0, AtomicCalls!Max(hits))
        BY <1>4, Zenon DEF Latest
    <2> QED BY <1>3, <1>4, <2>1, Zenon DEF AtomicCalls!LastOf
<1>5. CASE hits = {}
    <2>1. now2 = before \/ now2.particle_id # ParticleId[p]
        BY <1>5, Zenon DEF Latest
    <2>2. AtomicCalls!LastOf(r0, hits, Shown(now, before)) = Shown(now, before)
        BY <1>5, Zenon DEF AtomicCalls!LastOf
    <2>3. CASE now2 = now
        BY <1>3, <2>1, <2>2, <2>3, Zenon DEF Shown
    <2>4. CASE now2 # now
        <3>1. p \in owners /\ now2 = before
            BY <2>1, <2>4, Zenon DEF WrittenBy
        <3>2. now = before \/ now.particle_id = ParticleId[p]
            BY <3>1, Zenon DEF Touched, OneOwner
        <3>3. Shown(now, before) = before
            BY <1>1, <3>2, Zenon DEF Shown
        <3> QED BY <2>2, <3>1, <3>3
    <2> QED BY <2>3, <2>4
<1> QED BY <1>4, <1>5

\* A work item that goes on with its particle does nothing that is seen.
LEMMA StayMaps ==
    ASSUME InductiveInv, OutputInv, MonitorSlotsDistinct,
           NEW t \in Threads, NEW p \in Particles, p = thread[t].pidx,
           NEW r, NEW l \in Locals, ~Idle, l.pidx = p, l.pc # "next",
           thread' = [thread EXCEPT ![t] = l],
           particles' = [particles EXCEPT ![p] = r],
           begun' = begun, call' = call, OutputWrittenBy(p)
    PROVE  UNCHANGED AtomicCalls!cvars
<1>1. ~Idle' /\ l # Advance(t)
    BY DEF Idle, Advance, AtNext
<1>2. p \in Unfinished /\ Unfinished' = Unfinished
    BY <1>1, WorkerMoves
<1>3. UnfinishedIds' = UnfinishedIds
    BY <1>2 DEF UnfinishedIds
<1>4. \A q \in Particles : q # p => particles'[q] = particles[q]
    BY DEF InductiveInv, TypeOK
<1>5. [q \in Particles |-> IF q \in Unfinished' THEN begun'.particles[q] ELSE particles'[q]]
        = [q \in Particles |-> IF q \in Unfinished THEN begun.particles[q] ELSE particles[q]]
    BY <1>2, <1>4
<1>6. ASSUME NEW i \in ElemSlots
      PROVE  Shown(elem_store[i], begun.elem_store[i])' = Shown(elem_store[i], begun.elem_store[i])
    <2>1. PICK owners, before, now, now2 :
            /\ owners = ElemOwners(i) /\ before = begun.elem_store[i]
            /\ now = elem_store[i] /\ now2 = elem_store'[i]
        OBVIOUS
    <2>2. /\ Touched(now, before, owners) /\ WrittenBy(p, now2, now, owners)
          /\ OneOwner(owners)
        BY <2>1, ElemOneOwner DEF OutputInv, OutputWrittenBy
    <2>3. Shown(now2, before) = Shown(now, before)
        BY <1>2, <2>2, ShownStays
    <2> QED BY <1>3, <2>1, <2>3 DEF Shown
<1>7. ASSUME NEW e \in MonitorElements, NEW i \in MonSlots(e)
      PROVE  Shown(mon_store[e][i], begun.mon_store[e][i])'
               = Shown(mon_store[e][i], begun.mon_store[e][i])
    <2>1. PICK owners, before, now, now2 :
            /\ owners = MonOwners(e, i) /\ before = begun.mon_store[e][i]
            /\ now = mon_store[e][i] /\ now2 = mon_store'[e][i]
        OBVIOUS
    <2>2. /\ Touched(now, before, owners) /\ WrittenBy(p, now2, now, owners)
          /\ OneOwner(owners)
        BY <2>1, MonOneOwner DEF OutputInv, OutputWrittenBy
    <2>3. Shown(now2, before) = Shown(now, before)
        BY <1>2, <2>2, ShownStays
    <2> QED BY <1>3, <2>1, <2>3 DEF Shown
<1>8. [i \in ElemSlots |-> Shown(elem_store[i], begun.elem_store[i])]'
        = [i \in ElemSlots |-> Shown(elem_store[i], begun.elem_store[i])]
    BY <1>6
<1>9. [e \in MonitorElements |-> [i \in MonSlots(e) |->
            Shown(mon_store[e][i], begun.mon_store[e][i])]]'
        = [e \in MonitorElements |-> [i \in MonSlots(e) |->
            Shown(mon_store[e][i], begun.mon_store[e][i])]]
    BY <1>7
<1> QED BY <1>2, <1>5, <1>8, <1>9 DEF AtomicCalls!cvars

\* Wherever it is, a particle keeps its id.
LEMMA PointKeepsId ==
    ASSUME NEW r \in Records, NEW k
    PROVE  AtomicCalls!AtPoint(r, k).particle_id = r.particle_id
<1>1. PICK m, q : AtomicCalls!AtPoint(r, k) = Moved(r, m, q)
    BY PointDigits, Zenon
<1>2. Moved(r, m, q).particle_id = r.particle_id
    BY DEF Moved, Records
<1> QED BY <1>1, <1>2

\* The call when a journey ended with this status.
CallAfter(status) ==
    IF status = "failure" THEN [call EXCEPT !.status = "failure"] ELSE call

\* A work item that leaves its particle behind at the end of its journey is
\* seen to track it.
LEMMA LeaveMaps ==
    ASSUME InductiveInv, OutputInv, MonitorSlotsDistinct,
           NEW t \in Threads, NEW p \in Particles, p = thread[t].pidx,
           NEW r, ~Idle, call'.kind = call.kind,
           thread' = [thread EXCEPT ![t] = Advance(t)],
           particles' = [particles EXCEPT ![p] = r],
           begun' = begun, OutputWrittenBy(p),
           NEW r0 \in Records, r0 = begun.particles[p], r0.particle_id = ParticleId[p],
           NEW end \in AtomicCalls!Ends(r0), end.record = r, NEW n, end.points = n,
           call' = CallAfter(end.status), Recorded(r0, n)
    PROVE  AtomicCalls!TrackParticle(p)
<1>1. PICK l \in Locals : l = Advance(t)
    BY AdvanceFacts DEF InductiveInv
<1>2. p \in Unfinished /\ Unfinished' = Unfinished \ {p}
    <2>1. ~Idle'
        BY DEF Idle
    <2> QED BY <1>1, <2>1, WorkerMoves
<1>3. particles'[p] = r /\ \A q \in Particles : q # p => particles'[q] = particles[q]
    BY DEF InductiveInv, TypeOK
<1>4. [q \in Particles |-> IF q \in Unfinished' THEN begun'.particles[q] ELSE particles'[q]]
        = [[q \in Particles |-> IF q \in Unfinished THEN begun.particles[q]
                                ELSE particles[q]] EXCEPT ![p] = r]
    BY <1>2, <1>3
<1>5. ASSUME NEW i \in ElemSlots
      PROVE  Shown(elem_store[i], begun.elem_store[i])'
               = AtomicCalls!LastOf(r0, AtomicCalls!ElemHits(r0, n, i),
                                    Shown(elem_store[i], begun.elem_store[i]))
    <2>1. PICK owners, before, now, now2, hits :
            /\ owners = ElemOwners(i) /\ before = begun.elem_store[i]
            /\ now = elem_store[i] /\ now2 = elem_store'[i]
            /\ hits = AtomicCalls!ElemHits(r0, n, i)
        OBVIOUS
    <2>2. /\ Touched(now, before, owners) /\ WrittenBy(p, now2, now, owners)
          /\ OneOwner(owners)
        BY <2>1, ElemOneOwner DEF OutputInv, OutputWrittenBy
    <2>3. Latest(r0, hits, now2, before)
        BY <2>1 DEF Recorded
    <2>4. AtomicCalls!AtPoint(r0, AtomicCalls!Max(hits)).particle_id = ParticleId[p]
        BY PointKeepsId
    <2>5. (IF now2 # before /\ now2.particle_id \in UnfinishedIds' THEN before ELSE now2)
             = AtomicCalls!LastOf(r0, hits, Shown(now, before))
        BY <1>2, <2>2, <2>3, <2>4, ShownLeaves
    <2> QED BY <2>1, <2>5, Zenon DEF Shown
<1>6. ASSUME NEW e \in MonitorElements, NEW i \in MonSlots(e)
      PROVE  Shown(mon_store[e][i], begun.mon_store[e][i])'
               = AtomicCalls!LastOf(r0, AtomicCalls!MonHits(r0, n, e, i),
                                    Shown(mon_store[e][i], begun.mon_store[e][i]))
    <2>1. PICK owners, before, now, now2, hits :
            /\ owners = MonOwners(e, i) /\ before = begun.mon_store[e][i]
            /\ now = mon_store[e][i] /\ now2 = mon_store'[e][i]
            /\ hits = AtomicCalls!MonHits(r0, n, e, i)
        OBVIOUS
    <2>2. /\ Touched(now, before, owners) /\ WrittenBy(p, now2, now, owners)
          /\ OneOwner(owners)
        BY <2>1, MonOneOwner DEF OutputInv, OutputWrittenBy
    <2>3. Latest(r0, hits, now2, before)
        BY <2>1 DEF Recorded
    <2>4. AtomicCalls!AtPoint(r0, AtomicCalls!Max(hits)).particle_id = ParticleId[p]
        BY PointKeepsId
    <2>5. (IF now2 # before /\ now2.particle_id \in UnfinishedIds' THEN before ELSE now2)
             = AtomicCalls!LastOf(r0, hits, Shown(now, before))
        BY <1>2, <2>2, <2>3, <2>4, ShownLeaves
    <2> QED BY <2>1, <2>5, Zenon DEF Shown
<1>7. [q \in Particles |-> IF q \in Unfinished THEN begun.particles[q]
                           ELSE particles[q]][p] = r0
    BY <1>2
<1> DEFINE start == [q \in Particles |-> IF q \in Unfinished THEN begun.particles[q]
                                        ELSE particles[q]][p]
<1>8. [i \in ElemSlots |-> Shown(elem_store[i], begun.elem_store[i])]'
        = [i \in AtomicCalls!ElemSlots |->
              AtomicCalls!LastOf(start, AtomicCalls!ElemHits(start, end.points, i),
              [j \in ElemSlots |-> Shown(elem_store[j], begun.elem_store[j])][i])]
    <2> HIDE DEF start
    <2>1. start = r0
        BY <1>7 DEF start
    <2> QED BY <1>5, <2>1, SameSets
<1>9. [e \in MonitorElements |-> [i \in MonSlots(e) |->
            Shown(mon_store[e][i], begun.mon_store[e][i])]]'
        = [e \in AtomicCalls!MonitorElements |-> [i \in AtomicCalls!MonSlots(e) |->
              AtomicCalls!LastOf(start, AtomicCalls!MonHits(start, end.points, e, i),
                [f \in MonitorElements |-> [j \in MonSlots(f) |->
                    Shown(mon_store[f][j], begun.mon_store[f][j])]][e][i])]]
    <2> HIDE DEF start
    <2>1. start = r0
        BY <1>7 DEF start
    <2> QED BY <1>6, <2>1, SameSets
<1>10. end \in AtomicCalls!Ends(start) /\ end.record = r
    BY <1>7, Zenon
<1> QED BY <1>2, <1>4, <1>8, <1>9, <1>10, Zenon DEF AtomicCalls!TrackParticle, CallAfter

-----------------------------------------------------------------------------
(* After every step the output is as it should be, and what the step does  *)
(* is what the atomic calls do, or nothing.                                *)

\* What a step of a work item looks like from there.
SeenStep ==
    \/ UNCHANGED AtomicCalls!cvars
    \/ \E p \in Particles : AtomicCalls!TrackParticle(p)

\* A step in the loop that goes on with its particle.
LEMMA StayStep ==
    ASSUME InductiveInv, PositionInv, OutputInv, MonitorSlotsDistinct,
           NEW t \in Threads, NEW p \in Particles, p = thread[t].pidx,
           NEW r, NEW l \in Locals, ~Idle, l.pidx = p, l.pc # "next",
           thread' = [thread EXCEPT ![t] = l],
           particles' = [particles EXCEPT ![p] = r],
           begun' = begun, call' = call, OutputWrittenBy(p),
           \A r0 \in Records, k, n \in Nat :
                OnJourney(t, p, r0, k, n)' => Journey(r0, k, n)'
    PROVE  OutputInv' /\ SeenStep
<1>1. UNCHANGED AtomicCalls!cvars
    BY StayMaps
<1>2. ~Idle'
    BY DEF Idle
<1>3. OutputInv'
    BY <1>2, OutputStep
<1> QED BY <1>1, <1>3 DEF SeenStep

\* A step that copies nothing out.
LEMMA NothingWritten ==
    ASSUME elem_store' = elem_store, mon_store' = mon_store, NEW p
    PROVE  OutputWrittenBy(p)
    BY DEF OutputWrittenBy, WrittenBy

\* A particle that is ahead has left nothing in the output yet.
LEMMA FreshJourney ==
    ASSUME OutputInv, NEW p \in Particles, Ahead(p),
           NEW r0, r0.particle_id = ParticleId[p]
    PROVE  Journey(r0, 0, 0)
<1>1. ASSUME NEW now, NEW before, NEW owners, owners \subseteq Particles,
             Touched(now, before, owners)
      PROVE  Latest(r0, {}, now, before)
    <2>1. CASE now = before
        BY <2>1, Zenon DEF Latest
    <2>2. CASE now # before
        <3>1. PICK q \in owners : ~Ahead(q) /\ now.particle_id = ParticleId[q]
            BY <1>1, <2>2, Zenon DEF Touched
        <3>2. q \in Particles /\ q # p
            BY <1>1, <3>1, Zenon
        <3>3. ParticleId[q] # ParticleId[p]
            BY <3>2, UniqueIds
        <3> QED BY <3>1, <3>3, Zenon DEF Latest
    <2> QED BY <2>1, <2>2
<1>2. 0 .. 0 - 1 = {}
    OBVIOUS
<1>3. AtomicCalls!PassesTo(r0, 0)
    BY <1>2, Zenon DEF AtomicCalls!PassesTo
<1>4. ASSUME NEW i \in ElemSlots
      PROVE  Latest(r0, AtomicCalls!ElemHits(r0, 0, i), elem_store[i], begun.elem_store[i])
    <2>1. AtomicCalls!ElemHits(r0, 0, i) = {}
        BY <1>2 DEF AtomicCalls!ElemHits
    <2>2. ElemOwners(i) \subseteq Particles
        BY DEF ElemOwners
    <2> QED BY <1>1, <2>1, <2>2 DEF OutputInv
<1>5. ASSUME NEW e \in MonitorElements, NEW i \in MonSlots(e)
      PROVE  Latest(r0, AtomicCalls!MonHits(r0, 0, e, i), mon_store[e][i],
                    begun.mon_store[e][i])
    <2>1. AtomicCalls!MonHits(r0, 0, e, i) = {}
        BY <1>2 DEF AtomicCalls!MonHits
    <2>2. MonOwners(e, i) \subseteq Particles
        BY DEF MonOwners
    <2> QED BY <1>1, <2>1, <2>2 DEF OutputInv
<1> QED BY <1>3, <1>4, <1>5 DEF Journey

\* A journey begins at point 0.
LEMMA EnterOutput ==
    ASSUME InductiveInv, PositionInv, OutputInv, MonitorSlotsDistinct,
           NEW t \in Threads, EnterParticle(t)
    PROVE  OutputInv' /\ SeenStep
<1>1. PICK p \in Particles : p = thread[t].pidx
    BY DEF EnterParticle
<1>2. PICK r \in Records : r = particles[p]
    BY DEF InductiveInv, TypeOK
<1>3. PICK l : l = InLoop(p, call.first, r.at_element_id, r.at_element_id, r.at_turn)
    OBVIOUS
<1>4. /\ ~Idle /\ thread[t].pc = "next" /\ thread' = [thread EXCEPT ![t] = l]
      /\ UNCHANGED <<particles, call, elem_store, mon_store, begun>>
    BY <1>1, <1>2, <1>3 DEF EnterParticle
<1>5. /\ call \in Calls /\ p % NumThreads = t /\ p \in Nat
      /\ particles \in [Particles -> Records] /\ thread \in [Threads -> Locals]
    BY <1>1, OwnerIsThread DEF InductiveInv, TypeOK, WorkItemsOwn
<1>6. Ahead(p) /\ begun.particles[p] = r /\ r.particle_id = ParticleId[p]
    BY <1>1, <1>2, <1>4, <1>5 DEF PositionInv, Ahead, InductiveInv, IdsKept
<1>7. /\ l \in Locals /\ l.pidx = p /\ l.pc # "next" /\ l.be = call.first
      /\ l.pc = "track" => call.kind # "elem_by_elem"
    BY <1>2, <1>3, <1>5 DEF InLoop, Locals, Records, Calls
<1>8. Point(t)' = 0 /\ ElemPoints(t)' = 0
    <2>1. thread'[t] = l
        BY <1>4, <1>5
    <2>2. PICK turn \in Nat, first \in Nat, last \in Nat :
            turn = r.at_turn /\ first = call.first /\ last = call.last
        BY <1>2, <1>5 DEF Records, Calls
    <2>3. Point(t)' = (turn - turn) * (last - first) + (first - first)
        BY <1>2, <1>4, <1>6, <1>7, <2>1, <2>2 DEF Point
    <2>4. (turn - turn) * (last - first) + (first - first) = 0
        OBVIOUS
    <2> QED BY <1>4, <1>7, <2>1, <2>3, <2>4 DEF ElemPoints
<1>9. Journey(r, 0, 0)'
    <2>1. Journey(r, 0, 0)
        BY <1>6, FreshJourney
    <2> QED BY <1>4, <2>1, SameJourney DEF Journey, Latest
<1>10. \A r0 \in Records, k, n \in Nat : OnJourney(t, p, r0, k, n)' => Journey(r0, k, n)'
    <2> SUFFICES ASSUME NEW r0 \in Records, NEW k \in Nat, NEW n \in Nat,
                        OnJourney(t, p, r0, k, n)'
                 PROVE  Journey(r0, k, n)'
        OBVIOUS
    <2>1. r0 = r /\ k = 0 /\ n = 0
        BY <1>4, <1>6, <1>8 DEF OnJourney
    <2> QED BY <1>9, <2>1
<1>11. particles' = [particles EXCEPT ![p] = r]
    BY <1>2, <1>4, <1>5
<1>12. OutputWrittenBy(p)
    BY <1>4, NothingWritten
<1> QED BY <1>1, <1>4, <1>7, <1>10, <1>11, <1>12, StayStep

\* A step that leaves its particle behind leaves no journey of its work item.
LEMMA LeavesNoJourney ==
    ASSUME InductiveInv, NEW t \in Threads, thread' = [thread EXCEPT ![t] = Advance(t)],
           NEW p
    PROVE  \A r0, k, n : ~OnJourney(t, p, r0, k, n)'
<1>1. thread'[t].pc = "next"
    BY DEF InductiveInv, TypeOK, Advance, AtNext
<1> QED BY <1>1 DEF OnJourney, AtElement

\* Copying the particle out records it as the last at its point.
LEMMA StoreOutput ==
    ASSUME InductiveInv, PositionInv, OutputInv, MonitorSlotsDistinct,
           NEW t \in Threads, StoreElemByElem(t)
    PROVE  OutputInv' /\ SeenStep
<1>1. AtElement(t) /\ thread[t].pc = "store"
    BY DEF StoreElemByElem, AtElement
<1>2. PICK p \in Particles, e0 \in Elements, r \in Records :
        p = thread[t].pidx /\ e0 = thread[t].be /\ r = particles[p]
    BY <1>1, AtElementFacts
<1>3. PICK r0 \in Records, k \in Nat, n \in Nat : OnJourney(t, p, r0, k, n)
    BY <1>1, <1>2, JourneyFacts DEF OnJourney
<1>4. /\ Journey(r0, k, n) /\ r0 = begun.particles[p] /\ k = Point(t) /\ n = k
    BY <1>1, <1>2, <1>3 DEF OutputInv, OnJourney, ElemPoints
<1>5. PICK l : l = [thread[t] EXCEPT !.pc = "track"]
    OBVIOUS
<1>6. /\ thread' = [thread EXCEPT ![t] = l]
      /\ UNCHANGED <<particles, call, mon_store, begun>>
    BY <1>5 DEF StoreElemByElem
<1>7. /\ particles \in [Particles -> Records] /\ thread \in [Threads -> Locals]
      /\ elem_store \in ElemOutput /\ ~Idle /\ call.kind = "elem_by_elem"
    BY <1>1 DEF InductiveInv, TypeOK, WorkItemsOwn, AtElement
<1>8. l \in Locals /\ l.pidx = p /\ l.pc = "track" /\ l.be = thread[t].be
    BY <1>2, <1>5, <1>7 DEF Locals
<1>9. r = AtomicCalls!AtPoint(r0, k) /\ r.particle_id = ParticleId[p]
      /\ r0.particle_id = ParticleId[p]
    BY <1>1, <1>2, <1>4, PointFacts, JourneyFacts DEF InductiveInv, IdsKept
<1>10. OutIndex(t) = StoreIndex(Config, r0.particle_id, r.at_element_id, r.at_turn)
    BY <1>1, <1>2, <1>9, AtElementFacts DEF OutIndex
<1>11. r.at_element_id \in Nat /\ r.at_turn \in Nat
    BY <1>2 DEF Records
<1>12. ASSUME NEW i \in ElemSlots
       PROVE  /\ WrittenBy(p, elem_store'[i], elem_store[i], ElemOwners(i))
              /\ Latest(r0, AtomicCalls!ElemHits(r0, k + 1, i), elem_store'[i],
                        begun.elem_store[i])
    <2>1. PICK hit \in BOOLEAN : hit <=> OutIndex(t) = i
        OBVIOUS
    <2>2. elem_store'[i] = IF hit THEN r ELSE elem_store[i]
        BY <1>2, <1>7, <2>1 DEF StoreElemByElem, ElemOutput
    <2>3. hit => p \in ElemOwners(i)
        BY <1>9, <1>10, <1>11, <2>1 DEF ElemOwners
    <2>4. WrittenBy(p, elem_store'[i], elem_store[i], ElemOwners(i))
        BY <1>9, <2>2, <2>3 DEF WrittenBy
    <2>5. PICK hits, hits2, before, now, now2 :
            /\ hits = AtomicCalls!ElemHits(r0, k, i)
            /\ hits2 = AtomicCalls!ElemHits(r0, k + 1, i)
            /\ before = begun.elem_store[i] /\ now = elem_store[i]
            /\ now2 = elem_store'[i]
        OBVIOUS
    <2>6. /\ hits \subseteq 0 .. k - 1
          /\ hits2 = IF hit THEN hits \cup {k} ELSE hits
        <3>1. hit <=> /\ call.kind = "elem_by_elem"
                      /\ StoreIndex(Config, r0.particle_id,
                                    AtomicCalls!AtPoint(r0, k).at_element_id,
                                    AtomicCalls!AtPoint(r0, k).at_turn) = i
            BY <1>7, <1>9, <1>10, <2>1
        <3> QED BY <2>5, <3>1, ElemHitsOneMore, Zenon
    <2>7. Latest(r0, hits, now, before)
        BY <1>4, <2>5 DEF Journey
    <2>8. now2 = IF hit THEN AtomicCalls!AtPoint(r0, k) ELSE now
        BY <1>9, <2>2, <2>5
    <2>9. Latest(r0, hits2, now2, before)
        BY <2>6, <2>7, <2>8, LatestRecorded
    <2> QED BY <2>4, <2>5, <2>9
<1>13. OutputWrittenBy(p)
    BY <1>6, <1>12 DEF OutputWrittenBy, WrittenBy
<1>14. Journey(r0, k, k + 1)'
    BY <1>4, <1>6, <1>12, SameJourney DEF Journey, Latest
<1>15. Point(t)' = k /\ ElemPoints(t)' = k + 1
    <2>1. thread'[t] = l
        BY <1>6, <1>7
    <2>2. Point(t)' = Point(t)
        BY <1>2, <1>6, <1>8, <2>1 DEF Point
    <2> QED BY <1>4, <1>6, <1>7, <1>8, <2>1, <2>2 DEF ElemPoints
<1>16. ASSUME NEW s0 \in Records, NEW j \in Nat, NEW m \in Nat, OnJourney(t, p, s0, j, m)'
       PROVE  Journey(s0, j, m)'
    <2>1. s0 = r0 /\ j = k /\ m = k + 1
        BY <1>4, <1>6, <1>15, <1>16 DEF OnJourney
    <2> QED BY <1>14, <2>1
<1>17. particles' = [particles EXCEPT ![p] = r]
    BY <1>2, <1>6, <1>7
<1>18. l.pc # "next"
    BY <1>8
<1> QED BY <1>2, <1>6, <1>7, <1>8, <1>13, <1>16, <1>17, <1>18, StayStep

\* Inside a turn the particle is at its next point.
LEMMA TrackNextOutput ==
    ASSUME InductiveInv, PositionInv, OutputInv, MonitorSlotsDistinct,
           NEW t \in Threads, TrackNext(t)
    PROVE  OutputInv' /\ SeenStep
<1>1. /\ AtElement(t) /\ TrackElement(t) /\ thread[t].pc = "track"
      /\ mon_store' = MonStoreAfter(mon_store, thread[t].be, particles[thread[t].pidx])
      /\ UNCHANGED <<call, elem_store, begun>>
    BY DEF TrackNext, TrackElement, AtElement
<1>2. PICK p \in Particles, r \in Records : p = thread[t].pidx /\ r = particles[p]
    BY <1>1, AtElementFacts
<1>3. PICK r0 \in Records, k \in Nat, n \in Nat : OnJourney(t, p, r0, k, n)
    BY <1>1, <1>2, JourneyFacts DEF OnJourney
<1>4. k = Point(t) /\ r0 = begun.particles[p]
    BY <1>3 DEF OnJourney
<1>5. PICK l, s : l = NextElement(t) /\ s = ElementPassed(r)
    OBVIOUS
<1>6. /\ thread' = [thread EXCEPT ![t] = l]
      /\ particles' = [particles EXCEPT ![p] = s]
    BY <1>2, <1>5 DEF TrackNext
<1>7. /\ particles \in [Particles -> Records] /\ thread \in [Threads -> Locals]
      /\ ~Idle /\ call \in Calls
    BY <1>1 DEF InductiveInv, TypeOK, WorkItemsOwn
<1>8. /\ l \in Locals /\ l.pidx = p /\ l.be = thread[t].be + 1
      /\ l.pc = IF call.kind = "elem_by_elem" THEN "store" ELSE "track"
    BY <1>2, <1>5, <1>7 DEF NextElement, InLoop, Locals
<1>9. OutputWrittenBy(p) /\ Journey(r0, k + 1, k + 1)'
    BY <1>1, <1>2, <1>3, TrackedOutput, TrackedJourney
<1>10. Point(t)' = k + 1 /\ ElemPoints(t)' = k + 1
    <2>1. thread'[t] = l /\ particles'[p].at_turn = r.at_turn
        BY <1>2, <1>5, <1>6, <1>7, ElementPassedRecord
    <2>2. PICK x : x = (r.at_turn - r0.at_turn) * (call.last - call.first)
        OBVIOUS
    <2>3. PICK be \in Nat, first \in Nat : be = thread[t].be /\ first = call.first
        BY <1>7 DEF Locals, Calls
    <2>4. r0.at_turn \in Nat /\ r.at_turn \in Nat /\ call.first \in Nat /\ call.last \in Nat
        BY <1>2, <1>7 DEF Records, Calls
    <2>5. x \in Int
        BY <2>2, <2>4
    <2>6. Point(t)' = x + ((be + 1) - first)
        BY <1>1, <1>4, <1>8, <2>1, <2>2, <2>3 DEF Point
    <2>7. k = x + (be - first)
        BY <1>2, <1>4, <2>2, <2>3 DEF Point
    <2>8. x + ((be + 1) - first) = (x + (be - first)) + 1
        BY <2>5
    <2>9. Point(t)' = k + 1
        BY <2>6, <2>7, <2>8
    <2> QED BY <1>1, <1>8, <2>1, <2>9 DEF ElemPoints
<1>11. ASSUME NEW s0 \in Records, NEW j \in Nat, NEW m \in Nat, OnJourney(t, p, s0, j, m)'
       PROVE  Journey(s0, j, m)'
    <2>1. s0 = r0 /\ j = k + 1 /\ m = k + 1
        BY <1>1, <1>4, <1>10, <1>11 DEF OnJourney
    <2> QED BY <1>9, <2>1
<1>12. l.pc # "next"
    BY <1>8
<1> QED BY <1>1, <1>2, <1>6, <1>7, <1>8, <1>9, <1>11, <1>12, StayStep

\* The last element of a section, and of the last turn of a call, is the last
\* point of the journey.
LEMMA LastPoint ==
    ASSUME InductiveInv, PositionInv, NEW t \in Threads, AtElement(t),
           NEW p \in Particles, p = thread[t].pidx,
           NEW r0 \in Records, r0 = begun.particles[p],
           thread[t].be + 1 = call.last,
           call.kind = "line" \/ ~(particles[p].at_turn + 1 < call.until)
    PROVE  AtomicCalls!JourneyLength(r0) = Point(t) + 1
<1>1. PICK r \in Records : r = particles[p]
    BY AtElementFacts
<1>2. /\ OnWay(thread[t], r, r0) /\ call \in Calls /\ thread[t] \in Locals /\ ~Idle
      /\ call.kind # "line" => call.first = 0
    BY <1>1, OnWayFacts
<1>3. PICK at \in Nat, at0 \in Nat, be \in Nat, first \in Nat, last \in Nat, until \in Nat :
        /\ at = r.at_turn /\ at0 = r0.at_turn /\ be = thread[t].be
        /\ first = call.first /\ last = call.last /\ until = call.until
    BY <1>1, <1>2 DEF Records, Calls, Locals
<1>4. /\ first <= be /\ at >= at0 /\ be + 1 = last
      /\ call.kind = "line" => at = at0
      /\ call.kind # "line" => at + 1 = until
    BY <1>1, <1>2, <1>3 DEF OnWay
<1>5. r.state = r0.state /\ (call.kind # "elem_by_elem" => ~Lost(r))
    BY <1>2 DEF OnWay, Records
<1>6. ~(AtomicCalls!Lost(r0) /\ call.kind # "elem_by_elem")
    BY <1>5, SameElement DEF Lost
<1>7. PICK lap \in Nat : lap = last - first
    BY <1>3, <1>4
<1>8. Point(t) = (at - at0) * lap + (be - first)
    BY <1>1, <1>3, <1>7 DEF Point
<1>9. CASE call.kind = "line"
    <2>1. AtomicCalls!JourneyLength(r0) = lap
        BY <1>3, <1>6, <1>7, <1>9 DEF AtomicCalls!JourneyLength, AtomicCalls!Lap
    <2>2. (at - at0) * lap = 0
        BY <1>3, <1>4, <1>7, <1>9
    <2> QED BY <1>3, <1>4, <1>7, <1>8, <2>1, <2>2
<1>10. CASE call.kind # "line"
    <2>1. until > at0
        BY <1>3, <1>4, <1>10
    <2>2. AtomicCalls!JourneyLength(r0) = (until - at0) * lap
        BY <1>3, <1>6, <1>7, <1>10, <2>1 DEF AtomicCalls!JourneyLength, AtomicCalls!Lap
    <2>3. PICK q \in Int : q = at - at0
        BY <1>3
    <2>4. until - at0 = q + 1
        BY <1>3, <1>4, <1>10, <2>3
    <2>5. PICK x \in Int : x = q * lap
        BY <1>7, <2>3
    <2>6. (q + 1) * lap = x + lap
        BY <1>7, <2>3, <2>5
    <2> QED BY <1>3, <1>4, <1>7, <1>8, <2>2, <2>3, <2>4, <2>5, <2>6
<1> QED BY <1>9, <1>10

\* The journey of a particle under way is of some length.
LEMMA JourneyIsFinite ==
    ASSUME InductiveInv, PositionInv, NEW t \in Threads, AtElement(t),
           NEW p \in Particles, p = thread[t].pidx, NEW r0, r0 = begun.particles[p]
    PROVE  AtomicCalls!JourneyLength(r0) \in Nat
<1>1. /\ r0 \in Records /\ call \in Calls /\ call.first <= call.last
    BY OnWayFacts
<1>2. PICK at0 \in Nat, until \in Nat, lap \in Nat :
        at0 = r0.at_turn /\ until = call.until /\ lap = call.last - call.first
    BY <1>1 DEF Records, Calls
<1>3. until > at0 => (until - at0) * lap \in Nat
    <2> SUFFICES ASSUME until > at0 PROVE (until - at0) * lap \in Nat
        OBVIOUS
    <2>1. PICK d \in Nat : d = until - at0
        BY <1>2
    <2>2. d * lap \in Nat
        BY <1>2, <2>1
    <2> QED BY <2>1, <2>2
<1> QED BY <1>2, <1>3, Zenon DEF AtomicCalls!JourneyLength, AtomicCalls!Lap

\* A journey may end where it arrives.
LEMMA ArrivalEnds ==
    ASSUME NEW r, NEW n, NEW s, NEW status,
           AtomicCalls!JourneyLength(r) = n, AtomicCalls!PassesTo(r, n),
           AtomicCalls!Arrived(r) = s,
           status = IF call.kind = "until_turn" /\ NumElements = 0
                    THEN "failure" ELSE "success"
    PROVE  \E end \in AtomicCalls!Ends(r) :
              end.record = s /\ end.points = n /\ end.status = status
<1>1. [record |-> s, points |-> n, status |-> status] \in AtomicCalls!Ends(r)
    BY Zenon DEF AtomicCalls!Ends, AtomicCalls!Arrivals
<1> QED BY <1>1

\* Or where an element stops the particle.
LEMMA StopEnds ==
    ASSUME NEW r, NEW k \in Nat, k < AtomicCalls!JourneyLength(r),
           AtomicCalls!JourneyLength(r) \in Nat, AtomicCalls!PassesTo(r, k),
           NEW o \in Outcomes(AtomicCalls!ElementAt(k), AtomicCalls!AtPoint(r, k)),
           ~Continues(o)
    PROVE  [record |-> [AtomicCalls!AtPoint(r, k) EXCEPT !.state = StopState(o)],
            points |-> k + 1, status |-> o.status] \in AtomicCalls!Ends(r)
<1>1. k \in {j \in 0 .. AtomicCalls!JourneyLength(r) - 1 : AtomicCalls!PassesTo(r, j)}
    BY Zenon, SMT
<1>2. o \in {out \in AtomicCalls!Outcomes(AtomicCalls!ElementAt(k), AtomicCalls!AtPoint(r, k)) :
                ~AtomicCalls!Continues(out)}
    BY SameElement, Zenon
<1>3. [record |-> [AtomicCalls!AtPoint(r, k) EXCEPT !.state = StopState(o)],
       points |-> k + 1, status |-> o.status] \in AtomicCalls!StopsAt(r, k)
    BY <1>2, Zenon DEF AtomicCalls!StopsAt, StopState
<1> QED BY <1>1, <1>3, Zenon DEF AtomicCalls!Ends

\* A step in the loop that leaves its particle behind, after the points of a
\* journey that may end so.
LEMMA LeaveStep ==
    ASSUME InductiveInv, PositionInv, OutputInv, MonitorSlotsDistinct,
           NEW t \in Threads, NEW p \in Particles, p = thread[t].pidx, NEW r, ~Idle,
           thread' = [thread EXCEPT ![t] = Advance(t)],
           particles' = [particles EXCEPT ![p] = r],
           begun' = begun, OutputWrittenBy(p),
           call'.kind = call.kind, call'.first = call.first, call'.last = call.last,
           NEW r0 \in Records, r0 = begun.particles[p], r0.particle_id = ParticleId[p],
           NEW end \in AtomicCalls!Ends(r0), end.record = r, NEW n, end.points = n,
           call' = CallAfter(end.status), Recorded(r0, n)
    PROVE  OutputInv' /\ SeenStep
<1>1. AtomicCalls!TrackParticle(p)
    BY LeaveMaps
<1>2. PICK l \in Locals : l = Advance(t)
    BY AdvanceFacts DEF InductiveInv
<1>3. \A s0 \in Records, j, m \in Nat : OnJourney(t, p, s0, j, m)' => Journey(s0, j, m)'
    BY LeavesNoJourney
<1>4. ~Idle'
    BY DEF Idle
<1>5. OutputInv'
    BY <1>2, <1>3, <1>4, OutputStep
<1> QED BY <1>1, <1>5 DEF SeenStep

\* At the end of a turn too, or it has left the particle behind.
LEMMA TrackTurnEndOutput ==
    ASSUME InductiveInv, PositionInv, OutputInv, MonitorSlotsDistinct,
           NEW t \in Threads, TrackTurnEnd(t)
    PROVE  OutputInv' /\ SeenStep
<1>1. /\ AtElement(t) /\ TrackElement(t) /\ thread[t].pc = "track"
      /\ thread[t].be + 1 = call.last /\ call.kind # "line"
      /\ mon_store' = MonStoreAfter(mon_store, thread[t].be, particles[thread[t].pidx])
      /\ UNCHANGED <<call, elem_store, begun>>
    BY DEF TrackTurnEnd, TrackElement, AtElement
<1>2. PICK p \in Particles, r \in Records : p = thread[t].pidx /\ r = particles[p]
    BY <1>1, AtElementFacts
<1>3. PICK r0 \in Records, k \in Nat, n \in Nat : OnJourney(t, p, r0, k, n)
    BY <1>1, <1>2, JourneyFacts DEF OnJourney
<1>4. k = Point(t) /\ r0 = begun.particles[p]
    BY <1>3 DEF OnJourney
<1>5. PICK l, s : /\ l = IF r.at_turn + 1 < call.until THEN NextTurn(t) ELSE Advance(t)
                  /\ s = TurnFinished(r, thread[t].start)
    OBVIOUS
<1>6. /\ thread' = [thread EXCEPT ![t] = l]
      /\ particles' = [particles EXCEPT ![p] = s]
    BY <1>2, <1>5 DEF TrackTurnEnd
<1>7. /\ particles \in [Particles -> Records] /\ thread \in [Threads -> Locals]
      /\ ~Idle /\ call \in Calls /\ call.first = 0
    BY <1>1, OnWayFacts DEF InductiveInv, TypeOK
<1>8. OutputWrittenBy(p) /\ Journey(r0, k + 1, k + 1)'
    BY <1>1, <1>2, <1>3, TrackedOutput, TrackedJourney
<1>9. CASE ~(r.at_turn + 1 < call.until)
    <2>1. l = Advance(t)
        BY <1>5, <1>9
    <2>2. AtomicCalls!JourneyLength(r0) = k + 1
        BY <1>1, <1>2, <1>4, <1>9, LastPoint
    <2>3. AtomicCalls!PassesTo(r0, k + 1) /\ Recorded(r0, k + 1)
        BY <1>1, <1>2, <1>3, TrackedJourney, TrackedOutput
    <2>4. AtomicCalls!Arrived(r0) = s
        <3>1. OnWay(thread[t], r, r0) /\ ~Idle
            BY <1>1, <1>2, <1>4, OnWayFacts
        <3>2. /\ thread[t].start = r0.at_element_id /\ r.at_turn < call.until
              /\ r.particle_id = r0.particle_id /\ r.state = r0.state
            BY <1>1, <1>3, <3>1 DEF OnWay, Records
        <3>3. r.at_turn + 1 = call.until
            <4>1. r.at_turn \in Nat /\ call.until \in Nat
                BY <1>2, <1>7 DEF Records, Calls
            <4> QED BY <1>9, <3>2, <4>1
        <3>4. s = [particle_id |-> r0.particle_id, at_element_id |-> r0.at_element_id,
                   at_turn |-> call.until, state |-> r0.state]
            BY <1>5, <3>2, <3>3 DEF TurnFinished
        <3>5. AtomicCalls!Arrived(r0) = [r0 EXCEPT !.at_turn = call.until]
            BY <1>1, <1>3, <2>2 DEF AtomicCalls!Arrived
        <3> QED BY <1>3, <3>4, <3>5 DEF Records
    <2>5. PICK end \in AtomicCalls!Ends(r0) :
            end.record = s /\ end.points = k + 1 /\ end.status = "success"
        <3>1. NumElements # 0
            BY <1>1, AtElementFacts, BeamlineAssumption DEF Elements
        <3> QED BY <2>2, <2>3, <2>4, <3>1, ArrivalEnds
    <2>6. call' = CallAfter(end.status)
        BY <1>1, <2>5 DEF CallAfter
    <2>7. r0.particle_id = ParticleId[p]
        BY <1>1, <1>2, <1>4, JourneyFacts
    <2> QED BY <1>1, <1>2, <1>3, <1>4, <1>6, <1>7, <1>8, <2>1, <2>3, <2>5, <2>6, <2>7, LeaveStep
<1>10. CASE r.at_turn + 1 < call.until
    <2>0. l = NextTurn(t)
        BY <1>5, <1>10
    <2>1. /\ l \in Locals /\ l.pidx = p /\ l.be = 0
          /\ l.pc = IF call.kind = "elem_by_elem" THEN "store" ELSE "track"
        BY <1>2, <1>7, <2>0 DEF NextTurn, InLoop, Locals
    <2>2. Point(t)' = k + 1 /\ ElemPoints(t)' = k + 1
        <3>1. thread'[t] = l /\ particles'[p].at_turn = r.at_turn + 1
            BY <1>2, <1>5, <1>6, <1>7 DEF TurnFinished
        <3>2. r0.at_turn \in Nat /\ r.at_turn \in Nat /\ call.last \in Nat
              /\ thread[t].be \in Nat
            BY <1>2, <1>7 DEF Records, Calls, Locals
        <3>3. PICK lap \in Nat, q \in Int, be \in Nat :
                lap = call.last /\ q = r.at_turn - r0.at_turn /\ be = thread[t].be
            BY <3>2
        <3>4. (r.at_turn + 1) - r0.at_turn = q + 1 /\ be + 1 = lap
              /\ call.last - call.first = lap /\ call.first = 0
            BY <1>1, <1>7, <3>2, <3>3
        <3>5. Point(t)' = ((r.at_turn + 1) - r0.at_turn) * (call.last - call.first) + (0 - call.first)
            BY <1>1, <1>4, <2>1, <3>1 DEF Point
        <3>6. k = q * (call.last - call.first) + (be - call.first)
            BY <1>2, <1>4, <3>3 DEF Point
        <3>7. PICK x \in Int : x = q * lap
            BY <3>3
        <3>8. (q + 1) * lap = x + lap
            BY <3>3, <3>7
        <3>9. Point(t)' = x + lap
            BY <3>3, <3>4, <3>5, <3>7, <3>8
        <3>10. k = x + be
            BY <3>3, <3>4, <3>6, <3>7
        <3>11. x + lap = (x + be) + 1
            BY <3>3, <3>4, <3>7
        <3>12. Point(t)' = k + 1
            BY <3>9, <3>10, <3>11
        <3> QED BY <1>1, <2>1, <3>1, <3>12 DEF ElemPoints
    <2>3. ASSUME NEW s0 \in Records, NEW j \in Nat, NEW m \in Nat, OnJourney(t, p, s0, j, m)'
          PROVE  Journey(s0, j, m)'
        <3>1. s0 = r0 /\ j = k + 1 /\ m = k + 1
            BY <1>1, <1>4, <2>2, <2>3 DEF OnJourney
        <3> QED BY <1>8, <3>1
    <2>4. l.pc # "next"
        BY <2>1
    <2> QED BY <1>1, <1>2, <1>6, <1>7, <1>8, <2>1, <2>3, <2>4, StayStep
<1> QED BY <1>9, <1>10

\* At the end of a section.
LEMMA TrackLineEndOutput ==
    ASSUME InductiveInv, PositionInv, OutputInv, MonitorSlotsDistinct,
           NEW t \in Threads, TrackLineEnd(t)
    PROVE  OutputInv' /\ SeenStep
<1>1. /\ AtElement(t) /\ TrackElement(t) /\ thread[t].pc = "track"
      /\ thread[t].be + 1 = call.last /\ call.kind = "line"
      /\ mon_store' = MonStoreAfter(mon_store, thread[t].be, particles[thread[t].pidx])
      /\ thread' = [thread EXCEPT ![t] = Advance(t)]
      /\ UNCHANGED <<call, elem_store, begun>>
    BY DEF TrackLineEnd, TrackElement, AtElement
<1>2. PICK p \in Particles, r \in Records : p = thread[t].pidx /\ r = particles[p]
    BY <1>1, AtElementFacts
<1>3. PICK r0 \in Records, k \in Nat, n \in Nat : OnJourney(t, p, r0, k, n)
    BY <1>1, <1>2, JourneyFacts DEF OnJourney
<1>4. k = Point(t) /\ r0 = begun.particles[p]
    BY <1>3 DEF OnJourney
<1>5. PICK s : s = IF call.finish_turn THEN TurnFinished(r, 0) ELSE ElementPassed(r)
    OBVIOUS
<1>6. particles' = [particles EXCEPT ![p] = s]
    BY <1>2, <1>5 DEF TrackLineEnd
<1>7. OutputWrittenBy(p) /\ AtomicCalls!PassesTo(r0, k + 1) /\ Recorded(r0, k + 1)
    BY <1>1, <1>2, <1>3, TrackedJourney, TrackedOutput
<1>8. AtomicCalls!JourneyLength(r0) = k + 1
    BY <1>1, <1>2, <1>4, LastPoint
<1>9. /\ OnWay(thread[t], r, r0) /\ ~Idle /\ thread[t] \in Locals /\ call \in Calls
    BY <1>1, <1>2, <1>4, OnWayFacts
<1>10. AtomicCalls!Arrived(r0) = s
    <2>1. PICK m \in Int : m = thread[t].be - call.first
        BY <1>9 DEF Locals, Calls
    <2>2. /\ r = [r0 EXCEPT !.at_element_id = @ + m] /\ r.state = r0.state /\ ~Lost(r)
        BY <1>1, <1>3, <1>9, <2>1 DEF OnWay, Records
    <2>3. ~AtomicCalls!Lost(r0)
        BY <2>2, SameElement DEF Lost
    <2>4. call.last - call.first = m + 1 /\ AtomicCalls!Lap = call.last - call.first
        BY <1>1, <1>9, <2>1 DEF Locals, Calls, AtomicCalls!Lap
    <2>5. CASE call.finish_turn
        <3>1. /\ r.particle_id = r0.particle_id /\ r.at_turn = r0.at_turn
            BY <1>3, <2>2 DEF Records
        <3> QED BY <1>1, <1>5, <2>2, <2>3, <2>5, <3>1
            DEF AtomicCalls!Arrived, AtomicCalls!TurnFinished, TurnFinished
    <2>6. CASE ~call.finish_turn
        <3>1. AtomicCalls!Arrived(r0) = [r0 EXCEPT !.at_element_id = @ + (m + 1)]
            BY <1>1, <2>3, <2>4, <2>6 DEF AtomicCalls!Arrived
        <3>2. s = [r EXCEPT !.at_element_id = @ + 1]
            BY <1>5, <2>6 DEF ElementPassed
        <3>3. r0.at_element_id \in Nat /\ r.at_element_id = r0.at_element_id + m
            BY <1>3, <2>2 DEF Records
        <3>4. (r0.at_element_id + m) + 1 = r0.at_element_id + (m + 1)
            BY <2>1, <3>3
        <3> QED BY <1>3, <2>2, <3>1, <3>2, <3>3, <3>4 DEF Records
    <2> QED BY <2>5, <2>6
<1>11. PICK end \in AtomicCalls!Ends(r0) :
         end.record = s /\ end.points = k + 1 /\ end.status = "success"
    <2>1. ~(call.kind = "until_turn" /\ NumElements = 0)
        BY <1>1
    <2> QED BY <1>7, <1>8, <1>10, <2>1, ArrivalEnds
<1>12. call' = CallAfter(end.status)
    BY <1>1, <1>11 DEF CallAfter
<1>13. r0.particle_id = ParticleId[p]
    BY <1>1, <1>2, <1>4, JourneyFacts
<1> QED BY <1>1, <1>2, <1>3, <1>4, <1>6, <1>7, <1>9, <1>11, <1>12, <1>13, LeaveStep

\* When an element stops the particle.
LEMMA TrackStopOutput ==
    ASSUME InductiveInv, PositionInv, OutputInv, MonitorSlotsDistinct,
           NEW t \in Threads, TrackStop(t)
    PROVE  OutputInv' /\ SeenStep
<1>1. /\ AtElement(t) /\ thread[t].pc = "track"
      /\ mon_store' = MonStoreAfter(mon_store, thread[t].be, particles[thread[t].pidx])
      /\ thread' = [thread EXCEPT ![t] = Advance(t)]
      /\ UNCHANGED <<elem_store, begun>>
    BY DEF TrackStop, AtElement
<1>2. PICK p \in Particles, r \in Records : p = thread[t].pidx /\ r = particles[p]
    BY <1>1, AtElementFacts
<1>3. PICK r0 \in Records, k \in Nat, n \in Nat : OnJourney(t, p, r0, k, n)
    BY <1>1, <1>2, JourneyFacts DEF OnJourney
<1>4. k = Point(t) /\ r0 = begun.particles[p] /\ Journey(r0, k, n)
    BY <1>3 DEF OnJourney, OutputInv
<1>5. /\ particles \in [Particles -> Records] /\ call \in Calls /\ ~Idle
      /\ thread[t].be \in Elements
    BY <1>1, AtElementFacts DEF InductiveInv, TypeOK
<1>6. PICK o \in Outcomes(thread[t].be, r) :
        /\ ~Continues(o)
        /\ particles' = [particles EXCEPT ![p].state = StopState(o)]
        /\ call' = [call EXCEPT !.status = StatusAfter(o)]
    BY <1>2 DEF TrackStop
<1>7. o.status \in {"success", "failure"}
    BY <1>2, <1>5, <1>6, OutcomeFacts
<1>8. PICK s : s = [r EXCEPT !.state = StopState(o)]
    OBVIOUS
<1>9. particles' = [particles EXCEPT ![p] = s]
    <2>1. PICK x : x = StopState(o)
        OBVIOUS
    <2> QED BY <1>2, <1>6, <1>8, <2>1
<1>10. call' = CallAfter(o.status)
    <2>1. PICK y : y = call.status
        OBVIOUS
    <2>2. [call EXCEPT !.status = call.status] = call
        BY <1>5 DEF Calls
    <2> QED BY <1>6, <1>7, <2>2 DEF CallAfter, StatusAfter
<1>11. call'.kind = call.kind /\ call'.first = call.first /\ call'.last = call.last
    BY <1>5, <1>10 DEF Calls, CallAfter
<1>12. OutputWrittenBy(p) /\ Recorded(r0, k + 1)
    BY <1>1, <1>2, <1>3, TrackedOutput
<1>13. PICK end \in AtomicCalls!Ends(r0) :
         end.record = s /\ end.points = k + 1 /\ end.status = o.status
    <2>1. /\ r = AtomicCalls!AtPoint(r0, k) /\ thread[t].be = AtomicCalls!ElementAt(k)
          /\ k < AtomicCalls!JourneyLength(r0)
        BY <1>1, <1>2, <1>4, PointFacts
    <2>2. AtomicCalls!JourneyLength(r0) \in Nat
        BY <1>1, <1>2, <1>4, JourneyIsFinite
    <2>3. AtomicCalls!PassesTo(r0, k)
        BY <1>4 DEF Journey
    <2>4. [record |-> [AtomicCalls!AtPoint(r0, k) EXCEPT !.state = StopState(o)],
           points |-> k + 1, status |-> o.status] \in AtomicCalls!Ends(r0)
        BY <1>6, <2>1, <2>2, <2>3, StopEnds
    <2>5. [record |-> s, points |-> k + 1, status |-> o.status] \in AtomicCalls!Ends(r0)
        BY <1>8, <2>1, <2>4, Zenon
    <2> QED BY <2>5
<1>14. r0.particle_id = ParticleId[p]
    BY <1>1, <1>2, <1>4, JourneyFacts
<1> QED BY <1>1, <1>2, <1>3, <1>4, <1>5, <1>9, <1>10, <1>11, <1>12, <1>13, <1>14, LeaveStep

\* When the particle is passed over its journey has no points.
LEMMA SkipOutput ==
    ASSUME InductiveInv, PositionInv, OutputInv, MonitorSlotsDistinct,
           NEW t \in Threads, SkipParticle(t)
    PROVE  OutputInv' /\ SeenStep
<1>1. PICK p \in Particles : p = thread[t].pidx
    BY DEF SkipParticle
<1>2. /\ ~Idle /\ thread' = [thread EXCEPT ![t] = Advance(t)]
      /\ thread[t].pc = "next" /\ ~Enters(particles[p])
      /\ call' = IF call.kind = "until_turn" /\ NumElements = 0
                 THEN [call EXCEPT !.status = "failure"] ELSE call
      /\ UNCHANGED <<elem_store, mon_store, begun>>
    BY <1>1 DEF SkipParticle
<1>3. /\ particles \in [Particles -> Records] /\ call \in Calls /\ p % NumThreads = t
      /\ p \in Nat /\ call.first <= call.last
      /\ call.kind \in {"until_turn", "elem_by_elem"} =>
            call.first = 0 /\ call.last = NumElements
    BY <1>1, OwnerIsThread DEF InductiveInv, TypeOK, WorkItemsOwn
<1>4. PICK r0 \in Records : r0 = particles[p]
    BY <1>3
<1>5. Ahead(p) /\ begun.particles[p] = r0 /\ r0.particle_id = ParticleId[p]
    BY <1>1, <1>2, <1>3, <1>4 DEF PositionInv, Ahead, InductiveInv, IdsKept
<1>6. PICK s : s = IF FinishesTurn(r0) THEN TurnFinished(r0, 0) ELSE r0
    OBVIOUS
<1>7. particles' = [particles EXCEPT ![p] = s]
    BY <1>1, <1>3, <1>4, <1>6 DEF SkipParticle
<1>8. call'.kind = call.kind /\ call'.first = call.first /\ call'.last = call.last
    BY <1>2, <1>3 DEF Calls
<1>9. OutputWrittenBy(p)
    BY <1>2, NothingWritten
<1>10. Recorded(r0, 0) /\ AtomicCalls!PassesTo(r0, 0)
    <2>1. Journey(r0, 0, 0)
        BY <1>5, FreshJourney
    <2> QED BY <1>2, <2>1 DEF Journey, Recorded
<1>11. /\ r0.at_turn \in Nat /\ r0.at_element_id \in Nat /\ call.first \in Nat
       /\ call.last \in Nat /\ call.until \in Nat
       /\ call.kind \in {"until_turn", "elem_by_elem", "line"}
    BY <1>2, <1>3, <1>4 DEF Records, Calls, Idle
<1>12. AtomicCalls!Lost(r0) <=> Lost(r0)
    BY SameElement
<1>13. CASE call.kind = "line"
    <2>1. Lost(r0) \/ call.first = call.last
        BY <1>2, <1>4, <1>13 DEF Enters
    <2>2. AtomicCalls!JourneyLength(r0) = 0
        BY <1>11, <1>12, <1>13, <2>1 DEF AtomicCalls!JourneyLength, AtomicCalls!Lap
    <2>3. AtomicCalls!Arrived(r0) = s
        <3>1. CASE Lost(r0)
            BY <1>6, <1>12, <1>13, <3>1 DEF AtomicCalls!Arrived, FinishesTurn
        <3>2. CASE ~Lost(r0) /\ call.finish_turn
            BY <1>6, <1>12, <1>13, <3>2 DEF AtomicCalls!Arrived, FinishesTurn,
                AtomicCalls!TurnFinished, TurnFinished
        <3>3. CASE ~Lost(r0) /\ ~call.finish_turn
            <4>1. AtomicCalls!Lap = 0
                BY <1>11, <2>1, <3>3 DEF AtomicCalls!Lap
            <4>2. AtomicCalls!Arrived(r0) = [r0 EXCEPT !.at_element_id = @ + 0]
                BY <1>12, <1>13, <3>3, <4>1 DEF AtomicCalls!Arrived
            <4>3. s = r0
                BY <1>6, <3>3 DEF FinishesTurn
            <4> QED BY <1>4, <4>2, <4>3 DEF Records
        <3> QED BY <3>1, <3>2, <3>3
    <2>4. PICK end \in AtomicCalls!Ends(r0) :
            end.record = s /\ end.points = 0 /\ end.status = "success"
        <3>1. ~(call.kind = "until_turn" /\ NumElements = 0)
            BY <1>13
        <3> QED BY <1>10, <2>2, <2>3, <3>1, ArrivalEnds
    <2>5. call' = CallAfter(end.status)
        BY <1>2, <1>13, <2>4 DEF CallAfter
    <2> QED BY <1>1, <1>2, <1>4, <1>5, <1>7, <1>8, <1>9, <1>10, <2>4, <2>5, LeaveStep
<1>14. CASE call.kind # "line"
    <2>1. AtomicCalls!JourneyLength(r0) = 0
        <3>1. NumElements \in Nat /\ call.last - call.first = NumElements
            BY <1>3, <1>11, <1>14, BeamlineAssumption
        <3>2. \/ NumElements = 0 \/ ~(call.until > r0.at_turn)
              \/ call.kind = "until_turn" /\ Lost(r0)
            BY <1>2, <1>4, <1>14, <3>1 DEF Enters
        <3>3. CASE Lost(r0) /\ call.kind = "until_turn"
            BY <1>12, <3>3 DEF AtomicCalls!JourneyLength
        <3>4. CASE ~(call.until > r0.at_turn)
            BY <1>14, <3>4 DEF AtomicCalls!JourneyLength
        <3>5. CASE NumElements = 0
            <4>1. PICK d \in Int : d = call.until - r0.at_turn
                BY <1>11
            <4>2. AtomicCalls!Lap = 0
                BY <3>1, <3>5 DEF AtomicCalls!Lap
            <4>3. d * 0 = 0
                BY <4>1
            <4> QED BY <1>14, <4>1, <4>2, <4>3 DEF AtomicCalls!JourneyLength
        <3> QED BY <3>2, <3>3, <3>4, <3>5
    <2>2. s = r0
        BY <1>6, <1>14 DEF FinishesTurn
    <2>3. AtomicCalls!Arrived(r0) = s
        <3>1. AtomicCalls!Arrived(r0) = [r0 EXCEPT !.at_turn = @]
            BY <1>14, <2>1 DEF AtomicCalls!Arrived
        <3> QED BY <1>4, <2>2, <3>1 DEF Records
    <2>4. PICK end \in AtomicCalls!Ends(r0) :
            /\ end.record = s /\ end.points = 0
            /\ end.status = IF call.kind = "until_turn" /\ NumElements = 0
                            THEN "failure" ELSE "success"
        BY <1>10, <2>1, <2>3, ArrivalEnds
    <2>5. call' = CallAfter(end.status)
        BY <1>2, <2>4 DEF CallAfter
    <2> QED BY <1>1, <1>2, <1>4, <1>5, <1>7, <1>8, <1>9, <1>10, <2>4, <2>5, LeaveStep
<1> QED BY <1>13, <1>14

\* Between calls the output is as it was when the last one ended.
LEMMA RestOutput ==
    ASSUME elem_store' = begun'.elem_store, mon_store' = begun'.mon_store,
           \A t \in Threads : ~AtElement(t)'
    PROVE  OutputInv'
    BY DEF OutputInv, Touched, OnJourney

\* The output is as it should be after every step.
LEMMA NextOutput ==
    ASSUME InductiveInv, PositionInv, OutputInv, MonitorSlotsDistinct, [Next]_vars
    PROVE  OutputInv'
<1>1. ASSUME NEW c, Launch(c) PROVE OutputInv'
    <2>1. /\ begun = Rest /\ UNCHANGED <<elem_store, mon_store, begun>>
          /\ thread' = [t \in Threads |-> AtNext(t)]
        BY <1>1 DEF Launch, PositionInv
    <2>2. \A t \in Threads : ~AtElement(t)'
        BY <2>1 DEF AtElement, AtNext
    <2> QED BY <2>1, <2>2, RestOutput DEF Rest
<1>2. ASSUME NEW t \in Threads, WorkItem(t) PROVE OutputInv'
    BY <1>2, EnterOutput, SkipOutput, StoreOutput, TrackNextOutput, TrackTurnEndOutput,
       TrackLineEndOutput, TrackStopOutput DEF WorkItem
<1>3. CASE Return
    BY <1>3, RestOutput DEF Return, AllDone, AtElement, Rest
<1>4. CASE UNCHANGED vars
    <2>1. /\ UNCHANGED <<elem_store, mon_store, begun, thread, particles, call>>
        BY <1>4 DEF vars
    <2>2. ASSUME NEW t \in Threads, NEW p \in Particles, NEW r0 \in Records, NEW k \in Nat,
                 NEW n \in Nat, OnJourney(t, p, r0, k, n)'
          PROVE  Journey(r0, k, n)'
        <3>1. OnJourney(t, p, r0, k, n)
            BY <2>1, <2>2 DEF OnJourney, AtElement, Point, ElemPoints
        <3>2. Journey(r0, k, n)
            BY <3>1 DEF OutputInv
        <3> QED BY <2>1, <3>2, SameJourney DEF Journey, Latest
    <2> QED BY <2>1, <2>2 DEF OutputInv, Touched, Ahead
<1> QED BY <1>1, <1>2, <1>3, <1>4 DEF Next, LaunchUntilTurn, LaunchElemByElem, LaunchLine

\* Before the first call nothing was written.
LEMMA InitOutput == Init => OutputInv
    BY DEF Init, Rest, OutputInv, Touched, OnJourney, AtElement, AtNext

-----------------------------------------------------------------------------
(* The beginning and the end of a call are those of an atomic call.        *)

\* The calls and the first state are the same in both specifications.
LEMMA SameCalls ==
    /\ AtomicCalls!Fresh = Fresh /\ AtomicCalls!NoCall = NoCall
    /\ AtomicCalls!NoElemOutput = NoElemOutput /\ AtomicCalls!NoMonOutput = NoMonOutput
    /\ AtomicCalls!KernelFor = KernelFor
    /\ \A kind, until : AtomicCalls!CallUntil(kind, until) = CallUntil(kind, until)
    /\ \A section, finish : AtomicCalls!CallLine(section, finish) = CallLine(section, finish)
<1>1. \A kind, until, first, last, finish :
          AtomicCalls!Request(kind, until, first, last, finish)
            = Request(kind, until, first, last, finish)
    BY Zenon DEF AtomicCalls!Request, Request
<1>2. AtomicCalls!Fresh = Fresh
    BY SameSets, Zenon DEF AtomicCalls!Fresh, Fresh, AtomicCalls!Particles, Particles
<1>3. AtomicCalls!NoElemOutput = NoElemOutput
    BY SameSets, Zenon DEF AtomicCalls!NoElemOutput, NoElemOutput
<1>4. AtomicCalls!NoMonOutput = NoMonOutput
    BY SameSets, SMT DEF AtomicCalls!NoMonOutput, NoMonOutput
<1>5. AtomicCalls!KernelFor = KernelFor
    BY Zenon DEF AtomicCalls!KernelFor, KernelFor, AtomicCalls!NoAddress, NoAddress
<1> QED BY <1>1, <1>2, <1>3, <1>4, <1>5, Zenon DEF AtomicCalls!NoCall, NoCall,
        AtomicCalls!CallUntil, CallUntil, AtomicCalls!CallLine, CallLine

\* What is shown of an output while no particle is under way.
LEMMA ShownAtRest ==
    ASSUME Unfinished = {}
    PROVE  /\ [p \in Particles |-> IF p \in Unfinished THEN begun.particles[p]
                                   ELSE particles[p]] = [p \in Particles |-> particles[p]]
           /\ [i \in ElemSlots |-> Shown(elem_store[i], begun.elem_store[i])]
                = [i \in ElemSlots |-> elem_store[i]]
           /\ [e \in MonitorElements |-> [i \in MonSlots(e) |->
                   Shown(mon_store[e][i], begun.mon_store[e][i])]]
                = [e \in MonitorElements |-> [i \in MonSlots(e) |-> mon_store[e][i]]]
<1>1. UnfinishedIds = {}
    BY DEF UnfinishedIds
<1>2. \A now, before : Shown(now, before) = now
    BY <1>1, Zenon DEF Shown
<1> QED BY <1>2

\* And while the output is still as the call found it.
LEMMA ShownAsBegun ==
    ASSUME begun' = Rest, particles' = particles, elem_store' = elem_store,
           mon_store' = mon_store
    PROVE  /\ [p \in Particles |-> IF p \in Unfinished THEN begun.particles[p]
                                   ELSE particles[p]]' = [p \in Particles |-> particles[p]]
           /\ [i \in ElemSlots |-> Shown(elem_store[i], begun.elem_store[i])]'
                = [i \in ElemSlots |-> elem_store[i]]
           /\ [e \in MonitorElements |-> [i \in MonSlots(e) |->
                   Shown(mon_store[e][i], begun.mon_store[e][i])]]'
                = [e \in MonitorElements |-> [i \in MonSlots(e) |-> mon_store[e][i]]]
<1>1. /\ begun'.particles = particles /\ begun'.elem_store = elem_store
      /\ begun'.mon_store = mon_store
    BY DEF Rest
<1>2. \A now : Shown(now, now)' = now'
    BY Zenon DEF Shown
<1> QED BY <1>1 DEF Shown

\* A launch begins an atomic call.
LEMMA LaunchMaps ==
    ASSUME InductiveInv, PositionInv, NEW c \in AtomicCalls!Requests, c.kind # "none",
           Launch(c)
    PROVE  AtomicCalls!Begin
<1>1. /\ Idle /\ begun = Rest /\ UNCHANGED <<particles, elem_store, mon_store, begun>>
      /\ call' = c /\ thread' = [t \in Threads |-> AtNext(t)]
    BY DEF Launch, PositionInv
<1>2. Unfinished = {}
    BY <1>1 DEF Unfinished
<1>3. Unfinished' = AtomicCalls!Particles
    <2>1. ~Idle'
        BY <1>1 DEF Idle
    <2>2. ASSUME NEW p \in Particles PROVE thread'[p % NumThreads].pidx <= p
        <3>1. PICK j \in Nat : j = p % NumThreads /\ j <= p
            BY OwnerIsNotAhead
        <3>2. p % NumThreads \in Threads
            BY OwnerIsThread
        <3> QED BY <1>1, <3>1, <3>2 DEF AtNext
    <2>3. Unfinished' = Particles
        BY <2>1, <2>2 DEF Unfinished
    <2> QED BY <2>3, SameSets
<1>4. /\ begun' = Rest /\ particles' = particles /\ elem_store' = elem_store
      /\ mon_store' = mon_store
    BY <1>1
<1> QED BY <1>1, <1>2, <1>3, <1>4, ShownAtRest, ShownAsBegun, Zenon
        DEF AtomicCalls!Begin, Idle

\* A return ends it.
LEMMA ReturnMaps ==
    ASSUME InductiveInv, Return
    PROVE  AtomicCalls!End
<1>1. /\ ~Idle /\ AllDone /\ begun' = Rest
      /\ call' = [NoCall EXCEPT !.status = call.status]
      /\ particles' = particles /\ elem_store' = elem_store /\ mon_store' = mon_store
    BY DEF Return
<1>2. Unfinished = {}
    <2>1. ASSUME NEW p \in Particles PROVE ~(thread[p % NumThreads].pidx <= p)
        <3>1. /\ p % NumThreads \in Threads /\ p \in 0 .. NumParticles - 1
              /\ thread[p % NumThreads].pidx \in Nat
            BY BeamlineAssumption, ThreadsAssumption
               DEF Particles, Threads, InductiveInv, TypeOK, Locals
        <3>2. thread[p % NumThreads].pidx \notin 0 .. NumParticles - 1
            BY <1>1, <3>1 DEF AllDone, Particles
        <3> QED BY <3>1, <3>2, BeamlineAssumption
    <2> QED BY <2>1 DEF Unfinished
<1>3. Unfinished' = Unfinished
    <2>1. Idle'
        BY <1>1 DEF Idle, NoCall, Request
    <2> QED BY <1>2, <2>1 DEF Unfinished
<1> QED BY <1>1, <1>2, <1>3, ShownAtRest, ShownAsBegun, SameCalls, Zenon
        DEF AtomicCalls!End, Idle

\* The first state is that of the atomic calls.
LEMMA InitMaps == Init => AtomicCalls!Init
<1> SUFFICES ASSUME Init PROVE AtomicCalls!Init
    OBVIOUS
<1>1. /\ particles = Fresh /\ call = NoCall /\ elem_store = NoElemOutput
      /\ mon_store = NoMonOutput
    BY DEF Init
<1>2. Unfinished = {}
    BY <1>1 DEF Unfinished, Idle, NoCall, Request
<1>3. /\ [p \in Particles |-> particles[p]] = Fresh
      /\ [i \in ElemSlots |-> elem_store[i]] = NoElemOutput
      /\ [e \in MonitorElements |-> [i \in MonSlots(e) |-> mon_store[e][i]]] = NoMonOutput
    BY <1>1 DEF Fresh, NoElemOutput, NoMonOutput
<1> QED BY <1>1, <1>2, <1>3, ShownAtRest, SameCalls, Zenon DEF AtomicCalls!Init

\* Every step is one of the atomic calls, or changes nothing of what is shown.
LEMMA NextMaps ==
    ASSUME InductiveInv, PositionInv, OutputInv, MonitorSlotsDistinct, [Next]_vars
    PROVE  [AtomicCalls!Next]_(AtomicCalls!cvars)
<1>1. ASSUME NEW c \in AtomicCalls!Requests, c.kind # "none", Launch(c)
      PROVE  AtomicCalls!Next
    BY <1>1, LaunchMaps DEF AtomicCalls!Next
<1>2. CASE LaunchUntilTurn
    <2>1. PICK until \in UntilTurns : Launch(CallUntil("until_turn", until))
        BY <1>2 DEF LaunchUntilTurn
    <2>2. PICK c : c = CallUntil("until_turn", until)
        OBVIOUS
    <2>3. c \in AtomicCalls!Requests
        <3>1. c = AtomicCalls!CallUntil("until_turn", until)
            BY <2>2, SameCalls
        <3> QED BY <3>1, SMT DEF AtomicCalls!Requests
    <2>4. c.kind # "none"
        BY <2>2 DEF CallUntil, Request
    <2> QED BY <1>1, <2>1, <2>2, <2>3, <2>4
<1>3. CASE LaunchElemByElem
    <2>1. PICK until \in UntilTurns : Launch(CallUntil(KernelFor, until))
        BY <1>3 DEF LaunchElemByElem
    <2>2. PICK c : c = CallUntil(KernelFor, until)
        OBVIOUS
    <2>3. c \in AtomicCalls!Requests
        <3>1. c = AtomicCalls!CallUntil(AtomicCalls!KernelFor, until)
            BY <2>2, SameCalls
        <3> QED BY <3>1, SMT DEF AtomicCalls!Requests
    <2>4. c.kind # "none"
        BY <2>2 DEF CallUntil, Request, KernelFor
    <2> QED BY <1>1, <2>1, <2>2, <2>3, <2>4
<1>4. CASE LaunchLine
    <2>1. PICK section \in Sections, finish \in BOOLEAN : Launch(CallLine(section, finish))
        BY <1>4 DEF LaunchLine
    <2>2. PICK c : c = CallLine(section, finish)
        OBVIOUS
    <2>3. c \in AtomicCalls!Requests
        <3>1. c = AtomicCalls!CallLine(section, finish)
            BY <2>2, SameCalls
        <3> QED BY <3>1, SMT DEF AtomicCalls!Requests
    <2>4. c.kind # "none"
        BY <2>2 DEF CallLine, Request
    <2> QED BY <1>1, <2>1, <2>2, <2>3, <2>4
<1>5. ASSUME NEW t \in Threads, WorkItem(t) PROVE [AtomicCalls!Next]_(AtomicCalls!cvars)
    <2>1. SeenStep
        BY <1>5, EnterOutput, SkipOutput, StoreOutput, TrackNextOutput, TrackTurnEndOutput,
           TrackLineEndOutput, TrackStopOutput DEF WorkItem
    <2> QED BY <2>1, SameSets, Zenon DEF SeenStep, AtomicCalls!Next
<1>6. CASE Return
    BY <1>6, ReturnMaps DEF AtomicCalls!Next
<1>7. CASE UNCHANGED vars
    <2>1. /\ particles' = particles /\ call' = call /\ thread' = thread
          /\ elem_store' = elem_store /\ mon_store' = mon_store /\ begun' = begun
        BY <1>7 DEF vars
    <2>2. Unfinished' = Unfinished /\ UnfinishedIds' = UnfinishedIds
        BY <2>1 DEF Unfinished, UnfinishedIds, Idle
    <2> QED BY <2>1, <2>2, Zenon DEF AtomicCalls!cvars, Shown
<1> QED BY <1>2, <1>3, <1>4, <1>5, <1>6, <1>7 DEF Next

-----------------------------------------------------------------------------
(* The theorems.                                                           *)

\* In every state the output slots that differ from those the call found hold
\* the record of a particle it has begun to track, and the slots of a particle
\* under way hold the last of its passages so far: however the work items are
\* interleaved.
THEOREM TrackingOutput ==
    ASSUME MonitorSlotsDistinct
    PROVE  Spec => []OutputInv
<1>1. InductiveInv /\ PositionInv /\ OutputInv /\ [Next]_vars => OutputInv'
    BY NextOutput
<1> QED BY <1>1, InitOutput, TrackingInductive, TrackingPositions, PTL DEF Spec

\* The work items of the kernels, in every interleaving, do what tracking the
\* particles one after the other in one step each does: to the particles, to
\* the element by element output and to that of the monitors.
THEOREM TrackingImplementsAtomicCalls ==
    ASSUME MonitorSlotsDistinct
    PROVE  Spec => ImplementsAtomicCalls
<1>1. InductiveInv /\ PositionInv /\ OutputInv /\ [Next]_vars
        => [AtomicCalls!Next]_(AtomicCalls!cvars)
    BY NextMaps
<1> QED BY <1>1, InitMaps, TrackingInductive, TrackingPositions, TrackingOutput, PTL
        DEF Spec, AtomicCalls!Spec, ImplementsAtomicCalls
=============================================================================
