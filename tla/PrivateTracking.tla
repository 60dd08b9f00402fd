---------------------------- MODULE PrivateTracking ----------------------------
(***************************************************************************)
(* The optimised tracking kernels (common/track/track_kernel_opt_impl.h)   *)
(* beside those of module Tracking.                                        *)
(*                                                                         *)
(* A work item of an optimised kernel copies a particle into one of its    *)
(* own, tracks that through the line, and copies it back.  Meanwhile the   *)
(* particle set shows the particle as the call found it, while the output  *)
(* already has it further down the line.  Seen is the particle set with    *)
(* each private particle in its place: seen so, the optimised kernels are  *)
(* the plain ones.                                                         *)
(***************************************************************************)
EXTENDS Tracking

VARIABLES
    optimised,      \* whether the kernel that runs is an optimised one
    own             \* work item -> its private particle

pvars == <<vars, optimised, own>>

\* The private particle as the kernel makes it, before the first copy.
Blank == [particle_id |-> 0, at_element_id |-> 0, at_turn |-> 0, state |-> 0]

\* Locals of a work item that may also be about to copy back.
PrivateLocals == [pc : {"next", "store", "track", "back"}, pidx : Nat, be : Nat,
                  start : Nat, elem : Nat, turn : Nat]

-----------------------------------------------------------------------------
PrivateInit ==
    /\ Init
    /\ optimised = FALSE
    /\ own = [t \in Threads |-> Blank]

\* A caller launches kernels of either kind.
LaunchEither ==
    /\ LaunchUntilTurn \/ LaunchElemByElem \/ LaunchLine
    /\ optimised' \in BOOLEAN
    /\ own' = [t \in Threads |-> Blank]

\* The particle as it is copied in.
CopiedIn(t) == particles[thread[t].pidx]

\* A work item whose private particle is done with the loop.
BadCopyingBackNot(t) == Advance(t)
CopyingBack(t) == [thread[t] EXCEPT !.pc = "back"]

\* It copies its next particle in and enters the loop over the elements.
PrivateEnter(t) ==
    LET r == CopiedIn(t) IN
    /\ ~Idle /\ thread[t].pc = "next" /\ thread[t].pidx \in Particles
    /\ Enters(r)
    /\ own' = [own EXCEPT ![t] = r]
    /\ thread' = [thread EXCEPT ![t] =
            InLoop(thread[t].pidx, call.first, r.at_element_id,
                   r.at_element_id, r.at_turn)]
    /\ UNCHANGED <<particles, call, elem_store, mon_store, begun>>

\* Or there is nothing to do for the particle, which is copied back all the
\* same.
PrivateSkip(t) ==
    LET r == CopiedIn(t) IN
    /\ ~Idle /\ thread[t].pc = "next" /\ thread[t].pidx \in Particles
    /\ ~Enters(r)
    /\ own' = [own EXCEPT ![t] = IF FinishesTurn(r) THEN TurnFinished(r, 0) ELSE r]
    /\ thread' = [thread EXCEPT ![t] = CopyingBack(t)]
    /\ call' = IF call.kind = "until_turn" /\ NumElements = 0
               THEN [call EXCEPT !.status = "failure"]
               ELSE call
    /\ UNCHANGED <<particles, elem_store, mon_store, begun>>

BadPrivateSourceInSet(t) == particles[thread[t].pidx]
PrivateSource(t) == own[t]

PrivateIndex(t) ==
    StoreIndex(Config, own[t].particle_id, thread[t].elem, thread[t].turn)

PrivateStore(t) ==
    /\ thread[t].pc = "store"
    /\ elem_store' =
         IF PrivateIndex(t) \in ElemSlots
         THEN [elem_store EXCEPT ![PrivateIndex(t)] = PrivateSource(t)]
         ELSE elem_store
    /\ thread' = [thread EXCEPT ![t].pc = "track"]
    /\ UNCHANGED <<particles, call, mon_store, begun, own>>

\* The dispatcher lets the private particle pass.
PrivateElement(t) ==
    /\ thread[t].pc = "track"
    /\ Passes(thread[t].be, own[t])
    /\ mon_store' = MonStoreAfter(mon_store, thread[t].be, own[t])
    /\ UNCHANGED <<particles, call, elem_store, begun>>

PrivateNext(t) ==
    /\ PrivateElement(t)
    /\ thread[t].be + 1 < call.last
    /\ own' = [own EXCEPT ![t] = ElementPassed(@)]
    /\ thread' = [thread EXCEPT ![t] = NextElement(t)]

PrivateTurnEnd(t) ==
    /\ PrivateElement(t)
    /\ thread[t].be + 1 = call.last /\ call.kind # "line"
    /\ own' = [own EXCEPT ![t] = TurnFinished(@, thread[t].start)]
    /\ thread' = [thread EXCEPT ![t] =
            IF own[t].at_turn + 1 < call.until THEN NextTurn(t) ELSE CopyingBack(t)]

PrivateLineEnd(t) ==
    /\ PrivateElement(t)
    /\ thread[t].be + 1 = call.last /\ call.kind = "line"
    /\ own' = [own EXCEPT ![t] =
            IF call.finish_turn THEN TurnFinished(@, 0) ELSE ElementPassed(@)]
    /\ thread' = [thread EXCEPT ![t] = CopyingBack(t)]

\* The element lost the private particle or failed.
PrivateStop(t) ==
    LET e == thread[t].be IN
    /\ thread[t].pc = "track"
    /\ \E o \in Outcomes(e, own[t]) :
         /\ ~Continues(o)
         /\ own' = [own EXCEPT ![t].state = StopState(o)]
         /\ call' = [call EXCEPT !.status = StatusAfter(o)]
    /\ mon_store' = MonStoreAfter(mon_store, e, own[t])
    /\ thread' = [thread EXCEPT ![t] = CopyingBack(t)]
    /\ UNCHANGED <<particles, elem_store, begun>>

\* The private particle is copied back, and the work item moves on.
AfterCopyBack(t) == Advance(t)

CopyBack(t) ==
    /\ thread[t].pc = "back"
    /\ particles' = [particles EXCEPT ![thread[t].pidx] = own[t]]
    /\ thread' = [thread EXCEPT ![t] = AfterCopyBack(t)]
    /\ UNCHANGED <<call, elem_store, mon_store, begun, own>>

PrivateWorkItem(t) ==
    \/ PrivateEnter(t) \/ PrivateSkip(t) \/ PrivateStore(t)
    \/ PrivateNext(t) \/ PrivateTurnEnd(t) \/ PrivateLineEnd(t) \/ PrivateStop(t)
    \/ CopyBack(t)

\* A work item of the kernel that runs.
EitherWorkItem(t) ==
    /\ \/ ~optimised /\ WorkItem(t) /\ UNCHANGED own
       \/ optimised /\ PrivateWorkItem(t)
    /\ UNCHANGED optimised

PrivateNextState ==
    \/ LaunchEither
    \/ \E t \in Threads : EitherWorkItem(t)
    \/ Return /\ UNCHANGED <<optimised, own>>

PrivateSpec == PrivateInit /\ [][PrivateNextState]_pvars

\* As in Tracking: what was launched is executed.
PrivateFairSpec ==
    /\ PrivateSpec
    /\ \A t \in Threads : WF_pvars(EitherWorkItem(t))
    /\ WF_pvars(Return /\ UNCHANGED <<optimised, own>>)

-----------------------------------------------------------------------------
(* The plain kernels, seen.                                                *)

HoldsCopy(t) == optimised /\ thread[t].pc # "next"

Seen ==
    [p \in Particles |->
        LET t == p % NumThreads
        IN  IF HoldsCopy(t) /\ thread[t].pidx = p THEN own[t] ELSE particles[p]]

SeenThread ==
    [t \in Threads |-> IF thread[t].pc = "back" THEN Advance(t) ELSE thread[t]]

Plain == INSTANCE TrackingRefinement WITH
    particles <- Seen, thread <- SeenThread

-----------------------------------------------------------------------------
(* Properties.                                                             *)

\* The shape of the state.
PrivateTypeOK ==
    /\ particles \in [Particles -> Records]
    /\ call \in Calls
    /\ call.first <= call.last /\ call.last <= NumElements
    /\ call.kind \in {"until_turn", "elem_by_elem"} =>
            call.first = 0 /\ call.last = NumElements
    /\ thread \in [Threads -> PrivateLocals]
    /\ optimised \in BOOLEAN
    /\ own \in [Threads -> Records]

\* Each private particle is a copy of the particle the work item is at, which
\* no other work item has, and only optimised kernels copy back.
CopiesOwned ==
    \A t \in Threads :
        /\ thread[t].pidx % NumThreads = t
        /\ thread[t].pc # "next" => thread[t].pidx \in Particles /\ ~Idle
        /\ thread[t].pc \in {"store", "track"} => thread[t].be < call.last
        /\ thread[t].pc = "back" => optimised
        /\ HoldsCopy(t) => own[t].particle_id = ParticleId[thread[t].pidx]

PrivateInv == PrivateTypeOK /\ CopiesOwned /\ IdsKept

\* So work items of either kind own the particles of their stride, count ids
\* that are those of the particle as it is seen, and file records under them,
SeenInductiveInv == Plain!InductiveInv

\* no two are ever about to write one output slot, private copy or not,
SeenNoOutputRace == Plain!NoOutputRace

\* and a lost particle is seen to keep its ids, turn and state from the step
\* that loses the copy on, through copying back, and to be taken to no element
\* but the first of a line that is tracked element by element.
SeenLostKeepsRecord == Plain!LostKeepsRecord

\* The optimised kernels do to the particles and the output what the plain
\* ones do, step by step, with every private particle in its place.
ImplementsPlainKernels == Plain!Spec

\* So whatever mix of kernels ran, the result is one of tracking the
\* particles one by one.
SeenAtomicCalls == Plain!ImplementsAtomicCalls
=============================================================================
