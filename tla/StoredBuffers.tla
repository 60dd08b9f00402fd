--------------------------- MODULE StoredBuffers ---------------------------
(***************************************************************************)
(* The buffers a track job stores for its user                             *)
(* (common/track/track_job_base.cpp, common/track/track_job_buffer_store): *)
(* each is given an id, is owned by the job or only pointed to, and may be *)
(* removed again.  Jobs are copied; what a job owns is copied with it.     *)
(*                                                                         *)
(* Memory is what matters of a buffer: it is allocated and freed, may move *)
(* when it grows, and each of its objects holds one pointer.               *)
(***************************************************************************)
EXTENDS Integers, Sequences, FiniteSets, SequencesExt

CONSTANTS
    Jobs,
    Buffers,        \* buffers that are ever allocated
    NoBuffer,       \* a null pointer
    NumObjects,     \* objects in a buffer
    MinUserId,      \* ARCH_MIN_USER_DEFINED_BUFFER_ID
    Held,           \* buffers that callers have before they store any
    Given,          \* fixed id -> the buffer the jobs were made with, or none
    MaxSlots,       \* bound on the buffers stored in one job
    MaxPlace        \* buffer -> bound on its moves

IllegalId == 0
FixedIds  == 1..3   \* particles, beam elements, output
Objects   == 1..NumObjects
Pointers  == Buffers \cup {NoBuffer}

ASSUME StoredBuffersAssumption ==
    /\ NoBuffer \notin Buffers
    /\ NumObjects \in Nat /\ MaxSlots \in Nat /\ MaxPlace \in [Buffers -> Nat]
    /\ MinUserId \in Nat /\ MinUserId > 5
    /\ Held \subseteq Buffers /\ Given \in [FixedIds -> Held \cup {NoBuffer}]

VARIABLES
    slots,      \* job -> m_stored_buffers
    num,        \* job -> m_num_stored_buffers
    memory      \* buffer -> whether it is allocated, where, and its pointers

storeVars == <<slots, num, memory>>

\* Where an object is: no two places of a buffer are the same memory.
Address == Buffers \X Nat \X Objects
Null    == <<NoBuffer, 0, 0>>

Slot   == [buffer : Pointers, owned : BOOLEAN]
Empty  == [buffer |-> NoBuffer, owned |-> FALSE]
Active(s) == s.buffer # NoBuffer

Memory == [life : {"none", "live", "freed"}, place : Nat,
           pointer : [Objects -> Address \cup {Null}]]
Blank(life) == [life |-> life, place |-> 0, pointer |-> [o \in Objects |-> Null]]

AddressOf(b, o) == <<b, memory[b].place, o>>
Live(b) == memory[b].life = "live"
GivenBuffers == {Given[id] : id \in FixedIds} \ {NoBuffer}

StoresInit ==
    /\ slots = [j \in Jobs |-> <<>>]
    /\ num = [j \in Jobs |-> 0]
    /\ memory = [b \in Buffers |-> Blank(IF b \in Held THEN "live" ELSE "none")]

-----------------------------------------------------------------------------
(* Ids.                                                                    *)

MinStoredId(j) == IF num[j] > 0 THEN MinUserId ELSE IllegalId

\* Ids count all slots, in use or not, but none is one while no slot is in use.
IsStoredId(j, id) ==
    /\ MinStoredId(j) # IllegalId /\ id # IllegalId
    /\ id >= MinStoredId(j) /\ id < MinStoredId(j) + Len(slots[j])

Index(j, id) == id - MinStoredId(j) + 1

BufferById(j, id) ==
    IF id \in FixedIds THEN Given[id]
    ELSE IF IsStoredId(j, id) THEN slots[j][Index(j, id)].buffer
    ELSE NoBuffer

-----------------------------------------------------------------------------
(* Operations.                                                             *)

\* The buffers a job frees when a slot or the job itself goes.
Owned(j) == {slots[j][i].buffer : i \in {i \in DOMAIN slots[j] : slots[j][i].owned}}

\* What a caller may give: a buffer it has that nobody owns, or to own it a new
\* one or one nobody points to; a null pointer, for a slot that is not in use.
MayStore(b, owned) ==
    IF b = NoBuffer THEN ~owned
    ELSE /\ Live(b) \/ (owned /\ memory[b].life = "none")
         /\ \A k \in Jobs : b \notin Owned(k)
         /\ owned => /\ b \notin GivenBuffers
                     /\ \A k \in Jobs : \A i \in DOMAIN slots[k] : slots[k][i].buffer # b

NewSlot(b, owned) == IF b = NoBuffer THEN Empty ELSE [buffer |-> b, owned |-> owned]

\* The new id is MinUserId + Len(slots[j]).
StoreBuffer(j, b, owned) ==
    /\ Len(slots[j]) < MaxSlots /\ MayStore(b, owned)
    /\ slots' = [slots EXCEPT ![j] = Append(@, NewSlot(b, owned))]
    /\ num' = [num EXCEPT ![j] = IF Active(NewSlot(b, owned)) THEN @ + 1 ELSE @]
    /\ memory' = IF b # NoBuffer /\ memory[b].life = "none"
                 THEN [memory EXCEPT ![b] = Blank("live")] ELSE memory

Freed(bs) == [b \in Buffers |-> IF b \in bs THEN Blank("freed") ELSE memory[b]]

\* Mutant: the slot is erased.
BadDropBufferErased(j, id) ==
    /\ IsStoredId(j, id)
    /\ LET s == slots[j][Index(j, id)]
       IN  /\ slots' = [slots EXCEPT ![j] = RemoveAt(@, Index(j, id))]
           /\ num' = [num EXCEPT ![j] = IF Active(s) THEN @ - 1 ELSE @]
           /\ memory' = Freed(IF s.owned THEN {s.buffer} ELSE {})

\* A slot that is removed stays, not in use.  Removing it again succeeds.
DropBuffer(j, id) ==
    /\ IsStoredId(j, id)
    /\ LET i == Index(j, id)
           s == slots[j][i]
       IN  IF Active(s)
           THEN /\ slots' = [slots EXCEPT ![j] = [@ EXCEPT ![i] = Empty]]
                /\ num' = [num EXCEPT ![j] = @ - 1]
                /\ memory' = Freed(IF s.owned THEN {s.buffer} ELSE {})
           ELSE UNCHANGED storeVars

\* Growing moves a buffer.  Its objects keep what they hold.
Move(b) ==
    /\ Live(b) /\ memory[b].place < MaxPlace[b]
    /\ memory' = [memory EXCEPT ![b].place = @ + 1]
    /\ UNCHANGED <<slots, num>>

\* Job k goes and a copy of job j takes its place: "copy" gives each slot that
\* owns a buffer a new one for the copy.  The pointers are copied as they are.
Copies(j) == {f \in [DOMAIN slots[j] -> Pointers] :
    \A i \in DOMAIN slots[j] :
        IF slots[j][i].owned
        THEN /\ f[i] \in Buffers /\ memory[f[i]].life = "none"
             /\ \A m \in DOMAIN slots[j] : f[m] = f[i] => m = i
        ELSE f[i] = slots[j][i].buffer}

CopyStores(j, k) ==
    /\ j # k
    /\ \E f \in Copies(j) :
        /\ slots' = [slots EXCEPT ![k] =
                        [i \in DOMAIN slots[j] |-> [slots[j][i] EXCEPT !.buffer = f[i]]]]
        /\ num' = [num EXCEPT ![k] = num[j]]
        /\ memory' = [b \in Buffers |->
                IF \E i \in DOMAIN slots[j] : slots[j][i].owned /\ f[i] = b
                THEN LET i == CHOOSE i \in DOMAIN slots[j] : slots[j][i].owned /\ f[i] = b
                     IN  [life |-> "live", place |-> 0,
                          pointer |-> memory[slots[j][i].buffer].pointer]
                ELSE Freed(Owned(k))[b]]

-----------------------------------------------------------------------------
(* What the job relies on.                                                 *)

InUse(j) == {i \in DOMAIN slots[j] : Active(slots[j][i])}

\* Types of the three tables.
StoresTypeOK ==
    /\ slots \in [Jobs -> Seq(Slot)]
    /\ num \in [Jobs -> Nat]
    /\ memory \in [Buffers -> Memory]

\* The count is that of the slots in use (asserted by num_stored_buffers).
CountsAgree == \A j \in Jobs : num[j] = Cardinality(InUse(j))

\* A slot names memory that is allocated, and what one owns no other names.
SlotsAreSound ==
    /\ \A b \in GivenBuffers : Live(b)
    /\ \A j \in Jobs : \A i \in DOMAIN slots[j] :
        /\ Active(slots[j][i]) => Live(slots[j][i].buffer)
        /\ slots[j][i].owned =>
            /\ Active(slots[j][i]) /\ slots[j][i].buffer \notin GivenBuffers
            /\ \A k \in Jobs : \A m \in DOMAIN slots[k] :
                slots[k][m].buffer = slots[j][i].buffer => k = j /\ m = i
=============================================================================
