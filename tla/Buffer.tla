------------------------------- MODULE Buffer -------------------------------
(***************************************************************************)
(* One st_Buffer and the memory it manages (common/buffer.h,               *)
(* common/buffer/buffer_generic.h, common/buffer/buffer.c, with the memory *)
(* pool of common/buffer/mem_pool.c).  A buffer that owns its memory has   *)
(* it from a pool, which moves to another block when it grows.  One that   *)
(* was opened on memory of the caller's has no datastore address, so that  *)
(* Buffer_uses_datastore is false of it: objects are added to it while it  *)
(* has room for them, and every call that would lay it out anew, clear it  *)
(* or let it grow is refused.                                              *)
(*                                                                         *)
(* b is the buffer with its memory: mem is what the pool has handed out or *)
(* the caller has given, at address base, and room what the pool's block   *)
(* still has behind it; addr, size, capacity, num and index are the fields *)
(* data_addr, data_size, data_capacity, num_objects and object_addr.       *)
(* stored is the history of the objects the caller has put into it.        *)
(***************************************************************************)
EXTENDS ManagedBuffer, Sequences

CONSTANTS
    Bases,          \* addresses at which memory may be allocated
    Requests,       \* what the caller reserves, or resets the buffer to
    Capacities,     \* capacities the caller asks for
    Shapes,         \* objects the caller adds, see below
    Slacks,         \* slots of a new block behind what it was asked for
    MaxObjects      \* bound on the objects in the buffer

\* Nothing makes a garbage range, and no request is for as many as a section
\* has bytes at least: a request that was refused half way may leave that size
\* where their number was, and a caller who asked for so many would have ranges
\* moved that nobody made.
\* An object has a slot of its own and one for each pointer to an attribute,
\* and the attributes are behind them: ends says how many slots they take up to
\* and with each, and given whether the caller supplies their values or null
\* pointers.
ASSUME BufferAssumption ==
    /\ Bases \subseteq Nat \ {0}
    /\ Requests \subseteq [Sections -> Nat]
    /\ \A req \in Requests : req[Garbage] < SlotSize * SectionHeader
    /\ Capacities \subseteq Nat
    /\ Shapes \subseteq [ends : Seq(Nat), given : BOOLEAN]
    /\ \A shape \in Shapes : \A i, j \in DOMAIN shape.ends :
            i <= j => shape.ends[i] <= shape.ends[j]
    /\ Slacks \subseteq Nat
    /\ MaxObjects \in Nat

VARIABLES b, stored
vars == <<b, stored>>

Nothing == [s \in Sections |-> 0]
MinCapacity == BufferLength(Nothing)
Zeros(n) == [a \in 0 .. n - 1 |-> 0]
PoolSize(x) == Cardinality(DOMAIN x.mem)

IndexBegin(m) == m[Objects] + SectionHeader

\* Mutant: the address of the objects index is not refreshed.
BadRefreshedKeepsIndex(x, m) ==
    [x EXCEPT !.mem = m, !.size = m[LengthWord], !.num = NumEntities(m, Objects)]

\* The fields that follow from an image that has been set up or remapped.
Refreshed(x, m) ==
    [x EXCEPT !.mem = m, !.size = m[LengthWord], !.index = IndexBegin(m),
              !.num = NumEntities(m, Objects)]

-----------------------------------------------------------------------------
(* Growing.  Each operator returns the results the call may have.          *)

\* The pool hands out what is missing, set to zero.  The address of the
\* objects index is set to that of its section.
Appended(x, capacity) ==
    [x EXCEPT !.mem = [a \in 0 .. capacity - 1 |->
                          IF a \in DOMAIN x.mem THEN x.mem[a] ELSE 0],
              !.room = @ - (capacity - PoolSize(x)),
              !.addr = x.base, !.capacity = capacity,
              !.index = x.mem[Objects]]

\* The block that replaces the pool's: its contents are copied and remapped,
\* and the old block is gone whether or not that succeeds.
Reallocated(x, capacity, base, slack) ==
    LET moved == Remap(x.mem, base)
        y     == [x EXCEPT !.mem = moved.mem, !.base = base,
                           !.room = capacity + slack - PoolSize(x)]
    IN  [ok |-> moved.ok, b |-> IF moved.ok THEN Appended(y, capacity) ELSE y]

ReserveCapacity(x, capacity) ==
    IF ~x.owned \/ x.capacity >= capacity THEN {[ok |-> FALSE, b |-> x]}
    ELSE IF capacity <= PoolSize(x) THEN {[ok |-> TRUE, b |-> x]}
    ELSE IF capacity <= PoolSize(x) + x.room
    THEN {[ok |-> TRUE, b |-> Appended(x, capacity)]}
    ELSE {[ok |-> FALSE, b |-> x]}              \* no memory
         \cup {Reallocated(x, capacity, base, slack) :
                  base \in Bases \ {x.base}, slack \in Slacks}

ReserveInside(x, req) ==
    LET r == Reserve(x.mem, req, x.capacity)
    IN  [ok |-> r.ok, b |-> IF r.ok THEN Refreshed(x, r.mem)
                                    ELSE [x EXCEPT !.mem = r.mem]]

ReserveBuffer(x, req) ==
    LET grown == IF x.capacity < BufferLength(req)
                 THEN ReserveCapacity(x, BufferLength(req))
                 ELSE {[ok |-> TRUE, b |-> x]}
    IN  IF ~x.owned \/ req = Maxima(x.mem) THEN {[ok |-> FALSE, b |-> x]}
        ELSE {IF g.ok THEN ReserveInside(g.b, req) ELSE g : g \in grown}

-----------------------------------------------------------------------------
(* Adding an object.                                                       *)

NumAttrs(shape) == Len(shape.ends)
LengthBefore(shape, i) == IF i = 1 THEN 0 ELSE shape.ends[i - 1]
Length(shape, i) == shape.ends[i] - LengthBefore(shape, i)
ObjectSize(shape) ==
    1 + NumAttrs(shape) + LengthBefore(shape, NumAttrs(shape) + 1)

\* The value in slot j of attribute i (0 is the handle) of the k-th object.
Value(k, i, j) == 1000 * k + 10 * i + j
AttrValue(shape, k, i, j) == IF shape.given THEN Value(k, i, j) ELSE 0

RequestFor(m, shape) ==
    [s \in Sections |->
        CASE s = Slots    -> NumEntities(m, s) + ObjectSize(shape)
          [] s = Objects  -> NumEntities(m, s) + 1
          [] s = DataPtrs -> NumEntities(m, s) + NumAttrs(shape)
          [] s = Garbage  -> MaxEntities(m, s)]

\* The object at the end of the slots in use, its attributes behind it, its
\* entry in the index, and the addresses of its pointers.
Stored(x, shape, k) ==
    LET m       == x.mem
        at      == Offset(m, Slots) + UsedSize(m, Slots)
        entry   == Offset(m, Objects) + UsedSize(m, Objects)
        dataptr == Offset(m, DataPtrs) + UsedSize(m, DataPtrs)
        need    == RequestFor(m, shape)
        attrs   == 1 .. NumAttrs(shape)
        Dest(i) == at + 1 + NumAttrs(shape) + LengthBefore(shape, i)
        Attr(a) == CHOOSE i \in attrs : a \in Cells(Dest(i), Length(shape, i))
    IN  [a \in DOMAIN m |->
            IF a = at THEN Value(k, 0, 0)
            ELSE IF a - at \in attrs THEN x.base + Dest(a - at)
            ELSE IF \E i \in attrs : a \in Cells(Dest(i), Length(shape, i))
            THEN AttrValue(shape, k, Attr(a), a - Dest(Attr(a)))
            ELSE IF a \in Cells(entry, EntitySize(Objects))
            THEN <<x.base + at, k, ObjectSize(shape)>>[a - entry + 1]
            ELSE IF a + 1 - dataptr \in attrs THEN x.base + at + a + 1 - dataptr
            ELSE IF \E s \in Slots .. DataPtrs : a = Offset(m, s) + 1
            THEN need[CHOOSE s \in Slots .. DataPtrs : a = Offset(m, s) + 1]
            ELSE m[a]]

AddObject(x, shape, k) ==
    LET need   == RequestFor(x.mem, shape)
        within == \A s \in Slots .. DataPtrs : need[s] <= MaxEntities(x.mem, s)
        ready  == IF within THEN {[ok |-> TRUE, b |-> x]}
                            ELSE ReserveBuffer(x, need)
    IN  {IF r.ok
         THEN [ok |-> TRUE, b |-> [r.b EXCEPT !.mem = Stored(r.b, shape, k),
                                              !.num = need[Objects]]]
         ELSE r : r \in ready}

-----------------------------------------------------------------------------
(* Making a buffer: a new one, a copy, or one on an image of another.      *)

Fresh(base, capacity, slack) ==
    LET n == Max({capacity, MinCapacity})
        m == Initialised(Zeros(n), base, Nothing)
    IN  Refreshed([mem |-> m, base |-> base, room |-> slack, addr |-> base,
                   size |-> 0, capacity |-> n, num |-> 0, index |-> 0,
                   owned |-> TRUE], m)

\* The first slots of an image, copied over other memory.
Overlaid(m, image, n) ==
    [a \in DOMAIN m |-> IF a < n THEN image[a] ELSE m[a]]

CopyOf(x, base, slack) ==
    LET y == Fresh(base, x.capacity, slack)
        r == Remap(Overlaid(y.mem, x.mem, x.size), base)
    IN  [ok |-> r.ok, b |-> Refreshed(y, r.mem)]

OpenOn(x, base, length) ==
    LET r == Remap(Overlaid(Zeros(length), x.mem, x.size), base)
    IN  [ok |-> r.ok,
         b  |-> Refreshed([x EXCEPT !.base = base, !.room = 0, !.addr = base,
                                    !.capacity = length, !.owned = FALSE],
                          r.mem)]

-----------------------------------------------------------------------------
News == {Fresh(base, capacity, slack) :
            base \in Bases, capacity \in Capacities, slack \in Slacks}

Init ==
    /\ b \in News
    /\ stored = <<>>

\* Every call reads the data through data_addr: it can only be made while
\* that is where the memory is.
Usable == b.addr = b.base

CallReserve(req) ==
    /\ Usable
    /\ \E r \in ReserveBuffer(b, req) : b' = r.b
    /\ UNCHANGED stored

CallReserveCapacity(capacity) ==
    /\ Usable
    /\ \E r \in ReserveCapacity(b, capacity) : b' = r.b
    /\ UNCHANGED stored

CallAddObject(shape) ==
    /\ Usable
    /\ Len(stored) < MaxObjects
    /\ \E r \in AddObject(b, shape, Len(stored) + 1) :
          /\ b' = r.b
          /\ stored' = IF r.ok THEN Append(stored, shape) ELSE stored

CallClear(set_data_to_zero) ==
    /\ Usable
    /\ IF b.owned
       THEN /\ b' = [b EXCEPT !.mem = Cleared(@, set_data_to_zero), !.num = 0]
            /\ stored' = <<>>
       ELSE UNCHANGED vars

CallReset(req) ==
    /\ Usable
    /\ IF b.owned /\ BufferLength(req) <= b.capacity
       THEN /\ b' = Refreshed(b, Initialised(b.mem, b.addr, req))
            /\ stored' = <<>>
       ELSE UNCHANGED vars

\* The caller goes on with the copy, if there is one.
CallCopy(base, slack) ==
    /\ Usable
    /\ LET r == CopyOf(b, base, slack) IN b' = IF r.ok THEN r.b ELSE b
    /\ UNCHANGED stored

\* The image is sent elsewhere, and a buffer opened on it.
CallOpenOn(base, length) ==
    /\ Usable
    /\ length >= b.size
    /\ LET r == OpenOn(b, base, length) IN b' = IF r.ok THEN r.b ELSE b
    /\ UNCHANGED stored

\* The caller deletes the buffer, and makes another.
CallDelete ==
    /\ b' \in News
    /\ stored' = <<>>

Next ==
    \/ \E req \in Requests : CallReserve(req) \/ CallReset(req)
    \/ \E capacity \in Capacities : CallReserveCapacity(capacity)
    \/ \E shape \in Shapes : CallAddObject(shape)
    \/ \E z \in BOOLEAN : CallClear(z)
    \/ CallDelete
    \/ \E base \in Bases \ {b.base} :
          \/ \E slack \in Slacks : CallCopy(base, slack)
          \/ \E length \in Capacities : CallOpenOn(base, length)

Spec == Init /\ [][Next]_vars

-----------------------------------------------------------------------------
(* Properties.                                                             *)

\* The types of the buffer's fields; num_objects, data_size and data_capacity
\* agree with the image and the pool, whichever call came last.
TypeOK ==
    /\ b.base \in Bases /\ b.room \in Nat /\ b.owned \in BOOLEAN
    /\ DOMAIN b.mem = 0 .. PoolSize(b) - 1
    /\ \A a \in DOMAIN b.mem : b.mem[a] \in Nat
    /\ b.capacity = PoolSize(b) /\ b.size <= b.capacity
    /\ b.size = b.mem[LengthWord]
    /\ b.num = NumEntities(b.mem, Objects) /\ b.num = Len(stored)
    /\ stored \in Seq(Shapes)

\* The object the caller stored as the k-th is the k-th of the index, is all
\* within the slots in use, and its pointers lead to what was stored in its
\* attributes, however often the buffer has been laid out anew or moved,
\* and whichever of those calls were refused half way.
ObjectIntact(k) ==
    LET m       == b.mem
        shape   == stored[k]
        entry   == DataAt(m, Objects) + EntitySize(Objects) * (k - 1)
        at      == m[entry] - b.base
        Attr(i) == m[at + i] - b.base
    IN  /\ m[entry + 1] = k /\ m[entry + 2] = ObjectSize(shape)
        /\ InSlots(m, b.base + at)
        /\ b.base + at + ObjectSize(shape) <= SlotsEnd(m)
        /\ m[at] = Value(k, 0, 0)
        /\ \A i \in 1 .. NumAttrs(shape) :
              /\ at < Attr(i)
              /\ Attr(i) + Length(shape, i) <= at + ObjectSize(shape)
              /\ \A j \in 0 .. Length(shape, i) - 1 :
                    m[Attr(i) + j] = AttrValue(shape, k, i, j)

ObjectsIntact == Usable => \A k \in 1 .. Len(stored) : ObjectIntact(k)

\* The sections follow one another without gap or overlap and hold no more
\* than they may.  A call that was refused half way keeps all this of the
\* slots, the objects index and the pointers; only the garbage may be lost.
SectionsInOrder ==
    LET m == b.mem
    IN  Usable =>
        /\ Offset(m, Slots) = HeaderLength
        /\ \A s \in Slots .. DataPtrs :
              /\ Fits(m, s)
              /\ Offset(m, s) + MaxSize(m, s) = Offset(m, s + 1)
        /\ Offset(m, Garbage) + SectionHeader <= m[LengthWord]

\* No call was refused after it had begun to move sections.
Whole == \A s \in Sections : Fits(b.mem, s)

\* A buffer never keeps the address of a block that is gone: as long as no
\* call was refused half way, the remapping that follows a move of the pool
\* succeeds.  (The objects of the run have no attributes of length zero.)
DataInPool == [][Usable /\ Whole => Usable']_vars

\* A request that takes nothing from any section, and for which there is
\* room, is accepted by ManagedBuffer_reserve.
GrowthAccepted ==
    Usable /\ Whole => \A req \in Requests :
        /\ \A s \in Sections : MaxEntities(b.mem, s) <= req[s]
        /\ BufferLength(req) <= b.capacity
        => Reserve(b.mem, req, b.capacity).ok

\* The address of the objects index is right until the memory grows: no
\* other call, refused or not, makes it stale.
IndexRight(x) == x.index = IndexBegin(x.mem)
IndexKept ==
    [][Usable /\ Usable' /\ IndexRight(b) /\ b'.capacity <= b.capacity
       => IndexRight(b')]_vars
=============================================================================
