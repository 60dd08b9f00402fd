---------------------------- MODULE Buffer_proofs ----------------------------
(***************************************************************************)
(* A buffer keeps its objects: proofs about Buffer, for any addresses,     *)
(* requests, capacities, objects and order of calls.                       *)
(***************************************************************************)
EXTENDS Buffer, TLAPS, FiniteSetTheorems

USE DEF Base, LengthWord, HeaderWord, Slots, Objects, DataPtrs, Garbage,
        SlotSize, HeaderLength, SectionHeader

-----------------------------------------------------------------------------
(* The layout, as numbers.                                                 *)

Counts == [Sections -> Nat]
Memories(n) == [0 .. n - 1 -> Nat]

ObjectsAt(q) == 10 + q[Slots]
PtrsAt(q)    == 12 + q[Slots] + 3 * q[Objects]
RangesAt(q)  == 14 + q[Slots] + 3 * q[Objects] + q[DataPtrs]
EndAt(q)     == 16 + q[Slots] + 3 * q[Objects] + q[DataPtrs] + 2 * q[Garbage]

\* The garbage is as it was made, or lost: no section that can be used.
RangesKept(m, q) ==
    LET at == RangesAt(q)
    IN  \/ m[at] = 8 * (2 * q[Garbage] + 2) /\ m[at + 1] = 0
        \/ m[at] = 0 /\ (m[at + 1] = 0 \/ m[at + 1] >= 16)

\* An image of n slots at address base whose sections have room for q.
Laid(m, base, n, q) ==
    /\ n \in Nat /\ base \in Nat /\ q \in Counts /\ q[Garbage] < 16 /\ m \in Memories(n)
    /\ EndAt(q) <= n /\ m[LengthWord] = EndAt(q) /\ m[Base] = base
    /\ m[Slots] = base + 8 /\ m[Objects] = base + ObjectsAt(q)
    /\ m[DataPtrs] = base + PtrsAt(q) /\ m[Garbage] = base + RangesAt(q)
    /\ m[8] = 8 * (q[Slots] + 2) /\ m[9] <= q[Slots]
    /\ m[ObjectsAt(q)] = 8 * (3 * q[Objects] + 2) /\ m[ObjectsAt(q) + 1] <= q[Objects]
    /\ m[PtrsAt(q)] = 8 * (q[DataPtrs] + 2) /\ m[PtrsAt(q) + 1] <= q[DataPtrs]
    /\ RangesKept(m, q)

\* Where the sections of a request are, and how long they are.
LEMMA LayoutIs ==
    ASSUME NEW q \in Counts
    PROVE  /\ q[Slots] \in Nat /\ q[Objects] \in Nat /\ q[DataPtrs] \in Nat /\ q[Garbage] \in Nat
           /\ Layout(q)[Slots] = 8 /\ Layout(q)[Objects] = ObjectsAt(q)
           /\ Layout(q)[DataPtrs] = PtrsAt(q) /\ Layout(q)[Garbage] = RangesAt(q)
           /\ BufferLength(q) = EndAt(q)
           /\ SectionSize(q[Slots], Slots) = q[Slots] + 2
           /\ SectionSize(q[Objects], Objects) = 3 * q[Objects] + 2
           /\ SectionSize(q[DataPtrs], DataPtrs) = q[DataPtrs] + 2
           /\ SectionSize(q[Garbage], Garbage) = 2 * q[Garbage] + 2
<1>1. q[3] \in Nat /\ q[4] \in Nat /\ q[5] \in Nat /\ q[6] \in Nat
    BY DEF Counts, Sections
<1>2. EntitySize(3) = 1 /\ EntitySize(4) = 3 /\ EntitySize(5) = 1 /\ EntitySize(6) = 2
    BY DEF EntitySize
<1>3. /\ SectionSize(q[3], 3) = q[3] + 2 /\ SectionSize(q[4], 4) = 3 * q[4] + 2
      /\ SectionSize(q[5], 5) = q[5] + 2 /\ SectionSize(q[6], 6) = 2 * q[6] + 2
    BY <1>1, <1>2 DEF SectionSize
<1>4. /\ Layout(q)[3] = 8 /\ Layout(q)[4] = ObjectsAt(q)
      /\ Layout(q)[5] = PtrsAt(q) /\ Layout(q)[6] = RangesAt(q)
    BY <1>1, <1>3 DEF Layout, Sections, ObjectsAt, PtrsAt, RangesAt
<1>5. BufferLength(q) = RangesAt(q) + (2 * q[6] + 2)
    BY <1>3, <1>4 DEF BufferLength
<1>6. BufferLength(q) = EndAt(q)
    BY <1>1, <1>5 DEF EndAt, RangesAt
<1> QED BY <1>1, <1>3, <1>4, <1>6

\* The sections are one behind the other.
LEMMA PlacesAre ==
    ASSUME NEW q \in Counts
    PROVE  /\ q[Slots] \in Nat /\ q[Objects] \in Nat /\ q[DataPtrs] \in Nat /\ q[Garbage] \in Nat
           /\ ObjectsAt(q) \in Nat /\ ObjectsAt(q) = 10 + q[Slots]
           /\ PtrsAt(q) \in Nat /\ PtrsAt(q) = ObjectsAt(q) + 3 * q[Objects] + 2
           /\ RangesAt(q) \in Nat /\ RangesAt(q) = PtrsAt(q) + q[DataPtrs] + 2
           /\ EndAt(q) \in Nat /\ EndAt(q) = RangesAt(q) + 2 * q[Garbage] + 2
    BY LayoutIs DEF ObjectsAt, PtrsAt, RangesAt, EndAt

\* What an image says of its sections.
LEMMA ImageIs ==
    ASSUME NEW m, NEW base, NEW n, NEW q, Laid(m, base, n, q)
    PROVE  /\ Offset(m, Slots) = 8 /\ Offset(m, Objects) = ObjectsAt(q)
           /\ Offset(m, DataPtrs) = PtrsAt(q) /\ Offset(m, Garbage) = RangesAt(q)
           /\ NumEntities(m, Slots) = m[9] /\ NumEntities(m, Objects) = m[ObjectsAt(q) + 1]
           /\ NumEntities(m, DataPtrs) = m[PtrsAt(q) + 1]
           /\ NumEntities(m, Garbage) = m[RangesAt(q) + 1]
           /\ MaxSize(m, Slots) = q[Slots] + 2 /\ MaxSize(m, Objects) = 3 * q[Objects] + 2
           /\ MaxSize(m, DataPtrs) = q[DataPtrs] + 2
           /\ m[RangesAt(q)] # 0 => MaxSize(m, Garbage) = 2 * q[Garbage] + 2
           /\ m[RangesAt(q)] = 0 => MaxSize(m, Garbage) = 0
           /\ UsedSize(m, Slots) = m[9] + 2 /\ UsedSize(m, Objects) = 3 * m[ObjectsAt(q) + 1] + 2
           /\ UsedSize(m, DataPtrs) = m[PtrsAt(q) + 1] + 2
           /\ UsedSize(m, Garbage) = 2 * m[RangesAt(q) + 1] + 2
<1>1. /\ q \in Counts /\ base \in Nat /\ n \in Nat /\ m \in [0 .. n - 1 -> Nat] /\ EndAt(q) <= n
    BY DEF Laid, Memories
<1>2. PICK o : o = ObjectsAt(q)
    OBVIOUS
<1>3. PICK p : p = PtrsAt(q)
    OBVIOUS
<1>4. PICK g : g = RangesAt(q)
    OBVIOUS
<1>5. /\ q[3] \in Nat /\ q[4] \in Nat /\ q[5] \in Nat /\ q[6] \in Nat
      /\ o \in Nat /\ p \in Nat /\ g \in Nat
      /\ o = 10 + q[3] /\ p = o + 3 * q[4] + 2 /\ g = p + q[5] + 2 /\ g + 2 * q[6] + 2 <= n
    BY <1>1, <1>2, <1>3, <1>4, PlacesAre
<1>6. /\ m[0] = base /\ m[3] = base + 8 /\ m[4] = base + o /\ m[5] = base + p /\ m[6] = base + g
      /\ m[8] = 8 * (q[3] + 2) /\ m[o] = 8 * (3 * q[4] + 2) /\ m[p] = 8 * (q[5] + 2)
      /\ m[g] = 8 * (2 * q[6] + 2) \/ m[g] = 0
    BY <1>2, <1>3, <1>4 DEF Laid, RangesKept
<1>7. Offset(m, 3) = 8 /\ Offset(m, 4) = o /\ Offset(m, 5) = p /\ Offset(m, 6) = g
    <2>1. base \in Nat /\ o \in Nat /\ p \in Nat /\ g \in Nat
        BY <1>1, <1>5
    <2> QED BY <1>6, <2>1 DEF Offset
<1>8. /\ NumEntities(m, 3) = m[9] /\ NumEntities(m, 4) = m[o + 1]
      /\ NumEntities(m, 5) = m[p + 1] /\ NumEntities(m, 6) = m[g + 1]
    BY <1>7 DEF NumEntities
<1>9. \A k \in Nat : (8 * k) \div 8 = k
    OBVIOUS
<1>10. /\ q[3] + 2 \in Nat /\ 3 * q[4] + 2 \in Nat /\ q[5] + 2 \in Nat /\ 2 * q[6] + 2 \in Nat
    BY <1>5
<1>11. MaxSize(m, 3) = q[3] + 2 /\ MaxSize(m, 4) = 3 * q[4] + 2 /\ MaxSize(m, 5) = q[5] + 2
    BY <1>6, <1>7, <1>9, <1>10 DEF MaxSize
<1>12. /\ m[g] # 0 => MaxSize(m, 6) = 2 * q[6] + 2
       /\ m[g] = 0 => MaxSize(m, 6) = 0
    BY <1>6, <1>7, <1>9, <1>10 DEF MaxSize
<1>13. m[9] \in Nat /\ m[o + 1] \in Nat /\ m[p + 1] \in Nat /\ m[g + 1] \in Nat
    <2>1. \A a \in 0 .. n - 1 : m[a] \in Nat
        BY <1>1
    <2>2. n \in Nat
        BY <1>1
    <2>3. 9 \in 0 .. n - 1 /\ o + 1 \in 0 .. n - 1 /\ p + 1 \in 0 .. n - 1 /\ g + 1 \in 0 .. n - 1
        BY <1>5, <2>2
    <2> QED BY <2>1, <2>3
<1>14. /\ UsedSize(m, 3) = m[9] + 2 /\ UsedSize(m, 4) = 3 * m[o + 1] + 2
       /\ UsedSize(m, 5) = m[p + 1] + 2 /\ UsedSize(m, 6) = 2 * m[g + 1] + 2
    BY <1>8, <1>13 DEF UsedSize, SectionSize, EntitySize
<1> QED BY <1>2, <1>3, <1>4, <1>7, <1>8, <1>11, <1>12, <1>14

-----------------------------------------------------------------------------
(* Memory operations.                                                      *)

\* The lesser of two numbers.
LEMMA MinOfTwo ==
    ASSUME NEW x \in Int, NEW y \in Int
    PROVE  Min({x, y}) = IF x <= y THEN x ELSE y
<1>1. PICK z : z = IF x <= y THEN x ELSE y
    OBVIOUS
<1>2. z \in {x, y} /\ \A w \in {x, y} : z <= w
    BY <1>1
<1>3. ASSUME NEW u \in {x, y}, \A w \in {x, y} : u <= w PROVE u = z
    BY <1>1, <1>2, <1>3
<1>4. Min({x, y}) = z
    BY <1>2, <1>3 DEF Min
<1> QED BY <1>1, <1>4

\* From r to m, a block has been copied, or outside of a block nothing has
\* changed.
Copies(r, to, m, from, used) == \A i \in 0 .. used - 1 : r[to + i] = m[from + i]
Keeps(r, m, n, begin, end) == \A a \in 0 .. n - 1 : a < begin \/ a >= end => r[a] = m[a]

\* A block of memory in its new place, and what is outside of that.
LEMMA MovedIs ==
    ASSUME NEW n \in Nat, NEW m \in Memories(n),
           NEW to \in Nat, NEW from \in Nat, NEW used \in Nat,
           from + used <= n, to + used <= n
    PROVE  /\ Moved(m, to, from, used) \in Memories(n)
           /\ Copies(Moved(m, to, from, used), to, m, from, used)
           /\ Keeps(Moved(m, to, from, used), m, n, to, to + used)
<1> DEFINE r == Moved(m, to, from, used)
<1>1. DOMAIN m = 0 .. n - 1 /\ \A a \in 0 .. n - 1 : m[a] \in Nat
    BY DEF Memories
<1>2. r = [a \in 0 .. n - 1 |-> IF a \in to .. (to + used - 1) THEN m[from + (a - to)] ELSE m[a]]
    BY <1>1 DEF Moved, Cells
<1>3. ASSUME NEW a \in 0 .. n - 1, a \in to .. (to + used - 1)
      PROVE  m[from + (a - to)] \in Nat
    <2>1. from + (a - to) \in 0 .. n - 1
        BY <1>3
    <2> QED BY <1>1, <2>1
<1>4. r \in [0 .. n - 1 -> Nat]
    BY <1>1, <1>2, <1>3
<1>5. ASSUME NEW i \in 0 .. used - 1 PROVE r[to + i] = m[from + i]
    <2>1. to + i \in 0 .. n - 1 /\ to + i \in to .. (to + used - 1) /\ (to + i) - to = i
        OBVIOUS
    <2> QED BY <1>2, <2>1
<1>6. ASSUME NEW a \in 0 .. n - 1, a < to \/ a >= to + used PROVE r[a] = m[a]
    <2>1. a \notin to .. (to + used - 1)
        BY <1>6
    <2> QED BY <1>2, <2>1
<1> QED BY <1>4, <1>5, <1>6 DEF Memories, Copies, Keeps

\* Memory that has been cleared, and what is outside of it.
Clear(r, n, begin, end) == \A a \in 0 .. n - 1 : begin <= a /\ a < end => r[a] = 0

LEMMA ZeroedIs ==
    ASSUME NEW n \in Nat, NEW m \in Memories(n), NEW at \in Int, NEW k \in Int
    PROVE  /\ Zeroed(m, at, k) \in Memories(n)
           /\ Clear(Zeroed(m, at, k), n, at, at + k)
           /\ Keeps(Zeroed(m, at, k), m, n, at, at + k)
<1> DEFINE r == Zeroed(m, at, k)
<1>1. DOMAIN m = 0 .. n - 1 /\ \A a \in 0 .. n - 1 : m[a] \in Nat
    BY DEF Memories
<1>2. r = [a \in 0 .. n - 1 |-> IF a \in at .. (at + k - 1) THEN 0 ELSE m[a]]
    BY <1>1 DEF Zeroed, Cells
<1>3. r \in [0 .. n - 1 -> Nat]
    BY <1>1, <1>2
<1>4. ASSUME NEW a \in 0 .. n - 1, at <= a /\ a < at + k PROVE r[a] = 0
    <2>1. a \in at .. (at + k - 1)
        BY <1>4
    <2> QED BY <1>2, <2>1
<1>5. ASSUME NEW a \in 0 .. n - 1, a < at \/ a >= at + k PROVE r[a] = m[a]
    <2>1. a \notin at .. (at + k - 1)
        BY <1>5
    <2> QED BY <1>2, <2>1
<1> QED BY <1>3, <1>4, <1>5 DEF Memories, Clear, Keeps

\* A section that is moved up: its entities are in the new place, and only
\* what it leaves and where it goes has changed.
LEMMA MoveUpIs ==
    ASSUME NEW n \in Nat, NEW m \in Memories(n), NEW s, NEW m0, NEW to \in Nat, NEW extent \in Nat,
           NEW from \in Nat, from = Offset(m0, s), NEW used \in Nat, used = UsedSize(m0, s),
           from < to, used <= extent, to + extent <= n
    PROVE  LET r == MoveUp(m, s, to, m0, extent)
           IN  /\ r \in Memories(n)
               /\ Copies(r, to, m, from, used)
               /\ Keeps(r, m, n, from, to + extent)
               /\ \A a \in from .. to - 1 : r[a] = IF a < from + used THEN 0 ELSE m[a]
<1> DEFINE vacated == IF to - from <= used THEN to - from ELSE used
           moved == Moved(m, to, from, used)
           there == Zeroed(moved, from, vacated)
           r     == Zeroed(there, to + used, extent - used)
<1>1. vacated \in Nat /\ vacated <= used /\ vacated <= to - from /\ vacated \in {used, to - from}
    OBVIOUS
<1>2. Min({to - from, used}) = vacated
    BY MinOfTwo
<1>3. MoveUp(m, s, to, m0, extent) = r
    BY <1>2 DEF MoveUp
<1>4. from + used <= n /\ to + used <= n
    OBVIOUS
<1>5. moved \in Memories(n) /\ Copies(moved, to, m, from, used) /\ Keeps(moved, m, n, to, to + used)
    BY <1>4, MovedIs
<1> HIDE DEF moved, vacated
<1>6. /\ there \in Memories(n) /\ Clear(there, n, from, from + vacated)
      /\ Keeps(there, moved, n, from, from + vacated)
    BY <1>1, <1>5, ZeroedIs
<1> HIDE DEF there
<1>7. /\ r \in Memories(n) /\ Keeps(r, there, n, to + used, to + used + (extent - used))
    BY <1>6, ZeroedIs
<1> HIDE DEF r
<1>8. ASSUME NEW i \in 0 .. used - 1 PROVE r[to + i] = m[from + i]
    <2>1. to + i \in 0 .. n - 1 /\ to + i < to + used /\ to + i >= from + vacated
        BY <1>1
    <2> QED BY <1>5, <1>6, <1>7, <2>1 DEF Copies, Keeps
<1>9. ASSUME NEW a \in 0 .. n - 1, a < from \/ a >= to + extent PROVE r[a] = m[a]
    <2>1. /\ a < to + used \/ a >= to + used + (extent - used)
          /\ a < from \/ a >= from + vacated
          /\ a < to \/ a >= to + used
        BY <1>1, <1>9
    <2> QED BY <1>5, <1>6, <1>7, <2>1 DEF Keeps
<1>10. ASSUME NEW a \in from .. to - 1 PROVE r[a] = IF a < from + used THEN 0 ELSE m[a]
    <2>1. a \in 0 .. n - 1 /\ a < to + used /\ a < to
        BY <1>10
    <2>2. r[a] = there[a] /\ moved[a] = m[a]
        BY <1>5, <1>7, <2>1 DEF Keeps
    <2>3. CASE a < from + vacated
        <3>1. from <= a /\ a < from + used
            BY <1>1, <2>1, <2>3
        <3> QED BY <1>6, <2>1, <2>2, <2>3, <3>1 DEF Clear
    <2>4. CASE a >= from + vacated
        <3>1. ~(a < from + used)
            BY <1>1, <2>1, <2>4
        <3> QED BY <1>6, <2>1, <2>2, <2>4, <3>1 DEF Keeps
    <2> QED BY <1>1, <2>1, <2>3, <2>4
<1> QED BY <1>3, <1>7, <1>8, <1>9, <1>10 DEF Copies, Keeps

-----------------------------------------------------------------------------
(* Reserving.                                                              *)

\* What moving one section leaves: the section is in its new place, and what is
\* in front of it and behind its new place is as before.
Placed(r, m, n, to, from, used, extent, before) ==
    /\ r \in Memories(n)
    /\ to >= from \/ to >= before
    /\ Copies(r, to, m, from, used)
    /\ Keeps(r, m, n, before, to + extent)
    /\ to = from => r = m
    /\ to < from => Keeps(r, m, n, to, to + used)
    /\ to > from => /\ Keeps(r, m, n, from, to + extent)
                    /\ \A a \in from .. to - 1 :
                           r[a] = IF a < from + used THEN 0 ELSE m[a]

\* It is moved, or refused before anything has changed.
LEMMA RelocateIs ==
    ASSUME NEW n \in Nat, NEW m \in Memories(n), NEW s \in Int, NEW m0, NEW req,
           NEW to \in Nat, to = Layout(req)[s], NEW extent \in Nat, extent = SectionSize(req[s], s),
           NEW from \in Nat, from = Offset(m0, s), NEW used \in Nat, used = UsedSize(m0, s),
           NEW before \in Nat, before = Offset(m0, s - 1) + UsedSize(m0, s - 1),
           before <= from, from + used <= n, used <= extent, to + extent <= n
    PROVE  \/ \E r : /\ Relocate([ok |-> TRUE, mem |-> m], s, m0, req) = [ok |-> TRUE, mem |-> r]
                     /\ Placed(r, m, n, to, from, used, extent, before)
           \/ /\ Relocate([ok |-> TRUE, mem |-> m], s, m0, req) = [ok |-> FALSE, mem |-> m]
              /\ to < from /\ to < before
<1>1. PICK in : in = [ok |-> TRUE, mem |-> m]
    OBVIOUS
<1>2. /\ Relocate(in, s, m0, req) =
            IF to = from THEN in
            ELSE IF to > from THEN [ok |-> TRUE, mem |-> MoveUp(m, s, to, m0, extent)]
            ELSE IF to >= before THEN [ok |-> TRUE, mem |-> Moved(m, to, from, used)]
            ELSE [ok |-> FALSE, mem |-> m]
    <2>1. in.ok = TRUE /\ in.mem = m
        BY <1>1
    <2> QED BY <2>1 DEF Relocate, FitsBehind
<1>3. CASE to = from
    <2>1. Relocate(in, s, m0, req) = [ok |-> TRUE, mem |-> m]
        BY <1>1, <1>2, <1>3
    <2>2. Copies(m, to, m, from, used) /\ Keeps(m, m, n, before, to + extent)
        BY <1>3 DEF Copies, Keeps
    <2>3. Placed(m, m, n, to, from, used, extent, before)
        BY <1>3, <2>2 DEF Placed
    <2> QED BY <1>1, <2>1, <2>3
<1>4. CASE to > from
    <2>1. PICK up : up = MoveUp(m, s, to, m0, extent)
        OBVIOUS
    <2>2. Relocate(in, s, m0, req) = [ok |-> TRUE, mem |-> up]
        BY <1>2, <1>4, <2>1
    <2>3. /\ up \in Memories(n) /\ Copies(up, to, m, from, used) /\ Keeps(up, m, n, from, to + extent)
          /\ \A a \in from .. to - 1 : up[a] = IF a < from + used THEN 0 ELSE m[a]
        BY <1>4, <2>1, MoveUpIs, SMTT(30)
    <2>4. Keeps(up, m, n, before, to + extent)
        BY <2>3 DEF Keeps
    <2>5. Placed(up, m, n, to, from, used, extent, before)
        <3>1. to >= from /\ to # from /\ ~(to < from)
            BY <1>4
        <3> QED BY <2>3, <2>4, <3>1 DEF Placed
    <2> QED BY <1>1, <2>2, <2>5
<1>5. CASE to < from /\ to >= before
    <2>1. PICK down : down = Moved(m, to, from, used)
        OBVIOUS
    <2>2. Relocate(in, s, m0, req) = [ok |-> TRUE, mem |-> down]
        BY <1>2, <1>5, <2>1
    <2>3. to + used <= n
        OBVIOUS
    <2>4. /\ down \in Memories(n) /\ Copies(down, to, m, from, used)
          /\ Keeps(down, m, n, to, to + used)
        BY <2>1, <2>3, MovedIs
    <2>5. Keeps(down, m, n, before, to + extent)
        BY <1>5, <2>4 DEF Keeps
    <2>6. Placed(down, m, n, to, from, used, extent, before)
        <3>1. to >= before /\ to # from /\ ~(to > from)
            BY <1>5
        <3> QED BY <2>4, <2>5, <3>1 DEF Placed
    <2> QED BY <1>1, <2>2, <2>6
<1>6. CASE to < from /\ to < before
    <2>1. Relocate(in, s, m0, req) = [ok |-> FALSE, mem |-> m]
        BY <1>2, <1>6
    <2> QED BY <1>1, <1>6, <2>1
<1>7. to = from \/ to > from \/ (to < from /\ to >= before) \/ (to < from /\ to < before)
    OBVIOUS
<1> QED BY <1>3, <1>4, <1>5, <1>6, <1>7, Zenon

\* The garbage section has no ranges, so a place for it that has been taken, but
\* not used, leaves it as it was or lost.
LEMMA RangesSurvive ==
    ASSUME NEW n \in Nat, NEW m \in Memories(n), NEW r, NEW q \in Counts, NEW to \in Nat,
           NEW extent \in Nat, NEW before \in Nat,
           RangesKept(m, q), m[RangesAt(q) + 1] = 0, before <= RangesAt(q), RangesAt(q) + 2 <= n,
           2 <= extent, to + extent <= n,
           Placed(r, m, n, to, RangesAt(q), 2, extent, before)
    PROVE  RangesKept(r, q)
<1>1. PICK g : g = RangesAt(q)
    OBVIOUS
<1>2. g \in Nat /\ q[6] \in Nat
    BY <1>1, PlacesAre
<1>3. m[g + 1] = 0 /\ (m[g] = 8 * (2 * q[6] + 2) \/ m[g] = 0)
    BY <1>1 DEF RangesKept
<1>4. g \in 0 .. n - 1 /\ g + 1 \in 0 .. n - 1
    BY <1>1, <1>2
<1>5. \/ r[g] = 8 * (2 * q[6] + 2) /\ r[g + 1] = 0
      \/ r[g] = 0 /\ (r[g + 1] = 0 \/ r[g + 1] >= 16)
    <2>1. CASE to = g
        BY <1>1, <1>3, <2>1 DEF Placed
    <2>2. CASE to < g
        <3>1. Keeps(r, m, n, to, to + 2) /\ Copies(r, to, m, g, 2)
            BY <1>1, <2>2 DEF Placed
        <3>2. r[g + 1] = m[g + 1]
            BY <1>2, <1>4, <2>2, <3>1 DEF Keeps
        <3>3. CASE to + 1 = g
            <4>1. 1 \in 0 .. 2 - 1
                OBVIOUS
            <4>2. r[to + 1] = m[g + 1]
                BY <3>1, <4>1 DEF Copies
            <4> QED BY <1>3, <3>2, <3>3, <4>2
        <3>4. CASE to + 1 # g
            <4>1. r[g] = m[g]
                BY <1>2, <1>4, <2>2, <3>1, <3>4 DEF Keeps
            <4> QED BY <1>3, <3>2, <4>1
        <3> QED BY <3>3, <3>4
    <2>3. CASE to > g
        <3>1. /\ Copies(r, to, m, g, 2)
              /\ \A a \in g .. to - 1 : r[a] = IF a < g + 2 THEN 0 ELSE m[a]
            BY <1>1, <2>3 DEF Placed
        <3>2. r[g] = 0
            <4>1. g \in g .. to - 1 /\ g < g + 2
                BY <1>2, <2>3
            <4> QED BY <3>1, <4>1
        <3>3. CASE to = g + 1
            <4>1. 0 \in 0 .. 2 - 1 /\ to + 0 = g + 1 /\ g + 0 = g
                BY <1>2, <3>3
            <4>2. r[g + 1] = m[g]
                BY <3>1, <4>1 DEF Copies
            <4> QED BY <1>2, <1>3, <3>2, <4>2
        <3>4. CASE to # g + 1
            <4>1. g + 1 \in g .. to - 1 /\ g + 1 < g + 2
                BY <1>2, <2>3, <3>4
            <4>2. r[g + 1] = 0
                BY <3>1, <4>1
            <4> QED BY <3>2, <4>2
        <3> QED BY <3>3, <3>4
    <2>4. to = g \/ to < g \/ to > g
        BY <1>2
    <2> QED BY <2>1, <2>2, <2>3, <2>4
<1> QED BY <1>1, <1>5 DEF RangesKept

\* The sections in their new places, the slots where they were.
Settled(r, m, n, q, req) ==
    /\ r \in Memories(n)
    /\ Keeps(r, m, n, 10 + m[9], n)
    /\ Copies(r, ObjectsAt(req), m, ObjectsAt(q), 3 * m[ObjectsAt(q) + 1] + 2)
    /\ Copies(r, PtrsAt(req), m, PtrsAt(q), m[PtrsAt(q) + 1] + 2)
    /\ Copies(r, RangesAt(req), m, RangesAt(q), 2)

\* Nothing but garbage is touched.
Undisturbed(r, m, n, q) ==
    /\ r \in Memories(n) /\ RangesKept(r, q)
    /\ Keeps(r, m, n, PtrsAt(q) + m[PtrsAt(q) + 1] + 2, n)

\* A request that takes nothing from what the sections hold.
Holding(m, q, req) ==
    /\ m[9] <= req[Slots] /\ m[ObjectsAt(q) + 1] <= req[Objects]
    /\ m[PtrsAt(q) + 1] <= req[DataPtrs] /\ m[RangesAt(q) + 1] = 0

\* What the sections hold is within their bounds.
LEMMA CountsAre ==
    ASSUME NEW m, NEW base, NEW n, NEW q, Laid(m, base, n, q)
    PROVE  /\ n \in Nat /\ base \in Nat /\ q \in Counts /\ m \in Memories(n) /\ EndAt(q) <= n
           /\ m[9] \in Nat /\ m[9] <= q[Slots]
           /\ m[ObjectsAt(q) + 1] \in Nat /\ m[ObjectsAt(q) + 1] <= q[Objects]
           /\ m[PtrsAt(q) + 1] \in Nat /\ m[PtrsAt(q) + 1] <= q[DataPtrs]
           /\ m[RangesAt(q) + 1] \in Nat
<1>1. /\ n \in Nat /\ base \in Nat /\ q \in Counts /\ m \in Memories(n) /\ EndAt(q) <= n
      /\ m[9] <= q[3] /\ m[ObjectsAt(q) + 1] <= q[4] /\ m[PtrsAt(q) + 1] <= q[5]
    BY DEF Laid
<1>2. \A a \in 0 .. n - 1 : m[a] \in Nat
    BY <1>1 DEF Memories
<1>3. PICK o : o = ObjectsAt(q)
    OBVIOUS
<1>4. PICK p : p = PtrsAt(q)
    OBVIOUS
<1>5. PICK g : g = RangesAt(q)
    OBVIOUS
<1>6. 9 \in 0 .. n - 1 /\ o + 1 \in 0 .. n - 1 /\ p + 1 \in 0 .. n - 1 /\ g + 1 \in 0 .. n - 1
    BY <1>1, <1>3, <1>4, <1>5, PlacesAre
<1> QED BY <1>1, <1>2, <1>3, <1>4, <1>5, <1>6

\* Moving the sections: all are in their new places, or the garbage has been
\* moved and no more.
LEMMA RelocateSectionsIs ==
    ASSUME NEW m, NEW base, NEW n, NEW q, Laid(m, base, n, q), NEW req \in Counts,
           Holding(m, q, req), EndAt(req) <= n
    PROVE  \/ \E r : /\ RelocateSections(m, req) = [ok |-> TRUE, mem |-> r]
                     /\ Settled(r, m, n, q, req)
           \/ \E r : /\ RelocateSections(m, req) = [ok |-> FALSE, mem |-> r]
                     /\ Undisturbed(r, m, n, q)
<1>1. PICK o : o = ObjectsAt(q)
    OBVIOUS
<1>2. PICK p : p = PtrsAt(q)
    OBVIOUS
<1>3. PICK g : g = RangesAt(q)
    OBVIOUS
<1>4. PICK o2 : o2 = ObjectsAt(req)
    OBVIOUS
<1>5. PICK p2 : p2 = PtrsAt(req)
    OBVIOUS
<1>6. PICK g2 : g2 = RangesAt(req)
    OBVIOUS
<1>7. /\ n \in Nat /\ m \in Memories(n) /\ q \in Counts
      /\ m[9] \in Nat /\ m[o + 1] \in Nat /\ m[p + 1] \in Nat
    BY <1>1, <1>2, CountsAre
<1>8. PICK ms : ms = m[9]
    OBVIOUS
<1>9. PICK mo : mo = m[o + 1]
    OBVIOUS
<1>10. PICK mp : mp = m[p + 1]
    OBVIOUS
<1>11. /\ n \in Nat /\ ms \in Nat /\ mo \in Nat /\ mp \in Nat
       /\ ms <= q[3] /\ mo <= q[4] /\ mp <= q[5]
       /\ ms <= req[3] /\ mo <= req[4] /\ mp <= req[5]
    BY <1>1, <1>2, <1>7, <1>8, <1>9, <1>10, CountsAre DEF Holding
<1>12. /\ q[3] \in Nat /\ q[4] \in Nat /\ q[5] \in Nat /\ q[6] \in Nat
       /\ o \in Nat /\ o = 10 + q[3] /\ p \in Nat /\ p = o + 3 * q[4] + 2
       /\ g \in Nat /\ g = p + q[5] + 2 /\ g + 2 * q[6] + 2 <= n
    <2>1. EndAt(q) <= n
        BY CountsAre
    <2> QED BY <1>1, <1>2, <1>3, <1>7, <2>1, PlacesAre
<1>13. /\ req[3] \in Nat /\ req[4] \in Nat /\ req[5] \in Nat /\ req[6] \in Nat
       /\ o2 \in Nat /\ o2 = 10 + req[3] /\ p2 \in Nat /\ p2 = o2 + 3 * req[4] + 2
       /\ g2 \in Nat /\ g2 = p2 + req[5] + 2 /\ g2 + 2 * req[6] + 2 <= n
    BY <1>4, <1>5, <1>6, PlacesAre
<1>14. /\ Layout(req)[4] = o2 /\ Layout(req)[5] = p2 /\ Layout(req)[6] = g2
       /\ SectionSize(req[4], 4) = 3 * req[4] + 2 /\ SectionSize(req[5], 5) = req[5] + 2
       /\ SectionSize(req[6], 6) = 2 * req[6] + 2
    BY <1>4, <1>5, <1>6, LayoutIs
<1>15. m[g + 1] = 0 /\ RangesKept(m, q)
    BY <1>3 DEF Holding, Laid
<1>16. /\ Offset(m, 3) = 8 /\ Offset(m, 4) = o /\ Offset(m, 5) = p /\ Offset(m, 6) = g
       /\ UsedSize(m, 3) = ms + 2 /\ UsedSize(m, 4) = 3 * mo + 2
       /\ UsedSize(m, 5) = mp + 2 /\ UsedSize(m, 6) = 2
    <2>1. /\ Offset(m, 3) = 8 /\ Offset(m, 4) = o /\ Offset(m, 5) = p /\ Offset(m, 6) = g
          /\ UsedSize(m, 3) = m[9] + 2 /\ UsedSize(m, 4) = 3 * m[o + 1] + 2
          /\ UsedSize(m, 5) = m[p + 1] + 2 /\ UsedSize(m, 6) = 2 * m[g + 1] + 2
        BY <1>1, <1>2, <1>3, ImageIs
    <2> QED BY <1>8, <1>9, <1>10, <1>15, <2>1
<1>17. PICK in : in = [ok |-> TRUE, mem |-> m]
    OBVIOUS
<1>18. RelocateSections(m, req) = Relocate(Relocate(Relocate(in, 6, m, req), 5, m, req), 4, m, req)
    BY <1>17 DEF RelocateSections
<1>19. \A x, s : x.ok = FALSE => Relocate(x, s, m, req) = x
    BY DEF Relocate
<1>20. \/ \E r : /\ Relocate(in, 6, m, req) = [ok |-> TRUE, mem |-> r]
                 /\ Placed(r, m, n, g2, g, 2, 2 * req[6] + 2, p + mp + 2)
       \/ Relocate(in, 6, m, req) = [ok |-> FALSE, mem |-> m]
    <2>1. 6 \in Int /\ 6 - 1 = 5 /\ 2 \in Nat /\ 2 * req[6] + 2 \in Nat /\ p + mp + 2 \in Nat
        BY <1>11, <1>12, <1>13
    <2>2. p + mp + 2 = Offset(m, 5) + UsedSize(m, 5)
        BY <1>11, <1>12, <1>16
    <2>3. /\ p + mp + 2 <= g /\ g + 2 <= n /\ 2 <= 2 * req[6] + 2 /\ g2 + (2 * req[6] + 2) <= n
        BY <1>11, <1>12, <1>13
    <2> QED BY <1>7, <1>12, <1>13, <1>14, <1>16, <1>17, <2>1, <2>2, <2>3, RelocateIs, SMTT(30)
<1>21. CASE Relocate(in, 6, m, req) = [ok |-> FALSE, mem |-> m]
    <2>1. RelocateSections(m, req) = [ok |-> FALSE, mem |-> m]
        BY <1>18, <1>19, <1>21
    <2>2. Undisturbed(m, m, n, q)
        BY <1>7, <1>15 DEF Undisturbed, Keeps
    <2> QED BY <2>1, <2>2
<1>22. CASE \E r : /\ Relocate(in, 6, m, req) = [ok |-> TRUE, mem |-> r]
                   /\ Placed(r, m, n, g2, g, 2, 2 * req[6] + 2, p + mp + 2)
    <2>1. PICK r1 : /\ Relocate(in, 6, m, req) = [ok |-> TRUE, mem |-> r1]
                    /\ Placed(r1, m, n, g2, g, 2, 2 * req[6] + 2, p + mp + 2)
        BY <1>22
    <2>2. /\ r1 \in Memories(n) /\ Copies(r1, g2, m, g, 2)
          /\ Keeps(r1, m, n, p + mp + 2, g2 + (2 * req[6] + 2)) /\ (g2 >= g \/ g2 >= p + mp + 2)
        BY <2>1 DEF Placed
    <2>3. PICK in1 : in1 = [ok |-> TRUE, mem |-> r1]
        OBVIOUS
    <2>4. \/ \E r : /\ Relocate(in1, 5, m, req) = [ok |-> TRUE, mem |-> r]
                    /\ Placed(r, r1, n, p2, p, mp + 2, req[5] + 2, o + (3 * mo + 2))
          \/ Relocate(in1, 5, m, req) = [ok |-> FALSE, mem |-> r1]
        <3>1. /\ 5 \in Int /\ 5 - 1 = 4 /\ mp + 2 \in Nat /\ req[5] + 2 \in Nat
              /\ o + (3 * mo + 2) \in Nat
            BY <1>11, <1>12, <1>13
        <3>2. o + (3 * mo + 2) = Offset(m, 4) + UsedSize(m, 4)
            BY <1>16
        <3>3. /\ o + (3 * mo + 2) <= p /\ p + (mp + 2) <= n /\ mp + 2 <= req[5] + 2
              /\ p2 + (req[5] + 2) <= n
            BY <1>11, <1>12, <1>13
        <3> QED BY <1>7, <1>12, <1>13, <1>14, <1>16, <2>2, <2>3, <3>1, <3>2, <3>3, RelocateIs
    <2>5. CASE Relocate(in1, 5, m, req) = [ok |-> FALSE, mem |-> r1]
        <3>1. RelocateSections(m, req) = [ok |-> FALSE, mem |-> r1]
            <4>1. PICK x : x = [ok |-> FALSE, mem |-> r1]
                OBVIOUS
            <4>2. Relocate(x, 4, m, req) = x
                BY <1>19, <4>1
            <4> QED BY <1>18, <2>1, <2>3, <2>5, <4>1, <4>2
        <3>2. RangesKept(r1, q)
            <4>1. /\ 2 * req[6] + 2 \in Nat /\ p + mp + 2 \in Nat /\ p + mp + 2 <= g
                  /\ g + 2 <= n /\ 2 <= 2 * req[6] + 2 /\ g2 + (2 * req[6] + 2) <= n
                BY <1>11, <1>12, <1>13
            <4> QED BY <1>3, <1>7, <1>13, <1>15, <2>1, <4>1, RangesSurvive
        <3>3. Keeps(r1, m, n, p + mp + 2, n)
            BY <1>11, <1>12, <2>2 DEF Keeps
        <3>4. Undisturbed(r1, m, n, q)
            BY <1>2, <1>10, <2>2, <3>2, <3>3 DEF Undisturbed
        <3> QED BY <3>1, <3>4
    <2>6. CASE \E r : /\ Relocate(in1, 5, m, req) = [ok |-> TRUE, mem |-> r]
                      /\ Placed(r, r1, n, p2, p, mp + 2, req[5] + 2, o + (3 * mo + 2))
        <3>1. PICK r2 : /\ Relocate(in1, 5, m, req) = [ok |-> TRUE, mem |-> r2]
                        /\ Placed(r2, r1, n, p2, p, mp + 2, req[5] + 2, o + (3 * mo + 2))
            BY <2>6
        <3>2. /\ r2 \in Memories(n) /\ Copies(r2, p2, r1, p, mp + 2)
              /\ Keeps(r2, r1, n, o + (3 * mo + 2), p2 + (req[5] + 2))
            BY <3>1 DEF Placed
        <3>3. PICK in2 : in2 = [ok |-> TRUE, mem |-> r2]
            OBVIOUS
        <3>4. PICK bs : bs = 10 + ms
            OBVIOUS
        <3>5. \E r : /\ Relocate(in2, 4, m, req) = [ok |-> TRUE, mem |-> r]
                     /\ Placed(r, r2, n, o2, o, 3 * mo + 2, 3 * req[4] + 2, bs)
            <4>1. /\ 4 \in Int /\ 4 - 1 = 3 /\ 3 * mo + 2 \in Nat /\ 3 * req[4] + 2 \in Nat
                  /\ bs \in Nat
                BY <1>11, <1>13, <3>4
            <4>2. bs = Offset(m, 3) + UsedSize(m, 3)
                BY <1>11, <1>16, <3>4
            <4>3. /\ bs <= o /\ o + (3 * mo + 2) <= n /\ 3 * mo + 2 <= 3 * req[4] + 2
                  /\ o2 + (3 * req[4] + 2) <= n /\ ~(o2 < bs)
                BY <1>11, <1>12, <1>13, <3>4
            <4> QED BY <1>7, <1>12, <1>13, <1>14, <1>16, <3>2, <3>3, <4>1, <4>2, <4>3, RelocateIs
        <3>6. PICK r3 : /\ Relocate(in2, 4, m, req) = [ok |-> TRUE, mem |-> r3]
                        /\ r3 \in Memories(n) /\ Copies(r3, o2, r2, o, 3 * mo + 2)
                        /\ Keeps(r3, r2, n, bs, o2 + (3 * req[4] + 2))
            BY <3>5 DEF Placed
        <3>7. RelocateSections(m, req) = [ok |-> TRUE, mem |-> r3]
            BY <1>18, <2>1, <2>3, <3>1, <3>3, <3>6
        <3>8. Keeps(r3, m, n, 10 + ms, n)
            <4>1. ASSUME NEW a \in 0 .. n - 1, a < 10 + ms PROVE r3[a] = m[a]
                <5>1. a < bs /\ a < o + (3 * mo + 2) /\ a < p + mp + 2
                    BY <1>11, <1>12, <3>4, <4>1
                <5> QED BY <2>2, <3>2, <3>6, <5>1 DEF Keeps
            <4> QED BY <1>7, <1>11, <4>1 DEF Keeps
        <3>9. Copies(r3, o2, m, o, 3 * mo + 2)
            <4>1. ASSUME NEW i \in 0 .. (3 * mo + 2) - 1 PROVE r2[o + i] = m[o + i]
                <5>1. o + i \in 0 .. n - 1 /\ o + i < o + (3 * mo + 2) /\ o + i < p + mp + 2
                    BY <1>11, <1>12
                <5> QED BY <2>2, <3>2, <5>1 DEF Keeps
            <4> QED BY <3>6, <4>1 DEF Copies
        <3>10. Copies(r3, p2, m, p, mp + 2)
            <4>1. ASSUME NEW i \in 0 .. (mp + 2) - 1 PROVE r3[p2 + i] = m[p + i]
                <5>1. /\ p2 + i \in 0 .. n - 1 /\ p2 + i >= o2 + (3 * req[4] + 2)
                      /\ p + i \in 0 .. n - 1 /\ p + i < p + mp + 2
                    BY <1>11, <1>12, <1>13
                <5>2. r3[p2 + i] = r2[p2 + i] /\ r1[p + i] = m[p + i]
                    BY <2>2, <3>6, <5>1 DEF Keeps
                <5> QED BY <3>2, <5>2 DEF Copies
            <4> QED BY <4>1 DEF Copies
        <3>11. Copies(r3, g2, m, g, 2)
            <4>1. ASSUME NEW i \in 0 .. 2 - 1 PROVE r3[g2 + i] = m[g + i]
                <5>1. /\ g2 + i \in 0 .. n - 1 /\ g2 + i >= o2 + (3 * req[4] + 2)
                      /\ g2 + i >= p2 + (req[5] + 2)
                    BY <1>13, <1>11
                <5>2. r3[g2 + i] = r2[g2 + i] /\ r2[g2 + i] = r1[g2 + i]
                    BY <3>2, <3>6, <5>1 DEF Keeps
                <5> QED BY <2>2, <5>2 DEF Copies
            <4> QED BY <4>1 DEF Copies
        <3>12. Settled(r3, m, n, q, req)
            BY <1>1, <1>2, <1>3, <1>4, <1>5, <1>6, <1>8, <1>9, <1>10, <3>6, <3>8, <3>9, <3>10, <3>11
               DEF Settled
        <3> QED BY <3>7, <3>12
    <2> QED BY <2>4, <2>5, <2>6
<1> QED BY <1>20, <1>21, <1>22

\* Memory with the words written that say where the sections of req are.
Headed(m, base, req) ==
    [a \in DOMAIN m |->
        IF a = LengthWord THEN BufferLength(req)
        ELSE IF a \in Sections THEN base + Layout(req)[a]
        ELSE IF \E s \in Sections : a = Layout(req)[s]
        THEN LET s == CHOOSE t \in Sections : a = Layout(req)[t]
             IN  SlotSize * SectionSize(req[s], s)
        ELSE m[a]]

HeadsSet(w, m, n, base, req) ==
    /\ w \in Memories(n)
    /\ w[LengthWord] = EndAt(req)
    /\ w[Slots] = base + 8 /\ w[Objects] = base + ObjectsAt(req)
    /\ w[DataPtrs] = base + PtrsAt(req) /\ w[Garbage] = base + RangesAt(req)
    /\ w[8] = 8 * (req[Slots] + 2) /\ w[ObjectsAt(req)] = 8 * (3 * req[Objects] + 2)
    /\ w[PtrsAt(req)] = 8 * (req[DataPtrs] + 2)
    /\ w[RangesAt(req)] = 8 * (2 * req[Garbage] + 2)
    /\ \A a \in 0 .. n - 1 :
          a \notin {1, 3, 4, 5, 6, 8, ObjectsAt(req), PtrsAt(req), RangesAt(req)} => w[a] = m[a]

LEMMA HeadedIs ==
    ASSUME NEW n \in Nat, NEW m \in Memories(n), NEW base \in Nat, NEW req \in Counts, EndAt(req) <= n
    PROVE  HeadsSet(Headed(m, base, req), m, n, base, req)
<1> DEFINE w == Headed(m, base, req)
<1>1. PICK o : o = ObjectsAt(req)
    OBVIOUS
<1>2. PICK p : p = PtrsAt(req)
    OBVIOUS
<1>3. PICK g : g = RangesAt(req)
    OBVIOUS
<1>4. /\ req[3] \in Nat /\ req[4] \in Nat /\ req[5] \in Nat /\ req[6] \in Nat
      /\ o \in Nat /\ o = 10 + req[3] /\ p \in Nat /\ p = o + 3 * req[4] + 2
      /\ g \in Nat /\ g = p + req[5] + 2 /\ g + 2 * req[6] + 2 <= n
    BY <1>1, <1>2, <1>3, PlacesAre
<1>5. /\ Layout(req)[3] = 8 /\ Layout(req)[4] = o /\ Layout(req)[5] = p /\ Layout(req)[6] = g
      /\ SectionSize(req[3], 3) = req[3] + 2 /\ SectionSize(req[4], 4) = 3 * req[4] + 2
      /\ SectionSize(req[5], 5) = req[5] + 2 /\ SectionSize(req[6], 6) = 2 * req[6] + 2
      /\ BufferLength(req) = EndAt(req) /\ EndAt(req) \in Nat
    BY <1>1, <1>2, <1>3, LayoutIs, PlacesAre
<1>6. DOMAIN m = 0 .. n - 1 /\ \A a \in 0 .. n - 1 : m[a] \in Nat
    BY DEF Memories
<1>7. Sections = {3, 4, 5, 6}
    BY DEF Sections
<1>8. \A a \in 0 .. n - 1 :
         w[a] = IF a = 1 THEN EndAt(req)
                ELSE IF a \in Sections THEN base + Layout(req)[a]
                ELSE IF \E s \in Sections : a = Layout(req)[s]
                THEN 8 * SectionSize(req[CHOOSE t \in Sections : a = Layout(req)[t]],
                                     CHOOSE t \in Sections : a = Layout(req)[t])
                ELSE m[a]
    BY <1>5, <1>6 DEF Headed
<1> HIDE DEF w
<1>9. /\ (CHOOSE t \in Sections : 8 = Layout(req)[t]) = 3
      /\ (CHOOSE t \in Sections : o = Layout(req)[t]) = 4
      /\ (CHOOSE t \in Sections : p = Layout(req)[t]) = 5
      /\ (CHOOSE t \in Sections : g = Layout(req)[t]) = 6
    BY <1>4, <1>5, <1>7
<1>10. /\ 1 \in 0 .. n - 1 /\ 3 \in 0 .. n - 1 /\ 4 \in 0 .. n - 1 /\ 5 \in 0 .. n - 1
       /\ 6 \in 0 .. n - 1 /\ 8 \in 0 .. n - 1 /\ o \in 0 .. n - 1 /\ p \in 0 .. n - 1
       /\ g \in 0 .. n - 1
    BY <1>4
<1>11. w[1] = EndAt(req) /\ w[3] = base + 8 /\ w[4] = base + o /\ w[5] = base + p /\ w[6] = base + g
    <2>1. 3 \in Sections /\ 4 \in Sections /\ 5 \in Sections /\ 6 \in Sections
        BY <1>7
    <2>2. w[1] = EndAt(req)
        BY <1>8, <1>10
    <2>3. w[3] = base + Layout(req)[3] /\ w[4] = base + Layout(req)[4]
        BY <1>8, <1>10, <2>1
    <2>4. w[5] = base + Layout(req)[5] /\ w[6] = base + Layout(req)[6]
        BY <1>8, <1>10, <2>1
    <2> QED BY <1>5, <2>2, <2>3, <2>4
<1>12. w[8] = 8 * (req[3] + 2)
    BY <1>5, <1>7, <1>8, <1>9, <1>10
<1>13. w[o] = 8 * (3 * req[4] + 2)
    <2>1. o # 1 /\ o \notin Sections
        BY <1>4, <1>7
    <2> QED BY <1>5, <1>7, <1>8, <1>9, <1>10, <2>1
<1>14. w[p] = 8 * (req[5] + 2)
    <2>1. p # 1 /\ p \notin Sections
        BY <1>4, <1>7
    <2> QED BY <1>5, <1>7, <1>8, <1>9, <1>10, <2>1, SMTT(30)
<1>15. w[g] = 8 * (2 * req[6] + 2)
    <2>1. g # 1 /\ g \notin Sections
        BY <1>4, <1>7
    <2> QED BY <1>5, <1>7, <1>8, <1>9, <1>10, <2>1
<1>16. ASSUME NEW a \in 0 .. n - 1, a \notin {1, 3, 4, 5, 6, 8, o, p, g} PROVE w[a] = m[a]
    <2>1. a # 1 /\ a \notin Sections /\ ~\E s \in Sections : a = Layout(req)[s]
        BY <1>5, <1>7, <1>16
    <2> QED BY <1>8, <2>1
<1>17. w \in [0 .. n - 1 -> Nat]
    <2>1. w = [a \in 0 .. n - 1 |-> w[a]]
        BY <1>6 DEF w, Headed
    <2>2. ASSUME NEW a \in 0 .. n - 1 PROVE w[a] \in Nat
        <3>1. CASE a \in {1, 3, 4, 5, 6}
            BY <1>4, <1>5, <1>11, <3>1
        <3>2. CASE a \in {8, o, p, g}
            BY <1>4, <1>12, <1>13, <1>14, <1>15, <3>2
        <3>3. CASE a \notin {1, 3, 4, 5, 6, 8, o, p, g}
            BY <1>6, <1>16, <3>3
        <3> QED BY <3>1, <3>2, <3>3
    <2> QED BY <2>1, <2>2
<1>18. /\ w \in Memories(n) /\ w[1] = EndAt(req) /\ w[3] = base + 8 /\ w[4] = base + o
       /\ w[5] = base + p /\ w[6] = base + g
       /\ w[8] = 8 * (req[3] + 2) /\ w[o] = 8 * (3 * req[4] + 2)
       /\ w[p] = 8 * (req[5] + 2) /\ w[g] = 8 * (2 * req[6] + 2)
       /\ \A a \in 0 .. n - 1 : a \notin {1, 3, 4, 5, 6, 8, o, p, g} => w[a] = m[a]
    BY <1>11, <1>12, <1>13, <1>14, <1>15, <1>16, <1>17 DEF Memories
<1> QED BY <1>1, <1>2, <1>3, <1>18 DEF w, HeadsSet

\* The sections hold the same as before.
Same(m, q, r, req) ==
    /\ r[9] = m[9]
    /\ r[ObjectsAt(req) + 1] = m[ObjectsAt(q) + 1] /\ r[PtrsAt(req) + 1] = m[PtrsAt(q) + 1]
    /\ Copies(r, 10, m, 10, m[9])
    /\ Copies(r, ObjectsAt(req) + 2, m, ObjectsAt(q) + 2, 3 * m[ObjectsAt(q) + 1])
    /\ Copies(r, PtrsAt(req) + 2, m, PtrsAt(q) + 2, m[PtrsAt(q) + 1])

\* Once the sections are in their places, the words that say so follow.
LEMMA WithLayoutIs ==
    ASSUME NEW m, NEW base, NEW n, NEW q, Laid(m, base, n, q),
           NEW req \in Counts, req[Garbage] < 16, Holding(m, q, req), EndAt(req) <= n,
           NEW r, Settled(r, m, n, q, req)
    PROVE  /\ Laid(WithLayout(r, req), base, n, req)
           /\ Same(m, q, WithLayout(r, req), req)
           /\ WithLayout(r, req)[RangesAt(req)] # 0
<1>1. PICK o : o = ObjectsAt(q)
    OBVIOUS
<1>2. PICK p : p = PtrsAt(q)
    OBVIOUS
<1>3. PICK g : g = RangesAt(q)
    OBVIOUS
<1>4. PICK o2 : o2 = ObjectsAt(req)
    OBVIOUS
<1>5. PICK p2 : p2 = PtrsAt(req)
    OBVIOUS
<1>6. PICK g2 : g2 = RangesAt(req)
    OBVIOUS
<1>7. PICK ms : ms = m[9]
    OBVIOUS
<1>8. PICK mo : mo = m[o + 1]
    OBVIOUS
<1>9. PICK mp : mp = m[p + 1]
    OBVIOUS
<1>10. /\ n \in Nat /\ ms \in Nat /\ mo \in Nat /\ mp \in Nat /\ base \in Nat
       /\ m \in Memories(n) /\ q \in Counts
       /\ ms <= q[3] /\ mo <= q[4] /\ mp <= q[5]
       /\ ms <= req[3] /\ mo <= req[4] /\ mp <= req[5] /\ m[g + 1] = 0
    BY <1>1, <1>2, <1>3, <1>7, <1>8, <1>9, CountsAre DEF Holding
<1>11. /\ q[3] \in Nat /\ q[4] \in Nat /\ q[5] \in Nat /\ q[6] \in Nat
       /\ o \in Nat /\ o = 10 + q[3] /\ p \in Nat /\ p = o + 3 * q[4] + 2
       /\ g \in Nat /\ g = p + q[5] + 2 /\ g + 2 * q[6] + 2 <= n
    <2>1. EndAt(q) <= n
        BY CountsAre
    <2> QED BY <1>1, <1>2, <1>3, <1>10, <2>1, PlacesAre
<1>12. /\ req[3] \in Nat /\ req[4] \in Nat /\ req[5] \in Nat /\ req[6] \in Nat
       /\ o2 \in Nat /\ o2 = 10 + req[3] /\ p2 \in Nat /\ p2 = o2 + 3 * req[4] + 2
       /\ g2 \in Nat /\ g2 = p2 + req[5] + 2 /\ g2 + 2 * req[6] + 2 <= n
    BY <1>4, <1>5, <1>6, PlacesAre
<1>13. /\ r \in Memories(n) /\ Keeps(r, m, n, 10 + ms, n)
       /\ Copies(r, o2, m, o, 3 * mo + 2) /\ Copies(r, p2, m, p, mp + 2) /\ Copies(r, g2, m, g, 2)
    BY <1>1, <1>2, <1>3, <1>4, <1>5, <1>6, <1>7, <1>8, <1>9 DEF Settled
<1>14. r[0] = base /\ r[3] = base + 8 /\ r[9] = ms
    <2>1. /\ 0 \in 0 .. n - 1 /\ 3 \in 0 .. n - 1 /\ 9 \in 0 .. n - 1
          /\ 0 < 10 + ms /\ 3 < 10 + ms /\ 9 < 10 + ms
        BY <1>10, <1>11
    <2>2. r[0] = m[0] /\ r[3] = m[3] /\ r[9] = m[9]
        BY <1>13, <2>1 DEF Keeps
    <2> QED BY <1>7, <2>2 DEF Laid
<1>15. UsedSize(r, 3) = ms + 2
    <2>1. Offset(r, 3) = 8
        BY <1>10, <1>14 DEF Offset
    <2> QED BY <1>10, <1>14, <2>1 DEF UsedSize, SectionSize, EntitySize, NumEntities
<1>16. PICK grown : grown = Zeroed(r, 8 + (ms + 2), (req[3] + 2) - (ms + 2))
    OBVIOUS
<1>17. PICK w : w = Headed(grown, base, req)
    OBVIOUS
<1>18. /\ grown \in Memories(n) /\ Keeps(grown, r, n, 10 + ms, 10 + req[3])
    <2>1. 8 + (ms + 2) \in Int /\ (req[3] + 2) - (ms + 2) \in Int
        BY <1>10, <1>12
    <2>2. 8 + (ms + 2) = 10 + ms /\ 8 + (ms + 2) + ((req[3] + 2) - (ms + 2)) = 10 + req[3]
        BY <1>10, <1>12
    <2>3. Keeps(grown, r, n, 8 + (ms + 2), 8 + (ms + 2) + ((req[3] + 2) - (ms + 2)))
        BY <1>10, <1>13, <1>16, <2>1, ZeroedIs
    <2>4. grown \in Memories(n)
        BY <1>10, <1>13, <1>16, <2>1, ZeroedIs
    <2> QED BY <2>2, <2>3, <2>4
<1>19. WithLayout(r, req) = w
    <2>1. DOMAIN r = DOMAIN grown
        BY <1>13, <1>18 DEF Memories
    <2>2. SectionSize(req[3], 3) = req[3] + 2
        BY LayoutIs
    <2> QED BY <1>14, <1>15, <1>16, <1>17, <2>1, <2>2 DEF WithLayout, Headed
<1>20. /\ w \in Memories(n) /\ w[1] = EndAt(req)
       /\ w[3] = base + 8 /\ w[4] = base + o2 /\ w[5] = base + p2 /\ w[6] = base + g2
       /\ w[8] = 8 * (req[3] + 2) /\ w[o2] = 8 * (3 * req[4] + 2)
       /\ w[p2] = 8 * (req[5] + 2) /\ w[g2] = 8 * (2 * req[6] + 2)
       /\ \A a \in 0 .. n - 1 : a \notin {1, 3, 4, 5, 6, 8, o2, p2, g2} => w[a] = grown[a]
    <2>1. HeadsSet(w, grown, n, base, req)
        BY <1>10, <1>17, <1>18, HeadedIs
    <2> QED BY <1>4, <1>5, <1>6, <2>1 DEF HeadsSet
<1>21. ASSUME NEW a \in 0 .. n - 1, a < 10 + ms, a \notin {1, 3, 4, 5, 6, 8} PROVE w[a] = m[a]
    <2>1. a \notin {1, 3, 4, 5, 6, 8, o2, p2, g2}
        BY <1>10, <1>12, <1>21
    <2>2. w[a] = grown[a]
        BY <1>20, <2>1
    <2> QED BY <1>13, <1>18, <1>21, <2>2 DEF Keeps
<1>22. ASSUME NEW a \in 0 .. n - 1, a > o2, a # p2, a # g2 PROVE w[a] = r[a]
    <2>1. a \notin {1, 3, 4, 5, 6, 8, o2, p2, g2} /\ a >= 10 + req[3]
        BY <1>12, <1>22
    <2>2. w[a] = grown[a]
        BY <1>20, <2>1
    <2> QED BY <1>18, <2>1, <2>2 DEF Keeps
<1>23. w[0] = base /\ w[9] = ms
    <2>1. 0 \in 0 .. n - 1 /\ 9 \in 0 .. n - 1 /\ 0 < 10 + ms /\ 9 < 10 + ms
        BY <1>10, <1>11
    <2>2. w[0] = m[0] /\ w[9] = m[9]
        BY <1>21, <2>1
    <2> QED BY <1>7, <2>2 DEF Laid
<1>24. ASSUME NEW i \in 1 .. 3 * mo + 1 PROVE w[o2 + i] = m[o + i]
    <2>1. o2 + i \in 0 .. n - 1 /\ o2 + i > o2 /\ o2 + i # p2 /\ o2 + i # g2 /\ i \in 0 .. (3 * mo + 2) - 1
        BY <1>10, <1>12
    <2> QED BY <1>13, <1>22, <2>1 DEF Copies
<1>25. ASSUME NEW i \in 1 .. mp + 1 PROVE w[p2 + i] = m[p + i]
    <2>1. p2 + i \in 0 .. n - 1 /\ p2 + i > o2 /\ p2 + i # p2 /\ p2 + i # g2 /\ i \in 0 .. (mp + 2) - 1
        BY <1>10, <1>12
    <2> QED BY <1>13, <1>22, <2>1 DEF Copies
<1>26. w[o2 + 1] = mo /\ w[p2 + 1] = mp /\ w[g2 + 1] = 0
    <2>1. 1 \in 1 .. 3 * mo + 1 /\ 1 \in 1 .. mp + 1
        BY <1>10
    <2>2. g2 + 1 \in 0 .. n - 1 /\ g2 + 1 > o2 /\ g2 + 1 # p2 /\ g2 + 1 # g2 /\ 1 \in 0 .. 2 - 1
        BY <1>10, <1>12
    <2>3. w[g2 + 1] = m[g + 1]
        BY <1>13, <1>22, <2>2 DEF Copies
    <2> QED BY <1>8, <1>9, <1>10, <1>24, <1>25, <2>1, <2>3
<1>27. RangesKept(w, req)
    BY <1>6, <1>20, <1>26 DEF RangesKept
<1>28. Laid(w, base, n, req)
    BY <1>4, <1>5, <1>6, <1>10, <1>20, <1>23, <1>26, <1>27 DEF Laid
<1>29. ASSUME NEW i \in 0 .. ms - 1 PROVE w[10 + i] = m[10 + i]
    <2>1. 10 + i \in 0 .. n - 1 /\ 10 + i < 10 + ms /\ 10 + i \notin {1, 3, 4, 5, 6, 8}
        BY <1>10, <1>11
    <2> QED BY <1>21, <2>1
<1>30. ASSUME NEW i \in 0 .. 3 * mo - 1 PROVE w[(o2 + 2) + i] = m[(o + 2) + i]
    <2>1. 2 + i \in 1 .. 3 * mo + 1
        BY <1>10
    <2>2. (o2 + 2) + i = o2 + (2 + i) /\ (o + 2) + i = o + (2 + i)
        BY <1>10, <1>11, <1>12
    <2>3. w[o2 + (2 + i)] = m[o + (2 + i)]
        BY <1>24, <2>1
    <2> QED BY <2>2, <2>3
<1>31. ASSUME NEW i \in 0 .. mp - 1 PROVE w[(p2 + 2) + i] = m[(p + 2) + i]
    <2>1. 2 + i \in 1 .. mp + 1 /\ (p2 + 2) + i = p2 + (2 + i) /\ (p + 2) + i = p + (2 + i)
        BY <1>10, <1>11, <1>12
    <2>2. w[p2 + (2 + i)] = m[p + (2 + i)]
        BY <1>25, <2>1
    <2> QED BY <2>1, <2>2
<1>32. /\ Copies(w, 10, m, 10, ms) /\ Copies(w, o2 + 2, m, o + 2, 3 * mo)
       /\ Copies(w, p2 + 2, m, p + 2, mp)
    BY <1>29, <1>30, <1>31 DEF Copies
<1>33. Same(m, q, w, req)
    BY <1>1, <1>2, <1>4, <1>5, <1>7, <1>8, <1>9, <1>23, <1>26, <1>32 DEF Same
<1>34. w[g2] # 0
    BY <1>12, <1>20
<1> QED BY <1>6, <1>19, <1>28, <1>33, <1>34

LEMMA UndisturbedIs ==
    ASSUME NEW m, NEW base, NEW n, NEW q, Laid(m, base, n, q), NEW r, Undisturbed(r, m, n, q)
    PROVE  Laid(r, base, n, q) /\ Same(m, q, r, q)
<1>1. PICK o : o = ObjectsAt(q)
    OBVIOUS
<1>2. PICK p : p = PtrsAt(q)
    OBVIOUS
<1>3. PICK g : g = RangesAt(q)
    OBVIOUS
<1>4. PICK ms : ms = m[9]
    OBVIOUS
<1>5. PICK mo : mo = m[o + 1]
    OBVIOUS
<1>6. PICK mp : mp = m[p + 1]
    OBVIOUS
<1>7. /\ n \in Nat /\ ms \in Nat /\ mo \in Nat /\ mp \in Nat /\ base \in Nat /\ q \in Counts
      /\ ms <= q[3] /\ mo <= q[4] /\ mp <= q[5] /\ EndAt(q) <= n
    BY <1>1, <1>2, <1>4, <1>5, <1>6, CountsAre
<1>8. /\ q[3] \in Nat /\ q[4] \in Nat /\ q[5] \in Nat /\ q[6] \in Nat
      /\ o \in Nat /\ o = 10 + q[3] /\ p \in Nat /\ p = o + 3 * q[4] + 2
      /\ g \in Nat /\ g = p + q[5] + 2 /\ g + 2 * q[6] + 2 <= n
    BY <1>1, <1>2, <1>3, <1>7, PlacesAre
<1>9. r \in Memories(n) /\ RangesKept(r, q) /\ Keeps(r, m, n, p + mp + 2, n)
    BY <1>2, <1>6 DEF Undisturbed
<1>10. ASSUME NEW a \in 0 .. n - 1, a < p + mp + 2 PROVE r[a] = m[a]
    BY <1>9, <1>10 DEF Keeps
<1>11. /\ r[0] = m[0] /\ r[1] = m[1] /\ r[3] = m[3] /\ r[4] = m[4] /\ r[5] = m[5] /\ r[6] = m[6]
       /\ r[8] = m[8] /\ r[9] = m[9]
    <2>1. 10 <= n - 1 /\ 10 < p + mp + 2
        BY <1>7, <1>8
    <2>2. \A a \in 0 .. 9 : a \in 0 .. n - 1 /\ a < p + mp + 2
        BY <1>7, <1>8, <2>1
    <2> QED BY <1>10, <2>2
<1>12. r[o] = m[o] /\ r[o + 1] = m[o + 1] /\ r[p] = m[p] /\ r[p + 1] = m[p + 1]
    <2>1. /\ o \in 0 .. n - 1 /\ o + 1 \in 0 .. n - 1 /\ p \in 0 .. n - 1 /\ p + 1 \in 0 .. n - 1
          /\ o < p + mp + 2 /\ o + 1 < p + mp + 2 /\ p < p + mp + 2 /\ p + 1 < p + mp + 2
        BY <1>7, <1>8
    <2> QED BY <1>10, <2>1
<1>13. Laid(r, base, n, q)
    BY <1>1, <1>2, <1>9, <1>11, <1>12 DEF Laid
<1>14. ASSUME NEW i \in 0 .. ms - 1 PROVE r[10 + i] = m[10 + i]
    <2>1. 10 + i \in 0 .. n - 1 /\ 10 + i < p + mp + 2
        BY <1>7, <1>8
    <2> QED BY <1>10, <2>1
<1>15. ASSUME NEW i \in 0 .. 3 * mo - 1 PROVE r[(o + 2) + i] = m[(o + 2) + i]
    <2>1. (o + 2) + i \in 0 .. n - 1 /\ (o + 2) + i < p + mp + 2
        BY <1>7, <1>8
    <2> QED BY <1>10, <2>1
<1>16. ASSUME NEW i \in 0 .. mp - 1 PROVE r[(p + 2) + i] = m[(p + 2) + i]
    <2>1. (p + 2) + i \in 0 .. n - 1 /\ (p + 2) + i < p + mp + 2
        BY <1>7, <1>8
    <2> QED BY <1>10, <2>1
<1>17. /\ Copies(r, 10, m, 10, ms) /\ Copies(r, o + 2, m, o + 2, 3 * mo)
       /\ Copies(r, p + 2, m, p + 2, mp)
    BY <1>14, <1>15, <1>16 DEF Copies
<1>18. Same(m, q, r, q)
    BY <1>1, <1>2, <1>4, <1>5, <1>6, <1>11, <1>12, <1>17 DEF Same
<1> QED BY <1>13, <1>18

\* How many entities the sections may hold.
LEMMA MaximaAre ==
    ASSUME NEW m, NEW base, NEW n, NEW q, Laid(m, base, n, q)
    PROVE  /\ MaxEntities(m, Slots) = q[Slots] /\ MaxEntities(m, Objects) = q[Objects]
           /\ MaxEntities(m, DataPtrs) = q[DataPtrs]
           /\ m[RangesAt(q)] # 0 => MaxEntities(m, Garbage) = q[Garbage]
           /\ m[RangesAt(q)] = 0 => MaxEntities(m, Garbage) = 0
           /\ MaxEntities(m, Garbage) \in Nat /\ MaxEntities(m, Garbage) < 16
<1>1. q \in Counts /\ q[6] < 16
    BY DEF Laid
<1>2. q[3] \in Nat /\ q[4] \in Nat /\ q[5] \in Nat /\ q[6] \in Nat
    BY <1>1, LayoutIs
<1>3. /\ MaxSize(m, 3) = q[3] + 2 /\ MaxSize(m, 4) = 3 * q[4] + 2 /\ MaxSize(m, 5) = q[5] + 2
      /\ m[RangesAt(q)] # 0 => MaxSize(m, 6) = 2 * q[6] + 2
      /\ m[RangesAt(q)] = 0 => MaxSize(m, 6) = 0
    BY ImageIs
<1>4. /\ EntitySize(3) = 1 /\ EntitySize(4) = 3 /\ EntitySize(5) = 1 /\ EntitySize(6) = 2
    BY DEF EntitySize
<1>5. /\ \A k \in Nat : ((k + 2) - 2) \div 1 = k
      /\ \A k \in Nat : ((3 * k + 2) - 2) \div 3 = k
      /\ \A k \in Nat : ((2 * k + 2) - 2) \div 2 = k
    OBVIOUS
<1>6. q[3] + 2 >= 2 /\ 3 * q[4] + 2 >= 2 /\ q[5] + 2 >= 2 /\ 2 * q[6] + 2 >= 2
    BY <1>2
<1>7. MaxEntities(m, 3) = q[3]
    BY <1>2, <1>3, <1>4, <1>5, <1>6 DEF MaxEntities
<1>8. MaxEntities(m, 4) = q[4]
    BY <1>2, <1>3, <1>4, <1>5, <1>6 DEF MaxEntities
<1>9. MaxEntities(m, 5) = q[5]
    BY <1>2, <1>3, <1>4, <1>5, <1>6 DEF MaxEntities
<1>10. /\ m[RangesAt(q)] # 0 => MaxEntities(m, 6) = q[6]
       /\ m[RangesAt(q)] = 0 => MaxEntities(m, 6) = 0
    BY <1>2, <1>3, <1>4, <1>5, <1>6 DEF MaxEntities
<1> QED BY <1>1, <1>2, <1>7, <1>8, <1>9, <1>10

\* Reserving succeeds with the sections as they were asked for, or fails with
\* the sections as they were; what they hold is the same.
LEMMA ReserveIs ==
    ASSUME NEW m, NEW base, NEW n, NEW q, Laid(m, base, n, q),
           NEW req \in Counts, req[Garbage] < 16
    PROVE  \/ \E r, q2 : /\ Reserve(m, req, n) = [ok |-> TRUE, mem |-> r]
                         /\ Laid(r, base, n, q2) /\ Same(m, q, r, q2)
                         /\ q2[Slots] = req[Slots] /\ q2[Objects] = req[Objects]
                         /\ q2[DataPtrs] = req[DataPtrs]
           \/ \E r : /\ Reserve(m, req, n) = [ok |-> FALSE, mem |-> r]
                     /\ Laid(r, base, n, q) /\ Same(m, q, r, q)
<1>1. Same(m, q, m, q)
    BY DEF Same, Copies
<1>2. PICK adm : adm = (m[1] > 0 /\ m[1] <= n /\ HoldsCurrent(m, req))
    OBVIOUS
<1>3. PICK rs : rs = RelocateSections(m, req)
    OBVIOUS
<1>4. Reserve(m, req, n) =
          IF ~adm THEN [ok |-> FALSE, mem |-> m]
          ELSE IF req = Maxima(m) THEN [ok |-> TRUE, mem |-> m]
          ELSE IF BufferLength(req) > n THEN [ok |-> FALSE, mem |-> m]
          ELSE IF rs.ok THEN [ok |-> TRUE, mem |-> WithLayout(rs.mem, req)] ELSE rs
    BY <1>2, <1>3 DEF Reserve
<1>5. CASE ~adm \/ (req # Maxima(m) /\ BufferLength(req) > n)
    <2>1. Reserve(m, req, n) = [ok |-> FALSE, mem |-> m]
        BY <1>4, <1>5
    <2> QED BY <1>1, <2>1
<1>6. CASE adm /\ req = Maxima(m)
    <2>1. Reserve(m, req, n) = [ok |-> TRUE, mem |-> m]
        BY <1>4, <1>6
    <2>2. q[3] = req[3] /\ q[4] = req[4] /\ q[5] = req[5]
        BY <1>6, MaximaAre DEF Maxima, Sections
    <2> QED BY <1>1, <2>1, <2>2
<1>7. CASE adm /\ req # Maxima(m) /\ ~(BufferLength(req) > n)
    <2>1. EndAt(req) <= n
        BY <1>7, LayoutIs, PlacesAre DEF Laid
    <2>2. Holding(m, q, req)
        <3>1. /\ NumEntities(m, 3) <= req[3] /\ NumEntities(m, 4) <= req[4]
              /\ NumEntities(m, 5) <= req[5] /\ NumEntities(m, 6) <= req[6]
            <4>1. HoldsCurrent(m, req)
                BY <1>2, <1>7
            <4>2. 3 \in Sections /\ 4 \in Sections /\ 5 \in Sections /\ 6 \in Sections
                BY DEF Sections
            <4> QED BY <4>1, <4>2 DEF HoldsCurrent
        <3>2. /\ m[9] <= req[3] /\ m[ObjectsAt(q) + 1] <= req[4] /\ m[PtrsAt(q) + 1] <= req[5]
              /\ m[RangesAt(q) + 1] <= req[6]
            BY <3>1, ImageIs
        <3>3. RangesKept(m, q)
            BY DEF Laid
        <3>4. m[RangesAt(q) + 1] = 0
            <4>1. PICK g : g = RangesAt(q)
                OBVIOUS
            <4>2. req[6] \in Nat /\ m[g + 1] \in Nat /\ m[g + 1] <= req[6]
                BY <3>2, <4>1, LayoutIs, CountsAre
            <4>3. m[g + 1] = 0 \/ m[g + 1] >= 16
                BY <3>3, <4>1 DEF RangesKept
            <4> QED BY <4>1, <4>2, <4>3
        <3> QED BY <3>2, <3>4 DEF Holding
    <2>3. CASE \E r : rs = [ok |-> TRUE, mem |-> r] /\ Settled(r, m, n, q, req)
        <3>1. PICK r : rs = [ok |-> TRUE, mem |-> r] /\ Settled(r, m, n, q, req)
            BY <2>3
        <3>2. Reserve(m, req, n) = [ok |-> TRUE, mem |-> WithLayout(r, req)]
            BY <1>4, <1>7, <3>1
        <3>3. /\ Laid(WithLayout(r, req), base, n, req) /\ Same(m, q, WithLayout(r, req), req)
            BY <2>1, <2>2, <3>1, WithLayoutIs
        <3> QED BY <3>2, <3>3
    <2>4. CASE \E r : rs = [ok |-> FALSE, mem |-> r] /\ Undisturbed(r, m, n, q)
        <3>1. PICK r : rs = [ok |-> FALSE, mem |-> r] /\ Undisturbed(r, m, n, q)
            BY <2>4
        <3>2. Reserve(m, req, n) = [ok |-> FALSE, mem |-> r]
            BY <1>4, <1>7, <3>1
        <3>3. Laid(r, base, n, q) /\ Same(m, q, r, q)
            BY <3>1, UndisturbedIs
        <3> QED BY <3>2, <3>3
    <2>5. \/ \E r : rs = [ok |-> TRUE, mem |-> r] /\ Settled(r, m, n, q, req)
          \/ \E r : rs = [ok |-> FALSE, mem |-> r] /\ Undisturbed(r, m, n, q)
        BY <1>3, <2>1, <2>2, RelocateSectionsIs
    <2> QED BY <2>3, <2>4, <2>5
<1> QED BY <1>5, <1>6, <1>7

-----------------------------------------------------------------------------
(* Initialising, clearing, and images that begin with another's.           *)

Emptied(m, q) == m[9] = 0 /\ m[ObjectsAt(q) + 1] = 0 /\ m[PtrsAt(q) + 1] = 0

\* Memory that has been initialised has room for what was asked for, and holds
\* nothing.
LEMMA InitialisedIs ==
    ASSUME NEW n \in Nat, NEW m \in Memories(n), NEW base \in Nat, NEW req \in Counts,
           req[Garbage] < 16, EndAt(req) <= n
    PROVE  /\ Laid(Initialised(m, base, req), base, n, req)
           /\ Emptied(Initialised(m, base, req), req)
<1>1. PICK o : o = ObjectsAt(req)
    OBVIOUS
<1>2. PICK p : p = PtrsAt(req)
    OBVIOUS
<1>3. PICK g : g = RangesAt(req)
    OBVIOUS
<1>4. PICK e : e = EndAt(req)
    OBVIOUS
<1>5. /\ req[3] \in Nat /\ req[4] \in Nat /\ req[5] \in Nat /\ req[6] \in Nat
      /\ o \in Nat /\ o = 10 + req[3] /\ p \in Nat /\ p = o + 3 * req[4] + 2
      /\ g \in Nat /\ g = p + req[5] + 2 /\ e \in Nat /\ e = g + 2 * req[6] + 2 /\ e <= n
    BY <1>1, <1>2, <1>3, <1>4, PlacesAre
<1>6. PICK clear : clear = Zeroed(m, 0, e)
    OBVIOUS
<1>7. clear \in Memories(n) /\ Clear(clear, n, 0, e)
    <2>1. 0 \in Int /\ e \in Int /\ 0 + e = e
        BY <1>5
    <2> QED BY <1>6, <2>1, ZeroedIs
<1>8. DOMAIN clear = 0 .. n - 1 /\ \A a \in 0 .. n - 1 : clear[a] \in Nat
    BY <1>7 DEF Memories
<1>9. PICK m1 : m1 = [a \in 0 .. n - 1 |-> IF a = 0 THEN base ELSE IF a = 2 THEN 8 ELSE clear[a]]
    OBVIOUS
<1>10. m1 \in Memories(n)
    BY <1>8, <1>9 DEF Memories
<1>11. PICK w : w = Headed(m1, base, req)
    OBVIOUS
<1>12. /\ w \in Memories(n) /\ w[1] = e
       /\ w[3] = base + 8 /\ w[4] = base + o /\ w[5] = base + p /\ w[6] = base + g
       /\ w[8] = 8 * (req[3] + 2) /\ w[o] = 8 * (3 * req[4] + 2)
       /\ w[p] = 8 * (req[5] + 2) /\ w[g] = 8 * (2 * req[6] + 2)
       /\ \A a \in 0 .. n - 1 : a \notin {1, 3, 4, 5, 6, 8, o, p, g} => w[a] = m1[a]
    <2>1. HeadsSet(w, m1, n, base, req)
        BY <1>10, <1>11, HeadedIs
    <2> QED BY <1>1, <1>2, <1>3, <1>4, <2>1 DEF HeadsSet
<1>13. Initialised(m, base, req) = w
    <2>1. DOMAIN m = 0 .. n - 1 /\ DOMAIN m1 = 0 .. n - 1
        BY <1>9 DEF Memories
    <2>2. BufferLength(req) = e
        BY <1>4, LayoutIs
    <2>3. PICK i : i = Initialised(m, base, req)
        OBVIOUS
    <2>4. /\ i = [a \in 0 .. n - 1 |-> i[a]]
          /\ \A a \in 0 .. n - 1 :
                i[a] = IF a = 0 THEN base
                       ELSE IF a = 1 THEN BufferLength(req)
                       ELSE IF a = 2 THEN 8
                       ELSE IF a \in Sections THEN base + Layout(req)[a]
                       ELSE IF \E s \in Sections : a = Layout(req)[s]
                       THEN 8 * SectionSize(req[CHOOSE t \in Sections : a = Layout(req)[t]],
                                            CHOOSE t \in Sections : a = Layout(req)[t])
                       ELSE clear[a]
        BY <1>6, <2>1, <2>2, <2>3 DEF Initialised
    <2>5. /\ w = [a \in 0 .. n - 1 |-> w[a]]
          /\ \A a \in 0 .. n - 1 :
                w[a] = IF a = 1 THEN BufferLength(req)
                       ELSE IF a \in Sections THEN base + Layout(req)[a]
                       ELSE IF \E s \in Sections : a = Layout(req)[s]
                       THEN 8 * SectionSize(req[CHOOSE t \in Sections : a = Layout(req)[t]],
                                            CHOOSE t \in Sections : a = Layout(req)[t])
                       ELSE m1[a]
        BY <1>11, <2>1 DEF Headed
    <2>6. /\ Sections = {3, 4, 5, 6} /\ Layout(req)[3] = 8 /\ Layout(req)[4] = o
          /\ Layout(req)[5] = p /\ Layout(req)[6] = g
        BY <1>1, <1>2, <1>3, LayoutIs DEF Sections
    <2>7. ASSUME NEW a \in 0 .. n - 1 PROVE i[a] = w[a]
        <3>1. a \in {0, 2} => a \notin Sections /\ ~\E s \in Sections : a = Layout(req)[s]
            BY <1>5, <2>6
        <3>2. a = 0 => m1[a] = base
            BY <1>9, <2>7
        <3>3. a = 2 => m1[a] = 8
            BY <1>9, <2>7
        <3>4. a \notin {0, 2} => m1[a] = clear[a]
            BY <1>9, <2>7
        <3>5. PICK c : c = CHOOSE t \in Sections : a = Layout(req)[t]
            OBVIOUS
        <3>6. i[a] = IF a = 0 THEN base
                     ELSE IF a = 1 THEN BufferLength(req)
                     ELSE IF a = 2 THEN 8
                     ELSE IF a \in Sections THEN base + Layout(req)[a]
                     ELSE IF \E s \in Sections : a = Layout(req)[s]
                     THEN 8 * SectionSize(req[c], c) ELSE clear[a]
            BY <2>4, <3>5
        <3>7. w[a] = IF a = 1 THEN BufferLength(req)
                     ELSE IF a \in Sections THEN base + Layout(req)[a]
                     ELSE IF \E s \in Sections : a = Layout(req)[s]
                     THEN 8 * SectionSize(req[c], c) ELSE m1[a]
            BY <2>5, <3>5
        <3>8. CASE a = 0
            BY <3>1, <3>2, <3>6, <3>7, <3>8
        <3>9. CASE a = 2
            BY <3>1, <3>3, <3>6, <3>7, <3>9
        <3>10. CASE a # 0 /\ a # 2
            BY <3>4, <3>6, <3>7, <3>10
        <3> QED BY <3>8, <3>9, <3>10
    <2> QED BY <2>3, <2>4, <2>5, <2>7
<1>14. ASSUME NEW a \in 0 .. e - 1, a \notin {0, 1, 2, 3, 4, 5, 6, 8, o, p, g} PROVE w[a] = 0
    <2>1. a \in 0 .. n - 1 /\ a < e /\ 0 <= a /\ a \notin {1, 3, 4, 5, 6, 8, o, p, g}
        BY <1>5, <1>14
    <2>2. w[a] = m1[a] /\ clear[a] = 0
        BY <1>7, <1>12, <2>1 DEF Clear
    <2> QED BY <1>9, <1>14, <2>1, <2>2
<1>15. w[0] = base
    <2>1. 0 \in 0 .. n - 1 /\ 0 \notin {1, 3, 4, 5, 6, 8, o, p, g}
        BY <1>5
    <2> QED BY <1>9, <1>12, <2>1
<1>16. w[9] = 0 /\ w[o + 1] = 0 /\ w[p + 1] = 0 /\ w[g + 1] = 0
    <2>1. 9 \in 0 .. e - 1 /\ o + 1 \in 0 .. e - 1 /\ p + 1 \in 0 .. e - 1 /\ g + 1 \in 0 .. e - 1
        BY <1>5
    <2>2. /\ 9 \notin {0, 1, 2, 3, 4, 5, 6, 8, o, p, g}
          /\ o + 1 \notin {0, 1, 2, 3, 4, 5, 6, 8, o, p, g}
          /\ p + 1 \notin {0, 1, 2, 3, 4, 5, 6, 8, o, p, g}
          /\ g + 1 \notin {0, 1, 2, 3, 4, 5, 6, 8, o, p, g}
        BY <1>5
    <2> QED BY <1>14, <2>1, <2>2
<1>17. RangesKept(w, req)
    BY <1>3, <1>12, <1>16 DEF RangesKept
<1>18. w[9] <= req[3] /\ w[o + 1] <= req[4] /\ w[p + 1] <= req[5]
    BY <1>5, <1>16
<1>19. Laid(w, base, n, req)
    BY <1>1, <1>2, <1>3, <1>4, <1>12, <1>15, <1>17, <1>18 DEF Laid
<1>20. Emptied(w, req)
    BY <1>1, <1>2, <1>16 DEF Emptied
<1> QED BY <1>13, <1>19, <1>20

\* An image that begins with another is laid out as that is.
LEMMA BeginningIs ==
    ASSUME NEW m, NEW base, NEW n, NEW q, Laid(m, base, n, q),
           NEW k \in Nat, NEW r \in Memories(k), EndAt(q) <= k,
           \A a \in 0 .. EndAt(q) - 1 : r[a] = m[a]
    PROVE  Laid(r, base, k, q) /\ Same(m, q, r, q)
<1>1. PICK o : o = ObjectsAt(q)
    OBVIOUS
<1>2. PICK p : p = PtrsAt(q)
    OBVIOUS
<1>3. PICK g : g = RangesAt(q)
    OBVIOUS
<1>4. PICK e : e = EndAt(q)
    OBVIOUS
<1>5. PICK ms : ms = m[9]
    OBVIOUS
<1>6. PICK mo : mo = m[o + 1]
    OBVIOUS
<1>7. PICK mp : mp = m[p + 1]
    OBVIOUS
<1>8. /\ ms \in Nat /\ mo \in Nat /\ mp \in Nat /\ q \in Counts
      /\ ms <= q[3] /\ mo <= q[4] /\ mp <= q[5]
    BY <1>1, <1>2, <1>5, <1>6, <1>7, CountsAre
<1>9. /\ q[3] \in Nat /\ q[4] \in Nat /\ q[5] \in Nat /\ q[6] \in Nat
      /\ o \in Nat /\ o = 10 + q[3] /\ p \in Nat /\ p = o + 3 * q[4] + 2
      /\ g \in Nat /\ g = p + q[5] + 2 /\ e \in Nat /\ e = g + 2 * q[6] + 2
    BY <1>1, <1>2, <1>3, <1>4, <1>8, PlacesAre
<1>10. \A a \in 0 .. e - 1 : r[a] = m[a]
    BY <1>4
<1>11. /\ r[0] = m[0] /\ r[1] = m[1] /\ r[3] = m[3] /\ r[4] = m[4] /\ r[5] = m[5] /\ r[6] = m[6]
       /\ r[8] = m[8] /\ r[9] = m[9]
    <2>1. \A a \in 0 .. 9 : a \in 0 .. e - 1
        BY <1>9
    <2> QED BY <1>10, <2>1
<1>12. /\ r[o] = m[o] /\ r[o + 1] = m[o + 1] /\ r[p] = m[p] /\ r[p + 1] = m[p + 1]
       /\ r[g] = m[g] /\ r[g + 1] = m[g + 1]
    <2>1. /\ o \in 0 .. e - 1 /\ o + 1 \in 0 .. e - 1 /\ p \in 0 .. e - 1 /\ p + 1 \in 0 .. e - 1
          /\ g \in 0 .. e - 1 /\ g + 1 \in 0 .. e - 1
        BY <1>9
    <2> QED BY <1>10, <2>1
<1>13. RangesKept(r, q)
    BY <1>3, <1>12 DEF RangesKept, Laid
<1>14. Laid(r, base, k, q)
    BY <1>1, <1>2, <1>11, <1>12, <1>13 DEF Laid
<1>15. ASSUME NEW i \in 0 .. ms - 1 PROVE r[10 + i] = m[10 + i]
    <2>1. 10 + i \in 0 .. e - 1
        BY <1>8, <1>9
    <2> QED BY <1>10, <2>1
<1>16. ASSUME NEW i \in 0 .. 3 * mo - 1 PROVE r[(o + 2) + i] = m[(o + 2) + i]
    <2>1. (o + 2) + i \in 0 .. e - 1
        BY <1>8, <1>9
    <2> QED BY <1>10, <2>1
<1>17. ASSUME NEW i \in 0 .. mp - 1 PROVE r[(p + 2) + i] = m[(p + 2) + i]
    <2>1. (p + 2) + i \in 0 .. e - 1
        BY <1>8, <1>9
    <2> QED BY <1>10, <2>1
<1>18. /\ Copies(r, 10, m, 10, ms) /\ Copies(r, o + 2, m, o + 2, 3 * mo)
       /\ Copies(r, p + 2, m, p + 2, mp)
    BY <1>15, <1>16, <1>17 DEF Copies
<1>19. Same(m, q, r, q)
    BY <1>1, <1>2, <1>5, <1>6, <1>7, <1>11, <1>12, <1>18 DEF Same
<1> QED BY <1>14, <1>19

\* An image keeps its layout as long as the words that say what it is are kept,
\* and the numbers of entities stay within their bounds.
Worded(r, m, q) ==
    LET o == ObjectsAt(q)
        p == PtrsAt(q)
        g == RangesAt(q)
    IN  /\ \A a \in {0, 1, 3, 4, 5, 6, 8, o, p, g} : r[a] = m[a]
        /\ r[9] <= q[Slots] /\ r[o + 1] <= q[Objects] /\ r[p + 1] <= q[DataPtrs]
        /\ r[g + 1] = m[g + 1] \/ r[g + 1] = 0

LEMMA WordedIs ==
    ASSUME NEW m, NEW base, NEW n, NEW q, Laid(m, base, n, q), NEW r \in Memories(n), Worded(r, m, q)
    PROVE  Laid(r, base, n, q)
<1>1. PICK o : o = ObjectsAt(q)
    OBVIOUS
<1>2. PICK p : p = PtrsAt(q)
    OBVIOUS
<1>3. PICK g : g = RangesAt(q)
    OBVIOUS
<1>4. /\ r[0] = m[0] /\ r[1] = m[1] /\ r[3] = m[3] /\ r[4] = m[4] /\ r[5] = m[5] /\ r[6] = m[6]
      /\ r[8] = m[8] /\ r[o] = m[o] /\ r[p] = m[p] /\ r[g] = m[g]
      /\ r[9] <= q[3] /\ r[o + 1] <= q[4] /\ r[p + 1] <= q[5]
      /\ r[g + 1] = m[g + 1] \/ r[g + 1] = 0
    BY <1>1, <1>2, <1>3 DEF Worded
<1>5. RangesKept(m, q)
    BY DEF Laid
<1>6. RangesKept(r, q)
    BY <1>3, <1>4, <1>5 DEF RangesKept
<1> QED BY <1>1, <1>2, <1>3, <1>4, <1>6 DEF Laid

\* An image that has been cleared holds nothing.
LEMMA ClearedIs ==
    ASSUME NEW m, NEW base, NEW n, NEW q, Laid(m, base, n, q), NEW z \in BOOLEAN
    PROVE  Laid(Cleared(m, z), base, n, q) /\ Emptied(Cleared(m, z), q)
<1>1. PICK o : o = ObjectsAt(q)
    OBVIOUS
<1>2. PICK p : p = PtrsAt(q)
    OBVIOUS
<1>3. PICK g : g = RangesAt(q)
    OBVIOUS
<1>4. PICK ms : ms = m[9]
    OBVIOUS
<1>5. PICK mo : mo = m[o + 1]
    OBVIOUS
<1>6. PICK mp : mp = m[p + 1]
    OBVIOUS
<1>7. PICK mg : mg = m[g + 1]
    OBVIOUS
<1>8. /\ n \in Nat /\ ms \in Nat /\ mo \in Nat /\ mp \in Nat /\ mg \in Nat /\ q \in Counts
      /\ m \in Memories(n) /\ ms <= q[3] /\ mo <= q[4] /\ mp <= q[5] /\ EndAt(q) <= n
    BY <1>1, <1>2, <1>3, <1>4, <1>5, <1>6, <1>7, CountsAre
<1>9. /\ q[3] \in Nat /\ q[4] \in Nat /\ q[5] \in Nat /\ q[6] \in Nat
      /\ o \in Nat /\ o = 10 + q[3] /\ p \in Nat /\ p = o + 3 * q[4] + 2
      /\ g \in Nat /\ g = p + q[5] + 2 /\ g + 2 * q[6] + 2 <= n
    BY <1>1, <1>2, <1>3, <1>8, PlacesAre
<1>10. /\ Offset(m, 3) = 8 /\ Offset(m, 4) = o /\ Offset(m, 5) = p /\ Offset(m, 6) = g
       /\ NumEntities(m, 3) = ms /\ NumEntities(m, 4) = mo
       /\ NumEntities(m, 5) = mp /\ NumEntities(m, 6) = mg
    BY <1>1, <1>2, <1>3, <1>4, <1>5, <1>6, <1>7, ImageIs
<1>11. Sections = {3, 4, 5, 6} /\ EntitySize(3) = 1 /\ EntitySize(4) = 3 /\ EntitySize(5) = 1
       /\ EntitySize(6) = 2
    BY DEF Sections, EntitySize
<1>12. DOMAIN m = 0 .. n - 1 /\ \A a \in 0 .. n - 1 : m[a] \in Nat
    BY <1>8 DEF Memories
<1>13. PICK w : w = Cleared(m, z)
    OBVIOUS
<1>14. /\ w = [a \in 0 .. n - 1 |-> w[a]]
       /\ \A a \in 0 .. n - 1 :
             w[a] = IF \/ \E s \in Sections : a = Offset(m, s) + 1
                       \/ /\ z
                          /\ \E s \in Sections : a \in Cells(Offset(m, s) + 2,
                                                             NumEntities(m, s) * EntitySize(s))
                    THEN 0 ELSE m[a]
    BY <1>12, <1>13 DEF Cleared, DataAt
<1>15. w \in Memories(n)
    BY <1>12, <1>14 DEF Memories
<1>16. ASSUME NEW a \in 0 .. n - 1, a \in {9, o + 1, p + 1, g + 1} PROVE w[a] = 0
    BY <1>10, <1>11, <1>14, <1>16
<1>17. ASSUME NEW a \in 0 .. n - 1, a \in {0, 1, 3, 4, 5, 6, 8, o, p, g} PROVE w[a] = m[a]
    <2>1. ~\E s \in Sections : a = Offset(m, s) + 1
        BY <1>9, <1>10, <1>11, <1>17
    <2>2. /\ NumEntities(m, 3) * EntitySize(3) = ms /\ NumEntities(m, 4) * EntitySize(4) = 3 * mo
          /\ NumEntities(m, 5) * EntitySize(5) = mp /\ NumEntities(m, 6) * EntitySize(6) = 2 * mg
        BY <1>8, <1>10, <1>11
    <2>3. /\ a \notin 8 + 2 .. (8 + 2 + ms - 1)
          /\ a \notin o + 2 .. (o + 2 + 3 * mo - 1)
          /\ a \notin p + 2 .. (p + 2 + mp - 1)
          /\ a \notin g + 2 .. (g + 2 + 2 * mg - 1)
        BY <1>8, <1>9, <1>17
    <2>4. ~\E s \in Sections : a \in Cells(Offset(m, s) + 2, NumEntities(m, s) * EntitySize(s))
        BY <1>10, <1>11, <2>2, <2>3 DEF Cells
    <2> QED BY <1>14, <2>1, <2>4
<1>18. /\ 0 \in 0 .. n - 1 /\ 1 \in 0 .. n - 1 /\ 3 \in 0 .. n - 1 /\ 4 \in 0 .. n - 1
       /\ 5 \in 0 .. n - 1 /\ 6 \in 0 .. n - 1 /\ 8 \in 0 .. n - 1 /\ 9 \in 0 .. n - 1
       /\ o \in 0 .. n - 1 /\ o + 1 \in 0 .. n - 1 /\ p \in 0 .. n - 1 /\ p + 1 \in 0 .. n - 1
       /\ g \in 0 .. n - 1 /\ g + 1 \in 0 .. n - 1
    BY <1>8, <1>9
<1>19. w[9] = 0 /\ w[o + 1] = 0 /\ w[p + 1] = 0 /\ w[g + 1] = 0
    BY <1>16, <1>18
<1>20. \A a \in {0, 1, 3, 4, 5, 6, 8, o, p, g} : w[a] = m[a]
    BY <1>17, <1>18
<1>21. Worded(w, m, q)
    BY <1>1, <1>2, <1>3, <1>9, <1>19, <1>20 DEF Worded
<1>22. Emptied(w, q)
    BY <1>1, <1>2, <1>19 DEF Emptied
<1> QED BY <1>13, <1>15, <1>21, <1>22, WordedIs

-----------------------------------------------------------------------------
(* What an image holds.                                                    *)

\* Where attribute i is, from the start of its object.
Lead(shape, i) == 1 + NumAttrs(shape) + LengthBefore(shape, i)

\* The objects are at at, one behind the other, in the slots in use.
Placing(st, at, ms) ==
    /\ at \in [1 .. Len(st) -> Nat]
    /\ \A k \in 1 .. Len(st) : 10 <= at[k] /\ at[k] + ObjectSize(st[k]) <= 10 + ms
    /\ \A k, l \in 1 .. Len(st) : k < l => at[k] + ObjectSize(st[k]) <= at[l]

\* There is the value of each, its pointers, and the values of its attributes.
Filled(m, base, st, at) ==
    \A k \in 1 .. Len(st) :
        /\ m[at[k]] = Value(k, 0, 0)
        /\ \A i \in 1 .. NumAttrs(st[k]) :
              /\ m[at[k] + i] = base + at[k] + Lead(st[k], i)
              /\ \A j \in 0 .. Length(st[k], i) - 1 :
                    m[at[k] + Lead(st[k], i) + j] = AttrValue(st[k], k, i, j)

\* The index has an entry for each object.
EntryAt(q, k) == ObjectsAt(q) + 2 + 3 * (k - 1)
Indexed(m, base, q, st, at) ==
    \A k \in 1 .. Len(st) :
        /\ m[EntryAt(q, k)] = base + at[k] /\ m[EntryAt(q, k) + 1] = k
        /\ m[EntryAt(q, k) + 2] = ObjectSize(st[k])

\* The list of pointers has the objects' pointers, and no other.
Listed(m, base, q, st, at) ==
    /\ \A l \in 0 .. m[PtrsAt(q) + 1] - 1 :
          \E k \in 1 .. Len(st) : \E i \in 1 .. NumAttrs(st[k]) :
              m[PtrsAt(q) + 2 + l] = base + at[k] + i
    /\ \A k \in 1 .. Len(st) : \A i \in 1 .. NumAttrs(st[k]) :
          \E l \in 0 .. m[PtrsAt(q) + 1] - 1 : m[PtrsAt(q) + 2 + l] = base + at[k] + i

Contents(m, base, q, st, at) ==
    /\ st \in Seq(Shapes) /\ m[ObjectsAt(q) + 1] = Len(st)
    /\ Placing(st, at, m[9]) /\ Filled(m, base, st, at)
    /\ Indexed(m, base, q, st, at) /\ Listed(m, base, q, st, at)

\* The slots of an object: its own, its pointers, its attributes in order.
LEMMA ShapeIs ==
    ASSUME NEW shape \in Shapes
    PROVE  /\ NumAttrs(shape) \in Nat /\ ObjectSize(shape) \in Nat
           /\ ObjectSize(shape) >= 1 + NumAttrs(shape)
           /\ \A i \in 1 .. NumAttrs(shape) :
                 /\ Lead(shape, i) \in Nat /\ Length(shape, i) \in Nat
                 /\ Lead(shape, i) >= 1 + NumAttrs(shape)
                 /\ Lead(shape, i) + Length(shape, i) <= ObjectSize(shape)
           /\ \A i, j \in 1 .. NumAttrs(shape) :
                 i < j => Lead(shape, i) + Length(shape, i) <= Lead(shape, j)
<1>1. PICK ends : ends = shape.ends
    OBVIOUS
<1>2. /\ ends \in Seq(Nat)
      /\ \A i, j \in DOMAIN ends : i <= j => ends[i] <= ends[j]
    BY <1>1, BufferAssumption
<1>3. PICK len : len = Len(ends)
    OBVIOUS
<1>4. len \in Nat /\ DOMAIN ends = 1 .. len /\ \A i \in 1 .. len : ends[i] \in Nat
    BY <1>2, <1>3
<1>5. NumAttrs(shape) = len
    BY <1>1, <1>3 DEF NumAttrs
<1>6. /\ \A i \in 1 .. len : Length(shape, i) = ends[i] - LengthBefore(shape, i)
      /\ LengthBefore(shape, 1) = 0
      /\ \A i \in 2 .. len + 1 : LengthBefore(shape, i) = ends[i - 1]
    BY <1>1, <1>4 DEF Length, LengthBefore
<1>7. PICK all : all = LengthBefore(shape, len + 1)
    OBVIOUS
<1>8. all \in Nat /\ \A i \in 1 .. len : ends[i] <= all
    <2>1. CASE len = 0
        BY <1>4, <1>6, <1>7, <2>1
    <2>2. CASE len # 0
        <3>1. len \in 1 .. len /\ len + 1 \in 2 .. len + 1 /\ (len + 1) - 1 = len
            BY <1>4, <2>2
        <3>2. all = ends[len]
            BY <1>6, <1>7, <3>1
        <3> QED BY <1>2, <1>4, <3>1, <3>2
    <2> QED BY <2>1, <2>2
<1>9. ObjectSize(shape) = 1 + len + all
    BY <1>5, <1>7 DEF ObjectSize
<1>10. ASSUME NEW i \in 1 .. len
       PROVE  /\ LengthBefore(shape, i) \in Nat /\ Length(shape, i) \in Nat
              /\ LengthBefore(shape, i) + Length(shape, i) = ends[i]
    <2>1. CASE i = 1
        BY <1>4, <1>6, <2>1
    <2>2. CASE i # 1
        <3>1. i \in 2 .. len + 1 /\ i - 1 \in 1 .. len /\ i - 1 <= i
            BY <1>4, <2>2
        <3>2. LengthBefore(shape, i) = ends[i - 1] /\ ends[i - 1] <= ends[i]
            BY <1>2, <1>4, <1>6, <3>1
        <3> QED BY <1>4, <1>6, <3>1, <3>2
    <2> QED BY <2>1, <2>2
<1>11. ASSUME NEW i \in 1 .. len, NEW j \in 1 .. len, i < j PROVE ends[i] <= LengthBefore(shape, j)
    <2>1. j \in 2 .. len + 1 /\ j - 1 \in 1 .. len /\ i <= j - 1
        BY <1>4, <1>11
    <2> QED BY <1>2, <1>4, <1>6, <2>1
<1>12. \A i \in 1 .. len : Lead(shape, i) = 1 + len + LengthBefore(shape, i)
    BY <1>5 DEF Lead
<1>13. ASSUME NEW i \in 1 .. len
       PROVE  /\ Lead(shape, i) \in Nat /\ Lead(shape, i) >= 1 + len
              /\ Lead(shape, i) + Length(shape, i) = 1 + len + ends[i]
    BY <1>4, <1>10, <1>12, SMTT(30)
<1>14. ASSUME NEW i \in 1 .. len, NEW j \in 1 .. len, i < j
       PROVE  Lead(shape, i) + Length(shape, i) <= Lead(shape, j)
    <2>1. ends[i] \in Nat /\ LengthBefore(shape, j) \in Nat
        BY <1>4, <1>10
    <2> QED BY <1>4, <1>11, <1>12, <1>13, <1>14, <2>1
<1>15. ASSUME NEW i \in 1 .. len PROVE Lead(shape, i) + Length(shape, i) <= ObjectSize(shape)
    BY <1>4, <1>8, <1>9, <1>13
<1> QED BY <1>4, <1>5, <1>8, <1>9, <1>10, <1>13, <1>14, <1>15, SMTT(30)

\* An object is in the slots in use, with its pointers and attributes.
LEMMA CellsAre ==
    ASSUME NEW st \in Seq(Shapes), NEW at, NEW ms \in Nat, Placing(st, at, ms),
           NEW k \in 1 .. Len(st)
    PROVE  /\ st[k] \in Shapes /\ at[k] \in Nat /\ at[k] \in 10 .. 10 + ms - 1
           /\ at[k] + ObjectSize(st[k]) <= 10 + ms
           /\ \A i \in 1 .. NumAttrs(st[k]) :
                 /\ at[k] + i \in 10 .. 10 + ms - 1
                 /\ \A j \in 0 .. Length(st[k], i) - 1 :
                       at[k] + Lead(st[k], i) + j \in 10 .. 10 + ms - 1
<1>1. /\ at \in [1 .. Len(st) -> Nat] /\ 10 <= at[k] /\ at[k] + ObjectSize(st[k]) <= 10 + ms
    BY DEF Placing
<1>2. st[k] \in Shapes /\ at[k] \in Nat
    BY <1>1
<1>3. PICK shape : shape = st[k]
    OBVIOUS
<1>4. PICK x : x = at[k]
    OBVIOUS
<1>5. PICK size : size = ObjectSize(shape)
    OBVIOUS
<1>6. PICK num : num = NumAttrs(shape)
    OBVIOUS
<1>7. x \in Nat /\ size \in Nat /\ num \in Nat /\ 10 <= x /\ x + size <= 10 + ms /\ size >= 1 + num
    BY <1>1, <1>2, <1>3, <1>4, <1>5, <1>6, ShapeIs
<1>8. x \in 10 .. 10 + ms - 1
    BY <1>7
<1>9. ASSUME NEW i \in 1 .. num PROVE x + i \in 10 .. 10 + ms - 1
    BY <1>7
<1>10. ASSUME NEW i \in 1 .. num, NEW j \in 0 .. Length(shape, i) - 1
       PROVE  x + Lead(shape, i) + j \in 10 .. 10 + ms - 1
    <2>1. PICK lead : lead = Lead(shape, i)
        OBVIOUS
    <2>2. PICK length : length = Length(shape, i)
        OBVIOUS
    <2>3. lead \in Nat /\ length \in Nat /\ lead + length <= size /\ lead >= 1 + num
        BY <1>2, <1>3, <1>5, <1>6, <2>1, <2>2, ShapeIs
    <2>4. j \in 0 .. length - 1
        BY <2>2
    <2>5. x + lead + j \in 10 .. 10 + ms - 1
        BY <1>7, <2>3, <2>4
    <2> QED BY <2>1, <2>5
<1> QED BY <1>1, <1>2, <1>3, <1>4, <1>6, <1>8, <1>9, <1>10

\* Objects that are all within memory that has not changed are intact.
LEMMA FilledIs ==
    ASSUME NEW st \in Seq(Shapes), NEW at, NEW ms \in Nat, Placing(st, at, ms),
           NEW m, NEW base, Filled(m, base, st, at),
           NEW r, Copies(r, 10, m, 10, ms)
    PROVE  Filled(r, base, st, at)
<1>1. ASSUME NEW a \in 10 .. 10 + ms - 1 PROVE r[a] = m[a]
    <2>1. a - 10 \in 0 .. ms - 1 /\ 10 + (a - 10) = a
        OBVIOUS
    <2>2. r[10 + (a - 10)] = m[10 + (a - 10)]
        BY <2>1 DEF Copies
    <2> QED BY <2>1, <2>2
<1>2. ASSUME NEW k \in 1 .. Len(st)
      PROVE  /\ r[at[k]] = Value(k, 0, 0)
             /\ \A i \in 1 .. NumAttrs(st[k]) :
                   /\ r[at[k] + i] = base + at[k] + Lead(st[k], i)
                   /\ \A j \in 0 .. Length(st[k], i) - 1 :
                         r[at[k] + Lead(st[k], i) + j] = AttrValue(st[k], k, i, j)
    <2>1. at[k] \in 10 .. 10 + ms - 1
        BY CellsAre
    <2>2. r[at[k]] = Value(k, 0, 0)
        BY <1>1, <2>1 DEF Filled
    <2>3. ASSUME NEW i \in 1 .. NumAttrs(st[k])
          PROVE  r[at[k] + i] = base + at[k] + Lead(st[k], i)
        <3>1. at[k] + i \in 10 .. 10 + ms - 1
            BY CellsAre
        <3>2. r[at[k] + i] = m[at[k] + i]
            BY <1>1, <3>1
        <3> QED BY <3>2 DEF Filled
    <2>4. ASSUME NEW i \in 1 .. NumAttrs(st[k]), NEW j \in 0 .. Length(st[k], i) - 1
          PROVE  r[at[k] + Lead(st[k], i) + j] = AttrValue(st[k], k, i, j)
        <3>1. at[k] + Lead(st[k], i) + j \in 10 .. 10 + ms - 1
            BY CellsAre
        <3>2. r[at[k] + Lead(st[k], i) + j] = m[at[k] + Lead(st[k], i) + j]
            BY <1>1, <3>1
        <3> QED BY <3>2 DEF Filled
    <2> QED BY <2>2, <2>3, <2>4
<1> QED BY <1>2 DEF Filled

\* Sections that hold the same have the same contents.
LEMMA ContentsKept ==
    ASSUME NEW m, NEW base, NEW n, NEW q, Laid(m, base, n, q),
           NEW r, NEW req \in Counts, Same(m, q, r, req),
           NEW st, NEW at, Contents(m, base, q, st, at)
    PROVE  Contents(r, base, req, st, at)
<1>1. PICK o : o = ObjectsAt(q)
    OBVIOUS
<1>2. PICK p : p = PtrsAt(q)
    OBVIOUS
<1>3. PICK o2 : o2 = ObjectsAt(req)
    OBVIOUS
<1>4. PICK p2 : p2 = PtrsAt(req)
    OBVIOUS
<1>5. PICK ms : ms = m[9]
    OBVIOUS
<1>6. PICK mo : mo = Len(st)
    OBVIOUS
<1>7. PICK mp : mp = m[p + 1]
    OBVIOUS
<1>8. /\ st \in Seq(Shapes) /\ m[o + 1] = mo /\ Placing(st, at, ms) /\ Filled(m, base, st, at)
      /\ Indexed(m, base, q, st, at) /\ Listed(m, base, q, st, at)
    BY <1>1, <1>5, <1>6 DEF Contents
<1>9. ms \in Nat /\ mo \in Nat /\ mp \in Nat
    BY <1>1, <1>2, <1>5, <1>6, <1>7, <1>8, CountsAre
<1>10. /\ r[9] = ms /\ r[o2 + 1] = mo /\ r[p2 + 1] = mp
       /\ Copies(r, 10, m, 10, ms) /\ Copies(r, o2 + 2, m, o + 2, 3 * mo)
       /\ Copies(r, p2 + 2, m, p + 2, mp)
    BY <1>1, <1>2, <1>3, <1>4, <1>5, <1>7, <1>8 DEF Same
<1>11. o \in Nat /\ o2 \in Nat /\ p \in Nat /\ p2 \in Nat
    BY <1>1, <1>2, <1>3, <1>4, CountsAre, PlacesAre
<1>12. Filled(r, base, st, at)
    BY <1>8, <1>9, <1>10, FilledIs
<1>13. ASSUME NEW k \in 1 .. mo, NEW i \in 0 .. 2 PROVE r[EntryAt(req, k) + i] = m[EntryAt(q, k) + i]
    <2>1. PICK j : j = 3 * (k - 1) + i
        OBVIOUS
    <2>2. j \in 0 .. 3 * mo - 1
        BY <1>9, <2>1
    <2>3. r[(o2 + 2) + j] = m[(o + 2) + j]
        BY <1>10, <2>2 DEF Copies
    <2>4. EntryAt(req, k) + i = (o2 + 2) + j /\ EntryAt(q, k) + i = (o + 2) + j
        BY <1>1, <1>3, <1>11, <2>1 DEF EntryAt
    <2> QED BY <2>3, <2>4
<1>14. ASSUME NEW k \in 1 .. mo
       PROVE  /\ r[EntryAt(req, k)] = m[EntryAt(q, k)]
              /\ r[EntryAt(req, k) + 1] = m[EntryAt(q, k) + 1]
              /\ r[EntryAt(req, k) + 2] = m[EntryAt(q, k) + 2]
    <2>1. 0 \in 0 .. 2 /\ 1 \in 0 .. 2 /\ 2 \in 0 .. 2
        OBVIOUS
    <2>2. EntryAt(req, k) + 0 = EntryAt(req, k) /\ EntryAt(q, k) + 0 = EntryAt(q, k)
        BY <1>1, <1>3, <1>9, <1>11 DEF EntryAt
    <2>3. r[EntryAt(req, k) + 0] = m[EntryAt(q, k) + 0]
        BY <1>13, <2>1
    <2> QED BY <1>13, <2>1, <2>2, <2>3
<1>15. Indexed(r, base, req, st, at)
    BY <1>6, <1>8, <1>14 DEF Indexed
<1>16. \A l \in 0 .. mp - 1 : r[p2 + 2 + l] = m[p + 2 + l]
    BY <1>10 DEF Copies
<1>17. Listed(r, base, req, st, at)
    <2>1. /\ \A l \in 0 .. mp - 1 :
                \E k \in 1 .. Len(st) : \E i \in 1 .. NumAttrs(st[k]) :
                    m[p + 2 + l] = base + at[k] + i
          /\ \A k \in 1 .. Len(st) : \A i \in 1 .. NumAttrs(st[k]) :
                \E l \in 0 .. mp - 1 : m[p + 2 + l] = base + at[k] + i
        BY <1>2, <1>7, <1>8 DEF Listed
    <2>2. ASSUME NEW l \in 0 .. mp - 1
          PROVE  \E k \in 1 .. Len(st) : \E i \in 1 .. NumAttrs(st[k]) :
                     r[p2 + 2 + l] = base + at[k] + i
        BY <1>16, <2>1
    <2>3. ASSUME NEW k \in 1 .. Len(st), NEW i \in 1 .. NumAttrs(st[k])
          PROVE  \E l \in 0 .. mp - 1 : r[p2 + 2 + l] = base + at[k] + i
        <3>1. PICK l \in 0 .. mp - 1 : m[p + 2 + l] = base + at[k] + i
            BY <2>1
        <3>2. r[p2 + 2 + l] = base + at[k] + i
            BY <1>16, <3>1
        <3> QED BY <3>2
    <2> QED BY <1>4, <1>10, <2>2, <2>3 DEF Listed
<1> QED BY <1>3, <1>6, <1>8, <1>10, <1>12, <1>15, <1>17 DEF Contents

\* An image that holds nothing.
LEMMA EmptiedIs ==
    ASSUME NEW m, NEW base, NEW q, Emptied(m, q)
    PROVE  Contents(m, base, q, <<>>, <<>>)
<1>1. m[9] = 0 /\ m[ObjectsAt(q) + 1] = 0 /\ m[PtrsAt(q) + 1] = 0
    BY DEF Emptied
<1>2. <<>> \in Seq(Shapes) /\ Len(<<>>) = 0 /\ 1 .. 0 = {} /\ 0 .. 0 - 1 = {}
    OBVIOUS
<1>3. <<>> \in [1 .. 0 -> Nat]
    OBVIOUS
<1>4. Placing(<<>>, <<>>, 0)
    BY <1>2, <1>3 DEF Placing
<1>5. Filled(m, base, <<>>, <<>>) /\ Indexed(m, base, q, <<>>, <<>>) /\ Listed(m, base, q, <<>>, <<>>)
    BY <1>1, <1>2 DEF Filled, Indexed, Listed
<1> QED BY <1>1, <1>2, <1>4, <1>5 DEF Contents

-----------------------------------------------------------------------------
(* Remapping.                                                              *)

LEMMA ShiftedIs ==
    ASSUME NEW n \in Nat, NEW m \in Memories(n), NEW d \in Int, NEW cells,
           \A a \in cells : a \in 0 .. n - 1 => m[a] + d >= 0
    PROVE  /\ Shifted(m, cells, d) \in Memories(n)
           /\ \A a \in 0 .. n - 1 : a \notin cells => Shifted(m, cells, d)[a] = m[a]
           /\ \A a \in 0 .. n - 1 : a \in cells => Shifted(m, cells, d)[a] = m[a] + d
<1>1. DOMAIN m = 0 .. n - 1 /\ \A a \in 0 .. n - 1 : m[a] \in Nat
    BY DEF Memories
<1>2. Shifted(m, cells, d) = [a \in 0 .. n - 1 |-> IF a \in cells THEN m[a] + d ELSE m[a]]
    BY <1>1 DEF Shifted
<1>3. ASSUME NEW a \in 0 .. n - 1, a \in cells PROVE m[a] + d \in Nat
    BY <1>1, <1>3
<1> QED BY <1>1, <1>2, <1>3 DEF Memories

\* The header is shifted to the place of the image.
LEMMA RemapHeaderIs ==
    ASSUME NEW m, NEW base, NEW n, NEW q, Laid(m, base, n, q), NEW base2 \in Nat
    PROVE  /\ Laid(RemapHeader(m, base2 - base), base2, n, q)
           /\ \A a \in 0 .. n - 1 : a >= 8 => RemapHeader(m, base2 - base)[a] = m[a]
<1>1. PICK o : o = ObjectsAt(q)
    OBVIOUS
<1>2. PICK p : p = PtrsAt(q)
    OBVIOUS
<1>3. PICK g : g = RangesAt(q)
    OBVIOUS
<1>4. PICK d : d = base2 - base
    OBVIOUS
<1>5. n \in Nat /\ base \in Nat /\ m \in Memories(n) /\ q \in Counts /\ EndAt(q) <= n
    BY CountsAre
<1>6. /\ q[3] \in Nat /\ q[4] \in Nat /\ q[5] \in Nat /\ q[6] \in Nat
      /\ o \in Nat /\ o = 10 + q[3] /\ p \in Nat /\ p = o + 3 * q[4] + 2
      /\ g \in Nat /\ g = p + q[5] + 2 /\ g + 2 * q[6] + 2 <= n
    BY <1>1, <1>2, <1>3, <1>5, PlacesAre
<1>7. /\ m[0] = base /\ m[3] = base + 8 /\ m[4] = base + o /\ m[5] = base + p /\ m[6] = base + g
    BY <1>1, <1>2, <1>3 DEF Laid
<1>8. PICK r : r = RemapHeader(m, d)
    OBVIOUS
<1>9. PICK cells : cells = {0, 3, 4, 5, 6}
    OBVIOUS
<1>10. r = Shifted(m, cells, d)
    <2>1. {0} \cup (3 .. 6) = {0, 3, 4, 5, 6}
        OBVIOUS
    <2> QED BY <1>8, <1>9, <2>1 DEF RemapHeader, Sections
<1>11. \A a \in cells : m[a] + d >= 0
    BY <1>4, <1>5, <1>6, <1>7, <1>9
<1>12. /\ r \in Memories(n) /\ \A a \in 0 .. n - 1 : a \notin cells => r[a] = m[a]
       /\ \A a \in 0 .. n - 1 : a \in cells => r[a] = m[a] + d
    BY <1>4, <1>5, <1>10, <1>11, ShiftedIs
<1>13. r[0] = base2 /\ r[3] = base2 + 8 /\ r[4] = base2 + o /\ r[5] = base2 + p /\ r[6] = base2 + g
    <2>1. \A a \in {0, 3, 4, 5, 6} : a \in 0 .. n - 1
        BY <1>5, <1>6
    <2>2. /\ r[0] = m[0] + d /\ r[3] = m[3] + d /\ r[4] = m[4] + d /\ r[5] = m[5] + d
          /\ r[6] = m[6] + d
        BY <1>9, <1>12, <2>1
    <2> QED BY <1>4, <1>5, <1>6, <1>7, <2>2
<1>14. ASSUME NEW a \in 0 .. n - 1, a >= 8 PROVE r[a] = m[a]
    BY <1>9, <1>12, <1>14
<1>15. r[1] = m[1]
    <2>1. 1 \in 0 .. n - 1
        BY <1>5, <1>6
    <2> QED BY <1>9, <1>12, <2>1
<1>16. \A a \in {8, 9, o, o + 1, p, p + 1, g, g + 1} : a \in 0 .. n - 1 /\ a >= 8
    BY <1>5, <1>6
<1>17. /\ r[8] = m[8] /\ r[9] = m[9] /\ r[o] = m[o] /\ r[o + 1] = m[o + 1]
       /\ r[p] = m[p] /\ r[p + 1] = m[p + 1] /\ r[g] = m[g] /\ r[g + 1] = m[g + 1]
    BY <1>14, <1>16
<1>18. RangesKept(r, q)
    BY <1>3, <1>17 DEF Laid, RangesKept
<1>19. Laid(r, base2, n, q)
    BY <1>1, <1>2, <1>3, <1>12, <1>13, <1>15, <1>17, <1>18 DEF Laid
<1> QED BY <1>4, <1>8, <1>14, <1>19

\* The entry of an object is right for the image's place, as it says itself.
EntryRight(m, base, q, d, i) ==
    LET begin == m[EntryAt(q, i)] + d
    IN  /\ base + 10 <= begin /\ begin <= base + 10 + m[9]
        /\ i > 1 => m[EntryAt(q, i - 1)] + d + m[EntryAt(q, i - 1) + 2] <= begin

\* The entries are shifted, if all are right; else some of them.
EntriesShifted(ok, r, m, base, n, q, d) ==
    /\ Laid(r, base, n, q)
    /\ \A a \in 0 .. n - 1 :
          (\A i \in 1 .. m[ObjectsAt(q) + 1] : a # EntryAt(q, i)) => r[a] = m[a]
    /\ ok => \A i \in 1 .. m[ObjectsAt(q) + 1] : r[EntryAt(q, i)] = m[EntryAt(q, i)] + d
    /\ ok = \A i \in 1 .. m[ObjectsAt(q) + 1] : EntryRight(m, base, q, d, i)

LEMMA RemapObjectsIs ==
    ASSUME NEW m, NEW base, NEW n, NEW q, Laid(m, base, n, q), NEW d \in Int
    PROVE  EntriesShifted(RemapObjects(m, d).ok, RemapObjects(m, d).mem, m, base, n, q, d)
<1>1. PICK o : o = ObjectsAt(q)
    OBVIOUS
<1>2. PICK p : p = PtrsAt(q)
    OBVIOUS
<1>3. PICK g : g = RangesAt(q)
    OBVIOUS
<1>4. PICK ms : ms = m[9]
    OBVIOUS
<1>5. PICK mo : mo = m[o + 1]
    OBVIOUS
<1>6. /\ n \in Nat /\ base \in Nat /\ ms \in Nat /\ mo \in Nat /\ q \in Counts
      /\ m \in Memories(n) /\ ms <= q[3] /\ mo <= q[4] /\ EndAt(q) <= n
    BY <1>1, <1>4, <1>5, CountsAre
<1>7. /\ q[3] \in Nat /\ q[4] \in Nat /\ q[5] \in Nat /\ q[6] \in Nat
      /\ o \in Nat /\ o = 10 + q[3] /\ p \in Nat /\ p = o + 3 * q[4] + 2
      /\ g \in Nat /\ g = p + q[5] + 2 /\ g + 2 * q[6] + 2 <= n
    BY <1>1, <1>2, <1>3, <1>6, PlacesAre
<1>8. /\ Offset(m, 4) = o /\ NumEntities(m, 4) = mo /\ UsedSize(m, 3) = ms + 2 /\ Fits(m, 4)
      /\ m[3] = base + 8
    <2>1. UsedSize(m, 4) = 3 * mo + 2 /\ MaxSize(m, 4) = 3 * q[4] + 2
        BY <1>1, <1>5, ImageIs
    <2>2. Fits(m, 4)
        BY <1>6, <1>7, <2>1 DEF Fits
    <2> QED BY <1>1, <1>4, <1>5, <2>2, ImageIs DEF Laid
<1>9. SlotsBegin(m) = base + 10 /\ SlotsEnd(m) = base + 10 + ms
    BY <1>6, <1>8 DEF SlotsBegin, SlotsEnd
<1>10. \A i \in Int : DataAt(m, 4) + EntitySize(4) * (i - 1) = EntryAt(q, i)
    BY <1>1, <1>7, <1>8 DEF DataAt, EntitySize, EntryAt
<1>11. \A i \in Int : EntryAt(q, i) = o + 2 + 3 * (i - 1)
    BY <1>1 DEF EntryAt
<1>12. \A a \in 0 .. n - 1 : m[a] \in Nat
    BY <1>6 DEF Memories
<1>13. PICK bad : bad = {i \in 1 .. mo : \/ m[EntryAt(q, i)] + d < base + 10
                                         \/ m[EntryAt(q, i)] + d > base + 10 + ms
                                         \/ /\ i > 1
                                            /\ m[EntryAt(q, i)] + d <
                                                  m[EntryAt(q, i - 1)] + d + m[EntryAt(q, i - 1) + 2]}
    OBVIOUS
<1>14. PICK cells : cells = {EntryAt(q, i) : i \in BeforeBad(bad, mo)}
    OBVIOUS
<1>15. RemapObjects(m, d) = [ok |-> bad = {}, mem |-> Shifted(m, cells, d)]
    <2> DEFINE E(i) == DataAt(m, 4) + EntitySize(4) * (i - 1)
               B(i) == \/ m[E(i)] + d < SlotsBegin(m)
                       \/ m[E(i)] + d > SlotsEnd(m)
                       \/ i > 1 /\ m[E(i)] + d < m[E(i - 1)] + d + m[E(i - 1) + 2]
    <2>1. PICK bad0 : bad0 = {i \in 1 .. mo : B(i)}
        OBVIOUS
    <2>2. RemapObjects(m, d) = [ok  |-> bad0 = {},
                                mem |-> Shifted(m, {E(i) : i \in BeforeBad(bad0, mo)}, d)]
        BY <1>8, <2>1 DEF RemapObjects
    <2> HIDE DEF E
    <2>3. \A i \in Int : E(i) = EntryAt(q, i)
        BY <1>10 DEF E
    <2>4. ASSUME NEW i \in 1 .. mo
          PROVE  B(i) <=> \/ m[EntryAt(q, i)] + d < base + 10
                          \/ m[EntryAt(q, i)] + d > base + 10 + ms
                          \/ /\ i > 1
                             /\ m[EntryAt(q, i)] + d <
                                   m[EntryAt(q, i - 1)] + d + m[EntryAt(q, i - 1) + 2]
        <3>1. i \in Int /\ i - 1 \in Int
            BY <1>6
        <3>2. E(i) = EntryAt(q, i) /\ E(i - 1) = EntryAt(q, i - 1)
            BY <2>3, <3>1
        <3> QED BY <1>9, <3>2
    <2> HIDE DEF B
    <2>5. bad0 = bad
        BY <1>13, <2>1, <2>4
    <2>6. {E(i) : i \in BeforeBad(bad0, mo)} = cells
        <3>1. \A i \in BeforeBad(bad0, mo) : E(i) = EntryAt(q, i)
            BY <1>6, <2>3 DEF BeforeBad
        <3> QED BY <1>14, <2>5, <3>1
    <2> QED BY <2>2, <2>5, <2>6
<1>16. BeforeBad(bad, mo) \subseteq (1 .. mo) \ bad
    BY <1>6 DEF BeforeBad
<1>17. bad = {} => BeforeBad(bad, mo) = 1 .. mo
    BY <1>6 DEF BeforeBad
<1>18. \A i \in 1 .. mo : EntryAt(q, i) \in 0 .. n - 1 /\ EntryAt(q, i) > o + 1 /\ EntryAt(q, i) < p
    <2>1. ASSUME NEW i \in 1 .. mo
          PROVE  EntryAt(q, i) \in 0 .. n - 1 /\ EntryAt(q, i) > o + 1 /\ EntryAt(q, i) < p
        <3>1. PICK e : e = EntryAt(q, i)
            OBVIOUS
        <3>2. i \in Int /\ 1 <= i /\ i <= mo
            BY <1>6
        <3>3. e = o + 2 + 3 * (i - 1)
            BY <1>11, <3>1, <3>2
        <3> QED BY <1>6, <1>7, <3>1, <3>2, <3>3
    <2> QED BY <2>1
<1>19. PICK r : r = Shifted(m, cells, d)
    OBVIOUS
<1>20. /\ r \in Memories(n) /\ \A a \in 0 .. n - 1 : a \notin cells => r[a] = m[a]
       /\ \A a \in 0 .. n - 1 : a \in cells => r[a] = m[a] + d
    <2>1. ASSUME NEW a \in cells, a \in 0 .. n - 1 PROVE m[a] + d >= 0
        <3>1. PICK i \in BeforeBad(bad, mo) : a = EntryAt(q, i)
            BY <1>14, <2>1
        <3>2. i \in 1 .. mo /\ i \notin bad
            BY <1>16, <3>1
        <3>3. ~(m[a] + d < base + 10)
            BY <1>13, <3>1, <3>2
        <3>4. m[a] + d \in Int
            BY <1>12, <2>1
        <3> QED BY <1>6, <3>3, <3>4
    <2> QED BY <1>6, <1>19, <2>1, ShiftedIs
<1>21. ASSUME NEW a \in 0 .. n - 1, \A i \in 1 .. mo : a # EntryAt(q, i) PROVE r[a] = m[a]
    BY <1>14, <1>16, <1>20, <1>21
<1>22. ASSUME bad = {}, NEW i \in 1 .. mo PROVE r[EntryAt(q, i)] = m[EntryAt(q, i)] + d
    BY <1>14, <1>17, <1>18, <1>20, <1>22
<1>23. Laid(r, base, n, q)
    <2>1. ASSUME NEW a \in 0 .. n - 1, a <= o + 1 \/ a >= p PROVE r[a] = m[a]
        <3>1. \A i \in 1 .. mo : a # EntryAt(q, i)
            BY <1>7, <1>18, <2>1
        <3> QED BY <1>21, <3>1
    <2>2. \A a \in {0, 1, 3, 4, 5, 6, 8, 9, o, o + 1, p, p + 1, g, g + 1} :
              a \in 0 .. n - 1 /\ (a <= o + 1 \/ a >= p)
        BY <1>6, <1>7
    <2>3. \A a \in {0, 1, 3, 4, 5, 6, 8, 9, o, o + 1, p, p + 1, g, g + 1} : r[a] = m[a]
        BY <2>1, <2>2
    <2>4. m[9] <= q[3] /\ m[o + 1] <= q[4] /\ m[p + 1] <= q[5]
        BY <1>1, <1>2 DEF Laid
    <2>5. Worded(r, m, q)
        BY <1>1, <1>2, <1>3, <2>3, <2>4 DEF Worded
    <2> QED BY <1>20, <2>5, WordedIs
<1>24. ASSUME NEW i \in 1 .. mo PROVE i \notin bad <=> EntryRight(m, base, q, d, i)
    <2>1. m[EntryAt(q, i)] + d \in Int
        BY <1>12, <1>18
    <2>2. CASE i = 1
        BY <1>4, <1>6, <1>13, <2>1, <2>2 DEF EntryRight
    <2>3. CASE i # 1
        <3>1. i - 1 \in 1 .. mo
            BY <1>6, <2>3
        <3>2. EntryAt(q, i - 1) + 2 \in 0 .. n - 1
            <4>1. PICK e : e = EntryAt(q, i - 1)
                OBVIOUS
            <4>2. e = o + 2 + 3 * ((i - 1) - 1) /\ i - 1 \in Int /\ 1 <= i - 1 /\ i - 1 <= mo
                BY <1>6, <1>11, <3>1, <4>1
            <4> QED BY <1>6, <1>7, <4>1, <4>2
        <3>3. m[EntryAt(q, i - 1)] + d + m[EntryAt(q, i - 1) + 2] \in Int
            BY <1>12, <1>18, <3>1, <3>2
        <3> QED BY <1>4, <1>6, <1>13, <2>1, <2>3, <3>3 DEF EntryRight
    <2> QED BY <2>2, <2>3
<1>25. (bad = {}) = \A i \in 1 .. mo : EntryRight(m, base, q, d, i)
    <2>1. bad \subseteq 1 .. mo
        BY <1>13
    <2>2. (bad = {}) <=> \A i \in 1 .. mo : i \notin bad
        BY <2>1
    <2> QED BY <1>24, <2>2
<1>26. PICK ok : ok = (bad = {})
    OBVIOUS
<1>27. RemapObjects(m, d).ok = ok /\ RemapObjects(m, d).mem = r
    BY <1>15, <1>19, <1>26
<1>28. EntriesShifted(ok, r, m, base, n, q, d)
    BY <1>1, <1>5, <1>21, <1>22, <1>23, <1>25, <1>26 DEF EntriesShifted
<1> QED BY <1>27, <1>28

\* A pointer's address is right for the image's place, and so is the pointer.
PointerAt(q, i) == PtrsAt(q) + 1 + i
CellOf(m, base, q, d, i) == (m[PointerAt(q, i)] + d) - base
Within(m, base, x) == base + 10 <= x /\ x < base + 10 + m[9]
PointerRight(m, base, q, d, i) ==
    /\ Within(m, base, m[PointerAt(q, i)] + d)
    /\ Within(m, base, m[CellOf(m, base, q, d, i)] + d)

\* The pointers and their addresses are shifted, if all are right; else some.
PointersShifted(ok, r, m, base, n, q, d) ==
    /\ Laid(r, base, n, q)
    /\ \A a \in 0 .. n - 1 :
          (\A i \in 1 .. m[PtrsAt(q) + 1] : a # PointerAt(q, i) /\ a # CellOf(m, base, q, d, i))
          => r[a] = m[a]
    /\ ok => \A i \in 1 .. m[PtrsAt(q) + 1] :
                /\ r[PointerAt(q, i)] = m[PointerAt(q, i)] + d
                /\ r[CellOf(m, base, q, d, i)] = m[CellOf(m, base, q, d, i)] + d
    /\ ok = \A i \in 1 .. m[PtrsAt(q) + 1] : PointerRight(m, base, q, d, i)
    /\ r[9] = m[9] /\ r[ObjectsAt(q) + 1] = m[ObjectsAt(q) + 1]
    /\ r[PtrsAt(q) + 1] = m[PtrsAt(q) + 1] /\ r[RangesAt(q)] = m[RangesAt(q)]

LEMMA RemapDataPtrsIs ==
    ASSUME NEW m, NEW base, NEW n, NEW q, Laid(m, base, n, q), NEW d \in Int
    PROVE  PointersShifted(RemapDataPtrs(m, d).ok, RemapDataPtrs(m, d).mem, m, base, n, q, d)
<1>1. PICK o : o = ObjectsAt(q)
    OBVIOUS
<1>2. PICK p : p = PtrsAt(q)
    OBVIOUS
<1>3. PICK g : g = RangesAt(q)
    OBVIOUS
<1>4. PICK ms : ms = m[9]
    OBVIOUS
<1>5. PICK mp : mp = m[p + 1]
    OBVIOUS
<1>6. /\ n \in Nat /\ base \in Nat /\ ms \in Nat /\ mp \in Nat /\ q \in Counts
      /\ m \in Memories(n) /\ ms <= q[3] /\ mp <= q[5] /\ EndAt(q) <= n
    BY <1>2, <1>4, <1>5, CountsAre
<1>7. /\ q[3] \in Nat /\ q[4] \in Nat /\ q[5] \in Nat /\ q[6] \in Nat
      /\ o \in Nat /\ o = 10 + q[3] /\ p \in Nat /\ p = o + 3 * q[4] + 2
      /\ g \in Nat /\ g = p + q[5] + 2 /\ g + 2 * q[6] + 2 <= n
    BY <1>1, <1>2, <1>3, <1>6, PlacesAre
<1>8. /\ Offset(m, 5) = p /\ NumEntities(m, 5) = mp /\ UsedSize(m, 3) = ms + 2 /\ Fits(m, 5)
      /\ m[3] = base + 8 /\ m[0] = base
    <2>1. UsedSize(m, 5) = mp + 2 /\ MaxSize(m, 5) = q[5] + 2
        BY <1>2, <1>5, ImageIs
    <2>2. Fits(m, 5)
        BY <1>6, <1>7, <2>1 DEF Fits
    <2> QED BY <1>2, <1>4, <1>5, <2>2, ImageIs DEF Laid
<1>9. \A x : InSlots(m, x) <=> Within(m, base, x)
    <2>1. SlotsBegin(m) = base + 10 /\ SlotsEnd(m) = base + 10 + ms
        BY <1>6, <1>8 DEF SlotsBegin, SlotsEnd
    <2> QED BY <1>4, <2>1 DEF InSlots, Within
<1>10. \A i \in Int : PointerAt(q, i) \in Int /\ DataAt(m, 5) + i - 1 = PointerAt(q, i)
    BY <1>2, <1>7, <1>8 DEF DataAt, PointerAt
<1>11. \A i \in 1 .. mp : /\ PointerAt(q, i) \in 0 .. n - 1
                          /\ PointerAt(q, i) > p + 1 /\ PointerAt(q, i) < g
    BY <1>2, <1>6, <1>7 DEF PointerAt
<1>12. \A a \in 0 .. n - 1 : m[a] \in Nat
    BY <1>6 DEF Memories
<1>13. PICK bad : bad = {i \in 1 .. mp : ~PointerRight(m, base, q, d, i)}
    OBVIOUS
<1>14. PICK good : good = BeforeBad(bad, mp)
    OBVIOUS
<1>15. PICK cells : cells = {PointerAt(q, i) : i \in good} \cup {CellOf(m, base, q, d, i) : i \in good}
    OBVIOUS
<1>16. good \subseteq (1 .. mp) \ bad /\ (bad = {} => good = 1 .. mp)
    BY <1>6, <1>14 DEF BeforeBad
<1>17. RemapDataPtrs(m, d) = [ok |-> bad = {}, mem |-> Shifted(m, cells, d)]
    <2> DEFINE E(i) == DataAt(m, 5) + i - 1
               C(i) == (m[E(i)] + d) - m[0]
               B(i) == ~InSlots(m, m[E(i)] + d) \/ ~InSlots(m, m[C(i)] + d)
    <2>1. PICK bad0 : bad0 = {i \in 1 .. mp : B(i)}
        OBVIOUS
    <2>2. RemapDataPtrs(m, d) =
              [ok  |-> bad0 = {},
               mem |-> Shifted(m, {E(i) : i \in BeforeBad(bad0, mp)}
                                       \cup {C(i) : i \in BeforeBad(bad0, mp)}, d)]
        BY <1>8, <2>1 DEF RemapDataPtrs
    <2> HIDE DEF E, C
    <2>3. \A i \in 1 .. mp : E(i) = PointerAt(q, i) /\ C(i) = CellOf(m, base, q, d, i)
        <3>1. ASSUME NEW i \in 1 .. mp
              PROVE  E(i) = PointerAt(q, i) /\ C(i) = CellOf(m, base, q, d, i)
            <4>1. i \in Int
                BY <1>6
            <4>2. E(i) = PointerAt(q, i)
                BY <1>10, <4>1 DEF E
            <4>3. C(i) = CellOf(m, base, q, d, i)
                BY <1>8, <4>2 DEF C, CellOf
            <4> QED BY <4>2, <4>3
        <3> QED BY <3>1
    <2>4. \A i \in 1 .. mp : B(i) <=> ~PointerRight(m, base, q, d, i)
        BY <1>9, <2>3 DEF PointerRight
    <2> HIDE DEF B
    <2>5. bad0 = bad
        BY <1>13, <2>1, <2>4
    <2>6. /\ {E(i) : i \in BeforeBad(bad0, mp)} = {PointerAt(q, i) : i \in good}
          /\ {C(i) : i \in BeforeBad(bad0, mp)} = {CellOf(m, base, q, d, i) : i \in good}
        <3>1. \A i \in good : E(i) = PointerAt(q, i) /\ C(i) = CellOf(m, base, q, d, i)
            BY <1>16, <2>3
        <3> QED BY <1>14, <2>5, <3>1
    <2> QED BY <1>15, <2>2, <2>5, <2>6
<1>18. ASSUME NEW i \in 1 .. mp, i \notin bad
       PROVE  /\ CellOf(m, base, q, d, i) \in 10 .. 10 + ms - 1
              /\ m[PointerAt(q, i)] + d >= 0 /\ m[CellOf(m, base, q, d, i)] + d >= 0
    <2>1. PointerRight(m, base, q, d, i)
        BY <1>13, <1>18
    <2>2. PICK x : x = m[PointerAt(q, i)] + d
        OBVIOUS
    <2>3. x \in Int
        BY <1>11, <1>12, <2>2
    <2>4. CellOf(m, base, q, d, i) = x - base
        BY <2>2 DEF CellOf
    <2>5. base + 10 <= x /\ x < base + 10 + ms
        BY <1>4, <2>1, <2>2 DEF PointerRight, Within
    <2>6. x - base \in 10 .. 10 + ms - 1 /\ x - base \in 0 .. n - 1
        BY <1>6, <1>7, <2>3, <2>5
    <2>7. base + 10 <= m[x - base] + d
        BY <1>4, <2>1, <2>4 DEF PointerRight, Within
    <2>8. m[x - base] + d \in Int
        BY <1>12, <2>6
    <2> QED BY <1>6, <2>2, <2>3, <2>4, <2>5, <2>6, <2>7, <2>8
<1>19. PICK r : r = Shifted(m, cells, d)
    OBVIOUS
<1>20. /\ r \in Memories(n) /\ \A a \in 0 .. n - 1 : a \notin cells => r[a] = m[a]
       /\ \A a \in 0 .. n - 1 : a \in cells => r[a] = m[a] + d
    <2>1. ASSUME NEW a \in cells PROVE m[a] + d >= 0
        <3>1. PICK i \in good : a = PointerAt(q, i) \/ a = CellOf(m, base, q, d, i)
            BY <1>15, <2>1
        <3>2. i \in 1 .. mp /\ i \notin bad
            BY <1>16, <3>1
        <3> QED BY <1>18, <3>1, <3>2
    <2> QED BY <1>6, <1>19, <2>1, ShiftedIs
<1>21. ASSUME NEW a \in 0 .. n - 1,
              \A i \in 1 .. mp : a # PointerAt(q, i) /\ a # CellOf(m, base, q, d, i)
       PROVE  r[a] = m[a]
    BY <1>15, <1>16, <1>20, <1>21
<1>22. ASSUME bad = {}, NEW i \in 1 .. mp
       PROVE  /\ r[PointerAt(q, i)] = m[PointerAt(q, i)] + d
              /\ r[CellOf(m, base, q, d, i)] = m[CellOf(m, base, q, d, i)] + d
    <2>1. i \in good /\ i \notin bad
        BY <1>16, <1>22
    <2>2. PointerAt(q, i) \in cells /\ CellOf(m, base, q, d, i) \in cells
        BY <1>15, <2>1
    <2>3. CellOf(m, base, q, d, i) \in 0 .. n - 1
        <3>1. CellOf(m, base, q, d, i) \in 10 .. 10 + ms - 1
            BY <1>18, <2>1
        <3> QED BY <1>6, <1>7, <3>1
    <2> QED BY <1>11, <1>20, <2>2, <2>3
<1>23. ASSUME NEW a \in 0 .. n - 1, a < 10 \/ (a >= o /\ a <= p + 1) \/ a >= g PROVE r[a] = m[a]
    <2>1. ASSUME NEW i \in good PROVE a # PointerAt(q, i) /\ a # CellOf(m, base, q, d, i)
        <3>1. i \in 1 .. mp /\ i \notin bad
            BY <1>16, <2>1
        <3>2. CellOf(m, base, q, d, i) \in 10 .. 10 + ms - 1
            BY <1>18, <3>1
        <3>3. a # CellOf(m, base, q, d, i)
            BY <1>6, <1>7, <1>23, <3>2
        <3> QED BY <1>7, <1>11, <1>23, <3>1, <3>3
    <2>2. a \notin cells
        BY <1>15, <2>1
    <2> QED BY <1>20, <2>2
<1>24. /\ \A a \in {0, 1, 3, 4, 5, 6, 8, o, p, g} : r[a] = m[a]
       /\ r[9] = m[9] /\ r[o + 1] = m[o + 1] /\ r[p + 1] = m[p + 1] /\ r[g + 1] = m[g + 1]
    <2>1. \A a \in {0, 1, 3, 4, 5, 6, 8, 9, o, o + 1, p, p + 1, g, g + 1} :
              a \in 0 .. n - 1 /\ (a < 10 \/ (a >= o /\ a <= p + 1) \/ a >= g)
        BY <1>6, <1>7
    <2> QED BY <1>23, <2>1
<1>25. Laid(r, base, n, q)
    <2>1. m[9] <= q[3] /\ m[o + 1] <= q[4] /\ m[p + 1] <= q[5]
        BY <1>1, <1>2 DEF Laid
    <2>2. Worded(r, m, q)
        BY <1>1, <1>2, <1>3, <1>24, <2>1 DEF Worded
    <2> QED BY <1>20, <2>2, WordedIs
<1>26. (bad = {}) = \A i \in 1 .. mp : PointerRight(m, base, q, d, i)
    BY <1>13
<1>27. PICK ok : ok = (bad = {})
    OBVIOUS
<1>28. RemapDataPtrs(m, d).ok = ok /\ RemapDataPtrs(m, d).mem = r
    BY <1>17, <1>19, <1>27
<1>29. r[g] = m[g]
    BY <1>24
<1>30. PointersShifted(ok, r, m, base, n, q, d)
    BY <1>1, <1>2, <1>3, <1>5, <1>21, <1>22, <1>24, <1>25, <1>26, <1>27, <1>29 DEF PointersShifted
<1> QED BY <1>28, <1>30

\* There are no ranges to be shifted; a section that has been lost is refused.
LEMMA RemapGarbageIs ==
    ASSUME NEW m, NEW base, NEW n, NEW q, Laid(m, base, n, q), NEW d \in Int
    PROVE  /\ RemapGarbage(m, d).mem = m
           /\ RemapGarbage(m, d).ok <=> m[RangesAt(q)] # 0
<1>1. PICK g : g = RangesAt(q)
    OBVIOUS
<1>2. PICK num : num = IF Fits(m, 6) THEN NumEntities(m, 6) ELSE 0
    OBVIOUS
<1>3. n \in Nat /\ m \in Memories(n) /\ q \in Counts /\ m[g + 1] \in Nat
    BY <1>1, CountsAre
<1>4. /\ NumEntities(m, 6) = m[g + 1] /\ UsedSize(m, 6) = 2 * m[g + 1] + 2
      /\ m[g] # 0 => MaxSize(m, 6) = 2 * q[6] + 2
      /\ m[g] = 0 => MaxSize(m, 6) = 0
    BY <1>1, ImageIs
<1>5. q[6] \in Nat
    BY <1>3, LayoutIs
<1>6. RangesKept(m, q)
    BY DEF Laid
<1>7. m[g] # 0 => m[g + 1] = 0
    BY <1>1, <1>6 DEF RangesKept
<1>8. Fits(m, 6) <=> m[g] # 0
    <2>1. PICK k : k = m[g + 1]
        OBVIOUS
    <2>2. CASE m[g] # 0
        <3>1. UsedSize(m, 6) = 2 * 0 + 2 /\ MaxSize(m, 6) = 2 * q[6] + 2
            BY <1>4, <1>7, <2>2
        <3> QED BY <1>5, <2>2, <3>1 DEF Fits
    <2>3. CASE m[g] = 0
        <3>1. UsedSize(m, 6) = 2 * k + 2 /\ MaxSize(m, 6) = 0 /\ k \in Nat
            BY <1>3, <1>4, <2>1, <2>3
        <3> QED BY <2>3, <3>1 DEF Fits
    <2> QED BY <2>2, <2>3
<1>9. num = 0
    BY <1>2, <1>4, <1>7, <1>8
<1>10. \A bad : BeforeBad(bad, 0) = {}
    BY DEF BeforeBad
<1>11. PICK bad : bad = {i \in 1 .. num : ~InSlots(m, m[DataAt(m, 6) + EntitySize(6) * (i - 1)] + d)}
    OBVIOUS
<1>12. bad = {}
    BY <1>9, <1>11
<1>13. RemapGarbage(m, d) =
           [ok  |-> Fits(m, 6) /\ bad = {},
            mem |-> Shifted(m, {DataAt(m, 6) + EntitySize(6) * (i - 1) : i \in BeforeBad(bad, num)}, d)]
    BY <1>2, <1>11 DEF RemapGarbage
<1>14. {DataAt(m, 6) + EntitySize(6) * (i - 1) : i \in BeforeBad(bad, num)} = {}
    BY <1>9, <1>10
<1>15. Shifted(m, {}, d) = m
    BY <1>3 DEF Shifted, Memories
<1>16. PICK fits : fits = (Fits(m, 6) /\ bad = {})
    OBVIOUS
<1>17. RemapGarbage(m, d) = [ok |-> fits, mem |-> m]
    BY <1>13, <1>14, <1>15, <1>16
<1>18. RemapGarbage(m, d).mem = m /\ RemapGarbage(m, d).ok = fits
    BY <1>17
<1> QED BY <1>1, <1>8, <1>12, <1>16, <1>18

\* Remapping shifts the header, then entries, then pointers.
LEMMA RemapSteps ==
    ASSUME NEW m, NEW base, NEW n, NEW q, Laid(m, base, n, q), NEW base2 \in Nat, base2 # base
    PROVE  \E h, m1, r, ok1, ok2 :
              /\ Laid(h, base2, n, q) /\ \A a \in 0 .. n - 1 : a >= 8 => h[a] = m[a]
              /\ EntriesShifted(ok1, m1, h, base2, n, q, base2 - base)
              /\ PointersShifted(ok2, r, m1, base2, n, q, base2 - base)
              /\ Remap(m, base2).mem = r
              /\ Remap(m, base2).ok <=> ok1 /\ ok2 /\ r[RangesAt(q)] # 0
<1>1. PICK d : d = base2 - base
    OBVIOUS
<1>2. m[0] = base /\ base \in Nat
    BY DEF Laid
<1>3. d \in Int /\ d # 0 /\ base2 - m[0] = d
    BY <1>1, <1>2
<1>4. PICK h : h = RemapHeader(m, d)
    OBVIOUS
<1>5. Laid(h, base2, n, q) /\ \A a \in 0 .. n - 1 : a >= 8 => h[a] = m[a]
    BY <1>1, <1>4, RemapHeaderIs
<1>6. PICK x : x = RemapObjects(h, d)
    OBVIOUS
<1>7. EntriesShifted(x.ok, x.mem, h, base2, n, q, d)
    BY <1>3, <1>5, <1>6, RemapObjectsIs
<1>8. Laid(x.mem, base2, n, q)
    BY <1>7 DEF EntriesShifted
<1>9. PICK y : y = RemapDataPtrs(x.mem, d)
    OBVIOUS
<1>10. PointersShifted(y.ok, y.mem, x.mem, base2, n, q, d)
    BY <1>3, <1>8, <1>9, RemapDataPtrsIs
<1>11. Laid(y.mem, base2, n, q)
    BY <1>10 DEF PointersShifted
<1>12. PICK z : z = RemapGarbage(y.mem, d)
    OBVIOUS
<1>13. z.mem = y.mem /\ (z.ok <=> y.mem[RangesAt(q)] # 0)
    BY <1>3, <1>11, <1>12, RemapGarbageIs
<1>14. PICK s : s = RemapSlots(h)
    OBVIOUS
<1>15. s
    <2>1. /\ MaxSize(h, 3) = q[3] + 2 /\ NumEntities(h, 3) = h[9]
        BY <1>5, ImageIs
    <2>2. h[9] \in Nat /\ h[9] <= q[3] /\ q[3] \in Nat
        BY <1>5, CountsAre, LayoutIs
    <2>3. MaxSize(h, 3) >= NumEntities(h, 3)
        BY <2>1, <2>2
    <2>4. RemapSlots(h)
        BY <2>3 DEF RemapSlots
    <2> QED BY <1>14, <2>4
<1>16. PICK ok : ok = (s /\ x.ok /\ y.ok /\ z.ok)
    OBVIOUS
<1>17. Remap(m, base2) = [ok |-> ok, mem |-> z.mem]
    BY <1>3, <1>4, <1>6, <1>9, <1>12, <1>14, <1>16 DEF Remap
<1>18. Remap(m, base2).ok = ok /\ Remap(m, base2).mem = y.mem
    BY <1>13, <1>17
<1>19. ok <=> x.ok /\ y.ok /\ y.mem[RangesAt(q)] # 0
    BY <1>13, <1>15, <1>16
<1> QED BY <1>1, <1>5, <1>7, <1>10, <1>18, <1>19

\* Where the entries of the index and the list of pointers are.
LEMMA EntriesAre ==
    ASSUME NEW m, NEW base, NEW n, NEW q, Laid(m, base, n, q)
    PROVE  /\ \A i \in 1 .. m[ObjectsAt(q) + 1] :
                 /\ EntryAt(q, i) \in Nat /\ EntryAt(q, i) >= ObjectsAt(q) + 2
                 /\ EntryAt(q, i) + 2 < PtrsAt(q)
                 /\ EntryAt(q, i) \in 0 .. n - 1 /\ EntryAt(q, i) + 1 \in 0 .. n - 1
                 /\ EntryAt(q, i) + 2 \in 0 .. n - 1
                 /\ \A j \in 1 .. m[ObjectsAt(q) + 1] :
                       /\ EntryAt(q, i) + 1 # EntryAt(q, j) /\ EntryAt(q, i) + 2 # EntryAt(q, j)
                       /\ i # j => EntryAt(q, i) # EntryAt(q, j)
           /\ \A i \in 1 .. m[PtrsAt(q) + 1] :
                 /\ PointerAt(q, i) \in 0 .. n - 1 /\ PointerAt(q, i) >= PtrsAt(q) + 2
                 /\ PointerAt(q, i) < RangesAt(q)
<1>1. PICK o : o = ObjectsAt(q)
    OBVIOUS
<1>2. PICK p : p = PtrsAt(q)
    OBVIOUS
<1>3. PICK g : g = RangesAt(q)
    OBVIOUS
<1>4. PICK mo : mo = m[o + 1]
    OBVIOUS
<1>5. PICK mp : mp = m[p + 1]
    OBVIOUS
<1>6. /\ n \in Nat /\ mo \in Nat /\ mp \in Nat /\ q \in Counts /\ mo <= q[4] /\ mp <= q[5]
      /\ EndAt(q) <= n
    BY <1>1, <1>2, <1>4, <1>5, CountsAre
<1>7. /\ q[3] \in Nat /\ q[4] \in Nat /\ q[5] \in Nat /\ q[6] \in Nat
      /\ o \in Nat /\ o = 10 + q[3] /\ p \in Nat /\ p = o + 3 * q[4] + 2
      /\ g \in Nat /\ g = p + q[5] + 2 /\ g + 2 * q[6] + 2 <= n
    BY <1>1, <1>2, <1>3, <1>6, PlacesAre
<1>8. ASSUME NEW i \in 1 .. mo
      PROVE  /\ EntryAt(q, i) \in Nat /\ EntryAt(q, i) >= o + 2 /\ EntryAt(q, i) + 2 < p
             /\ EntryAt(q, i) \in 0 .. n - 1 /\ EntryAt(q, i) + 1 \in 0 .. n - 1
             /\ EntryAt(q, i) + 2 \in 0 .. n - 1
    <2>1. PICK e : e = EntryAt(q, i)
        OBVIOUS
    <2>2. i \in Int /\ 1 <= i /\ i <= mo
        BY <1>6
    <2>3. e = o + 2 + 3 * (i - 1)
        BY <1>1, <2>1 DEF EntryAt
    <2>4. e \in Nat /\ e >= o + 2 /\ e + 2 < p
        BY <1>6, <1>7, <2>2, <2>3
    <2>5. e \in 0 .. n - 1 /\ e + 1 \in 0 .. n - 1 /\ e + 2 \in 0 .. n - 1
        BY <1>6, <1>7, <2>4
    <2> QED BY <2>1, <2>4, <2>5
<1>9. ASSUME NEW i \in 1 .. mo, NEW j \in 1 .. mo
      PROVE  /\ EntryAt(q, i) + 1 # EntryAt(q, j) /\ EntryAt(q, i) + 2 # EntryAt(q, j)
             /\ i # j => EntryAt(q, i) # EntryAt(q, j)
    <2>1. EntryAt(q, i) = o + 2 + 3 * (i - 1) /\ EntryAt(q, j) = o + 2 + 3 * (j - 1)
        BY <1>1 DEF EntryAt
    <2>2. i \in Int /\ j \in Int
        BY <1>6
    <2> QED BY <1>7, <2>1, <2>2
<1>10. ASSUME NEW i \in 1 .. mp
       PROVE  PointerAt(q, i) \in 0 .. n - 1 /\ PointerAt(q, i) >= p + 2 /\ PointerAt(q, i) < g
    BY <1>2, <1>6, <1>7 DEF PointerAt
<1> QED BY <1>1, <1>2, <1>3, <1>4, <1>5, <1>8, <1>9, <1>10

\* Whether remapping succeeds or not, the image is laid out as before, for its
\* new place.
LEMMA RemapIs ==
    ASSUME NEW m, NEW base, NEW n, NEW q, Laid(m, base, n, q), NEW base2 \in Nat
    PROVE  /\ Laid(Remap(m, base2).mem, base2, n, q)
           /\ Remap(m, base2).mem[9] = m[9]
           /\ Remap(m, base2).mem[ObjectsAt(q) + 1] = m[ObjectsAt(q) + 1]
           /\ Remap(m, base2).mem[PtrsAt(q) + 1] = m[PtrsAt(q) + 1]
<1>1. CASE base2 = base
    <2>1. m[0] = base /\ base \in Nat
        BY DEF Laid
    <2>2. base2 - m[0] = 0
        BY <1>1, <2>1
    <2>3. Remap(m, base2) = [ok |-> TRUE, mem |-> m]
        BY <2>2 DEF Remap
    <2> QED BY <1>1, <2>3
<1>2. CASE base2 # base
    <2>1. PICK h, m1, r, ok1, ok2 :
              /\ Laid(h, base2, n, q) /\ \A a \in 0 .. n - 1 : a >= 8 => h[a] = m[a]
              /\ EntriesShifted(ok1, m1, h, base2, n, q, base2 - base)
              /\ PointersShifted(ok2, r, m1, base2, n, q, base2 - base)
              /\ Remap(m, base2).mem = r
        BY <1>2, RemapSteps
    <2>2. PICK o : o = ObjectsAt(q)
        OBVIOUS
    <2>3. PICK p : p = PtrsAt(q)
        OBVIOUS
    <2>4. /\ n \in Nat /\ o \in Nat /\ o >= 10 /\ 9 \in 0 .. n - 1 /\ o + 1 \in 0 .. n - 1 /\ o + 1 < p
          /\ p \in Nat /\ p + 1 \in 0 .. n - 1
        <3>1. n \in Nat /\ q \in Counts /\ EndAt(q) <= n
            BY CountsAre
        <3> QED BY <2>2, <2>3, <3>1, PlacesAre
    <2>5. h[9] = m[9] /\ h[o + 1] = m[o + 1] /\ h[p + 1] = m[p + 1]
        BY <2>1, <2>4
    <2>6. m1[9] = h[9] /\ m1[o + 1] = h[o + 1] /\ m1[p + 1] = h[p + 1]
        <3>1. \A i \in 1 .. h[o + 1] : 9 # EntryAt(q, i) /\ o + 1 # EntryAt(q, i) /\ p + 1 # EntryAt(q, i)
            <4>1. \A i \in 1 .. h[o + 1] : /\ EntryAt(q, i) \in Nat /\ EntryAt(q, i) >= o + 2
                                           /\ EntryAt(q, i) + 2 < p
                BY <2>1, <2>2, <2>3, EntriesAre
            <4> QED BY <2>4, <4>1
        <3> QED BY <2>1, <2>2, <2>4, <3>1 DEF EntriesShifted
    <2>7. Laid(m1, base2, n, q) /\ Laid(r, base2, n, q)
        BY <2>1 DEF EntriesShifted, PointersShifted
    <2>8. r[9] = m1[9]
        BY <2>1 DEF PointersShifted
    <2>9. r[o + 1] = m1[o + 1]
        BY <2>1, <2>2 DEF PointersShifted
    <2>10. r[p + 1] = m1[p + 1]
        BY <2>1, <2>3 DEF PointersShifted
    <2> QED BY <2>1, <2>2, <2>3, <2>5, <2>6, <2>7, <2>8, <2>9, <2>10
<1> QED BY <1>1, <1>2

\* Before the pointers are remapped, their list says where they are.
Pointing(m1, m, base, base2, n, q, st, at) ==
    /\ m1[9] = m[9] /\ m1[ObjectsAt(q) + 1] = m[ObjectsAt(q) + 1]
    /\ m1[PtrsAt(q) + 1] = m[PtrsAt(q) + 1]
    /\ \A a \in 10 .. 10 + m[9] - 1 : m1[a] = m[a]
    /\ \A i \in 1 .. m[PtrsAt(q) + 1] :
          \E k \in 1 .. Len(st) : \E j \in 1 .. NumAttrs(st[k]) :
             /\ m1[PointerAt(q, i)] = base + at[k] + j
             /\ CellOf(m1, base2, q, base2 - base, i) = at[k] + j
    /\ \A k \in 1 .. Len(st) : \A j \in 1 .. NumAttrs(st[k]) :
          \E i \in 1 .. m[PtrsAt(q) + 1] :
             /\ m1[PointerAt(q, i)] = base + at[k] + j
             /\ CellOf(m1, base2, q, base2 - base, i) = at[k] + j

LEMMA PointersThere ==
    ASSUME NEW m, NEW base, NEW n, NEW q, Laid(m, base, n, q), NEW base2 \in Nat,
           NEW h, Laid(h, base2, n, q), \A a \in 0 .. n - 1 : a >= 8 => h[a] = m[a],
           NEW ok1, NEW m1, EntriesShifted(ok1, m1, h, base2, n, q, base2 - base),
           NEW st, NEW at, Contents(m, base, q, st, at)
    PROVE  Pointing(m1, m, base, base2, n, q, st, at)
<1>1. PICK o : o = ObjectsAt(q)
    OBVIOUS
<1>2. PICK p : p = PtrsAt(q)
    OBVIOUS
<1>3. PICK d : d = base2 - base
    OBVIOUS
<1>4. PICK ms : ms = m[9]
    OBVIOUS
<1>5. PICK mp : mp = m[p + 1]
    OBVIOUS
<1>6. /\ n \in Nat /\ base \in Nat /\ ms \in Nat /\ mp \in Nat /\ q \in Counts
      /\ ms <= q[3] /\ mp <= q[5] /\ EndAt(q) <= n
    BY <1>2, <1>4, <1>5, CountsAre
<1>7. /\ q[3] \in Nat /\ q[4] \in Nat /\ q[5] \in Nat /\ q[6] \in Nat
      /\ o \in Nat /\ o = 10 + q[3] /\ p \in Nat /\ p = o + 3 * q[4] + 2
      /\ p + q[5] + 4 <= n
    BY <1>1, <1>2, <1>6, PlacesAre
<1>8. ASSUME NEW a \in 0 .. n - 1, a >= 8, a < o + 2 \/ a >= p PROVE m1[a] = m[a]
    <2>1. h[a] = m[a]
        BY <1>8
    <2>2. \A i \in 1 .. h[o + 1] : a # EntryAt(q, i)
        <3>1. \A i \in 1 .. h[o + 1] :
                 EntryAt(q, i) \in Nat /\ EntryAt(q, i) >= o + 2 /\ EntryAt(q, i) + 2 < p
            BY <1>1, <1>2, EntriesAre
        <3> QED BY <1>7, <1>8, <3>1
    <2> QED BY <1>1, <2>1, <2>2 DEF EntriesShifted
<1>9. m1[9] = m[9] /\ m1[o + 1] = m[o + 1] /\ m1[p + 1] = m[p + 1]
    <2>1. /\ 9 \in 0 .. n - 1 /\ o + 1 \in 0 .. n - 1 /\ p + 1 \in 0 .. n - 1
          /\ 9 >= 8 /\ o + 1 >= 8 /\ p + 1 >= 8 /\ 9 < o + 2 /\ o + 1 < o + 2 /\ p + 1 >= p
        BY <1>6, <1>7
    <2> QED BY <1>8, <2>1
<1>10. ASSUME NEW a \in 10 .. 10 + ms - 1 PROVE m1[a] = m[a]
    <2>1. a \in 0 .. n - 1 /\ a >= 8 /\ a < o + 2
        BY <1>6, <1>7
    <2> QED BY <1>8, <2>1
<1>11. ASSUME NEW i \in 1 .. mp PROVE m1[PointerAt(q, i)] = m[PointerAt(q, i)]
    <2>1. PointerAt(q, i) \in 0 .. n - 1 /\ PointerAt(q, i) >= p + 2
        BY <1>2, <1>5, EntriesAre
    <2>2. PointerAt(q, i) >= 8 /\ PointerAt(q, i) >= p
        BY <1>6, <1>7, <2>1
    <2> QED BY <1>8, <2>1, <2>2
<1>12. /\ st \in Seq(Shapes) /\ Placing(st, at, ms) /\ Listed(m, base, q, st, at)
    BY <1>4 DEF Contents
<1>13. /\ \A l \in 0 .. mp - 1 :
             \E k \in 1 .. Len(st) : \E j \in 1 .. NumAttrs(st[k]) :
                 m[p + 2 + l] = base + at[k] + j
       /\ \A k \in 1 .. Len(st) : \A j \in 1 .. NumAttrs(st[k]) :
             \E l \in 0 .. mp - 1 : m[p + 2 + l] = base + at[k] + j
    BY <1>2, <1>5, <1>12 DEF Listed
<1>14. ASSUME NEW k \in 1 .. Len(st), NEW j \in 1 .. NumAttrs(st[k]), NEW i \in 1 .. mp,
              m1[PointerAt(q, i)] = base + at[k] + j
       PROVE  CellOf(m1, base2, q, d, i) = at[k] + j
    <2>1. PICK x : x = at[k] + j
        OBVIOUS
    <2>2. x \in 10 .. 10 + ms - 1 /\ at[k] \in Nat /\ NumAttrs(st[k]) \in Nat
        BY <1>6, <1>12, <2>1, CellsAre, ShapeIs
    <2>3. j \in Int
        BY <2>2
    <2>4. m1[PointerAt(q, i)] = base + x
        BY <1>6, <1>14, <2>1, <2>2, <2>3, SMTT(30)
    <2>5. CellOf(m1, base2, q, d, i) = ((base + x) + d) - base2
        BY <2>4 DEF CellOf
    <2>6. x \in Int
        BY <1>6, <2>2
    <2>7. ((base + x) + d) - base2 = x
        BY <1>3, <1>6, <2>6
    <2> QED BY <2>1, <2>5, <2>7
<1>15. ASSUME NEW i \in 1 .. mp
       PROVE  \E k \in 1 .. Len(st) : \E j \in 1 .. NumAttrs(st[k]) :
                 /\ m1[PointerAt(q, i)] = base + at[k] + j
                 /\ CellOf(m1, base2, q, d, i) = at[k] + j
    <2>1. PICK l : l = i - 1
        OBVIOUS
    <2>2. l \in 0 .. mp - 1 /\ p + 2 + l = PointerAt(q, i)
        BY <1>2, <1>6, <1>7, <2>1 DEF PointerAt
    <2>3. PICK k \in 1 .. Len(st) : \E j \in 1 .. NumAttrs(st[k]) : m[p + 2 + l] = base + at[k] + j
        BY <1>13, <2>2
    <2>4. PICK j \in 1 .. NumAttrs(st[k]) : m[p + 2 + l] = base + at[k] + j
        BY <2>3
    <2>5. m1[PointerAt(q, i)] = base + at[k] + j
        BY <1>11, <2>2, <2>4
    <2>6. CellOf(m1, base2, q, d, i) = at[k] + j
        BY <1>14, <2>5
    <2> QED BY <2>5, <2>6
<1>16. ASSUME NEW k \in 1 .. Len(st), NEW j \in 1 .. NumAttrs(st[k])
       PROVE  \E i \in 1 .. mp : /\ m1[PointerAt(q, i)] = base + at[k] + j
                                 /\ CellOf(m1, base2, q, d, i) = at[k] + j
    <2>1. PICK l \in 0 .. mp - 1 : m[p + 2 + l] = base + at[k] + j
        BY <1>13
    <2>2. PICK i : i = l + 1
        OBVIOUS
    <2>3. i \in 1 .. mp /\ p + 2 + l = PointerAt(q, i)
        BY <1>2, <1>6, <1>7, <2>2 DEF PointerAt
    <2>4. m1[PointerAt(q, i)] = base + at[k] + j
        BY <1>11, <2>1, <2>3
    <2>5. CellOf(m1, base2, q, d, i) = at[k] + j
        BY <1>14, <2>3, <2>4
    <2> QED BY <2>3, <2>4, <2>5
<1> QED BY <1>1, <1>2, <1>3, <1>4, <1>5, <1>9, <1>10, <1>15, <1>16 DEF Pointing

\* An attribute has a length, so that none begins behind the slots in use.
NoneEmpty == \A shape \in Shapes : \A i \in 1 .. NumAttrs(shape) : Length(shape, i) > 0

\* An image whose garbage is not lost can be remapped.
LEMMA RemapSucceeds ==
    ASSUME NEW m, NEW base, NEW n, NEW q, Laid(m, base, n, q), NEW base2 \in Nat,
           NEW st, NEW at, Contents(m, base, q, st, at), m[RangesAt(q)] # 0, NoneEmpty
    PROVE  Remap(m, base2).ok
<1>1. CASE base2 = base
    <2>1. m[0] = base /\ base \in Nat
        BY DEF Laid
    <2>2. base2 - m[0] = 0
        BY <1>1, <2>1
    <2>3. Remap(m, base2) = [ok |-> TRUE, mem |-> m]
        BY <2>2 DEF Remap
    <2> QED BY <2>3
<1>2. CASE base2 # base
    <2>1. PICK h, m1, r, ok1, ok2 :
              /\ Laid(h, base2, n, q) /\ \A a \in 0 .. n - 1 : a >= 8 => h[a] = m[a]
              /\ EntriesShifted(ok1, m1, h, base2, n, q, base2 - base)
              /\ PointersShifted(ok2, r, m1, base2, n, q, base2 - base)
              /\ Remap(m, base2).mem = r
              /\ Remap(m, base2).ok <=> ok1 /\ ok2 /\ r[RangesAt(q)] # 0
        BY <1>2, RemapSteps
    <2>2. PICK o : o = ObjectsAt(q)
        OBVIOUS
    <2>3. PICK p : p = PtrsAt(q)
        OBVIOUS
    <2>4. PICK ms : ms = m[9]
        OBVIOUS
    <2>5. PICK mo : mo = Len(st)
        OBVIOUS
    <2>6. PICK mp : mp = m[p + 1]
        OBVIOUS
    <2>7. PICK d : d = base2 - base
        OBVIOUS
    <2>8. Pointing(m1, m, base, base2, n, q, st, at)
        BY <2>1, PointersThere
    <2>9. /\ st \in Seq(Shapes) /\ Placing(st, at, ms) /\ Filled(m, base, st, at)
          /\ Indexed(m, base, q, st, at) /\ m[o + 1] = mo
        BY <2>2, <2>4, <2>5 DEF Contents
    <2>10. n \in Nat /\ base \in Nat /\ ms \in Nat /\ mo \in Nat /\ mp \in Nat /\ d \in Int
        BY <2>2, <2>3, <2>4, <2>5, <2>6, <2>7, <2>9, CountsAre
    <2>11. q \in Counts /\ o \in Nat /\ o >= 10 /\ EndAt(q) <= n /\ EndAt(q) \in Nat /\ o + 2 <= EndAt(q)
        <3>1. q \in Counts /\ EndAt(q) <= n
            BY CountsAre
        <3> QED BY <2>2, <3>1, PlacesAre
    <2>12. h[9] = ms /\ h[o + 1] = mo
        <3>1. 9 \in 0 .. n - 1 /\ o + 1 \in 0 .. n - 1
            BY <2>10, <2>11
        <3>2. 9 >= 8 /\ o + 1 >= 8
            BY <2>11
        <3> QED BY <2>1, <2>4, <2>9, <3>1, <3>2
    <2>13. ASSUME NEW k \in 1 .. mo
           PROVE  h[EntryAt(q, k)] = base + at[k] /\ h[EntryAt(q, k) + 2] = ObjectSize(st[k])
        <3>1. /\ EntryAt(q, k) \in 0 .. n - 1 /\ EntryAt(q, k) + 2 \in 0 .. n - 1
              /\ EntryAt(q, k) \in Nat /\ EntryAt(q, k) >= o + 2
            BY <2>2, <2>9, EntriesAre
        <3>2. EntryAt(q, k) >= 8 /\ EntryAt(q, k) + 2 >= 8
            BY <2>11, <3>1
        <3>3. h[EntryAt(q, k)] = m[EntryAt(q, k)] /\ h[EntryAt(q, k) + 2] = m[EntryAt(q, k) + 2]
            BY <2>1, <3>1, <3>2
        <3> QED BY <2>5, <2>9, <3>3 DEF Indexed
    <2>14. ASSUME NEW k \in 1 .. mo PROVE EntryRight(h, base2, q, d, k)
        <3>1. /\ at[k] \in Nat /\ at[k] \in 10 .. 10 + ms - 1
            BY <2>5, <2>9, <2>10, CellsAre
        <3>2. h[EntryAt(q, k)] + d = base2 + at[k]
            BY <2>7, <2>10, <2>13, <3>1
        <3>3. base2 + 10 <= h[EntryAt(q, k)] + d /\ h[EntryAt(q, k)] + d <= base2 + 10 + h[9]
            BY <2>10, <2>12, <3>1, <3>2
        <3>4. ASSUME k > 1
              PROVE  h[EntryAt(q, k - 1)] + d + h[EntryAt(q, k - 1) + 2] <= h[EntryAt(q, k)] + d
            <4>1. PICK j : j = k - 1
                OBVIOUS
            <4>2. j \in 1 .. mo /\ j < k
                BY <2>10, <3>4, <4>1
            <4>3. at[j] + ObjectSize(st[j]) <= at[k]
                BY <2>5, <2>9, <4>2 DEF Placing
            <4>4. at[j] \in Nat /\ ObjectSize(st[j]) \in Nat
                BY <2>5, <2>9, <2>10, <4>2, CellsAre, ShapeIs
            <4>5. h[EntryAt(q, j)] = base + at[j] /\ h[EntryAt(q, j) + 2] = ObjectSize(st[j])
                BY <2>13, <4>2
            <4>6. h[EntryAt(q, j)] + d + h[EntryAt(q, j) + 2] <= base2 + at[k]
                BY <2>7, <2>10, <3>1, <4>3, <4>4, <4>5
            <4> QED BY <3>2, <4>1, <4>6
        <3> QED BY <3>3, <3>4 DEF EntryRight
    <2>15. ok1
        BY <2>1, <2>2, <2>7, <2>12, <2>14 DEF EntriesShifted
    <2>16. m1[9] = ms /\ m1[p + 1] = mp /\ \A a \in 10 .. 10 + ms - 1 : m1[a] = m[a]
        BY <2>3, <2>4, <2>6, <2>8 DEF Pointing
    <2>17. ASSUME NEW i \in 1 .. mp PROVE PointerRight(m1, base2, q, d, i)
        <3>1. PICK k \in 1 .. Len(st) : \E j \in 1 .. NumAttrs(st[k]) :
                  /\ m1[PointerAt(q, i)] = base + at[k] + j
                  /\ CellOf(m1, base2, q, d, i) = at[k] + j
            BY <2>3, <2>6, <2>7, <2>8 DEF Pointing
        <3>2. PICK j \in 1 .. NumAttrs(st[k]) :
                  /\ m1[PointerAt(q, i)] = base + at[k] + j
                  /\ CellOf(m1, base2, q, d, i) = at[k] + j
            BY <3>1
        <3>3. /\ st[k] \in Shapes /\ at[k] \in Nat /\ at[k] + ObjectSize(st[k]) <= 10 + ms
              /\ at[k] + j \in 10 .. 10 + ms - 1 /\ at[k] \in 10 .. 10 + ms - 1
            BY <2>9, <2>10, CellsAre
        <3>4. PICK lead : lead = Lead(st[k], j)
            OBVIOUS
        <3>5. PICK length : length = Length(st[k], j)
            OBVIOUS
        <3>6. /\ lead \in Nat /\ length \in Nat /\ lead + length <= ObjectSize(st[k])
              /\ ObjectSize(st[k]) \in Nat /\ NumAttrs(st[k]) \in Nat
            BY <3>3, <3>4, <3>5, ShapeIs
        <3>7. length > 0
            BY <3>3, <3>5 DEF NoneEmpty
        <3>8. m1[at[k] + j] = base + at[k] + lead
            BY <2>9, <2>16, <3>3, <3>4 DEF Filled
        <3>9. j \in Int
            BY <3>6
        <3>10. Within(m1, base2, m1[PointerAt(q, i)] + d)
            <4>1. PICK x : x = at[k] + j
                OBVIOUS
            <4>2. x \in Int /\ 10 <= x /\ x < 10 + ms
                BY <2>10, <3>3, <4>1
            <4>3. m1[PointerAt(q, i)] + d = base2 + x
                BY <2>7, <2>10, <3>2, <3>3, <3>9, <4>1, SMTT(30)
            <4> QED BY <2>10, <2>16, <4>2, <4>3 DEF Within
        <3>11. Within(m1, base2, m1[CellOf(m1, base2, q, d, i)] + d)
            <4>1. PICK y : y = at[k]
                OBVIOUS
            <4>2. PICK size : size = ObjectSize(st[k])
                OBVIOUS
            <4>3. /\ y \in Nat /\ 10 <= y /\ y + size <= 10 + ms /\ size \in Nat
                  /\ lead \in Nat /\ length \in Nat /\ lead + length <= size
                BY <2>10, <3>3, <3>6, <4>1, <4>2
            <4>4. PICK x : x = y + lead
                OBVIOUS
            <4>5. x \in Int /\ 10 <= x /\ x < 10 + ms
                BY <2>10, <3>7, <4>3, <4>4
            <4>6. m1[CellOf(m1, base2, q, d, i)] = base + x
                BY <2>10, <3>2, <3>8, <4>1, <4>3, <4>4, SMTT(30)
            <4>7. m1[CellOf(m1, base2, q, d, i)] + d = base2 + x
                BY <2>7, <2>10, <4>5, <4>6
            <4> QED BY <2>10, <2>16, <4>5, <4>7 DEF Within
        <3> QED BY <3>10, <3>11 DEF PointerRight
    <2>18. ok2
        BY <2>1, <2>3, <2>7, <2>16, <2>17 DEF PointersShifted
    <2>19. r[RangesAt(q)] # 0
        <3>1. PICK g : g = RangesAt(q)
            OBVIOUS
        <3>2. g \in 0 .. n - 1 /\ g >= 8 /\ g \in Nat /\ g > p /\ p \in Nat
            BY <2>3, <2>10, <2>11, <3>1, PlacesAre
        <3>3. h[g] = m[g]
            BY <2>1, <3>2
        <3>4. \A i \in 1 .. h[o + 1] : g # EntryAt(q, i)
            <4>1. \A i \in 1 .. h[o + 1] : EntryAt(q, i) \in Nat /\ EntryAt(q, i) + 2 < p
                BY <2>1, <2>2, <2>3, EntriesAre
            <4> QED BY <3>2, <4>1
        <3>5. m1[g] = h[g]
            BY <2>1, <2>2, <3>2, <3>4 DEF EntriesShifted
        <3>6. r[g] = m1[g]
            BY <2>1, <3>1 DEF PointersShifted
        <3> QED BY <3>1, <3>3, <3>5, <3>6
    <2> QED BY <2>1, <2>15, <2>18, <2>19
<1> QED BY <1>1, <1>2

\* A pointer is no object's own slot, and in no attribute.
LEMMA PointersApart ==
    ASSUME NEW st \in Seq(Shapes), NEW at, NEW ms \in Nat, Placing(st, at, ms),
           NEW k \in 1 .. Len(st), NEW j \in 1 .. NumAttrs(st[k]), NEW l \in 1 .. Len(st)
    PROVE  /\ at[k] + j # at[l]
           /\ \A i \in 1 .. NumAttrs(st[l]) : \A c \in 0 .. Length(st[l], i) - 1 :
                 at[k] + j # at[l] + Lead(st[l], i) + c
<1>1. PICK x : x = at[k]
    OBVIOUS
<1>2. PICK y : y = at[l]
    OBVIOUS
<1>3. PICK xsize : xsize = ObjectSize(st[k])
    OBVIOUS
<1>4. PICK ysize : ysize = ObjectSize(st[l])
    OBVIOUS
<1>5. PICK xnum : xnum = NumAttrs(st[k])
    OBVIOUS
<1>6. PICK ynum : ynum = NumAttrs(st[l])
    OBVIOUS
<1>7. /\ x \in Nat /\ y \in Nat /\ xsize \in Nat /\ ysize \in Nat /\ xnum \in Nat /\ ynum \in Nat
      /\ xsize >= 1 + xnum /\ ysize >= 1 + ynum /\ st[l] \in Shapes
    BY <1>1, <1>2, <1>3, <1>4, <1>5, <1>6, CellsAre, ShapeIs
<1>8. /\ k = l => x = y /\ xnum = ynum
      /\ k < l => x + xsize <= y
      /\ l < k => y + ysize <= x
    BY <1>1, <1>2, <1>3, <1>4, <1>5, <1>6 DEF Placing
<1>9. j \in Int /\ 1 <= j /\ j <= xnum
    BY <1>5, <1>7
<1>10. Len(st) \in Nat /\ k \in Int /\ l \in Int
    OBVIOUS
<1>11. k = l \/ k < l \/ l < k
    BY <1>10
<1>12. x + j # y
    BY <1>7, <1>8, <1>9, <1>11
<1>13. ASSUME NEW i \in 1 .. ynum, NEW c \in 0 .. Length(st[l], i) - 1
       PROVE  x + j # y + Lead(st[l], i) + c
    <2>1. PICK lead : lead = Lead(st[l], i)
        OBVIOUS
    <2>2. PICK length : length = Length(st[l], i)
        OBVIOUS
    <2>3. lead \in Nat /\ length \in Nat /\ lead >= 1 + ynum /\ lead + length <= ysize
        BY <1>4, <1>6, <1>7, <2>1, <2>2, ShapeIs
    <2>4. c \in Int /\ 0 <= c /\ c < length
        BY <2>2, <2>3
    <2>5. x + j # y + lead + c
        BY <1>7, <1>8, <1>9, <1>11, <2>3, <2>4
    <2> QED BY <2>1, <2>5
<1> QED BY <1>1, <1>2, <1>6, <1>12, <1>13

\* An image that has been remapped holds the same.
LEMMA RemapKeeps ==
    ASSUME NEW m, NEW base, NEW n, NEW q, Laid(m, base, n, q), NEW base2 \in Nat,
           NEW st, NEW at, Contents(m, base, q, st, at), Remap(m, base2).ok
    PROVE  Contents(Remap(m, base2).mem, base2, q, st, at)
<1>1. CASE base2 = base
    <2>1. m[0] = base /\ base \in Nat
        BY DEF Laid
    <2>2. base2 - m[0] = 0
        BY <1>1, <2>1
    <2>3. Remap(m, base2) = [ok |-> TRUE, mem |-> m]
        BY <2>2 DEF Remap
    <2> QED BY <1>1, <2>3
<1>2. CASE base2 # base
    <2>1. PICK h, m1, r, ok1, ok2 :
              /\ Laid(h, base2, n, q) /\ \A a \in 0 .. n - 1 : a >= 8 => h[a] = m[a]
              /\ EntriesShifted(ok1, m1, h, base2, n, q, base2 - base)
              /\ PointersShifted(ok2, r, m1, base2, n, q, base2 - base)
              /\ Remap(m, base2).mem = r
              /\ ok1 /\ ok2
        BY <1>2, RemapSteps
    <2>2. PICK o : o = ObjectsAt(q)
        OBVIOUS
    <2>3. PICK p : p = PtrsAt(q)
        OBVIOUS
    <2>4. PICK ms : ms = m[9]
        OBVIOUS
    <2>5. PICK mo : mo = Len(st)
        OBVIOUS
    <2>6. PICK mp : mp = m[p + 1]
        OBVIOUS
    <2>7. PICK d : d = base2 - base
        OBVIOUS
    <2>8. Pointing(m1, m, base, base2, n, q, st, at)
        BY <2>1, PointersThere
    <2>9. /\ st \in Seq(Shapes) /\ Placing(st, at, ms) /\ Filled(m, base, st, at)
          /\ Indexed(m, base, q, st, at) /\ Listed(m, base, q, st, at) /\ m[o + 1] = mo
        BY <2>2, <2>4, <2>5 DEF Contents
    <2>10. /\ n \in Nat /\ base \in Nat /\ ms \in Nat /\ mo \in Nat /\ mp \in Nat /\ d \in Int
           /\ ms <= q[3] /\ mo <= q[4] /\ mp <= q[5]
        BY <2>2, <2>3, <2>4, <2>5, <2>6, <2>7, <2>9, CountsAre
    <2>11. /\ q[3] \in Nat /\ q[4] \in Nat /\ q[5] \in Nat
           /\ o \in Nat /\ o = 10 + q[3] /\ p \in Nat /\ p = o + 3 * q[4] + 2 /\ p + 3 < n
        <3>1. q \in Counts /\ EndAt(q) <= n
            BY CountsAre
        <3> QED BY <2>2, <2>3, <2>10, <3>1, PlacesAre
    <2>12. /\ m1[9] = ms /\ m1[o + 1] = mo /\ m1[p + 1] = mp
           /\ \A a \in 10 .. 10 + ms - 1 : m1[a] = m[a]
           /\ \A i \in 1 .. mp : \E k \in 1 .. Len(st) : \E j \in 1 .. NumAttrs(st[k]) :
                 /\ m1[PointerAt(q, i)] = base + at[k] + j
                 /\ CellOf(m1, base2, q, d, i) = at[k] + j
           /\ \A k \in 1 .. Len(st) : \A j \in 1 .. NumAttrs(st[k]) : \E i \in 1 .. mp :
                 /\ m1[PointerAt(q, i)] = base + at[k] + j
                 /\ CellOf(m1, base2, q, d, i) = at[k] + j
        BY <2>2, <2>3, <2>4, <2>6, <2>7, <2>8, <2>9 DEF Pointing
    <2>13. /\ \A a \in 0 .. n - 1 :
                 (\A i \in 1 .. mp : a # PointerAt(q, i) /\ a # CellOf(m1, base2, q, d, i))
                 => r[a] = m1[a]
           /\ \A i \in 1 .. mp : /\ r[PointerAt(q, i)] = m1[PointerAt(q, i)] + d
                                 /\ r[CellOf(m1, base2, q, d, i)] = m1[CellOf(m1, base2, q, d, i)] + d
           /\ r[9] = ms /\ r[o + 1] = mo /\ r[p + 1] = mp
        BY <2>1, <2>2, <2>3, <2>7, <2>12 DEF PointersShifted
    <2>14. \A i \in 1 .. mp : /\ PointerAt(q, i) \in 0 .. n - 1 /\ PointerAt(q, i) >= p + 2
        BY <2>3, <2>6, EntriesAre
    <2>15. ASSUME NEW i \in 1 .. mp
           PROVE  CellOf(m1, base2, q, d, i) \in 10 .. 10 + ms - 1
        <3>1. PICK k \in 1 .. Len(st) : \E j \in 1 .. NumAttrs(st[k]) :
                  CellOf(m1, base2, q, d, i) = at[k] + j
            BY <2>12
        <3> QED BY <2>9, <2>10, <3>1, CellsAre
    <2>16. ASSUME NEW k \in 1 .. mo, NEW e \in {EntryAt(q, k), EntryAt(q, k) + 1, EntryAt(q, k) + 2}
           PROVE  e \in 0 .. n - 1 /\ e >= 8 /\ r[e] = m1[e] /\ h[e] = m[e]
        <3>1. e \in 0 .. n - 1 /\ e >= o + 2 /\ e < p
            <4>1. /\ EntryAt(q, k) \in Nat /\ EntryAt(q, k) >= o + 2 /\ EntryAt(q, k) + 2 < p
                  /\ EntryAt(q, k) \in 0 .. n - 1 /\ EntryAt(q, k) + 1 \in 0 .. n - 1
                  /\ EntryAt(q, k) + 2 \in 0 .. n - 1
                BY <2>2, <2>3, <2>9, EntriesAre
            <4> QED BY <2>11, <4>1
        <3>2. \A i \in 1 .. mp : e # PointerAt(q, i) /\ e # CellOf(m1, base2, q, d, i)
            BY <2>10, <2>11, <2>14, <2>15, <3>1
        <3>3. e >= 8
            BY <2>10, <2>11, <3>1
        <3> QED BY <2>1, <2>13, <3>1, <3>2, <3>3
    <2>17. h[o + 1] = mo
        <3>1. o + 1 \in 0 .. n - 1 /\ o + 1 >= 8
            BY <2>10, <2>11
        <3> QED BY <2>1, <2>9, <3>1
    <2>18. /\ \A a \in 0 .. n - 1 : (\A i \in 1 .. mo : a # EntryAt(q, i)) => m1[a] = h[a]
           /\ \A i \in 1 .. mo : m1[EntryAt(q, i)] = h[EntryAt(q, i)] + d
        BY <2>1, <2>2, <2>7, <2>17 DEF EntriesShifted
    <2>19. ASSUME NEW k \in 1 .. mo
           PROVE  /\ r[EntryAt(q, k)] = base2 + at[k] /\ r[EntryAt(q, k) + 1] = k
                  /\ r[EntryAt(q, k) + 2] = ObjectSize(st[k])
        <3>1. /\ m[EntryAt(q, k)] = base + at[k] /\ m[EntryAt(q, k) + 1] = k
              /\ m[EntryAt(q, k) + 2] = ObjectSize(st[k])
            BY <2>5, <2>9 DEF Indexed
        <3>2. at[k] \in Nat
            BY <2>5, <2>9, <2>10, CellsAre
        <3>3. r[EntryAt(q, k)] = base2 + at[k]
            BY <2>7, <2>10, <2>16, <2>18, <3>1, <3>2
        <3>4. \A i \in 1 .. mo : EntryAt(q, k) + 1 # EntryAt(q, i) /\ EntryAt(q, k) + 2 # EntryAt(q, i)
            BY <2>2, <2>9, EntriesAre
        <3>5. EntryAt(q, k) + 1 \in 0 .. n - 1 /\ EntryAt(q, k) + 2 \in 0 .. n - 1
            BY <2>16
        <3>6. /\ m1[EntryAt(q, k) + 1] = h[EntryAt(q, k) + 1]
              /\ m1[EntryAt(q, k) + 2] = h[EntryAt(q, k) + 2]
            BY <2>18, <3>4, <3>5
        <3> QED BY <2>16, <3>1, <3>3, <3>6
    <2>20. Indexed(r, base2, q, st, at)
        BY <2>5, <2>19 DEF Indexed
    <2>21. ASSUME NEW a \in 10 .. 10 + ms - 1,
                  \A k \in 1 .. Len(st) : \A j \in 1 .. NumAttrs(st[k]) : a # at[k] + j
           PROVE  r[a] = m[a]
        <3>1. a \in 0 .. n - 1 /\ a < p
            BY <2>10, <2>11
        <3>2. \A i \in 1 .. mp : a # PointerAt(q, i)
            BY <2>11, <2>14, <3>1
        <3>3. \A i \in 1 .. mp : a # CellOf(m1, base2, q, d, i)
            BY <2>12, <2>21
        <3> QED BY <2>12, <2>13, <3>1, <3>2, <3>3
    <2>22. ASSUME NEW k \in 1 .. Len(st)
           PROVE  /\ r[at[k]] = Value(k, 0, 0)
                  /\ \A i \in 1 .. NumAttrs(st[k]) :
                        /\ r[at[k] + i] = base2 + at[k] + Lead(st[k], i)
                        /\ \A j \in 0 .. Length(st[k], i) - 1 :
                              r[at[k] + Lead(st[k], i) + j] = AttrValue(st[k], k, i, j)
        <3>1. r[at[k]] = Value(k, 0, 0)
            <4>1. at[k] \in 10 .. 10 + ms - 1
                BY <2>9, <2>10, CellsAre
            <4>2. \A l \in 1 .. Len(st) : \A j \in 1 .. NumAttrs(st[l]) : at[k] # at[l] + j
                BY <2>9, <2>10, PointersApart
            <4>3. r[at[k]] = m[at[k]]
                BY <2>21, <4>1, <4>2
            <4> QED BY <2>9, <4>3 DEF Filled
        <3>2. ASSUME NEW i \in 1 .. NumAttrs(st[k])
              PROVE  r[at[k] + i] = base2 + at[k] + Lead(st[k], i)
            <4>1. PICK x \in 1 .. mp : CellOf(m1, base2, q, d, x) = at[k] + i
                BY <2>12
            <4>2. r[at[k] + i] = m1[at[k] + i] + d
                BY <2>13, <4>1
            <4>3. at[k] + i \in 10 .. 10 + ms - 1
                BY <2>9, <2>10, CellsAre
            <4>4. m1[at[k] + i] = base + at[k] + Lead(st[k], i)
                BY <2>9, <2>12, <4>3 DEF Filled
            <4>5. at[k] \in Nat /\ Lead(st[k], i) \in Nat
                BY <2>9, <2>10, CellsAre, ShapeIs
            <4> QED BY <2>7, <2>10, <4>2, <4>4, <4>5
        <3>3. ASSUME NEW i \in 1 .. NumAttrs(st[k]), NEW j \in 0 .. Length(st[k], i) - 1
              PROVE  r[at[k] + Lead(st[k], i) + j] = AttrValue(st[k], k, i, j)
            <4>1. PICK a : a = at[k] + Lead(st[k], i) + j
                OBVIOUS
            <4>2. a \in 10 .. 10 + ms - 1
                BY <2>9, <2>10, <4>1, CellsAre
            <4>3. \A l \in 1 .. Len(st) : \A x \in 1 .. NumAttrs(st[l]) : a # at[l] + x
                BY <2>9, <2>10, <4>1, PointersApart
            <4>4. r[a] = m[a]
                BY <2>21, <4>2, <4>3
            <4> QED BY <2>9, <4>1, <4>4 DEF Filled
        <3> QED BY <3>1, <3>2, <3>3
    <2>23. Filled(r, base2, st, at)
        BY <2>22 DEF Filled
    <2>24. ASSUME NEW i \in 1 .. mp, NEW k \in 1 .. Len(st), NEW j \in 1 .. NumAttrs(st[k]),
                  m1[PointerAt(q, i)] = base + at[k] + j
           PROVE  r[PointerAt(q, i)] = base2 + at[k] + j
        <3>1. at[k] \in Nat /\ NumAttrs(st[k]) \in Nat
            BY <2>9, <2>10, CellsAre, ShapeIs
        <3>2. j \in Int
            BY <3>1
        <3> QED BY <2>7, <2>10, <2>13, <2>24, <3>1, <3>2
    <2>25. \A l \in 0 .. mp - 1 : l + 1 \in 1 .. mp /\ p + 2 + l = PointerAt(q, l + 1)
        BY <2>3, <2>10, <2>11 DEF PointerAt
    <2>26. ASSUME NEW l \in 0 .. mp - 1
           PROVE  \E k \in 1 .. Len(st) : \E j \in 1 .. NumAttrs(st[k]) :
                      r[p + 2 + l] = base2 + at[k] + j
        <3>1. PICK k \in 1 .. Len(st) : \E j \in 1 .. NumAttrs(st[k]) :
                  m1[PointerAt(q, l + 1)] = base + at[k] + j
            BY <2>12, <2>25
        <3>2. PICK j \in 1 .. NumAttrs(st[k]) : m1[PointerAt(q, l + 1)] = base + at[k] + j
            BY <3>1
        <3> QED BY <2>24, <2>25, <3>2
    <2>27. ASSUME NEW k \in 1 .. Len(st), NEW j \in 1 .. NumAttrs(st[k])
           PROVE  \E l \in 0 .. mp - 1 : r[p + 2 + l] = base2 + at[k] + j
        <3>1. PICK i \in 1 .. mp : m1[PointerAt(q, i)] = base + at[k] + j
            BY <2>12
        <3>2. PICK l : l = i - 1
            OBVIOUS
        <3>3. l \in 0 .. mp - 1 /\ l + 1 = i
            BY <2>10, <3>2
        <3> QED BY <2>24, <2>25, <3>1, <3>3
    <2>28. Listed(r, base2, q, st, at)
        BY <2>3, <2>13, <2>26, <2>27 DEF Listed
    <2> QED BY <2>1, <2>2, <2>5, <2>9, <2>13, <2>20, <2>23, <2>28 DEF Contents
<1> QED BY <1>1, <1>2

-----------------------------------------------------------------------------
(* Storing an object.                                                      *)

\* There is room for one more object of this shape.
RoomFor(m, q, shape) ==
    /\ m[9] + ObjectSize(shape) <= q[Slots]
    /\ m[ObjectsAt(q) + 1] + 1 <= q[Objects]
    /\ m[PtrsAt(q) + 1] + NumAttrs(shape) <= q[DataPtrs]

\* What storing it writes, and where.
Written(w, m, base, n, q, shape, k) ==
    LET ms == m[9]
        mo == m[ObjectsAt(q) + 1]
        mp == m[PtrsAt(q) + 1]
        at == 10 + m[9]
        e  == ObjectsAt(q) + 2 + 3 * mo
        p  == PtrsAt(q) + 2 + mp
    IN  /\ w \in Memories(n)
        /\ w[at] = Value(k, 0, 0)
        /\ \A i \in 1 .. NumAttrs(shape) : w[at + i] = base + at + Lead(shape, i)
        /\ \A i \in 1 .. NumAttrs(shape) : \A j \in 0 .. Length(shape, i) - 1 :
              w[at + Lead(shape, i) + j] = AttrValue(shape, k, i, j)
        /\ w[e] = base + at /\ w[e + 1] = k /\ w[e + 2] = ObjectSize(shape)
        /\ \A i \in 1 .. NumAttrs(shape) : w[p + (i - 1)] = base + at + i
        /\ w[9] = ms + ObjectSize(shape) /\ w[ObjectsAt(q) + 1] = mo + 1
        /\ w[PtrsAt(q) + 1] = mp + NumAttrs(shape)
        /\ \A a \in 0 .. n - 1 :
              \/ a \in {9, ObjectsAt(q) + 1, PtrsAt(q) + 1}
              \/ at <= a /\ a < at + ObjectSize(shape)
              \/ e <= a /\ a < e + 3
              \/ p <= a /\ a < p + NumAttrs(shape)
              \/ w[a] = m[a]

\* Storing, cell by cell: the object goes to at, its entry to e, its pointers'
\* addresses to t on.
StoredAt(m, base, shape, k, at, e, t, need, a) ==
    LET attrs   == 1 .. NumAttrs(shape)
        Dest(i) == at + 1 + NumAttrs(shape) + LengthBefore(shape, i)
        Attr    == CHOOSE i \in attrs : a \in Cells(Dest(i), Length(shape, i))
    IN  IF a = at THEN Value(k, 0, 0)
        ELSE IF a - at \in attrs THEN base + Dest(a - at)
        ELSE IF \E i \in attrs : a \in Cells(Dest(i), Length(shape, i))
        THEN AttrValue(shape, k, Attr, a - Dest(Attr))
        ELSE IF a \in Cells(e, EntitySize(Objects))
        THEN <<base + at, k, ObjectSize(shape)>>[a - e + 1]
        ELSE IF a + 1 - t \in attrs THEN base + at + a + 1 - t
        ELSE IF \E s \in Slots .. DataPtrs : a = Offset(m, s) + 1
        THEN need[CHOOSE s \in Slots .. DataPtrs : a = Offset(m, s) + 1]
        ELSE m[a]

\* What is in one cell, by where the cell is.
Spot(v, m, base, shape, k, at, e, t, need, o, p, a) ==
    /\ a = at => v = Value(k, 0, 0)
    /\ \A i \in 1 .. NumAttrs(shape) : a = at + i => v = base + at + Lead(shape, i)
    /\ \A i \in 1 .. NumAttrs(shape) : \A j \in 0 .. Length(shape, i) - 1 :
          a = at + Lead(shape, i) + j => v = AttrValue(shape, k, i, j)
    /\ a = e => v = base + at
    /\ a = e + 1 => v = k
    /\ a = e + 2 => v = ObjectSize(shape)
    /\ \A i \in 1 .. NumAttrs(shape) : a = t + (i - 1) => v = base + at + i
    /\ a = 9 => v = need[3]
    /\ a = o + 1 => v = need[4]
    /\ a = p + 1 => v = need[5]
    /\ \/ a \in {9, o + 1, p + 1}
       \/ at <= a /\ a < at + ObjectSize(shape)
       \/ e <= a /\ a < e + 3
       \/ t <= a /\ a < t + NumAttrs(shape)
       \/ v = m[a]
    /\ v \in Nat

LEMMA StoredAtIs ==
    ASSUME NEW m, NEW base \in Nat, NEW shape \in Shapes, NEW k \in Nat, NEW at \in Nat,
           NEW e \in Nat, NEW t \in Nat, NEW need, NEW o \in Nat, NEW p \in Nat,
           at >= 10, at + ObjectSize(shape) <= o, o + 2 <= e, e + 3 <= p, p + 2 <= t,
           Offset(m, 3) = 8, Offset(m, 4) = o, Offset(m, 5) = p, NEW a \in Nat,
           m[a] \in Nat, need[3] \in Nat, need[4] \in Nat, need[5] \in Nat
    PROVE  Spot(StoredAt(m, base, shape, k, at, e, t, need, a),
                m, base, shape, k, at, e, t, need, o, p, a)
<1>1. PICK num : num = NumAttrs(shape)
    OBVIOUS
<1>2. PICK size : size = ObjectSize(shape)
    OBVIOUS
<1>3. /\ num \in Nat /\ size \in Nat /\ size >= 1 + num
      /\ \A i \in 1 .. num : /\ Lead(shape, i) \in Nat /\ Length(shape, i) \in Nat
                             /\ Lead(shape, i) >= 1 + num
                             /\ Lead(shape, i) + Length(shape, i) <= size
      /\ \A i, j \in 1 .. num : i < j => Lead(shape, i) + Length(shape, i) <= Lead(shape, j)
    BY <1>1, <1>2, ShapeIs
<1>4. \A i \in 1 .. num : LengthBefore(shape, i) \in Nat
    <2>1. shape.ends \in Seq(Nat) /\ Len(shape.ends) = num
        BY <1>1, BufferAssumption DEF NumAttrs
    <2>2. ASSUME NEW i \in 1 .. num
          PROVE  LengthBefore(shape, i) \in Nat
        <3>1. CASE i = 1
            BY <3>1 DEF LengthBefore
        <3>2. CASE i # 1
            <4>1. i - 1 \in 1 .. num
                BY <1>3, <3>2
            <4>2. PICK ends : ends = shape.ends
                OBVIOUS
            <4>3. ends \in Seq(Nat) /\ Len(ends) = num
                BY <2>1, <4>2
            <4>4. \A l \in 1 .. num : ends[l] \in Nat
                BY <4>3, SMTT(30)
            <4> QED BY <3>2, <4>1, <4>2, <4>4 DEF LengthBefore
        <3> QED BY <3>1, <3>2
    <2> QED BY <2>2
<1>5. \A i \in 1 .. num : at + 1 + num + LengthBefore(shape, i) = at + Lead(shape, i)
    BY <1>1, <1>3, <1>4 DEF Lead
<1>6. PICK attr : attr = CHOOSE i \in 1 .. num :
                             a \in Cells(at + 1 + num + LengthBefore(shape, i), Length(shape, i))
    OBVIOUS
<1>7. PICK sec : sec = CHOOSE s \in 3 .. 5 : a = Offset(m, s) + 1
    OBVIOUS
<1>8. PICK inAttr : inAttr = \E i \in 1 .. num :
                        a \in Cells(at + 1 + num + LengthBefore(shape, i), Length(shape, i))
    OBVIOUS
<1>9. PICK inCount : inCount = \E s \in 3 .. 5 : a = Offset(m, s) + 1
    OBVIOUS
<1>10. PICK v : v = StoredAt(m, base, shape, k, at, e, t, need, a)
    OBVIOUS
<1>11. v = IF a = at THEN Value(k, 0, 0)
           ELSE IF a - at \in 1 .. num
           THEN base + (at + 1 + num + LengthBefore(shape, a - at))
           ELSE IF inAttr
           THEN AttrValue(shape, k, attr, a - (at + 1 + num + LengthBefore(shape, attr)))
           ELSE IF a \in Cells(e, EntitySize(4))
           THEN <<base + at, k, size>>[a - e + 1]
           ELSE IF a + 1 - t \in 1 .. num THEN base + at + a + 1 - t
           ELSE IF inCount THEN need[sec]
           ELSE m[a]
    BY <1>1, <1>2, <1>6, <1>7, <1>8, <1>9, <1>10 DEF StoredAt
<1>12. inAttr <=> \E i \in 1 .. num : at + Lead(shape, i) <= a /\ a < at + Lead(shape, i) + Length(shape, i)
    <2>1. ASSUME NEW i \in 1 .. num
          PROVE  a \in Cells(at + 1 + num + LengthBefore(shape, i), Length(shape, i))
                 <=> at + Lead(shape, i) <= a /\ a < at + Lead(shape, i) + Length(shape, i)
        BY <1>3, <1>5 DEF Cells
    <2> QED BY <1>8, <2>1
<1>13. inAttr => at + num < a /\ a < at + size
    BY <1>3, <1>12
<1>14. a \in Cells(e, EntitySize(4)) <=> e <= a /\ a < e + 3
    BY DEF Cells, EntitySize
<1>15. a - at \in 1 .. num <=> at < a /\ a <= at + num
    BY <1>3
<1>16. a + 1 - t \in 1 .. num <=> t <= a /\ a < t + num
    BY <1>3
<1>17. inCount <=> a \in {9, o + 1, p + 1}
    <2>1. 3 .. 5 = {3, 4, 5}
        OBVIOUS
    <2> QED BY <1>9, <2>1
<1>18. at + size <= o
    BY <1>2
<1>19. a = at => v = Value(k, 0, 0)
    BY <1>11
<1>20. ASSUME NEW i \in 1 .. num, a = at + i
       PROVE  v = base + at + Lead(shape, i)
    <2>1. a # at /\ a - at = i /\ i \in Nat
        BY <1>3, <1>20
    <2>2. v = base + (at + 1 + num + LengthBefore(shape, i))
        BY <1>11, <2>1
    <2> QED BY <1>3, <1>5, <2>2
<1>21. ASSUME NEW i \in 1 .. num, NEW j \in 0 .. Length(shape, i) - 1,
              a = at + Lead(shape, i) + j
       PROVE  v = AttrValue(shape, k, i, j)
    <2>1. /\ Lead(shape, i) \in Nat /\ Length(shape, i) \in Nat /\ Lead(shape, i) >= 1 + num
        BY <1>3
    <2>2. j \in Int /\ 0 <= j /\ j < Length(shape, i)
        BY <2>1
    <2>3. at + Lead(shape, i) <= a /\ a < at + Lead(shape, i) + Length(shape, i)
        BY <1>21, <2>1, <2>2
    <2>4. a \in Cells(at + 1 + num + LengthBefore(shape, i), Length(shape, i))
        BY <1>5, <2>1, <2>3 DEF Cells
    <2>5. inAttr
        BY <1>8, <2>4
    <2>6. /\ attr \in 1 .. num
          /\ a \in Cells(at + 1 + num + LengthBefore(shape, attr), Length(shape, attr))
        BY <1>6, <2>4
    <2>7. at + Lead(shape, attr) <= a /\ a < at + Lead(shape, attr) + Length(shape, attr)
        BY <1>3, <1>5, <2>6 DEF Cells
    <2>8. attr = i
        <3>1. attr \in Int /\ i \in Int /\ Lead(shape, attr) \in Nat /\ Length(shape, attr) \in Nat
            BY <1>3, <2>6
        <3>2. ~(attr < i)
            BY <1>3, <2>1, <2>3, <2>6, <2>7, <3>1
        <3>3. ~(i < attr)
            BY <1>3, <2>1, <2>3, <2>6, <2>7, <3>1
        <3> QED BY <3>1, <3>2, <3>3
    <2>9. a # at /\ ~(a - at \in 1 .. num)
        BY <1>3, <1>13, <1>15, <2>5
    <2>10. v = AttrValue(shape, k, attr, a - (at + 1 + num + LengthBefore(shape, attr)))
        BY <1>11, <2>5, <2>9
    <2>11. a - (at + Lead(shape, i)) = j
        BY <1>21, <2>1, <2>2
    <2> QED BY <1>5, <2>8, <2>10, <2>11
<1>22. ASSUME e <= a /\ a < e + 3
       PROVE  v = <<base + at, k, size>>[a - e + 1]
    <2>1. a # at /\ ~(a - at \in 1 .. num) /\ ~inAttr
        BY <1>3, <1>13, <1>15, <1>18, <1>22
    <2>2. a \in Cells(e, EntitySize(4))
        BY <1>14, <1>22
    <2> QED BY <1>11, <2>1, <2>2
<1>23. /\ a = e => v = base + at
       /\ a = e + 1 => v = k
       /\ a = e + 2 => v = size
    BY <1>22
<1>24. ASSUME NEW i \in 1 .. num, a = t + (i - 1)
       PROVE  v = base + at + i
    <2>1. i \in Int /\ 1 <= i /\ i <= num
        BY <1>3
    <2>2. t <= a /\ a < t + num
        BY <1>3, <1>24, <2>1
    <2>3. a # at /\ ~(a - at \in 1 .. num) /\ ~inAttr /\ ~(a \in Cells(e, EntitySize(4)))
        BY <1>3, <1>13, <1>14, <1>15, <1>18, <2>2
    <2>4. v = base + at + a + 1 - t
        BY <1>11, <1>16, <2>2, <2>3
    <2>5. base + at + a + 1 - t = base + at + i
        BY <1>24, <2>1
    <2> QED BY <2>4, <2>5
<1>25. ASSUME a \in {9, o + 1, p + 1}
       PROVE  v = need[sec]
    <2>1. a # at /\ ~(a - at \in 1 .. num)
        BY <1>3, <1>15, <1>18, <1>25
    <2>2. ~inAttr /\ ~(a \in Cells(e, EntitySize(4)))
        BY <1>3, <1>13, <1>14, <1>18, <1>25
    <2>3. ~(a + 1 - t \in 1 .. num)
        BY <1>3, <1>16, <1>18, <1>25
    <2> QED BY <1>11, <1>17, <1>25, <2>1, <2>2, <2>3
<1>26. ASSUME NEW s \in {3, 4, 5}, a = Offset(m, s) + 1
       PROVE  v = need[s]
    <2>1. s \in 3 .. 5
        OBVIOUS
    <2>2. sec \in 3 .. 5 /\ a = Offset(m, sec) + 1
        BY <1>7, <1>26, <2>1
    <2>3. sec \in {3, 4, 5}
        BY <2>2
    <2>4. 8 < o /\ o < p
        BY <1>3, <1>18
    <2>5. sec = s
        BY <1>26, <2>2, <2>3, <2>4
    <2>6. a \in {9, o + 1, p + 1}
        BY <1>26
    <2> QED BY <1>25, <2>5, <2>6
<1>27. /\ a = 9 => v = need[3]
       /\ a = o + 1 => v = need[4]
       /\ a = p + 1 => v = need[5]
    BY <1>26
<1>28. \/ a \in {9, o + 1, p + 1}
       \/ at <= a /\ a < at + size
       \/ e <= a /\ a < e + 3
       \/ t <= a /\ a < t + num
       \/ v = m[a]
    <2>1. SUFFICES ASSUME ~(a \in {9, o + 1, p + 1}), ~(at <= a /\ a < at + size),
                          ~(e <= a /\ a < e + 3), ~(t <= a /\ a < t + num)
                   PROVE  v = m[a]
        OBVIOUS
    <2>2. a # at /\ ~(a - at \in 1 .. num) /\ ~inAttr
        BY <1>3, <1>13, <1>15, <2>1
    <2>3. ~(a \in Cells(e, EntitySize(4))) /\ ~(a + 1 - t \in 1 .. num) /\ ~inCount
        BY <1>14, <1>16, <1>17, <2>1
    <2> QED BY <1>11, <2>2, <2>3
<1>29. v \in Nat
    <2>1. CASE a = at
        BY <1>19, <2>1 DEF Value
    <2>2. CASE a - at \in 1 .. num
        <3>1. a = at + (a - at) /\ Lead(shape, a - at) \in Nat
            BY <1>3, <2>2
        <3>2. v = base + at + Lead(shape, a - at)
            BY <1>20, <2>2, <3>1
        <3> QED BY <3>1, <3>2
    <2>3. CASE inAttr
        <3>1. PICK i \in 1 .. num :
                  at + Lead(shape, i) <= a /\ a < at + Lead(shape, i) + Length(shape, i)
            BY <1>12, <2>3
        <3>2. PICK j : j = a - (at + Lead(shape, i))
            OBVIOUS
        <3>3. Lead(shape, i) \in Nat /\ Length(shape, i) \in Nat /\ i \in Nat
            BY <1>3
        <3>4. j \in 0 .. Length(shape, i) - 1 /\ a = at + Lead(shape, i) + j
            BY <3>1, <3>2, <3>3
        <3>5. v = AttrValue(shape, k, i, j)
            BY <1>21, <3>4
        <3>6. j \in Nat
            BY <3>3, <3>4
        <3>7. Value(k, i, j) \in Nat
            BY <3>3, <3>6 DEF Value
        <3> QED BY <3>5, <3>7 DEF AttrValue
    <2>4. CASE e <= a /\ a < e + 3
        <3>1. a = e \/ a = e + 1 \/ a = e + 2
            BY <2>4
        <3> QED BY <1>3, <1>23, <3>1
    <2>5. CASE a + 1 - t \in 1 .. num
        <3>1. PICK i : i = (a + 1) - t
            OBVIOUS
        <3>2. i \in 1 .. num /\ i \in Nat /\ a = t + (i - 1)
            BY <1>3, <2>5, <3>1
        <3>3. v = base + at + i
            BY <1>24, <3>2
        <3> QED BY <3>2, <3>3
    <2>6. CASE a \in {9, o + 1, p + 1}
        BY <1>27, <2>6
    <2>7. CASE /\ a # at /\ ~(a - at \in 1 .. num) /\ ~inAttr /\ ~(e <= a /\ a < e + 3)
               /\ ~(a + 1 - t \in 1 .. num) /\ ~(a \in {9, o + 1, p + 1})
        BY <1>11, <1>14, <1>17, <2>7
    <2> QED BY <2>1, <2>2, <2>3, <2>4, <2>5, <2>6, <2>7
<1>30. Spot(v, m, base, shape, k, at, e, t, need, o, p, a)
    BY <1>1, <1>2, <1>19, <1>20, <1>21, <1>23, <1>24, <1>27, <1>28, <1>29 DEF Spot
<1> QED BY <1>10, <1>30

LEMMA StoredIs ==
    ASSUME NEW x, NEW n, NEW q, Laid(x.mem, x.base, n, q), NEW shape \in Shapes,
           RoomFor(x.mem, q, shape), NEW k \in Nat
    PROVE  Written(Stored(x, shape, k), x.mem, x.base, n, q, shape, k)
<1>1. PICK m : m = x.mem
    OBVIOUS
<1>2. PICK base : base = x.base
    OBVIOUS
<1>3. PICK o : o = ObjectsAt(q)
    OBVIOUS
<1>4. PICK p : p = PtrsAt(q)
    OBVIOUS
<1>5. PICK ms : ms = m[9]
    OBVIOUS
<1>6. PICK mo : mo = m[o + 1]
    OBVIOUS
<1>7. PICK mp : mp = m[p + 1]
    OBVIOUS
<1>8. PICK num : num = NumAttrs(shape)
    OBVIOUS
<1>9. PICK size : size = ObjectSize(shape)
    OBVIOUS
<1>10. /\ n \in Nat /\ base \in Nat /\ ms \in Nat /\ mo \in Nat /\ mp \in Nat /\ q \in Counts
       /\ m \in Memories(n) /\ EndAt(q) <= n
    BY <1>1, <1>2, <1>3, <1>4, <1>5, <1>6, <1>7, CountsAre
<1>11. ms + size <= q[3] /\ mo + 1 <= q[4] /\ mp + num <= q[5]
    BY <1>1, <1>3, <1>4, <1>5, <1>6, <1>7, <1>8, <1>9 DEF RoomFor
<1>12. /\ q[3] \in Nat /\ q[4] \in Nat /\ q[5] \in Nat
       /\ o \in Nat /\ o = 10 + q[3] /\ p \in Nat /\ p = o + 3 * q[4] + 2
       /\ p + q[5] + 4 <= n
    BY <1>3, <1>4, <1>10, PlacesAre
<1>13. /\ num \in Nat /\ size \in Nat /\ size >= 1 + num
       /\ \A i \in 1 .. num : /\ Lead(shape, i) \in Nat /\ Length(shape, i) \in Nat
                              /\ Lead(shape, i) >= 1 + num
                              /\ Lead(shape, i) + Length(shape, i) <= size
       /\ \A i, j \in 1 .. num : i < j => Lead(shape, i) + Length(shape, i) <= Lead(shape, j)
    BY <1>8, <1>9, ShapeIs
<1>14. PICK at : at = 10 + ms
    OBVIOUS
<1>15. PICK e : e = o + 2 + 3 * mo
    OBVIOUS
<1>16. PICK t : t = p + 2 + mp
    OBVIOUS
<1>17. /\ at \in Nat /\ e \in Nat /\ t \in Nat /\ at + size <= o /\ e + 3 <= p /\ t + num <= n
       /\ e >= o + 2 /\ t >= p + 2 /\ at >= 10
    BY <1>10, <1>11, <1>12, <1>13, <1>14, <1>15, <1>16
<1>18. /\ Offset(m, 3) = 8 /\ Offset(m, 4) = o /\ Offset(m, 5) = p
       /\ UsedSize(m, 3) = ms + 2 /\ UsedSize(m, 4) = 3 * mo + 2 /\ UsedSize(m, 5) = mp + 2
       /\ NumEntities(m, 3) = ms /\ NumEntities(m, 4) = mo /\ NumEntities(m, 5) = mp
    BY <1>1, <1>3, <1>4, <1>5, <1>6, <1>7, ImageIs
<1>19. /\ Offset(m, 3) + UsedSize(m, 3) = at /\ Offset(m, 4) + UsedSize(m, 4) = e
       /\ Offset(m, 5) + UsedSize(m, 5) = t
    BY <1>10, <1>12, <1>14, <1>15, <1>16, <1>18
<1>20. PICK need : need = RequestFor(m, shape)
    OBVIOUS
<1>21. need[3] = ms + size /\ need[4] = mo + 1 /\ need[5] = mp + num
    <2>1. 3 \in Sections /\ 4 \in Sections /\ 5 \in Sections
        BY DEF Sections
    <2> QED BY <1>8, <1>9, <1>18, <1>20, <2>1 DEF RequestFor
<1>22. PICK w : w = Stored(x, shape, k)
    OBVIOUS
<1>23. DOMAIN m = 0 .. n - 1 /\ \A a \in 0 .. n - 1 : m[a] \in Nat
    BY <1>10 DEF Memories
<1>24. w = [a \in 0 .. n - 1 |-> StoredAt(m, base, shape, k, at, e, t, need, a)]
    <2>1. Stored(x, shape, k) =
              [a \in DOMAIN x.mem |->
                  StoredAt(x.mem, x.base, shape, k,
                           Offset(x.mem, 3) + UsedSize(x.mem, 3),
                           Offset(x.mem, 4) + UsedSize(x.mem, 4),
                           Offset(x.mem, 5) + UsedSize(x.mem, 5),
                           RequestFor(x.mem, shape), a)]
        BY DEF Stored, StoredAt
    <2> QED BY <1>1, <1>2, <1>19, <1>20, <1>22, <1>23, <2>1
<1>25. ASSUME NEW a \in 0 .. n - 1
       PROVE  a \in Nat /\ Spot(w[a], m, base, shape, k, at, e, t, need, o, p, a)
    <2>1. a \in Nat
        BY <1>10
    <2>2. at + ObjectSize(shape) <= o
        BY <1>9, <1>17
    <2>3. m[a] \in Nat /\ need[3] \in Nat /\ need[4] \in Nat /\ need[5] \in Nat
        BY <1>10, <1>13, <1>21, <1>23
    <2>4. Spot(StoredAt(m, base, shape, k, at, e, t, need, a),
               m, base, shape, k, at, e, t, need, o, p, a)
        BY <1>10, <1>12, <1>17, <1>18, <2>1, <2>2, <2>3, StoredAtIs
    <2> QED BY <1>24, <2>1, <2>4
<1>26. w \in Memories(n)
    <2>1. \A a \in 0 .. n - 1 : w[a] \in Nat
        BY <1>25 DEF Spot
    <2> QED BY <1>24, <2>1 DEF Memories
<1>27. w[at] = Value(k, 0, 0)
    <2>1. at \in 0 .. n - 1
        BY <1>10, <1>12, <1>13, <1>17
    <2> QED BY <1>25, <2>1 DEF Spot
<1>28. ASSUME NEW i \in 1 .. num
       PROVE  w[at + i] = base + at + Lead(shape, i)
    <2>1. at + i \in 0 .. n - 1
        BY <1>10, <1>12, <1>13, <1>17
    <2> QED BY <1>8, <1>25, <2>1 DEF Spot
<1>29. ASSUME NEW i \in 1 .. num, NEW j \in 0 .. Length(shape, i) - 1
       PROVE  w[at + Lead(shape, i) + j] = AttrValue(shape, k, i, j)
    <2>1. Lead(shape, i) \in Nat /\ Length(shape, i) \in Nat /\ Lead(shape, i) + Length(shape, i) <= size
        BY <1>13
    <2>2. j \in Int /\ 0 <= j /\ j < Length(shape, i)
        BY <2>1
    <2>3. at + Lead(shape, i) + j \in 0 .. n - 1
        <3>1. PICK lead : lead = Lead(shape, i)
            OBVIOUS
        <3>2. PICK length : length = Length(shape, i)
            OBVIOUS
        <3>3. lead \in Nat /\ length \in Nat /\ lead + length <= size /\ j < length
            BY <2>1, <2>2, <3>1, <3>2
        <3>4. at + lead + j \in 0 .. n - 1
            BY <1>10, <1>12, <1>13, <1>17, <2>2, <3>3
        <3> QED BY <3>1, <3>4
    <2> QED BY <1>8, <1>25, <2>3 DEF Spot
<1>30. w[e] = base + at /\ w[e + 1] = k /\ w[e + 2] = size
    <2>1. e \in 0 .. n - 1 /\ e + 1 \in 0 .. n - 1 /\ e + 2 \in 0 .. n - 1
        BY <1>10, <1>12, <1>17
    <2>2. w[e] = base + at
        BY <1>25, <2>1 DEF Spot
    <2>3. w[e + 1] = k
        BY <1>25, <2>1 DEF Spot
    <2>4. w[e + 2] = size
        BY <1>9, <1>25, <2>1 DEF Spot
    <2> QED BY <2>2, <2>3, <2>4
<1>31. ASSUME NEW i \in 1 .. num
       PROVE  w[t + (i - 1)] = base + at + i
    <2>1. t + (i - 1) \in 0 .. n - 1
        BY <1>10, <1>13, <1>17
    <2> QED BY <1>8, <1>25, <2>1 DEF Spot
<1>32. w[9] = ms + size /\ w[o + 1] = mo + 1 /\ w[p + 1] = mp + num
    <2>1. 9 \in 0 .. n - 1 /\ o + 1 \in 0 .. n - 1 /\ p + 1 \in 0 .. n - 1
        BY <1>10, <1>12, <1>17
    <2>2. w[9] = need[3]
        BY <1>25, <2>1 DEF Spot
    <2>3. w[o + 1] = need[4]
        BY <1>25, <2>1 DEF Spot
    <2>4. w[p + 1] = need[5]
        BY <1>25, <2>1 DEF Spot
    <2> QED BY <1>21, <2>2, <2>3, <2>4
<1>33. ASSUME NEW a \in 0 .. n - 1
       PROVE  \/ a \in {9, o + 1, p + 1}
              \/ at <= a /\ a < at + size
              \/ e <= a /\ a < e + 3
              \/ t <= a /\ a < t + num
              \/ w[a] = m[a]
    BY <1>8, <1>9, <1>25 DEF Spot
<1>34. Written(w, m, base, n, q, shape, k)
    <2>1. /\ at = 10 + m[9] /\ ms = m[9] /\ mo = m[ObjectsAt(q) + 1] /\ mp = m[PtrsAt(q) + 1]
          /\ e = ObjectsAt(q) + 2 + 3 * m[ObjectsAt(q) + 1]
          /\ t = PtrsAt(q) + 2 + m[PtrsAt(q) + 1]
        BY <1>3, <1>4, <1>5, <1>6, <1>7, <1>14, <1>15, <1>16
    <2> QED BY <1>3, <1>4, <1>8, <1>9, <1>26, <1>27, <1>28, <1>29, <1>30, <1>31, <1>32, <1>33, <2>1
            DEF Written
<1> QED BY <1>1, <1>2, <1>22, <1>34

\* Storing leaves the layout as it is.
LEMMA StoredLaid ==
    ASSUME NEW m, NEW base, NEW n, NEW q, Laid(m, base, n, q), NEW shape \in Shapes,
           RoomFor(m, q, shape), NEW k, NEW w, Written(w, m, base, n, q, shape, k)
    PROVE  /\ Laid(w, base, n, q)
           /\ \A a \in 10 .. 10 + m[9] - 1 : w[a] = m[a]
           /\ \A a \in 0 .. n - 1 :
                 ObjectsAt(q) + 2 <= a /\ a < ObjectsAt(q) + 2 + 3 * m[ObjectsAt(q) + 1] => w[a] = m[a]
           /\ \A a \in 0 .. n - 1 :
                 PtrsAt(q) + 2 <= a /\ a < PtrsAt(q) + 2 + m[PtrsAt(q) + 1] => w[a] = m[a]
<1>1. PICK o : o = ObjectsAt(q)
    OBVIOUS
<1>2. PICK p : p = PtrsAt(q)
    OBVIOUS
<1>3. PICK g : g = RangesAt(q)
    OBVIOUS
<1>4. PICK ms : ms = m[9]
    OBVIOUS
<1>5. PICK mo : mo = m[o + 1]
    OBVIOUS
<1>6. PICK mp : mp = m[p + 1]
    OBVIOUS
<1>7. PICK num : num = NumAttrs(shape)
    OBVIOUS
<1>8. PICK size : size = ObjectSize(shape)
    OBVIOUS
<1>9. /\ n \in Nat /\ ms \in Nat /\ mo \in Nat /\ mp \in Nat /\ q \in Counts /\ EndAt(q) <= n
    BY <1>1, <1>2, <1>4, <1>5, <1>6, CountsAre
<1>10. ms + size <= q[3] /\ mo + 1 <= q[4] /\ mp + num <= q[5]
    BY <1>1, <1>2, <1>4, <1>5, <1>6, <1>7, <1>8 DEF RoomFor
<1>11. /\ q[3] \in Nat /\ q[4] \in Nat /\ q[5] \in Nat /\ q[6] \in Nat
       /\ o \in Nat /\ o = 10 + q[3] /\ p \in Nat /\ p = o + 3 * q[4] + 2
       /\ g \in Nat /\ g = p + q[5] + 2 /\ g + 2 * q[6] + 2 <= n
    BY <1>1, <1>2, <1>3, <1>9, PlacesAre
<1>12. num \in Nat /\ size \in Nat /\ size >= 1 + num
    BY <1>7, <1>8, ShapeIs
<1>13. PICK at : at = 10 + ms
    OBVIOUS
<1>14. PICK e : e = o + 2 + 3 * mo
    OBVIOUS
<1>15. PICK t : t = p + 2 + mp
    OBVIOUS
<1>16. /\ at \in Nat /\ e \in Nat /\ t \in Nat /\ at + size <= o /\ e + 3 <= p /\ t + num <= g
       /\ e >= o + 2 /\ t >= p + 2 /\ at >= 10
    BY <1>9, <1>10, <1>11, <1>12, <1>13, <1>14, <1>15
<1>17. /\ w \in Memories(n)
       /\ w[9] = ms + size /\ w[o + 1] = mo + 1 /\ w[p + 1] = mp + num
       /\ \A a \in 0 .. n - 1 : \/ a \in {9, o + 1, p + 1}
                                \/ at <= a /\ a < at + size
                                \/ e <= a /\ a < e + 3
                                \/ t <= a /\ a < t + num
                                \/ w[a] = m[a]
    BY <1>1, <1>2, <1>4, <1>5, <1>6, <1>7, <1>8, <1>13, <1>14, <1>15 DEF Written
<1>18. ASSUME NEW a \in {0, 1, 3, 4, 5, 6, 8, o, p, g, g + 1} PROVE w[a] = m[a]
    <2>1. a \in 0 .. n - 1
        BY <1>9, <1>11, <1>18
    <2>2. a \notin {9, o + 1, p + 1} /\ ~(at <= a /\ a < at + size)
        BY <1>11, <1>12, <1>16, <1>18
    <2>3. ~(e <= a /\ a < e + 3)
        BY <1>11, <1>12, <1>16, <1>18
    <2>4. ~(t <= a /\ a < t + num)
        BY <1>11, <1>12, <1>16, <1>18
    <2> QED BY <1>17, <2>1, <2>2, <2>3, <2>4
<1>19. Worded(w, m, q)
    BY <1>1, <1>2, <1>3, <1>10, <1>17, <1>18 DEF Worded
<1>20. ASSUME NEW a \in 10 .. 10 + ms - 1 PROVE w[a] = m[a]
    <2>1. a \in 0 .. n - 1 /\ a \notin {9, o + 1, p + 1} /\ a < at /\ a < e /\ a < t
        BY <1>9, <1>11, <1>12, <1>13, <1>16, <1>20
    <2> QED BY <1>9, <1>16, <1>17, <2>1
<1>21. ASSUME NEW a \in 0 .. n - 1, o + 2 <= a, a < o + 2 + 3 * mo PROVE w[a] = m[a]
    <2>1. a \notin {9, o + 1, p + 1} /\ ~(at <= a /\ a < at + size) /\ a < e /\ a < t
        BY <1>9, <1>11, <1>12, <1>14, <1>16, <1>21
    <2> QED BY <1>9, <1>16, <1>17, <2>1
<1>22. ASSUME NEW a \in 0 .. n - 1, p + 2 <= a, a < p + 2 + mp PROVE w[a] = m[a]
    <2>1. a \notin {9, o + 1, p + 1} /\ ~(at <= a /\ a < at + size) /\ ~(e <= a /\ a < e + 3) /\ a < t
        BY <1>9, <1>11, <1>12, <1>15, <1>16, <1>22
    <2> QED BY <1>9, <1>16, <1>17, <2>1
<1>23. Laid(w, base, n, q)
    BY <1>17, <1>19, WordedIs
<1> QED BY <1>1, <1>2, <1>4, <1>5, <1>6, <1>20, <1>21, <1>22, <1>23

\* The places of the objects, when one more is stored behind ms slots in use.
Placed1(at, len, ms) == [k \in 1 .. len + 1 |-> IF k = len + 1 THEN 10 + ms ELSE at[k]]

\* Storing an object keeps those there are, and adds this one.
LEMMA StoredKeeps ==
    ASSUME NEW m, NEW base, NEW n, NEW q, Laid(m, base, n, q), NEW shape \in Shapes,
           RoomFor(m, q, shape), NEW st, NEW at, Contents(m, base, q, st, at),
           NEW w, NEW mo, Written(w, m, base, n, q, shape, mo + 1)
    PROVE  mo = Len(st) => Contents(w, base, q, Append(st, shape), Placed1(at, mo, m[9]))
<1>1. PICK o : o = ObjectsAt(q)
    OBVIOUS
<1>2. PICK p : p = PtrsAt(q)
    OBVIOUS
<1>3. PICK ms : ms = m[9]
    OBVIOUS
<1>4. SUFFICES ASSUME mo = Len(st)
               PROVE  Contents(w, base, q, Append(st, shape), Placed1(at, mo, m[9]))
    OBVIOUS
<1>5. PICK mp : mp = m[p + 1]
    OBVIOUS
<1>6. PICK num : num = NumAttrs(shape)
    OBVIOUS
<1>7. PICK size : size = ObjectSize(shape)
    OBVIOUS
<1>8. /\ st \in Seq(Shapes) /\ m[o + 1] = mo /\ Placing(st, at, ms) /\ Filled(m, base, st, at)
      /\ Indexed(m, base, q, st, at) /\ Listed(m, base, q, st, at)
    BY <1>1, <1>3, <1>4 DEF Contents
<1>9. /\ n \in Nat /\ base \in Nat /\ ms \in Nat /\ mo \in Nat /\ mp \in Nat /\ q \in Counts
      /\ EndAt(q) <= n
    BY <1>1, <1>2, <1>3, <1>5, <1>8, CountsAre
<1>10. ms + size <= q[3] /\ mo + 1 <= q[4] /\ mp + num <= q[5]
    BY <1>1, <1>2, <1>3, <1>5, <1>6, <1>7, <1>8 DEF RoomFor
<1>11. /\ q[3] \in Nat /\ q[4] \in Nat /\ q[5] \in Nat
       /\ o \in Nat /\ o = 10 + q[3] /\ p \in Nat /\ p = o + 3 * q[4] + 2 /\ p + q[5] + 4 <= n
    <2>1. q \in Counts /\ n \in Nat /\ EndAt(q) <= n
        BY <1>9
    <2>2. /\ q[3] \in Nat /\ q[4] \in Nat /\ q[5] \in Nat /\ q[6] \in Nat
          /\ o \in Nat /\ o = 10 + q[3] /\ p \in Nat /\ p = o + 3 * q[4] + 2
        BY <1>1, <1>2, <2>1, PlacesAre
    <2>3. p + q[5] + 2 + 2 * q[6] + 2 <= n
        BY <1>2, <2>1, <2>2, PlacesAre
    <2> QED BY <2>1, <2>2, <2>3
<1>12. /\ num \in Nat /\ size \in Nat /\ size >= 1 + num
       /\ \A i \in 1 .. num : Lead(shape, i) \in Nat /\ Length(shape, i) \in Nat
    BY <1>6, <1>7, ShapeIs
<1>13. PICK x : x = 10 + ms
    OBVIOUS
<1>14. PICK e : e = o + 2 + 3 * mo
    OBVIOUS
<1>15. PICK t : t = p + 2 + mp
    OBVIOUS
<1>16. x \in Nat /\ e \in Nat /\ t \in Nat
    <2>1. x \in Nat
        BY <1>9, <1>13
    <2>2. e \in Nat
        BY <1>9, <1>11, <1>14
    <2>3. t \in Nat
        BY <1>9, <1>11, <1>15
    <2> QED BY <2>1, <2>2, <2>3
<1>17. /\ w[x] = Value(mo + 1, 0, 0)
       /\ \A i \in 1 .. num : w[x + i] = base + x + Lead(shape, i)
       /\ \A i \in 1 .. num : \A j \in 0 .. Length(shape, i) - 1 :
             w[x + Lead(shape, i) + j] = AttrValue(shape, mo + 1, i, j)
       /\ w[e] = base + x /\ w[e + 1] = mo + 1 /\ w[e + 2] = size
       /\ \A i \in 1 .. num : w[t + (i - 1)] = base + x + i
       /\ w[9] = ms + size /\ w[o + 1] = mo + 1 /\ w[p + 1] = mp + num
    BY <1>1, <1>2, <1>3, <1>4, <1>5, <1>6, <1>7, <1>8, <1>13, <1>14, <1>15 DEF Written
<1>18. /\ \A a \in 10 .. 10 + ms - 1 : w[a] = m[a]
       /\ \A a \in 0 .. n - 1 : o + 2 <= a /\ a < e => w[a] = m[a]
       /\ \A a \in 0 .. n - 1 : p + 2 <= a /\ a < t => w[a] = m[a]
    BY <1>1, <1>2, <1>3, <1>5, <1>8, <1>14, <1>15, StoredLaid
<1>19. PICK st2 : st2 = Append(st, shape)
    OBVIOUS
<1>20. /\ st2 \in Seq(Shapes) /\ Len(st2) = mo + 1 /\ st2[mo + 1] = shape
       /\ \A k \in 1 .. mo : st2[k] = st[k]
    BY <1>4, <1>8, <1>19
<1>21. PICK at2 : at2 = Placed1(at, mo, ms)
    OBVIOUS
<1>22. /\ at2 = [k \in 1 .. mo + 1 |-> IF k = mo + 1 THEN x ELSE at[k]]
       /\ at2[mo + 1] = x /\ \A k \in 1 .. mo : at2[k] = at[k]
    BY <1>9, <1>13, <1>21 DEF Placed1
<1>23. \A k \in 1 .. mo + 1 : k \in 1 .. mo \/ k = mo + 1
    BY <1>9
<1>24. /\ at \in [1 .. mo -> Nat]
       /\ \A k \in 1 .. mo : /\ at[k] \in Nat /\ st[k] \in Shapes /\ ObjectSize(st[k]) \in Nat
                             /\ 10 <= at[k] /\ at[k] + ObjectSize(st[k]) <= 10 + ms
       /\ \A k, l \in 1 .. mo : k < l => at[k] + ObjectSize(st[k]) <= at[l]
    <2>1. at \in [1 .. mo -> Nat]
        BY <1>4, <1>8 DEF Placing
    <2>2. ASSUME NEW k \in 1 .. mo
          PROVE  at[k] \in Nat /\ st[k] \in Shapes /\ ObjectSize(st[k]) \in Nat
        <3>1. st[k] \in Shapes
            BY <1>4, <1>8
        <3> QED BY <2>1, <3>1, ShapeIs
    <2> QED BY <1>4, <1>8, <2>1, <2>2 DEF Placing
<1>25. Placing(st2, at2, ms + size)
    <2>1. at2 \in [1 .. mo + 1 -> Nat]
        BY <1>16, <1>22, <1>23, <1>24
    <2>2. ASSUME NEW k \in 1 .. mo + 1
          PROVE  10 <= at2[k] /\ at2[k] + ObjectSize(st2[k]) <= 10 + (ms + size)
        <3>1. CASE k \in 1 .. mo
            BY <1>9, <1>12, <1>20, <1>22, <1>24, <3>1, SMTT(30)
        <3>2. CASE k = mo + 1
            BY <1>7, <1>9, <1>12, <1>13, <1>20, <1>22, <3>2
        <3> QED BY <1>23, <3>1, <3>2
    <2>3. ASSUME NEW k \in 1 .. mo + 1, NEW l \in 1 .. mo + 1, k < l
          PROVE  at2[k] + ObjectSize(st2[k]) <= at2[l]
        <3>1. k \in 1 .. mo
            BY <1>9, <2>3
        <3>2. CASE l \in 1 .. mo
            BY <1>20, <1>22, <1>24, <2>3, <3>1, <3>2
        <3>3. CASE l = mo + 1
            BY <1>13, <1>20, <1>22, <1>24, <3>1, <3>3
        <3> QED BY <1>23, <3>2, <3>3
    <2> QED BY <1>20, <2>1, <2>2, <2>3 DEF Placing
<1>26. ASSUME NEW k \in 1 .. mo + 1
       PROVE  /\ w[at2[k]] = Value(k, 0, 0)
              /\ \A i \in 1 .. NumAttrs(st2[k]) :
                    /\ w[at2[k] + i] = base + at2[k] + Lead(st2[k], i)
                    /\ \A j \in 0 .. Length(st2[k], i) - 1 :
                          w[at2[k] + Lead(st2[k], i) + j] = AttrValue(st2[k], k, i, j)
    <2>1. CASE k = mo + 1
        BY <1>6, <1>17, <1>20, <1>22, <2>1
    <2>2. CASE k \in 1 .. mo
        <3>1. Copies(w, 10, m, 10, ms)
            <4>1. ASSUME NEW i \in 0 .. ms - 1 PROVE w[10 + i] = m[10 + i]
                <5>1. 10 + i \in 10 .. 10 + ms - 1
                    BY <1>9
                <5> QED BY <1>18, <5>1
            <4> QED BY <4>1 DEF Copies
        <3>2. Filled(w, base, st, at)
            BY <1>8, <1>9, <3>1, FilledIs
        <3>3. /\ w[at[k]] = Value(k, 0, 0)
              /\ \A i \in 1 .. NumAttrs(st[k]) :
                    /\ w[at[k] + i] = base + at[k] + Lead(st[k], i)
                    /\ \A j \in 0 .. Length(st[k], i) - 1 :
                          w[at[k] + Lead(st[k], i) + j] = AttrValue(st[k], k, i, j)
            BY <1>4, <2>2, <3>2 DEF Filled
        <3>4. st2[k] = st[k] /\ at2[k] = at[k]
            BY <1>20, <1>22, <2>2
        <3> QED BY <3>3, <3>4
    <2> QED BY <1>23, <2>1, <2>2
<1>27. Filled(w, base, st2, at2)
    BY <1>20, <1>26 DEF Filled
<1>28. ASSUME NEW k \in 1 .. mo + 1
       PROVE  /\ w[EntryAt(q, k)] = base + at2[k] /\ w[EntryAt(q, k) + 1] = k
              /\ w[EntryAt(q, k) + 2] = ObjectSize(st2[k])
    <2>1. CASE k = mo + 1
        <3>1. EntryAt(q, k) = e
            BY <1>1, <1>9, <1>11, <1>14, <2>1 DEF EntryAt
        <3> QED BY <1>7, <1>17, <1>20, <1>22, <2>1, <3>1
    <2>2. CASE k \in 1 .. mo
        <3>1. PICK y : y = EntryAt(q, k)
            OBVIOUS
        <3>2. y = o + 2 + 3 * (k - 1) /\ k \in Int /\ 1 <= k /\ k <= mo
            BY <1>1, <1>9, <2>2, <3>1 DEF EntryAt
        <3>3. y \in Nat /\ o + 2 <= y /\ y + 2 < e
            BY <1>9, <1>11, <1>14, <3>2
        <3>4. e <= p
            BY <1>9, <1>10, <1>11, <1>14
        <3>5. y \in 0 .. n - 1 /\ y + 1 \in 0 .. n - 1 /\ y + 2 \in 0 .. n - 1
            BY <1>9, <1>11, <1>16, <3>3, <3>4
        <3>6. w[y] = m[y] /\ w[y + 1] = m[y + 1] /\ w[y + 2] = m[y + 2]
            BY <1>11, <1>16, <1>18, <3>3, <3>5
        <3>7. m[y] = base + at[k] /\ m[y + 1] = k /\ m[y + 2] = ObjectSize(st[k])
            BY <1>4, <1>8, <2>2, <3>1 DEF Indexed
        <3> QED BY <1>20, <1>22, <2>2, <3>1, <3>6, <3>7
    <2> QED BY <1>23, <2>1, <2>2
<1>29. Indexed(w, base, q, st2, at2)
    BY <1>20, <1>28 DEF Indexed
<1>30. \A l \in 0 .. mp - 1 : w[p + 2 + l] = m[p + 2 + l]
    <2>1. ASSUME NEW l \in 0 .. mp - 1 PROVE w[p + 2 + l] = m[p + 2 + l]
        <3>1. /\ p + 2 + l \in 0 .. n - 1 /\ p + 2 <= p + 2 + l /\ p + 2 + l < t
            BY <1>9, <1>10, <1>11, <1>12, <1>15
        <3> QED BY <1>18, <3>1
    <2> QED BY <2>1
<1>31. /\ \A l \in 0 .. mp - 1 :
             \E k \in 1 .. mo : \E i \in 1 .. NumAttrs(st[k]) : m[p + 2 + l] = base + at[k] + i
       /\ \A k \in 1 .. mo : \A i \in 1 .. NumAttrs(st[k]) :
             \E l \in 0 .. mp - 1 : m[p + 2 + l] = base + at[k] + i
    BY <1>2, <1>4, <1>5, <1>8 DEF Listed
<1>32. mo + 1 \in 1 .. mo + 1 /\ \A k \in 1 .. mo : k \in 1 .. mo + 1
    BY <1>9
<1>33. ASSUME NEW l \in 0 .. (mp + num) - 1
       PROVE  \E k \in 1 .. mo + 1 : \E i \in 1 .. NumAttrs(st2[k]) :
                  w[p + 2 + l] = base + at2[k] + i
    <2>1. CASE l < mp
        <3>1. l \in 0 .. mp - 1
            BY <1>9, <2>1
        <3>2. PICK k \in 1 .. mo : \E i \in 1 .. NumAttrs(st[k]) : m[p + 2 + l] = base + at[k] + i
            BY <1>31, <3>1
        <3>3. w[p + 2 + l] = m[p + 2 + l] /\ st2[k] = st[k] /\ at2[k] = at[k] /\ k \in 1 .. mo + 1
            BY <1>20, <1>22, <1>30, <1>32, <3>1, <3>2
        <3> QED BY <3>2, <3>3
    <2>2. CASE ~(l < mp)
        <3>1. PICK i : i = (l - mp) + 1
            OBVIOUS
        <3>2. i \in 1 .. num /\ t + (i - 1) = p + 2 + l
            BY <1>9, <1>11, <1>12, <1>15, <2>2, <3>1
        <3>3. w[p + 2 + l] = base + x + i
            BY <1>17, <3>2
        <3>4. st2[mo + 1] = shape /\ at2[mo + 1] = x /\ i \in 1 .. NumAttrs(shape)
            BY <1>6, <1>20, <1>22, <3>2
        <3> QED BY <1>32, <3>3, <3>4
    <2> QED BY <2>1, <2>2
<1>34. ASSUME NEW k \in 1 .. mo + 1, NEW i \in 1 .. NumAttrs(st2[k])
       PROVE  \E l \in 0 .. (mp + num) - 1 : w[p + 2 + l] = base + at2[k] + i
    <2>1. CASE k \in 1 .. mo
        <3>1. st2[k] = st[k] /\ at2[k] = at[k]
            BY <1>20, <1>22, <2>1
        <3>2. PICK l \in 0 .. mp - 1 : m[p + 2 + l] = base + at[k] + i
            BY <1>31, <2>1, <3>1
        <3>3. l \in 0 .. (mp + num) - 1
            BY <1>9, <1>12
        <3>4. w[p + 2 + l] = base + at2[k] + i
            BY <1>30, <3>1, <3>2
        <3> QED BY <3>3, <3>4
    <2>2. CASE k = mo + 1
        <3>1. i \in 1 .. num /\ at2[k] = x
            BY <1>6, <1>20, <1>22, <2>2
        <3>2. PICK l : l = mp + (i - 1)
            OBVIOUS
        <3>3. l \in 0 .. (mp + num) - 1 /\ t + (i - 1) = p + 2 + l
            BY <1>9, <1>11, <1>12, <1>15, <3>1, <3>2
        <3>4. w[p + 2 + l] = base + at2[k] + i
            BY <1>17, <3>1, <3>3
        <3> QED BY <3>3, <3>4
    <2> QED BY <1>23, <2>1, <2>2
<1>35. Listed(w, base, q, st2, at2)
    BY <1>2, <1>17, <1>20, <1>33, <1>34 DEF Listed
<1>36. Contents(w, base, q, st2, at2)
    BY <1>1, <1>17, <1>20, <1>25, <1>27, <1>29, <1>35 DEF Contents
<1> QED BY <1>3, <1>19, <1>21, <1>36

-----------------------------------------------------------------------------
(* A buffer and its memory.                                                *)

FieldNames ==
    {"mem", "base", "room", "addr", "size", "capacity", "num", "index", "owned"}

\* The fields of a buffer agree with its memory, which is laid out for q.
Sound(x, q) ==
    /\ DOMAIN x = FieldNames
    /\ x.base \in Bases /\ x.room \in Nat /\ x.owned \in BOOLEAN
    /\ Laid(x.mem, x.base, x.capacity, q)
    /\ x.size = EndAt(q) /\ x.num = x.mem[ObjectsAt(q) + 1]

\* It has the objects st, and they are there as long as the buffer has not
\* lost its memory.
HoldsAs(x, q, st) ==
    /\ Sound(x, q) /\ st \in Seq(Shapes) /\ x.num = Len(st)
    /\ x.addr = x.base => \E at : Contents(x.mem, x.base, q, st, at)

\* As many slots, objects and pointers are in use as before.
Counted(x, q, y, q2) ==
    /\ y.mem[9] = x.mem[9]
    /\ y.mem[ObjectsAt(q2) + 1] = x.mem[ObjectsAt(q) + 1]
    /\ y.mem[PtrsAt(q2) + 1] = x.mem[PtrsAt(q) + 1]

\* What a call has left of a buffer.
Left(x, q, y, q2, st) ==
    /\ HoldsAs(y, q2, st)
    /\ y.addr = y.base /\ y.capacity <= x.capacity /\ IndexRight(x) => IndexRight(y)
    /\ NoneEmpty /\ x.mem[RangesAt(q)] # 0 => y.addr = y.base

\* The pool's size is the buffer's capacity.
LEMMA PoolIs ==
    ASSUME NEW x, NEW q, Sound(x, q)
    PROVE  /\ PoolSize(x) = x.capacity /\ x.capacity \in Nat /\ DOMAIN x.mem = 0 .. x.capacity - 1
           /\ x.base \in Nat /\ x.base # 0 /\ q \in Counts
<1>1. PICK n : n = x.capacity
    OBVIOUS
<1>2. n \in Nat /\ x.mem \in Memories(n) /\ q \in Counts
    BY <1>1 DEF Sound, Laid
<1>3. DOMAIN x.mem = 0 .. n - 1
    BY <1>2 DEF Memories
<1>4. Cardinality(0 .. n - 1) = n
    <2>1. 0 \in Int /\ n - 1 \in Int
        BY <1>2
    <2>2. Cardinality(0 .. n - 1) = IF 0 > n - 1 THEN 0 ELSE (n - 1) - 0 + 1
        BY <2>1, FS_Interval
    <2> QED BY <1>2, <2>2
<1>5. x.base \in Nat /\ x.base # 0
    BY BufferAssumption DEF Sound
<1> QED BY <1>1, <1>2, <1>3, <1>4, <1>5 DEF PoolSize

\* Where the objects index is.
LEMMA IndexIs ==
    ASSUME NEW x, NEW q, Sound(x, q)
    PROVE  IndexBegin(x.mem) = x.base + ObjectsAt(q) + 2
<1>1. x.mem[4] = x.base + ObjectsAt(q)
    BY DEF Sound, Laid
<1> QED BY <1>1 DEF IndexBegin

\* A buffer that has been refreshed from its memory.
LEMMA RefreshedIs ==
    ASSUME NEW x, DOMAIN x = FieldNames, x.base \in Bases, x.room \in Nat, x.owned \in BOOLEAN,
           NEW m, NEW q, Laid(m, x.base, x.capacity, q)
    PROVE  /\ Sound(Refreshed(x, m), q) /\ Refreshed(x, m).mem = m
           /\ Refreshed(x, m).base = x.base /\ Refreshed(x, m).addr = x.addr
           /\ Refreshed(x, m).capacity = x.capacity /\ Refreshed(x, m).num = m[ObjectsAt(q) + 1]
           /\ IndexRight(Refreshed(x, m))
<1>1. PICK y : y = Refreshed(x, m)
    OBVIOUS
<1>2. NumEntities(m, 4) = m[ObjectsAt(q) + 1]
    BY ImageIs
<1>3. m[1] = EndAt(q)
    BY DEF Laid
<1>4. PICK num : num = NumEntities(m, 4)
    OBVIOUS
<1>5. PICK begin : begin = IndexBegin(m)
    OBVIOUS
<1>6. y = [x EXCEPT !.mem = m, !.size = m[1], !.index = begin, !.num = num]
    BY <1>1, <1>4, <1>5 DEF Refreshed
<1>7. /\ DOMAIN y = FieldNames /\ y.mem = m /\ y.size = m[1] /\ y.index = begin /\ y.num = num
      /\ y.base = x.base /\ y.addr = x.addr /\ y.room = x.room /\ y.owned = x.owned
      /\ y.capacity = x.capacity
    BY <1>6 DEF FieldNames
<1>8. Sound(y, q)
    BY <1>2, <1>3, <1>4, <1>7 DEF Sound
<1>9. IndexRight(y)
    BY <1>5, <1>7 DEF IndexRight
<1> QED BY <1>1, <1>2, <1>4, <1>7, <1>8, <1>9

\* A pool that has grown in place, by what it has left.
LEMMA AppendedIs ==
    ASSUME NEW x, NEW q, Sound(x, q), NEW capacity \in Nat,
           x.capacity <= capacity, capacity <= x.capacity + x.room
    PROVE  /\ Sound(Appended(x, capacity), q) /\ Appended(x, capacity).base = x.base
           /\ Appended(x, capacity).addr = x.base /\ Appended(x, capacity).capacity = capacity
           /\ Same(x.mem, q, Appended(x, capacity).mem, q)
<1>1. PICK y : y = Appended(x, capacity)
    OBVIOUS
<1>2. PICK n : n = x.capacity
    OBVIOUS
<1>3. PICK room : room = x.room
    OBVIOUS
<1>4. n \in Nat /\ room \in Nat /\ PoolSize(x) = n /\ DOMAIN x.mem = 0 .. n - 1 /\ DOMAIN x = FieldNames
    BY <1>2, <1>3, PoolIs DEF Sound
<1>5. PICK m : m = [a \in 0 .. capacity - 1 |-> IF a \in DOMAIN x.mem THEN x.mem[a] ELSE 0]
    OBVIOUS
<1>6. /\ Laid(x.mem, x.base, n, q) /\ x.mem \in Memories(n) /\ EndAt(q) <= n /\ EndAt(q) \in Nat
    <2>1. Laid(x.mem, x.base, n, q)
        BY <1>2 DEF Sound
    <2> QED BY <2>1, CountsAre, PlacesAre
<1>7. m \in Memories(capacity)
    <2>1. \A a \in 0 .. n - 1 : x.mem[a] \in Nat
        BY <1>6 DEF Memories
    <2> QED BY <1>4, <1>5, <2>1 DEF Memories
<1>8. n <= capacity /\ capacity <= n + room
    BY <1>2, <1>3
<1>9. \A a \in 0 .. EndAt(q) - 1 : m[a] = x.mem[a]
    <2>1. \A a \in 0 .. EndAt(q) - 1 : a \in 0 .. n - 1 /\ a \in 0 .. capacity - 1
        BY <1>4, <1>6, <1>8
    <2> QED BY <1>4, <1>5, <2>1
<1>10. EndAt(q) <= capacity
    BY <1>4, <1>6, <1>8
<1>11. Laid(m, x.base, capacity, q) /\ Same(x.mem, q, m, q)
    BY <1>6, <1>7, <1>9, <1>10, BeginningIs
<1>12. y = [x EXCEPT !.mem = m, !.room = @ - (capacity - n), !.addr = x.base,
                     !.capacity = capacity, !.index = x.mem[4]]
    BY <1>1, <1>4, <1>5 DEF Appended
<1>13. /\ DOMAIN y = FieldNames /\ y.mem = m /\ y.room = room - (capacity - n) /\ y.addr = x.base
       /\ y.capacity = capacity /\ y.base = x.base /\ y.owned = x.owned /\ y.size = x.size
       /\ y.num = x.num
    BY <1>3, <1>4, <1>12 DEF FieldNames
<1>14. y.room \in Nat
    BY <1>4, <1>8, <1>13
<1>15. m[ObjectsAt(q) + 1] = x.mem[ObjectsAt(q) + 1]
    BY <1>11 DEF Same
<1>16. Sound(y, q)
    BY <1>11, <1>13, <1>14, <1>15 DEF Sound
<1> QED BY <1>1, <1>11, <1>13, <1>16

\* Sections that hold the same have as many entities.
LEMMA SameCounts ==
    ASSUME NEW x, NEW q, NEW y, NEW q2, Same(x.mem, q, y.mem, q2)
    PROVE  Counted(x, q, y, q2)
BY DEF Same, Counted

\* A pool that has grown in place keeps the objects.
LEMMA AppendedHolds ==
    ASSUME NEW x, NEW q, NEW st, Sound(x, q), st \in Seq(Shapes), x.num = Len(st),
           NEW at, Contents(x.mem, x.base, q, st, at),
           NEW capacity \in Nat, x.capacity <= capacity, capacity <= x.capacity + x.room
    PROVE  /\ HoldsAs(Appended(x, capacity), q, st) /\ Counted(x, q, Appended(x, capacity), q)
           /\ Appended(x, capacity).base = x.base /\ Appended(x, capacity).addr = x.base
           /\ Appended(x, capacity).capacity = capacity
<1>1. PICK y : y = Appended(x, capacity)
    OBVIOUS
<1>2. /\ Sound(y, q) /\ y.base = x.base /\ y.addr = x.base /\ y.capacity = capacity
      /\ Same(x.mem, q, y.mem, q)
    BY <1>1, AppendedIs
<1>3. Laid(x.mem, x.base, x.capacity, q) /\ q \in Counts
    BY DEF Sound, Laid
<1>4. Contents(y.mem, x.base, q, st, at)
    BY <1>2, <1>3, ContentsKept
<1>5. Counted(x, q, y, q)
    BY <1>2, SameCounts
<1>6. y.num = x.num
    BY <1>2, <1>5 DEF Counted, Sound
<1>7. HoldsAs(y, q, st)
    BY <1>2, <1>4, <1>6 DEF HoldsAs
<1> QED BY <1>1, <1>2, <1>5, <1>7

\* The block that replaces the pool's.
LEMMA ReallocatedIs ==
    ASSUME NEW x, NEW q, NEW st, HoldsAs(x, q, st), x.addr = x.base,
           NEW capacity \in Nat, capacity > x.capacity + x.room,
           NEW base2 \in Bases, base2 # x.base, NEW slack \in Slacks
    PROVE  /\ HoldsAs(Reallocated(x, capacity, base2, slack).b, q, st)
           /\ Counted(x, q, Reallocated(x, capacity, base2, slack).b, q)
           /\ Reallocated(x, capacity, base2, slack).ok =>
                 /\ Reallocated(x, capacity, base2, slack).b.addr
                        = Reallocated(x, capacity, base2, slack).b.base
                 /\ Reallocated(x, capacity, base2, slack).b.capacity = capacity
           /\ ~Reallocated(x, capacity, base2, slack).ok =>
                 Reallocated(x, capacity, base2, slack).b.addr
                     # Reallocated(x, capacity, base2, slack).b.base
           /\ NoneEmpty /\ x.mem[RangesAt(q)] # 0 => Reallocated(x, capacity, base2, slack).ok
<1>1. PICK z : z = Reallocated(x, capacity, base2, slack)
    OBVIOUS
<1>2. PICK moved : moved = Remap(x.mem, base2)
    OBVIOUS
<1>3. PICK y : y = [x EXCEPT !.mem = moved.mem, !.base = base2,
                             !.room = capacity + slack - PoolSize(x)]
    OBVIOUS
<1>4. z = [ok |-> moved.ok, b |-> IF moved.ok THEN Appended(y, capacity) ELSE y]
    BY <1>1, <1>2, <1>3 DEF Reallocated
<1>5. PICK n : n = x.capacity
    OBVIOUS
<1>6. PICK room : room = x.room
    OBVIOUS
<1>7. /\ Sound(x, q) /\ st \in Seq(Shapes) /\ x.num = Len(st)
      /\ \E at : Contents(x.mem, x.base, q, st, at)
    BY DEF HoldsAs
<1>8. n \in Nat /\ PoolSize(x) = n /\ q \in Counts
    BY <1>5, <1>7, PoolIs
<1>9. room \in Nat /\ slack \in Nat /\ base2 \in Nat
    BY <1>6, <1>7, BufferAssumption DEF Sound
<1>10. capacity > n + room
    BY <1>5, <1>6
<1>11. PICK room2 : room2 = capacity + slack - n
    OBVIOUS
<1>12. room2 \in Nat /\ capacity <= n + room2 /\ n <= capacity
    BY <1>8, <1>9, <1>10, <1>11
<1>13. /\ DOMAIN y = FieldNames /\ y.mem = moved.mem /\ y.base = base2 /\ y.room = room2
       /\ y.addr = x.addr /\ y.size = x.size /\ y.capacity = n /\ y.num = x.num
       /\ y.owned = x.owned
    <2>1. DOMAIN x = FieldNames
        BY <1>7 DEF Sound
    <2>2. y = [x EXCEPT !.mem = moved.mem, !.base = base2, !.room = room2]
        BY <1>3, <1>8, <1>11
    <2> QED BY <1>5, <2>1, <2>2 DEF FieldNames
<1>14. Laid(x.mem, x.base, n, q)
    BY <1>5, <1>7 DEF Sound
<1>15. /\ Laid(y.mem, base2, n, q) /\ y.mem[9] = x.mem[9]
       /\ y.mem[ObjectsAt(q) + 1] = x.mem[ObjectsAt(q) + 1]
       /\ y.mem[PtrsAt(q) + 1] = x.mem[PtrsAt(q) + 1]
    <2>1. PICK m : m = x.mem
        OBVIOUS
    <2>2. Laid(m, x.base, n, q)
        BY <1>14, <2>1
    <2>3. /\ Laid(Remap(m, base2).mem, base2, n, q) /\ Remap(m, base2).mem[9] = m[9]
          /\ Remap(m, base2).mem[ObjectsAt(q) + 1] = m[ObjectsAt(q) + 1]
          /\ Remap(m, base2).mem[PtrsAt(q) + 1] = m[PtrsAt(q) + 1]
        <3>1. base2 \in Nat
            BY <1>9
        <3> QED BY <2>2, <3>1, RemapIs, ZenonT(30)
    <2>4. y.mem = Remap(m, base2).mem
        BY <1>2, <1>13, <2>1
    <2> QED BY <2>1, <2>3, <2>4
<1>16. Sound(y, q)
    BY <1>7, <1>12, <1>13, <1>15 DEF Sound
<1>17. Counted(x, q, y, q)
    BY <1>15 DEF Counted
<1>18. CASE moved.ok
    <2>1. PICK at : Contents(x.mem, x.base, q, st, at)
        BY <1>7
    <2>2. Contents(y.mem, base2, q, st, at)
        BY <1>2, <1>9, <1>13, <1>14, <1>18, <2>1, RemapKeeps
    <2>3. PICK v : v = Appended(y, capacity)
        OBVIOUS
    <2>4. /\ HoldsAs(v, q, st) /\ Counted(y, q, v, q) /\ v.base = base2 /\ v.addr = base2
          /\ v.capacity = capacity
        BY <1>7, <1>12, <1>13, <1>16, <2>2, <2>3, AppendedHolds
    <2>5. Counted(x, q, v, q)
        BY <1>17, <2>4 DEF Counted
    <2>6. z.ok = TRUE /\ z.b = v
        BY <1>4, <1>18, <2>3
    <2> QED BY <1>1, <2>4, <2>5, <2>6
<1>19. CASE ~moved.ok
    <2>1. z.b = y
        BY <1>4, <1>19
    <2>2. y.addr # y.base
        BY <1>13
    <2>3. HoldsAs(y, q, st)
        BY <1>7, <1>13, <1>16, <2>2 DEF HoldsAs
    <2>4. ~z.ok
        BY <1>4, <1>19
    <2>5. ~(NoneEmpty /\ x.mem[RangesAt(q)] # 0)
        BY <1>2, <1>7, <1>9, <1>14, <1>19, RemapSucceeds
    <2> QED BY <1>1, <1>17, <2>1, <2>2, <2>3, <2>4, <2>5
<1> QED BY <1>18, <1>19

\* A buffer that is as it was.
LEMMA LeftAsItWas ==
    ASSUME NEW x, NEW q, NEW st, HoldsAs(x, q, st), x.addr = x.base
    PROVE  Left(x, q, x, q, st) /\ Counted(x, q, x, q)
BY DEF Left, Counted

\* Growing the pool.
LEMMA ReserveCapacityIs ==
    ASSUME NEW x, NEW q, NEW st, HoldsAs(x, q, st), x.addr = x.base,
           NEW capacity \in Nat, NEW r \in ReserveCapacity(x, capacity)
    PROVE  Left(x, q, r.b, q, st) /\ Counted(x, q, r.b, q) /\ (r.ok => r.b.addr = r.b.base)
<1>1. PICK n : n = x.capacity
    OBVIOUS
<1>2. PICK room : room = x.room
    OBVIOUS
<1>3. /\ Sound(x, q) /\ st \in Seq(Shapes) /\ x.num = Len(st)
      /\ \E at : Contents(x.mem, x.base, q, st, at)
    BY DEF HoldsAs
<1>4. n \in Nat /\ PoolSize(x) = n /\ room \in Nat
    BY <1>1, <1>2, <1>3, PoolIs DEF Sound
<1>5. Left(x, q, x, q, st) /\ Counted(x, q, x, q)
    BY LeftAsItWas
<1>6. CASE r \in {[ok |-> FALSE, b |-> x], [ok |-> TRUE, b |-> x]}
    <2>1. r.b = x
        BY <1>6
    <2> QED BY <1>5, <2>1
<1>7. CASE r = [ok |-> TRUE, b |-> Appended(x, capacity)] /\ n < capacity /\ capacity <= n + room
    <2>1. PICK at : Contents(x.mem, x.base, q, st, at)
        BY <1>3
    <2>2. x.capacity <= capacity /\ capacity <= x.capacity + x.room
        BY <1>1, <1>2, <1>4, <1>7
    <2>3. PICK v : v = Appended(x, capacity)
        OBVIOUS
    <2>4. /\ HoldsAs(v, q, st) /\ Counted(x, q, v, q) /\ v.base = x.base /\ v.addr = x.base
          /\ v.capacity = capacity
        BY <1>3, <2>1, <2>2, <2>3, AppendedHolds
    <2>5. ~(v.capacity <= x.capacity)
        BY <1>1, <1>4, <1>7, <2>4
    <2>6. r.b = v
        BY <1>7, <2>3
    <2> QED BY <2>4, <2>5, <2>6 DEF Left
<1>8. CASE /\ capacity > n + room
           /\ \E base2 \in Bases \ {x.base}, slack \in Slacks :
                 r = Reallocated(x, capacity, base2, slack)
    <2>1. PICK base2 \in Bases \ {x.base}, slack \in Slacks :
              r = Reallocated(x, capacity, base2, slack)
        BY <1>8
    <2>2. base2 \in Bases /\ base2 # x.base /\ capacity > x.capacity + x.room
        BY <1>1, <1>2, <1>8, <2>1
    <2>3. /\ HoldsAs(r.b, q, st) /\ Counted(x, q, r.b, q)
          /\ r.ok => r.b.addr = r.b.base /\ r.b.capacity = capacity
          /\ ~r.ok => r.b.addr # r.b.base
          /\ NoneEmpty /\ x.mem[RangesAt(q)] # 0 => r.ok
        BY <2>1, <2>2, ReallocatedIs
    <2>4. ~(capacity <= x.capacity)
        BY <1>1, <1>4, <1>8
    <2> QED BY <2>3, <2>4 DEF Left
<1>9. \/ r \in {[ok |-> FALSE, b |-> x], [ok |-> TRUE, b |-> x]}
      \/ r = [ok |-> TRUE, b |-> Appended(x, capacity)] /\ n < capacity /\ capacity <= n + room
      \/ /\ capacity > n + room
         /\ \E base2 \in Bases \ {x.base}, slack \in Slacks :
               r = Reallocated(x, capacity, base2, slack)
    <2>1. CASE ~x.owned \/ n >= capacity
        <3>1. r \in {[ok |-> FALSE, b |-> x]}
            BY <1>1, <2>1 DEF ReserveCapacity
        <3> QED BY <3>1
    <2>2. CASE ~(~x.owned \/ n >= capacity) /\ capacity <= n
        BY <1>4, <2>2
    <2>3. CASE ~(~x.owned \/ n >= capacity) /\ ~(capacity <= n) /\ capacity <= n + room
        <3>1. r \in {[ok |-> TRUE, b |-> Appended(x, capacity)]}
            BY <1>1, <1>2, <1>4, <2>3 DEF ReserveCapacity
        <3> QED BY <1>4, <2>3, <3>1
    <2>4. CASE ~(~x.owned \/ n >= capacity) /\ ~(capacity <= n) /\ ~(capacity <= n + room)
        <3>1. /\ ~(~x.owned \/ x.capacity >= capacity) /\ ~(capacity <= PoolSize(x))
              /\ ~(capacity <= PoolSize(x) + x.room)
            BY <1>1, <1>2, <1>4, <2>4
        <3>2. r \in ReserveCapacity(x, capacity)
            OBVIOUS
        <3>3. \/ r \in {[ok |-> FALSE, b |-> x]}
              \/ r \in {Reallocated(x, capacity, base2, slack) :
                           base2 \in Bases \ {x.base}, slack \in Slacks}
            BY <3>1, <3>2, SMT DEF ReserveCapacity
        <3>4. \/ r \in {[ok |-> FALSE, b |-> x]}
              \/ \E base2 \in Bases \ {x.base}, slack \in Slacks :
                    r = Reallocated(x, capacity, base2, slack)
            BY <3>3
        <3>5. capacity > n + room
            BY <1>4, <2>4
        <3> QED BY <3>4, <3>5
    <2> QED BY <2>1, <2>2, <2>3, <2>4
<1> QED BY <1>6, <1>7, <1>8, <1>9

\* What reserving has left: on success there is the room that was asked for.
Reserved(r, x, q, req, st) ==
    \E q2 : /\ Left(x, q, r.b, q2, st)
            /\ r.ok => /\ Counted(x, q, r.b, q2) /\ r.b.addr = r.b.base
                       /\ q2[Slots] = req[Slots] /\ q2[Objects] = req[Objects]
                       /\ q2[DataPtrs] = req[DataPtrs]

\* Reserving within the memory there is.
LEMMA ReserveInsideIs ==
    ASSUME NEW x, NEW q, NEW st, HoldsAs(x, q, st), x.addr = x.base,
           NEW req \in Counts, req[Garbage] < 16
    PROVE  /\ Reserved(ReserveInside(x, req), x, q, req, st)
           /\ ReserveInside(x, req).b.addr = ReserveInside(x, req).b.base
           /\ ReserveInside(x, req).b.capacity = x.capacity
<1>1. PICK n : n = x.capacity
    OBVIOUS
<1>2. PICK m : m = x.mem
    OBVIOUS
<1>3. PICK base : base = x.base
    OBVIOUS
<1>4. PICK z : z = ReserveInside(x, req)
    OBVIOUS
<1>5. PICK r : r = Reserve(m, req, n)
    OBVIOUS
<1>6. z = [ok |-> r.ok, b |-> IF r.ok THEN Refreshed(x, r.mem) ELSE [x EXCEPT !.mem = r.mem]]
    BY <1>1, <1>2, <1>4, <1>5 DEF ReserveInside
<1>7. /\ Sound(x, q) /\ st \in Seq(Shapes) /\ x.num = Len(st)
      /\ \E at : Contents(m, base, q, st, at)
    BY <1>2, <1>3 DEF HoldsAs
<1>8. Laid(m, base, n, q) /\ DOMAIN x = FieldNames /\ x.num = m[ObjectsAt(q) + 1]
    BY <1>1, <1>2, <1>3, <1>7 DEF Sound
<1>9. PICK at : Contents(m, base, q, st, at)
    BY <1>7
<1>10. CASE \E w, q2 : /\ r = [ok |-> TRUE, mem |-> w]
                       /\ Laid(w, base, n, q2) /\ Same(m, q, w, q2)
                       /\ q2[Slots] = req[Slots] /\ q2[Objects] = req[Objects]
                       /\ q2[DataPtrs] = req[DataPtrs]
    <2>1. PICK w, q2 : /\ r = [ok |-> TRUE, mem |-> w]
                       /\ Laid(w, base, n, q2) /\ Same(m, q, w, q2)
                       /\ q2[Slots] = req[Slots] /\ q2[Objects] = req[Objects]
                       /\ q2[DataPtrs] = req[DataPtrs]
        BY <1>10
    <2>2. PICK y : y = Refreshed(x, w)
        OBVIOUS
    <2>3. z.ok = TRUE /\ z.b = y
        BY <1>6, <2>1, <2>2
    <2>4. x.base \in Bases /\ x.room \in Nat /\ x.owned \in BOOLEAN
        BY <1>7 DEF Sound
    <2>5. Laid(w, x.base, x.capacity, q2)
        BY <1>1, <1>3, <2>1
    <2>6. /\ Sound(y, q2) /\ y.mem = w /\ y.base = base /\ y.addr = base /\ y.capacity = n
          /\ y.num = w[ObjectsAt(q2) + 1] /\ IndexRight(y)
        BY <1>1, <1>3, <1>8, <2>2, <2>4, <2>5, RefreshedIs
    <2>7. q2 \in Counts
        BY <2>1 DEF Laid
    <2>8. Contents(w, base, q2, st, at)
        BY <1>8, <1>9, <2>1, <2>7, ContentsKept
    <2>9. y.num = Len(st)
        BY <1>7, <1>8, <2>1, <2>6 DEF Same
    <2>10. HoldsAs(y, q2, st)
        BY <1>7, <2>6, <2>8, <2>9 DEF HoldsAs
    <2>11. Counted(x, q, y, q2)
        BY <1>2, <2>1, <2>6, SameCounts
    <2>12. Left(x, q, y, q2, st)
        BY <2>6, <2>10 DEF Left
    <2>13. Reserved(z, x, q, req, st)
        BY <2>1, <2>3, <2>6, <2>11, <2>12 DEF Reserved
    <2> QED BY <1>1, <1>4, <2>3, <2>6, <2>13
<1>11. CASE \E w : r = [ok |-> FALSE, mem |-> w] /\ Laid(w, base, n, q) /\ Same(m, q, w, q)
    <2>1. PICK w : r = [ok |-> FALSE, mem |-> w] /\ Laid(w, base, n, q) /\ Same(m, q, w, q)
        BY <1>11
    <2>2. PICK y : y = [x EXCEPT !.mem = w]
        OBVIOUS
    <2>3. z.ok = FALSE /\ z.b = y
        BY <1>6, <2>1, <2>2
    <2>4. /\ DOMAIN y = FieldNames /\ y.mem = w /\ y.base = base /\ y.room = x.room
          /\ y.addr = x.addr /\ y.size = x.size /\ y.capacity = n /\ y.num = x.num
          /\ y.index = x.index /\ y.owned = x.owned
        BY <1>1, <1>3, <1>8, <2>2 DEF FieldNames
    <2>5. y.num = w[ObjectsAt(q) + 1]
        BY <1>8, <2>1, <2>4 DEF Same
    <2>6. Sound(y, q)
        BY <1>3, <1>7, <2>1, <2>4, <2>5 DEF Sound
    <2>7. q \in Counts
        BY <2>1 DEF Laid
    <2>8. Contents(w, base, q, st, at)
        BY <1>8, <1>9, <2>1, <2>7, ContentsKept
    <2>9. HoldsAs(y, q, st)
        BY <1>7, <2>4, <2>6, <2>8 DEF HoldsAs
    <2>10. IndexRight(x) => IndexRight(y)
        <3>1. IndexBegin(x.mem) = base + ObjectsAt(q) + 2
            BY <1>3, <1>7, IndexIs
        <3>2. IndexBegin(y.mem) = base + ObjectsAt(q) + 2
            BY <2>4, <2>6, IndexIs
        <3> QED BY <2>4, <3>1, <3>2 DEF IndexRight
    <2>11. y.addr = y.base
        BY <1>3, <2>4
    <2>12. Left(x, q, y, q, st)
        BY <2>9, <2>10, <2>11 DEF Left
    <2>13. Reserved(z, x, q, req, st)
        BY <2>3, <2>12 DEF Reserved
    <2> QED BY <1>1, <1>4, <2>3, <2>4, <2>11, <2>13
<1>12. \/ \E w, q2 : /\ r = [ok |-> TRUE, mem |-> w]
                     /\ Laid(w, base, n, q2) /\ Same(m, q, w, q2)
                     /\ q2[Slots] = req[Slots] /\ q2[Objects] = req[Objects]
                     /\ q2[DataPtrs] = req[DataPtrs]
       \/ \E w : r = [ok |-> FALSE, mem |-> w] /\ Laid(w, base, n, q) /\ Same(m, q, w, q)
    BY <1>5, <1>8, ReserveIs
<1> QED BY <1>10, <1>11, <1>12

\* Reserving, growing the memory first if that is needed.
LEMMA ReserveBufferIs ==
    ASSUME NEW x, NEW q, NEW st, HoldsAs(x, q, st), x.addr = x.base,
           NEW req \in Counts, req[Garbage] < 16, NEW r \in ReserveBuffer(x, req)
    PROVE  Reserved(r, x, q, req, st)
<1>1. Left(x, q, x, q, st) /\ Counted(x, q, x, q)
    BY LeftAsItWas
<1>2. PICK grown : grown = IF x.capacity < BufferLength(req)
                           THEN ReserveCapacity(x, BufferLength(req))
                           ELSE {[ok |-> TRUE, b |-> x]}
    OBVIOUS
<1>3. ReserveBuffer(x, req) =
          IF ~x.owned \/ req = Maxima(x.mem) THEN {[ok |-> FALSE, b |-> x]}
          ELSE {IF g.ok THEN ReserveInside(g.b, req) ELSE g : g \in grown}
    BY <1>2 DEF ReserveBuffer
<1>4. CASE r = [ok |-> FALSE, b |-> x]
    BY <1>1, <1>4 DEF Reserved
<1>5. ASSUME NEW g \in grown, r = IF g.ok THEN ReserveInside(g.b, req) ELSE g
      PROVE  Reserved(r, x, q, req, st)
    <2>1. Left(x, q, g.b, q, st) /\ Counted(x, q, g.b, q) /\ (g.ok => g.b.addr = g.b.base)
        <3>1. CASE x.capacity < BufferLength(req)
            <4>1. BufferLength(req) \in Nat
                BY LayoutIs, PlacesAre
            <4>2. g \in ReserveCapacity(x, BufferLength(req))
                BY <1>2, <3>1
            <4> QED BY <4>1, <4>2, ReserveCapacityIs
        <3>2. CASE ~(x.capacity < BufferLength(req))
            <4>1. g = [ok |-> TRUE, b |-> x]
                BY <1>2, <3>2
            <4> QED BY <1>1, <4>1
        <3> QED BY <3>1, <3>2
    <2>2. CASE ~g.ok
        <3>1. r = g
            BY <1>5, <2>2
        <3> QED BY <2>1, <2>2, <3>1 DEF Reserved
    <2>3. CASE g.ok
        <3>1. PICK y : y = g.b
            OBVIOUS
        <3>2. r = ReserveInside(y, req)
            BY <1>5, <2>3, <3>1
        <3>3. HoldsAs(y, q, st) /\ y.addr = y.base
            BY <2>1, <2>3, <3>1 DEF Left
        <3>4. Reserved(r, y, q, req, st) /\ r.b.addr = r.b.base /\ r.b.capacity = y.capacity
            BY <3>2, <3>3, ReserveInsideIs
        <3>5. PICK q2 : /\ Left(y, q, r.b, q2, st)
                        /\ r.ok => /\ Counted(y, q, r.b, q2) /\ r.b.addr = r.b.base
                                   /\ q2[3] = req[3] /\ q2[4] = req[4] /\ q2[5] = req[5]
            BY <3>4 DEF Reserved
        <3>6. y.capacity <= x.capacity /\ IndexRight(x) => IndexRight(y)
            BY <2>1, <3>1, <3>3 DEF Left
        <3>7. HoldsAs(r.b, q2, st) /\ (r.b.capacity <= y.capacity /\ IndexRight(y) => IndexRight(r.b))
            BY <3>4, <3>5 DEF Left
        <3>8. y.capacity \in Nat
            <4>1. Sound(y, q)
                BY <3>3 DEF HoldsAs
            <4> QED BY <4>1, PoolIs
        <3>9. r.b.capacity <= y.capacity
            BY <3>4, <3>8
        <3>10. Left(x, q, r.b, q2, st)
            BY <3>4, <3>6, <3>7, <3>9 DEF Left
        <3>11. Counted(y, q, r.b, q2) => Counted(x, q, r.b, q2)
            BY <2>1, <3>1 DEF Counted
        <3> QED BY <3>5, <3>10, <3>11 DEF Reserved
    <2> QED BY <2>2, <2>3
<1>6. \/ r = [ok |-> FALSE, b |-> x]
      \/ \E g \in grown : r = IF g.ok THEN ReserveInside(g.b, req) ELSE g
    BY <1>3
<1> QED BY <1>4, <1>5, <1>6

\* What the sections must hold for one more object.
LEMMA RequestIs ==
    ASSUME NEW m, NEW base, NEW n, NEW q, Laid(m, base, n, q), NEW shape \in Shapes
    PROVE  /\ RequestFor(m, shape) \in Counts /\ RequestFor(m, shape)[Garbage] < 16
           /\ RequestFor(m, shape)[Slots] = m[9] + ObjectSize(shape)
           /\ RequestFor(m, shape)[Objects] = m[ObjectsAt(q) + 1] + 1
           /\ RequestFor(m, shape)[DataPtrs] = m[PtrsAt(q) + 1] + NumAttrs(shape)
<1>1. PICK need : need = RequestFor(m, shape)
    OBVIOUS
<1>2. /\ NumEntities(m, 3) = m[9] /\ NumEntities(m, 4) = m[ObjectsAt(q) + 1]
      /\ NumEntities(m, 5) = m[PtrsAt(q) + 1]
    BY ImageIs
<1>3. /\ m[9] \in Nat /\ m[ObjectsAt(q) + 1] \in Nat /\ m[PtrsAt(q) + 1] \in Nat
    BY CountsAre
<1>4. MaxEntities(m, 6) \in Nat /\ MaxEntities(m, 6) < 16
    BY MaximaAre
<1>5. NumAttrs(shape) \in Nat /\ ObjectSize(shape) \in Nat
    BY ShapeIs
<1>6. Sections = {3, 4, 5, 6}
    BY DEF Sections
<1>7. /\ need = [s \in Sections |-> need[s]]
      /\ need[3] = m[9] + ObjectSize(shape) /\ need[4] = m[ObjectsAt(q) + 1] + 1
      /\ need[5] = m[PtrsAt(q) + 1] + NumAttrs(shape) /\ need[6] = MaxEntities(m, 6)
    BY <1>1, <1>2, <1>6 DEF RequestFor
<1>8. need[3] \in Nat /\ need[4] \in Nat /\ need[5] \in Nat /\ need[6] \in Nat
    BY <1>3, <1>4, <1>5, <1>7
<1>9. need \in Counts
    BY <1>6, <1>7, <1>8 DEF Counts
<1> QED BY <1>1, <1>4, <1>7, <1>9

\* A buffer to which an object has been added has it, and those it had.
LEMMA AddObjectIs ==
    ASSUME NEW x, NEW q, NEW st, HoldsAs(x, q, st), x.addr = x.base, NEW shape \in Shapes,
           NEW mo \in Nat, NEW r \in AddObject(x, shape, mo + 1)
    PROVE  mo = Len(st) =>
               \E q2 : Left(x, q, r.b, q2, IF r.ok THEN Append(st, shape) ELSE st)
<1>1. PICK m : m = x.mem
    OBVIOUS
<1>2. PICK need : need = RequestFor(m, shape)
    OBVIOUS
<1>3. PICK num : num = NumAttrs(shape)
    OBVIOUS
<1>4. PICK size : size = ObjectSize(shape)
    OBVIOUS
<1>5. Sound(x, q) /\ st \in Seq(Shapes) /\ x.num = Len(st)
    BY DEF HoldsAs
<1>6. Laid(m, x.base, x.capacity, q)
    BY <1>1, <1>5 DEF Sound
<1>7. /\ need \in Counts /\ need[6] < 16 /\ need[3] = m[9] + size
      /\ need[4] = m[ObjectsAt(q) + 1] + 1 /\ need[5] = m[PtrsAt(q) + 1] + num
    BY <1>2, <1>3, <1>4, <1>6, RequestIs
<1>8. PICK within : within = \A s \in Slots .. DataPtrs : need[s] <= MaxEntities(m, s)
    OBVIOUS
<1>9. PICK ready : ready = IF within THEN {[ok |-> TRUE, b |-> x]} ELSE ReserveBuffer(x, need)
    OBVIOUS
<1>10. ASSUME NEW g \in ready
       PROVE  \E q2 : /\ Left(x, q, g.b, q2, st)
                      /\ g.ok => /\ Counted(x, q, g.b, q2) /\ g.b.addr = g.b.base
                                 /\ RoomFor(g.b.mem, q2, shape)
    <2>1. CASE within
        <3>1. g = [ok |-> TRUE, b |-> x]
            BY <1>9, <2>1
        <3>2. Left(x, q, x, q, st) /\ Counted(x, q, x, q)
            BY LeftAsItWas
        <3>3. need[3] <= q[3] /\ need[4] <= q[4] /\ need[5] <= q[5]
            <4>1. MaxEntities(m, 3) = q[3] /\ MaxEntities(m, 4) = q[4] /\ MaxEntities(m, 5) = q[5]
                BY <1>6, MaximaAre
            <4>2. 3 \in 3 .. 5 /\ 4 \in 3 .. 5 /\ 5 \in 3 .. 5
                OBVIOUS
            <4> QED BY <1>8, <2>1, <4>1, <4>2
        <3>4. RoomFor(m, q, shape)
            BY <1>3, <1>4, <1>7, <3>3 DEF RoomFor
        <3> QED BY <1>1, <3>1, <3>2, <3>4
    <2>2. CASE ~within
        <3>1. g \in ReserveBuffer(x, need)
            BY <1>9, <2>2
        <3>2. PICK q2 : /\ Left(x, q, g.b, q2, st)
                        /\ g.ok => /\ Counted(x, q, g.b, q2) /\ g.b.addr = g.b.base
                                   /\ q2[3] = need[3] /\ q2[4] = need[4] /\ q2[5] = need[5]
            BY <1>7, <3>1, ReserveBufferIs DEF Reserved
        <3>3. ASSUME g.ok PROVE RoomFor(g.b.mem, q2, shape)
            <4>1. /\ g.b.mem[9] = m[9] /\ g.b.mem[ObjectsAt(q2) + 1] = m[ObjectsAt(q) + 1]
                  /\ g.b.mem[PtrsAt(q2) + 1] = m[PtrsAt(q) + 1]
                BY <1>1, <3>2, <3>3 DEF Counted
            <4>2. /\ q2[3] = m[9] + size /\ q2[4] = m[ObjectsAt(q) + 1] + 1
                  /\ q2[5] = m[PtrsAt(q) + 1] + num
                BY <1>7, <3>2, <3>3
            <4>3. /\ m[9] \in Nat /\ m[ObjectsAt(q) + 1] \in Nat /\ m[PtrsAt(q) + 1] \in Nat
                BY <1>6, CountsAre
            <4>4. num \in Nat /\ size \in Nat
                BY <1>3, <1>4, ShapeIs
            <4>5. /\ m[9] + size <= q2[3] /\ m[ObjectsAt(q) + 1] + 1 <= q2[4]
                  /\ m[PtrsAt(q) + 1] + num <= q2[5]
                BY <4>2, <4>3, <4>4
            <4> QED BY <1>3, <1>4, <4>1, <4>5 DEF RoomFor
        <3> QED BY <3>2, <3>3
    <2> QED BY <2>1, <2>2
<1>11. PICK g \in ready :
           r = IF g.ok
               THEN [ok |-> TRUE, b |-> [g.b EXCEPT !.mem = Stored(g.b, shape, mo + 1),
                                                    !.num = need[4]]]
               ELSE g
    <2>1. AddObject(x, shape, mo + 1) =
              {IF g.ok
               THEN [ok |-> TRUE, b |-> [g.b EXCEPT !.mem = Stored(g.b, shape, mo + 1),
                                                    !.num = need[4]]]
               ELSE g : g \in ready}
        BY <1>1, <1>2, <1>8, <1>9, Zenon DEF AddObject
    <2> QED BY <2>1
<1>12. PICK q2 : /\ Left(x, q, g.b, q2, st)
                 /\ g.ok => /\ Counted(x, q, g.b, q2) /\ g.b.addr = g.b.base
                            /\ RoomFor(g.b.mem, q2, shape)
    BY <1>10
<1>13. CASE ~g.ok
    <2>1. r = g /\ ~r.ok
        BY <1>11, <1>13
    <2>2. (IF r.ok THEN Append(st, shape) ELSE st) = st
        BY <2>1
    <2> QED BY <1>12, <2>1, <2>2
<1>14. CASE g.ok
    <2>1. PICK y : y = g.b
        OBVIOUS
    <2>2. PICK w : w = Stored(y, shape, mo + 1)
        OBVIOUS
    <2>3. PICK z : z = [y EXCEPT !.mem = w, !.num = need[4]]
        OBVIOUS
    <2>4. r = [ok |-> TRUE, b |-> z]
        BY <1>11, <1>14, <2>1, <2>2, <2>3
    <2>5. PICK m2 : m2 = y.mem
        OBVIOUS
    <2>6. /\ HoldsAs(y, q2, st) /\ Counted(x, q, y, q2) /\ y.addr = y.base
          /\ RoomFor(m2, q2, shape)
        BY <1>12, <1>14, <2>1, <2>5 DEF Left
    <2>7. Sound(y, q2) /\ \E at : Contents(m2, y.base, q2, st, at)
        BY <2>5, <2>6 DEF HoldsAs
    <2>8. PICK at : Contents(m2, y.base, q2, st, at)
        BY <2>7
    <2>9. Laid(m2, y.base, y.capacity, q2) /\ DOMAIN y = FieldNames
        BY <2>5, <2>7 DEF Sound
    <2>10. Written(w, m2, y.base, y.capacity, q2, shape, mo + 1)
        <3>1. PICK k : k = mo + 1
            OBVIOUS
        <3>2. k \in Nat
            BY <3>1
        <3>3. Laid(y.mem, y.base, y.capacity, q2) /\ RoomFor(y.mem, q2, shape)
            BY <2>5, <2>6, <2>9
        <3>4. Written(Stored(y, shape, k), y.mem, y.base, y.capacity, q2, shape, k)
            BY <3>2, <3>3, StoredIs
        <3> QED BY <2>2, <2>5, <3>1, <3>4
    <2>11. Laid(w, y.base, y.capacity, q2)
        BY <2>6, <2>9, <2>10, StoredLaid
    <2>12. mo = Len(st) => Contents(w, y.base, q2, Append(st, shape), Placed1(at, mo, m2[9]))
        BY <2>6, <2>8, <2>9, <2>10, StoredKeeps
    <2>13. /\ DOMAIN z = FieldNames /\ z.mem = w /\ z.num = need[4] /\ z.base = y.base
           /\ z.addr = y.addr /\ z.room = y.room /\ z.size = y.size /\ z.capacity = y.capacity
           /\ z.index = y.index /\ z.owned = y.owned
        BY <2>3, <2>9 DEF FieldNames
    <2>14. w[ObjectsAt(q2) + 1] = m2[ObjectsAt(q2) + 1] + 1
        BY <2>10 DEF Written
    <2>15. m2[ObjectsAt(q2) + 1] = m[ObjectsAt(q) + 1]
        BY <1>1, <2>5, <2>6 DEF Counted
    <2>16. z.num = w[ObjectsAt(q2) + 1]
        BY <1>7, <2>13, <2>14, <2>15
    <2>17. Sound(z, q2)
        BY <2>7, <2>11, <2>13, <2>16 DEF Sound
    <2>18. m[ObjectsAt(q) + 1] = Len(st)
        BY <1>1, <1>5 DEF Sound
    <2>19. Append(st, shape) \in Seq(Shapes) /\ Len(Append(st, shape)) = Len(st) + 1
        BY <1>5
    <2>20. z.num = Len(Append(st, shape))
        BY <1>7, <2>13, <2>18, <2>19
    <2>21. mo = Len(st) => HoldsAs(z, q2, Append(st, shape))
        BY <2>12, <2>13, <2>17, <2>19, <2>20 DEF HoldsAs
    <2>22. z.addr = z.base
        BY <2>6, <2>13
    <2>23. z.capacity <= x.capacity /\ IndexRight(x) => IndexRight(z)
        <3>1. y.capacity <= x.capacity /\ IndexRight(x) => IndexRight(y)
            BY <1>12, <2>1, <2>6 DEF Left
        <3>2. IndexBegin(y.mem) = y.base + ObjectsAt(q2) + 2
            BY <2>7, IndexIs
        <3>3. IndexBegin(z.mem) = z.base + ObjectsAt(q2) + 2
            BY <2>17, IndexIs
        <3> QED BY <2>13, <3>1, <3>2, <3>3 DEF IndexRight
    <2>24. mo = Len(st) => Left(x, q, z, q2, Append(st, shape))
        BY <2>21, <2>22, <2>23 DEF Left
    <2>25. r.b = z /\ (IF r.ok THEN Append(st, shape) ELSE st) = Append(st, shape)
        BY <2>4
    <2> QED BY <2>24, <2>25
<1> QED BY <1>13, <1>14

-----------------------------------------------------------------------------
(* New buffers, copies, and buffers on other memory.                       *)

\* The greater of two numbers.
LEMMA MaxOfTwo ==
    ASSUME NEW x \in Int, NEW y \in Int
    PROVE  Max({x, y}) \in {x, y} /\ Max({x, y}) >= x /\ Max({x, y}) >= y
<1>1. CASE x >= y
    <2>1. x \in {x, y} /\ \A z \in {x, y} : x >= z
        BY <1>1
    <2>2. \E v \in {x, y} : \A z \in {x, y} : v >= z
        BY <2>1
    <2> QED BY <2>2 DEF Max
<1>2. CASE ~(x >= y)
    <2>1. y \in {x, y} /\ \A z \in {x, y} : y >= z
        BY <1>2
    <2>2. \E v \in {x, y} : \A z \in {x, y} : v >= z
        BY <2>1
    <2> QED BY <2>2 DEF Max
<1> QED BY <1>1, <1>2

\* A new buffer holds nothing.
LEMMA FreshIs ==
    ASSUME NEW base \in Bases, NEW capacity \in Nat, NEW slack \in Slacks
    PROVE  /\ HoldsAs(Fresh(base, capacity, slack), Nothing, <<>>)
           /\ Fresh(base, capacity, slack).addr = base /\ Fresh(base, capacity, slack).base = base
           /\ IndexRight(Fresh(base, capacity, slack))
           /\ Fresh(base, capacity, slack).capacity \in Nat
           /\ Fresh(base, capacity, slack).capacity >= capacity
<1>1. PICK y : y = Fresh(base, capacity, slack)
    OBVIOUS
<1>2. /\ Nothing \in Counts /\ Nothing[Garbage] < 16 /\ EndAt(Nothing) = 16
    BY DEF Nothing, Counts, Sections, EndAt
<1>3. MinCapacity = 16
    BY <1>2, LayoutIs DEF MinCapacity
<1>4. PICK n : n = Max({capacity, MinCapacity})
    OBVIOUS
<1>5. n \in Nat /\ n >= 16 /\ n >= capacity
    <2>1. n = Max({capacity, 16})
        BY <1>3, <1>4
    <2>2. capacity \in Int /\ 16 \in Int
        OBVIOUS
    <2>3. Max({capacity, 16}) \in {capacity, 16} /\ Max({capacity, 16}) >= capacity
          /\ Max({capacity, 16}) >= 16
        BY <2>2, MaxOfTwo
    <2> QED BY <2>1, <2>3
<1>6. base \in Nat /\ slack \in Nat
    BY BufferAssumption
<1>7. Zeros(n) \in Memories(n)
    BY DEF Zeros, Memories
<1>8. PICK m : m = Initialised(Zeros(n), base, Nothing)
    OBVIOUS
<1>9. Laid(m, base, n, Nothing) /\ Emptied(m, Nothing)
    BY <1>2, <1>5, <1>6, <1>7, <1>8, InitialisedIs
<1>10. PICK x : x = [mem |-> m, base |-> base, room |-> slack, addr |-> base,
                     size |-> 0, capacity |-> n, num |-> 0, index |-> 0, owned |-> TRUE]
    OBVIOUS
<1>11. y = Refreshed(x, m)
    BY <1>1, <1>4, <1>8, <1>10 DEF Fresh
<1>12. /\ DOMAIN x = FieldNames /\ x.base = base /\ x.addr = base /\ x.room = slack
       /\ x.capacity = n /\ x.owned = TRUE
    BY <1>10 DEF FieldNames
<1>13. /\ Sound(y, Nothing) /\ y.mem = m /\ y.base = base /\ y.addr = base /\ y.capacity = n
       /\ y.num = m[ObjectsAt(Nothing) + 1] /\ IndexRight(y)
    <2>1. /\ Laid(m, x.base, x.capacity, Nothing) /\ x.base \in Bases /\ x.room \in Nat
          /\ x.owned \in BOOLEAN /\ DOMAIN x = FieldNames
        BY <1>6, <1>9, <1>12
    <2>2. PICK v : v = Refreshed(x, m)
        OBVIOUS
    <2>3. /\ Sound(v, Nothing) /\ v.mem = m /\ v.base = x.base /\ v.addr = x.addr
          /\ v.capacity = x.capacity /\ v.num = m[ObjectsAt(Nothing) + 1] /\ IndexRight(v)
        BY <2>1, <2>2, RefreshedIs
    <2> QED BY <1>11, <1>12, <2>2, <2>3
<1>14. y.num = 0
    BY <1>9, <1>13 DEF Emptied
<1>15. Contents(m, base, Nothing, <<>>, <<>>)
    BY <1>9, EmptiedIs
<1>16. HoldsAs(y, Nothing, <<>>)
    BY <1>13, <1>14, <1>15 DEF HoldsAs
<1> QED BY <1>1, <1>5, <1>13, <1>16

\* An image of the buffer, copied over other memory and remapped.
LEMMA OverlaidIs ==
    ASSUME NEW x, NEW q, NEW st, HoldsAs(x, q, st), x.addr = x.base,
           NEW n \in Nat, x.size <= n, NEW y \in Memories(n), NEW base2 \in Nat
    PROVE  /\ Laid(Remap(Overlaid(y, x.mem, x.size), base2).mem, base2, n, q)
           /\ Remap(Overlaid(y, x.mem, x.size), base2).mem[ObjectsAt(q) + 1] = Len(st)
           /\ Remap(Overlaid(y, x.mem, x.size), base2).ok =>
                 \E at : Contents(Remap(Overlaid(y, x.mem, x.size), base2).mem, base2, q, st, at)
<1>1. PICK m : m = x.mem
    OBVIOUS
<1>2. PICK w : w = Overlaid(y, x.mem, x.size)
    OBVIOUS
<1>3. PICK e : e = EndAt(q)
    OBVIOUS
<1>4. /\ Sound(x, q) /\ \E at : Contents(m, x.base, q, st, at)
    BY <1>1 DEF HoldsAs
<1>5. PICK at : Contents(m, x.base, q, st, at)
    BY <1>4
<1>6. PICK k : k = x.capacity
    OBVIOUS
<1>7. Laid(m, x.base, k, q) /\ x.size = e
    BY <1>1, <1>3, <1>4, <1>6 DEF Sound
<1>8. k \in Nat /\ q \in Counts /\ e \in Nat /\ e <= k /\ m \in Memories(k)
    BY <1>3, <1>7, CountsAre, PlacesAre
<1>9. DOMAIN y = 0 .. n - 1 /\ \A a \in 0 .. n - 1 : y[a] \in Nat
    BY DEF Memories
<1>10. DOMAIN m = 0 .. k - 1 /\ \A a \in 0 .. k - 1 : m[a] \in Nat
    BY <1>8 DEF Memories
<1>11. w = [a \in 0 .. n - 1 |-> IF a < e THEN m[a] ELSE y[a]]
    BY <1>1, <1>2, <1>7, <1>9 DEF Overlaid
<1>12. w \in Memories(n)
    <2>1. \A a \in 0 .. n - 1 : a < e => m[a] \in Nat
        BY <1>8, <1>10
    <2> QED BY <1>9, <1>11, <2>1 DEF Memories
<1>13. \A a \in 0 .. e - 1 : w[a] = m[a]
    BY <1>7, <1>8, <1>11
<1>14. EndAt(q) <= n
    BY <1>3, <1>7
<1>15. Laid(w, x.base, n, q) /\ Same(m, q, w, q)
    BY <1>3, <1>7, <1>12, <1>13, <1>14, BeginningIs
<1>16. Contents(w, x.base, q, st, at)
    BY <1>5, <1>7, <1>8, <1>15, ContentsKept
<1>17. PICK r : r = Remap(w, base2)
    OBVIOUS
<1>18. Laid(r.mem, base2, n, q) /\ r.mem[ObjectsAt(q) + 1] = w[ObjectsAt(q) + 1]
    BY <1>15, <1>17, RemapIs, SMTT(30)
<1>19. w[ObjectsAt(q) + 1] = Len(st)
    BY <1>16 DEF Contents
<1>20. r.ok => Contents(r.mem, base2, q, st, at)
    BY <1>15, <1>16, <1>17, RemapKeeps
<1> QED BY <1>2, <1>17, <1>18, <1>19, <1>20

\* A copy of a buffer has its objects.
LEMMA CopyOfIs ==
    ASSUME NEW x, NEW q, NEW st, HoldsAs(x, q, st), x.addr = x.base,
           NEW base2 \in Bases, NEW slack \in Slacks, CopyOf(x, base2, slack).ok
    PROVE  /\ HoldsAs(CopyOf(x, base2, slack).b, q, st)
           /\ CopyOf(x, base2, slack).b.addr = CopyOf(x, base2, slack).b.base
           /\ IndexRight(CopyOf(x, base2, slack).b)
<1>1. PICK y : y = Fresh(base2, x.capacity, slack)
    OBVIOUS
<1>2. PICK r : r = Remap(Overlaid(y.mem, x.mem, x.size), base2)
    OBVIOUS
<1>3. PICK z : z = Refreshed(y, r.mem)
    OBVIOUS
<1>4. CopyOf(x, base2, slack) = [ok |-> r.ok, b |-> z]
    BY <1>1, <1>2, <1>3 DEF CopyOf
<1>5. Sound(x, q) /\ st \in Seq(Shapes)
    BY DEF HoldsAs
<1>6. x.capacity \in Nat /\ x.size \in Nat /\ x.size <= x.capacity
    <2>1. Laid(x.mem, x.base, x.capacity, q) /\ x.size = EndAt(q)
        BY <1>5 DEF Sound
    <2> QED BY <2>1, CountsAre, PlacesAre
<1>7. /\ HoldsAs(y, Nothing, <<>>) /\ y.addr = base2 /\ y.base = base2
      /\ y.capacity \in Nat /\ y.capacity >= x.capacity
    BY <1>1, <1>6, FreshIs
<1>8. PICK n : n = y.capacity
    OBVIOUS
<1>9. Sound(y, Nothing)
    BY <1>7 DEF HoldsAs
<1>10. /\ DOMAIN y = FieldNames /\ y.room \in Nat /\ y.owned \in BOOLEAN
       /\ Laid(y.mem, base2, n, Nothing)
    BY <1>7, <1>8, <1>9 DEF Sound
<1>11. y.mem \in Memories(n) /\ n \in Nat /\ base2 \in Nat
    BY <1>10 DEF Laid
<1>12. x.size <= n
    BY <1>6, <1>7, <1>8
<1>13. r.ok
    BY <1>4
<1>14. /\ Laid(r.mem, base2, n, q) /\ r.mem[ObjectsAt(q) + 1] = Len(st)
       /\ \E at : Contents(r.mem, base2, q, st, at)
    BY <1>2, <1>11, <1>12, <1>13, OverlaidIs
<1>15. Laid(r.mem, y.base, y.capacity, q) /\ y.base \in Bases
    BY <1>7, <1>8, <1>14
<1>16. /\ Sound(z, q) /\ z.mem = r.mem /\ z.base = base2 /\ z.addr = base2
       /\ z.num = r.mem[ObjectsAt(q) + 1] /\ IndexRight(z)
  <2>1. DOMAIN y = FieldNames /\ y.room \in Nat /\ y.owned \in BOOLEAN
    BY <1>10
  <2>2. PICK m : m = r.mem
    OBVIOUS
  <2>3. Laid(m, y.base, y.capacity, q) /\ y.base \in Bases
    BY <1>15, <2>2
  <2>4. /\ Sound(Refreshed(y, m), q) /\ Refreshed(y, m).mem = m
        /\ Refreshed(y, m).base = y.base /\ Refreshed(y, m).addr = y.addr
        /\ Refreshed(y, m).num = m[ObjectsAt(q) + 1] /\ IndexRight(Refreshed(y, m))
    BY <2>1, <2>3, RefreshedIs
  <2>5. z = Refreshed(y, m) /\ y.base = base2 /\ y.addr = base2
    BY <1>3, <1>7, <2>2
  <2> QED BY <2>2, <2>4, <2>5
<1>17. HoldsAs(z, q, st)
    BY <1>5, <1>14, <1>16 DEF HoldsAs
<1> QED BY <1>4, <1>16, <1>17

\* A buffer that is opened on an image of another has its objects.
LEMMA OpenOnIs ==
    ASSUME NEW x, NEW q, NEW st, HoldsAs(x, q, st), x.addr = x.base,
           NEW base2 \in Bases, NEW length \in Nat, x.size <= length,
           OpenOn(x, base2, length).ok
    PROVE  /\ HoldsAs(OpenOn(x, base2, length).b, q, st)
           /\ OpenOn(x, base2, length).b.addr = OpenOn(x, base2, length).b.base
           /\ IndexRight(OpenOn(x, base2, length).b)
<1>1. PICK r : r = Remap(Overlaid(Zeros(length), x.mem, x.size), base2)
    OBVIOUS
<1>2. PICK y : y = [x EXCEPT !.base = base2, !.room = 0, !.addr = base2,
                             !.capacity = length, !.owned = FALSE]
    OBVIOUS
<1>3. PICK z : z = Refreshed(y, r.mem)
    OBVIOUS
<1>4. OpenOn(x, base2, length) = [ok |-> r.ok, b |-> z]
    BY <1>1, <1>2, <1>3 DEF OpenOn
<1>5. Sound(x, q) /\ st \in Seq(Shapes)
    BY DEF HoldsAs
<1>6. /\ DOMAIN y = FieldNames /\ y.base = base2 /\ y.room = 0 /\ y.addr = base2
      /\ y.capacity = length /\ y.owned = FALSE
    <2>1. DOMAIN x = FieldNames
        BY <1>5 DEF Sound
    <2> QED BY <1>2, <2>1 DEF FieldNames
<1>7. Zeros(length) \in Memories(length)
    BY DEF Zeros, Memories
<1>8. base2 \in Nat
    BY BufferAssumption
<1>9. r.ok
    BY <1>4
<1>10. /\ Laid(r.mem, base2, length, q) /\ r.mem[ObjectsAt(q) + 1] = Len(st)
       /\ \E at : Contents(r.mem, base2, q, st, at)
    BY <1>1, <1>7, <1>8, <1>9, OverlaidIs
<1>11. Laid(r.mem, y.base, y.capacity, q) /\ y.base \in Bases /\ y.room \in Nat /\ y.owned \in BOOLEAN
    <2>1. y.owned \in BOOLEAN
        <3>1. y.owned = FALSE
            BY <1>6
        <3> QED BY <3>1, Zenon
    <2> QED BY <1>6, <1>10, <2>1
<1>12. /\ Sound(z, q) /\ z.mem = r.mem /\ z.base = base2 /\ z.addr = base2
       /\ z.num = r.mem[ObjectsAt(q) + 1] /\ IndexRight(z)
    BY <1>3, <1>6, <1>11, RefreshedIs
<1>13. HoldsAs(z, q, st)
    BY <1>5, <1>10, <1>12 DEF HoldsAs
<1> QED BY <1>4, <1>12, <1>13

\* A buffer that has been cleared holds nothing.
LEMMA CallClearIs ==
    ASSUME NEW x, NEW q, NEW st, HoldsAs(x, q, st), x.addr = x.base, NEW z \in BOOLEAN,
           NEW y, y = [x EXCEPT !.mem = Cleared(x.mem, z), !.num = 0]
    PROVE  Left(x, q, y, q, <<>>)
<1>1. Sound(x, q)
    BY DEF HoldsAs
<1>2. Laid(x.mem, x.base, x.capacity, q) /\ DOMAIN x = FieldNames
    BY <1>1 DEF Sound
<1>3. PICK w : w = Cleared(x.mem, z)
    OBVIOUS
<1>4. Laid(w, x.base, x.capacity, q) /\ Emptied(w, q)
    BY <1>2, <1>3, ClearedIs
<1>5. /\ DOMAIN y = FieldNames /\ y.mem = w /\ y.num = 0 /\ y.base = x.base /\ y.addr = x.addr
      /\ y.room = x.room /\ y.size = x.size /\ y.capacity = x.capacity /\ y.index = x.index
      /\ y.owned = x.owned
    BY <1>2, <1>3 DEF FieldNames
<1>6. y.num = w[ObjectsAt(q) + 1]
    BY <1>4, <1>5 DEF Emptied
<1>7. Sound(y, q)
    BY <1>1, <1>4, <1>5, <1>6 DEF Sound
<1>8. Contents(w, x.base, q, <<>>, <<>>)
    BY <1>4, EmptiedIs
<1>9. HoldsAs(y, q, <<>>)
    BY <1>5, <1>7, <1>8 DEF HoldsAs
<1>10. IndexRight(x) => IndexRight(y)
    <2>1. /\ IndexBegin(x.mem) = x.base + ObjectsAt(q) + 2
          /\ IndexBegin(y.mem) = y.base + ObjectsAt(q) + 2
        BY <1>1, <1>7, IndexIs
    <2> QED BY <1>5, <2>1 DEF IndexRight
<1> QED BY <1>5, <1>9, <1>10 DEF Left

\* A buffer that has been reset has room for what was asked for, and holds
\* nothing.
LEMMA CallResetIs ==
    ASSUME NEW x, NEW q, NEW st, HoldsAs(x, q, st), x.addr = x.base, NEW req \in Counts,
           req[Garbage] < 16, BufferLength(req) <= x.capacity
    PROVE  Left(x, q, Refreshed(x, Initialised(x.mem, x.addr, req)), req, <<>>)
<1>1. Sound(x, q)
    BY DEF HoldsAs
<1>2. PICK n : n = x.capacity
    OBVIOUS
<1>3. PICK w : w = Initialised(x.mem, x.addr, req)
    OBVIOUS
<1>4. /\ DOMAIN x = FieldNames /\ x.base \in Bases /\ x.room \in Nat /\ x.owned \in BOOLEAN
      /\ Laid(x.mem, x.base, n, q)
    BY <1>1, <1>2 DEF Sound
<1>5. n \in Nat /\ x.base \in Nat /\ x.mem \in Memories(n)
    BY <1>4 DEF Laid
<1>6. EndAt(req) <= n
    BY <1>2, LayoutIs
<1>7. w = Initialised(x.mem, x.base, req)
    BY <1>3
<1>8. Laid(w, x.base, n, req) /\ Emptied(w, req)
    BY <1>5, <1>6, <1>7, InitialisedIs
<1>9. PICK y : y = Refreshed(x, w)
    OBVIOUS
<1>10. /\ Sound(y, req) /\ y.mem = w /\ y.base = x.base /\ y.addr = x.addr
       /\ y.num = w[ObjectsAt(req) + 1] /\ IndexRight(y)
    BY <1>2, <1>4, <1>8, <1>9, RefreshedIs
<1>11. y.num = 0
    BY <1>8, <1>10 DEF Emptied
<1>12. Contents(w, x.base, req, <<>>, <<>>)
    BY <1>8, EmptiedIs
<1>13. HoldsAs(y, req, <<>>)
    BY <1>10, <1>11, <1>12 DEF HoldsAs
<1>14. Left(x, q, y, req, <<>>)
    BY <1>10, <1>13 DEF Left
<1> QED BY <1>3, <1>9, <1>14

-----------------------------------------------------------------------------
(* The invariant, and what every step keeps.                               *)

\* The buffer's fields agree with its memory, which is laid out for some
\* number of entities; and as long as it has its memory, the objects the caller
\* has stored are in it.
BInv == \E q : HoldsAs(b, q, stored)

IndexStep ==
    Usable /\ Usable' /\ IndexRight(b) /\ b'.capacity <= b.capacity => IndexRight(b')
PoolStep == Usable /\ Whole => Usable'

\* Garbage that has not been lost.
LEMMA WholeIs ==
    ASSUME NEW q, HoldsAs(b, q, stored), Whole
    PROVE  b.mem[RangesAt(q)] # 0 /\ b.mem[RangesAt(q) + 1] = 0
<1>1. PICK m : m = b.mem
    OBVIOUS
<1>2. PICK g : g = RangesAt(q)
    OBVIOUS
<1>3. Laid(m, b.base, b.capacity, q)
    BY <1>1 DEF HoldsAs, Sound
<1>4. Fits(m, 6)
    BY <1>1 DEF Whole, Sections
<1>5. m[g + 1] \in Nat
    BY <1>2, <1>3, CountsAre
<1>6. UsedSize(m, 6) = 2 * m[g + 1] + 2 /\ (m[g] = 0 => MaxSize(m, 6) = 0)
    BY <1>2, <1>3, ImageIs
<1>7. m[g] # 0
    BY <1>4, <1>5, <1>6 DEF Fits
<1>8. m[g + 1] = 0
    BY <1>2, <1>3, <1>7 DEF Laid, RangesKept
<1> QED BY <1>1, <1>2, <1>7, <1>8

\* What a call has left is as every step must leave it.
LEMMA LeftIs ==
    ASSUME NEW q, HoldsAs(b, q, stored), NEW q2, Left(b, q, b', q2, stored')
    PROVE  BInv' /\ IndexStep /\ (NoneEmpty => PoolStep)
<1>1. BInv'
    BY DEF Left, BInv
<1>2. IndexStep
    BY DEF Left, IndexStep, Usable
<1>3. ASSUME NoneEmpty PROVE PoolStep
    BY <1>3, WholeIs DEF Left, PoolStep, Usable
<1> QED BY <1>1, <1>2, <1>3

\* A buffer that has been made is as every step must leave it.
LEMMA MadeIs ==
    ASSUME NEW x, NEW q, NEW y, NEW q2, NEW st, HoldsAs(y, q2, st), y.addr = y.base, IndexRight(y)
    PROVE  Left(x, q, y, q2, st)
BY DEF Left

LEMMA RequestsAre ==
    ASSUME NEW req \in Requests
    PROVE  req \in Counts /\ req[Garbage] < 16
BY BufferAssumption DEF Counts

\* A buffer that has been made by the caller.
LEMMA NewsAre ==
    ASSUME NEW y \in News
    PROVE  HoldsAs(y, Nothing, <<>>) /\ y.addr = y.base /\ IndexRight(y)
<1>1. PICK base \in Bases, capacity \in Capacities, slack \in Slacks :
          y = Fresh(base, capacity, slack)
    BY DEF News
<1>2. capacity \in Nat
    BY BufferAssumption
<1> QED BY <1>1, <1>2, FreshIs

LEMMA StepKeeps ==
    ASSUME BInv, [Next]_vars
    PROVE  BInv' /\ IndexStep /\ (NoneEmpty => PoolStep)
<1>1. PICK q : HoldsAs(b, q, stored)
    BY DEF BInv
<1>2. ASSUME Usable PROVE Left(b, q, b, q, stored)
    BY <1>1, <1>2, LeftAsItWas DEF Usable
<1>3. ASSUME UNCHANGED vars PROVE BInv' /\ IndexStep /\ PoolStep
    BY <1>3 DEF vars, BInv, IndexStep, PoolStep, Usable
<1>4. ASSUME NEW req \in Requests, CallReserve(req)
      PROVE  \E q2 : Left(b, q, b', q2, stored')
    <2>1. PICK r \in ReserveBuffer(b, req) : b' = r.b
        BY <1>4 DEF CallReserve
    <2>2. b.addr = b.base /\ stored' = stored
        BY <1>4 DEF CallReserve, Usable
    <2>3. Reserved(r, b, q, req, stored)
        BY <1>1, <2>1, <2>2, RequestsAre, ReserveBufferIs
    <2> QED BY <2>1, <2>2, <2>3 DEF Reserved
<1>5. ASSUME NEW capacity \in Capacities, CallReserveCapacity(capacity)
      PROVE  \E q2 : Left(b, q, b', q2, stored')
    <2>1. PICK r \in ReserveCapacity(b, capacity) : b' = r.b
        BY <1>5 DEF CallReserveCapacity
    <2>2. b.addr = b.base /\ stored' = stored
        BY <1>5 DEF CallReserveCapacity, Usable
    <2>3. capacity \in Nat
        BY BufferAssumption
    <2>4. Left(b, q, r.b, q, stored)
        BY <1>1, <2>1, <2>2, <2>3, ReserveCapacityIs
    <2> QED BY <2>1, <2>2, <2>4
<1>6. ASSUME NEW shape \in Shapes, CallAddObject(shape)
      PROVE  \E q2 : Left(b, q, b', q2, stored')
    <2>1. PICK mo : mo = Len(stored)
        OBVIOUS
    <2>2. PICK r \in AddObject(b, shape, mo + 1) :
              /\ b' = r.b
              /\ stored' = IF r.ok THEN Append(stored, shape) ELSE stored
        BY <1>6, <2>1 DEF CallAddObject
    <2>3. b.addr = b.base
        BY <1>6 DEF CallAddObject, Usable
    <2>4. mo \in Nat
        BY <1>1, <2>1 DEF HoldsAs
    <2>5. \E q2 : Left(b, q, r.b, q2, IF r.ok THEN Append(stored, shape) ELSE stored)
        BY <1>1, <2>1, <2>2, <2>3, <2>4, AddObjectIs
    <2> QED BY <2>2, <2>5
<1>7. ASSUME NEW z \in BOOLEAN, CallClear(z)
      PROVE  \E q2 : Left(b, q, b', q2, stored')
    <2>1. b.addr = b.base
        BY <1>7 DEF CallClear, Usable
    <2>2. CASE b.owned
        <3>1. b' = [b EXCEPT !.mem = Cleared(b.mem, z), !.num = 0] /\ stored' = <<>>
            BY <1>7, <2>2 DEF CallClear
        <3>2. Left(b, q, b', q, <<>>)
            BY <1>1, <2>1, <3>1, CallClearIs
        <3> QED BY <3>1, <3>2
    <2>3. CASE ~b.owned
        <3>1. b' = b /\ stored' = stored
            BY <1>7, <2>3 DEF CallClear, vars
        <3> QED BY <1>2, <2>1, <3>1 DEF Usable
    <2> QED BY <2>2, <2>3
<1>8. ASSUME NEW req \in Requests, CallReset(req)
      PROVE  \E q2 : Left(b, q, b', q2, stored')
    <2>1. b.addr = b.base
        BY <1>8 DEF CallReset, Usable
    <2>2. CASE b.owned /\ BufferLength(req) <= b.capacity
        <3>1. b' = Refreshed(b, Initialised(b.mem, b.addr, req)) /\ stored' = <<>>
            BY <1>8, <2>2 DEF CallReset
        <3>2. Left(b, q, Refreshed(b, Initialised(b.mem, b.addr, req)), req, <<>>)
            BY <1>1, <2>1, <2>2, RequestsAre, CallResetIs
        <3> QED BY <3>1, <3>2
    <2>3. CASE ~(b.owned /\ BufferLength(req) <= b.capacity)
        <3>1. b' = b /\ stored' = stored
            BY <1>8, <2>3 DEF CallReset, vars
        <3> QED BY <1>2, <2>1, <3>1 DEF Usable
    <2> QED BY <2>2, <2>3
<1>9. ASSUME NEW base2 \in Bases \ {b.base}, NEW slack \in Slacks, CallCopy(base2, slack)
      PROVE  \E q2 : Left(b, q, b', q2, stored')
    <2>1. PICK r : r = CopyOf(b, base2, slack)
        OBVIOUS
    <2>2. b' = (IF r.ok THEN r.b ELSE b) /\ stored' = stored /\ b.addr = b.base
        BY <1>9, <2>1 DEF CallCopy, Usable
    <2>3. CASE r.ok
        <3>1. HoldsAs(r.b, q, stored) /\ r.b.addr = r.b.base /\ IndexRight(r.b)
            BY <1>1, <2>1, <2>2, <2>3, CopyOfIs
        <3>2. Left(b, q, r.b, q, stored)
            BY <3>1, MadeIs
        <3> QED BY <2>2, <2>3, <3>2
    <2>4. CASE ~r.ok
        BY <1>2, <2>2, <2>4 DEF Usable
    <2> QED BY <2>3, <2>4
<1>10. ASSUME NEW base2 \in Bases \ {b.base}, NEW length \in Capacities, CallOpenOn(base2, length)
       PROVE  \E q2 : Left(b, q, b', q2, stored')
    <2>1. PICK r : r = OpenOn(b, base2, length)
        OBVIOUS
    <2>2. b' = (IF r.ok THEN r.b ELSE b) /\ stored' = stored /\ b.addr = b.base
        BY <1>10, <2>1 DEF CallOpenOn, Usable
    <2>3. CASE r.ok
        <3>1. length \in Nat
            BY BufferAssumption
        <3>2. b.size <= length
            <4>1. Sound(b, q)
                BY <1>1 DEF HoldsAs
            <4>2. b.size \in Nat
                BY <4>1, PoolIs, PlacesAre DEF Sound
            <4>3. length >= b.size
                BY <1>10 DEF CallOpenOn
            <4> QED BY <3>1, <4>2, <4>3
        <3>3. HoldsAs(r.b, q, stored) /\ r.b.addr = r.b.base /\ IndexRight(r.b)
            BY <1>1, <2>1, <2>2, <2>3, <3>1, <3>2, OpenOnIs
        <3>4. Left(b, q, r.b, q, stored)
            BY <3>3, MadeIs
        <3> QED BY <2>2, <2>3, <3>4
    <2>4. CASE ~r.ok
        BY <1>2, <2>2, <2>4 DEF Usable
    <2> QED BY <2>3, <2>4
<1>11. ASSUME CallDelete PROVE \E q2 : Left(b, q, b', q2, stored')
    <2>1. b' \in News /\ stored' = <<>>
        BY <1>11 DEF CallDelete
    <2>2. HoldsAs(b', Nothing, <<>>) /\ b'.addr = b'.base /\ IndexRight(b')
        BY <2>1, NewsAre
    <2>3. Left(b, q, b', Nothing, <<>>)
        BY <2>2, MadeIs
    <2> QED BY <2>1, <2>3
<1>12. ASSUME \E q2 : Left(b, q, b', q2, stored')
       PROVE  BInv' /\ IndexStep /\ (NoneEmpty => PoolStep)
    BY <1>1, <1>12, LeftIs
<1> QED BY <1>3, <1>4, <1>5, <1>6, <1>7, <1>8, <1>9, <1>10, <1>11, <1>12 DEF Next

-----------------------------------------------------------------------------
(* What follows from the invariant.                                        *)

LEMMA TypeFollows ==
    ASSUME BInv
    PROVE  TypeOK
<1>1. PICK q : HoldsAs(b, q, stored)
    BY DEF BInv
<1>2. Sound(b, q) /\ stored \in Seq(Shapes) /\ b.num = Len(stored)
    BY <1>1 DEF HoldsAs
<1>3. Laid(b.mem, b.base, b.capacity, q)
    BY <1>2 DEF Sound
<1>4. PoolSize(b) = b.capacity /\ DOMAIN b.mem = 0 .. b.capacity - 1
    BY <1>2, PoolIs
<1>5. \A a \in DOMAIN b.mem : b.mem[a] \in Nat
    BY <1>3, <1>4 DEF Laid, Memories
<1>6. b.size = b.mem[1] /\ b.size <= b.capacity
  <2>1. b.size = EndAt(q)
    BY <1>2 DEF Sound
  <2>2. EndAt(q) <= b.capacity /\ b.mem[1] = EndAt(q)
    BY <1>3 DEF Laid, LengthWord
  <2> QED BY <2>1, <2>2
<1>7. b.num = NumEntities(b.mem, Objects)
  <2>1. NumEntities(b.mem, Objects) = b.mem[ObjectsAt(q) + 1]
    BY <1>3, ImageIs
  <2> QED BY <2>1, <1>2 DEF Sound
<1>8. b.base \in Bases /\ b.room \in Nat /\ b.owned \in BOOLEAN
    BY <1>2 DEF Sound
<1> QED BY <1>2, <1>4, <1>5, <1>6, <1>7, <1>8 DEF TypeOK

LEMMA OrderFollows ==
    ASSUME BInv
    PROVE  SectionsInOrder
<1>1. PICK q : HoldsAs(b, q, stored)
    BY DEF BInv
<1>2. PICK m : m = b.mem
    OBVIOUS
<1>3. PICK o : o = ObjectsAt(q)
    OBVIOUS
<1>4. PICK p : p = PtrsAt(q)
    OBVIOUS
<1>5. PICK g : g = RangesAt(q)
    OBVIOUS
<1>6. Laid(m, b.base, b.capacity, q)
    BY <1>1, <1>2 DEF HoldsAs, Sound
<1>7. /\ q \in Counts /\ m[9] \in Nat /\ m[o + 1] \in Nat /\ m[p + 1] \in Nat
      /\ m[9] <= q[3] /\ m[o + 1] <= q[4] /\ m[p + 1] <= q[5]
    BY <1>3, <1>4, <1>6, CountsAre
<1>8. /\ q[3] \in Nat /\ q[4] \in Nat /\ q[5] \in Nat /\ q[6] \in Nat
      /\ o \in Nat /\ o = 10 + q[3] /\ p \in Nat /\ p = o + 3 * q[4] + 2
      /\ g \in Nat /\ g = p + q[5] + 2 /\ EndAt(q) = g + 2 * q[6] + 2
    BY <1>3, <1>4, <1>5, <1>7, PlacesAre
<1>9. /\ Offset(m, 3) = 8 /\ Offset(m, 4) = o /\ Offset(m, 5) = p /\ Offset(m, 6) = g
      /\ MaxSize(m, 3) = q[3] + 2 /\ MaxSize(m, 4) = 3 * q[4] + 2 /\ MaxSize(m, 5) = q[5] + 2
      /\ UsedSize(m, 3) = m[9] + 2 /\ UsedSize(m, 4) = 3 * m[o + 1] + 2
      /\ UsedSize(m, 5) = m[p + 1] + 2
    BY <1>3, <1>4, <1>5, <1>6, ImageIs
<1>10. m[1] = EndAt(q)
    BY <1>6 DEF Laid
<1>11. Offset(m, 6) + 2 <= m[1]
    BY <1>8, <1>9, <1>10
<1>12. Fits(m, 3) /\ Fits(m, 4) /\ Fits(m, 5)
    BY <1>7, <1>8, <1>9 DEF Fits
<1>13. /\ Offset(m, 3) + MaxSize(m, 3) = Offset(m, 4)
       /\ Offset(m, 4) + MaxSize(m, 4) = Offset(m, 5)
       /\ Offset(m, 5) + MaxSize(m, 5) = Offset(m, 6)
    BY <1>8, <1>9
<1>14. ASSUME NEW s \in 3 .. 5
       PROVE  Fits(m, s) /\ Offset(m, s) + MaxSize(m, s) = Offset(m, s + 1)
    <2>1. s = 3 \/ s = 4 \/ s = 5
        OBVIOUS
    <2>2. 3 + 1 = 4 /\ 4 + 1 = 5 /\ 5 + 1 = 6
        OBVIOUS
    <2> QED BY <1>12, <1>13, <2>1, <2>2
<1> QED BY <1>2, <1>9, <1>11, <1>14 DEF SectionsInOrder

LEMMA ObjectsFollow ==
    ASSUME BInv
    PROVE  ObjectsIntact
<1>1. PICK q : HoldsAs(b, q, stored)
    BY DEF BInv
<1>2. PICK m : m = b.mem
    OBVIOUS
<1>3. PICK base : base = b.base
    OBVIOUS
<1>4. PICK mo : mo = Len(stored)
    OBVIOUS
<1>5. ASSUME Usable, NEW k \in 1 .. mo
      PROVE  ObjectIntact(k)
    <2>1. PICK at : Contents(m, base, q, stored, at)
        BY <1>1, <1>2, <1>3, <1>5 DEF HoldsAs, Usable
    <2>2. Laid(m, base, b.capacity, q)
        BY <1>1, <1>2, <1>3 DEF HoldsAs, Sound
    <2>3. PICK ms : ms = m[9]
        OBVIOUS
    <2>4. base \in Nat /\ ms \in Nat /\ q \in Counts
        BY <2>2, <2>3, CountsAre
    <2>5. /\ stored \in Seq(Shapes) /\ Placing(stored, at, ms) /\ Filled(m, base, stored, at)
          /\ Indexed(m, base, q, stored, at) /\ m[ObjectsAt(q) + 1] = mo
        BY <1>4, <2>1, <2>3 DEF Contents
    <2>6. PICK shape : shape = stored[k]
        OBVIOUS
    <2>7. PICK x : x = at[k]
        OBVIOUS
    <2>8. PICK size : size = ObjectSize(shape)
        OBVIOUS
    <2>9. PICK e : e = EntryAt(q, k)
        OBVIOUS
    <2>10. shape \in Shapes /\ x \in Nat /\ 10 <= x /\ x + size <= 10 + ms
        <3>1. x \in 10 .. 10 + ms - 1
            BY <1>4, <2>4, <2>5, <2>7, CellsAre
        <3>2. shape \in Shapes /\ x \in Nat /\ x + size <= 10 + ms
            BY <1>4, <2>4, <2>5, <2>6, <2>7, <2>8, CellsAre
        <3> QED BY <2>4, <3>1, <3>2
    <2>11. PICK num : num = NumAttrs(shape)
        OBVIOUS
    <2>12. /\ num \in Nat /\ size \in Nat /\ size >= 1 + num
           /\ \A i \in 1 .. num : /\ Lead(shape, i) \in Nat /\ Length(shape, i) \in Nat
                                  /\ Lead(shape, i) >= 1 + num
                                  /\ Lead(shape, i) + Length(shape, i) <= size
        BY <2>8, <2>10, <2>11, ShapeIs
    <2>13. /\ m[x] = Value(k, 0, 0)
           /\ \A i \in 1 .. num :
                 /\ m[x + i] = base + x + Lead(shape, i)
                 /\ \A j \in 0 .. Length(shape, i) - 1 :
                       m[x + Lead(shape, i) + j] = AttrValue(shape, k, i, j)
        BY <1>4, <2>5, <2>6, <2>7, <2>11 DEF Filled
    <2>14. m[e] = base + x /\ m[e + 1] = k /\ m[e + 2] = size
        BY <1>4, <2>5, <2>6, <2>7, <2>8, <2>9 DEF Indexed
    <2>15. m[e] - base = x
        BY <2>4, <2>10, <2>14
    <2>16. DataAt(m, 4) + EntitySize(4) * (k - 1) = e
        <3>1. Offset(m, 4) = ObjectsAt(q)
            BY <2>2, ImageIs
        <3>2. EntitySize(4) = 3
            BY DEF EntitySize
        <3> QED BY <2>9, <3>1, <3>2 DEF DataAt, EntryAt
    <2>17. m[3] = base + 8
        BY <2>2 DEF Laid
    <2>18. SlotsBegin(m) = base + 10 /\ SlotsEnd(m) = base + 10 + ms
        <3>1. UsedSize(m, 3) = ms + 2
            BY <2>2, <2>3, ImageIs
        <3>2. m[3] + UsedSize(m, 3) = base + 10 + ms /\ m[3] + 2 = base + 10
            BY <2>4, <2>17, <3>1
        <3> QED BY <3>2 DEF SlotsBegin, SlotsEnd
    <2>19. /\ InSlots(m, base + x) /\ base + x + size <= SlotsEnd(m)
        BY <2>4, <2>10, <2>12, <2>18 DEF InSlots
    <2>20. ASSUME NEW i \in 1 .. num
           PROVE  /\ x < m[x + i] - base
                  /\ (m[x + i] - base) + Length(shape, i) <= x + size
                  /\ \A j \in 0 .. Length(shape, i) - 1 :
                        m[(m[x + i] - base) + j] = AttrValue(shape, k, i, j)
        <3>1. PICK lead : lead = Lead(shape, i)
            OBVIOUS
        <3>2. PICK length : length = Length(shape, i)
            OBVIOUS
        <3>3. lead \in Nat /\ length \in Nat /\ lead >= 1 + num /\ lead + length <= size
            BY <2>12, <3>1, <3>2
        <3>4. m[x + i] - base = x + lead
            BY <2>4, <2>10, <2>13, <3>1, <3>3
        <3>5. x < x + lead /\ (x + lead) + length <= x + size
            BY <2>10, <2>12, <3>3
        <3> QED BY <2>13, <3>1, <3>2, <3>4, <3>5
    <2>21. /\ m[e + 1] = k /\ m[e + 2] = ObjectSize(shape) /\ InSlots(m, base + (m[e] - base))
           /\ base + (m[e] - base) + ObjectSize(shape) <= SlotsEnd(m)
           /\ m[m[e] - base] = Value(k, 0, 0)
           /\ \A i \in 1 .. NumAttrs(shape) :
                 /\ m[e] - base < m[(m[e] - base) + i] - base
                 /\ (m[(m[e] - base) + i] - base) + Length(shape, i) <= (m[e] - base) + ObjectSize(shape)
                 /\ \A j \in 0 .. Length(shape, i) - 1 :
                       m[(m[(m[e] - base) + i] - base) + j] = AttrValue(shape, k, i, j)
        BY <2>8, <2>11, <2>13, <2>14, <2>15, <2>19, <2>20
    <2> QED BY <1>2, <1>3, <2>6, <2>16, <2>21 DEF ObjectIntact
<1> QED BY <1>4, <1>5 DEF ObjectsIntact

\* A section that moves up, or stays, has succeeded.
LEMMA RelocatedUp ==
    ASSUME NEW r, r.ok, NEW s, NEW m, NEW req, Layout(req)[s] \in Int, Offset(m, s) \in Int,
           Layout(req)[s] >= Offset(m, s)
    PROVE  Relocate(r, s, m, req).ok
<1>1. PICK to : to = Layout(req)[s]
    OBVIOUS
<1>2. PICK from : from = Offset(m, s)
    OBVIOUS
<1>3. CASE to = from
    <2>1. Relocate(r, s, m, req) = r
        BY <1>1, <1>2, <1>3 DEF Relocate
    <2> QED BY <2>1
<1>4. CASE to # from
    <2>1. to > from
        BY <1>1, <1>2, <1>4
    <2>2. Relocate(r, s, m, req) =
              [ok |-> TRUE, mem |-> MoveUp(r.mem, s, to, m, SectionSize(req[s], s))]
        BY <1>1, <1>2, <1>4, <2>1 DEF Relocate
    <2> QED BY <2>2
<1> QED BY <1>3, <1>4

LEMMA GrowthFollows ==
    ASSUME BInv
    PROVE  GrowthAccepted
<1>1. PICK q : HoldsAs(b, q, stored)
    BY DEF BInv
<1>2. PICK m : m = b.mem
    OBVIOUS
<1>3. PICK n : n = b.capacity
    OBVIOUS
<1>4. Laid(m, b.base, n, q)
    BY <1>1, <1>2, <1>3 DEF HoldsAs, Sound
<1>5. ASSUME Whole, NEW req \in Requests, \A s \in Sections : MaxEntities(m, s) <= req[s],
             BufferLength(req) <= n
      PROVE  Reserve(m, req, n).ok
    <2>1. m[RangesAt(q)] # 0 /\ m[RangesAt(q) + 1] = 0
        BY <1>1, <1>2, <1>5, WholeIs
    <2>2. req \in Counts
        BY RequestsAre
    <2>3. q \in Counts /\ n \in Nat /\ EndAt(q) <= n
        BY <1>4, CountsAre
    <2>4. 3 \in Sections /\ 4 \in Sections /\ 5 \in Sections /\ 6 \in Sections
        BY DEF Sections
    <2>5. q[3] <= req[3] /\ q[4] <= req[4] /\ q[5] <= req[5] /\ q[6] <= req[6]
        <3>1. /\ MaxEntities(m, 3) = q[3] /\ MaxEntities(m, 4) = q[4]
              /\ MaxEntities(m, 5) = q[5] /\ MaxEntities(m, 6) = q[6]
            BY <1>4, <2>1, MaximaAre
        <3> QED BY <1>5, <2>4, <3>1
    <2>6. /\ q[3] \in Nat /\ q[4] \in Nat /\ q[5] \in Nat /\ q[6] \in Nat
          /\ req[3] \in Nat /\ req[4] \in Nat /\ req[5] \in Nat /\ req[6] \in Nat
        BY <2>2, <2>3, PlacesAre
    <2>7. HoldsCurrent(m, req)
        <3>1. /\ m[9] \in Nat /\ m[9] <= q[3]
              /\ m[ObjectsAt(q) + 1] \in Nat /\ m[ObjectsAt(q) + 1] <= q[4]
              /\ m[PtrsAt(q) + 1] \in Nat /\ m[PtrsAt(q) + 1] <= q[5]
            BY <1>4, CountsAre
        <3>2. /\ NumEntities(m, 3) = m[9] /\ NumEntities(m, 4) = m[ObjectsAt(q) + 1]
              /\ NumEntities(m, 5) = m[PtrsAt(q) + 1] /\ NumEntities(m, 6) = 0
            BY <1>4, <2>1, ImageIs
        <3>3. /\ NumEntities(m, 3) <= req[3] /\ NumEntities(m, 4) <= req[4]
              /\ NumEntities(m, 5) <= req[5] /\ NumEntities(m, 6) <= req[6]
            BY <2>5, <2>6, <3>1, <3>2
        <3>4. Sections = {3, 4, 5, 6}
            BY DEF Sections
        <3> QED BY <3>3, <3>4 DEF HoldsCurrent
    <2>8. m[1] > 0 /\ m[1] <= n
        <3>1. m[1] = EndAt(q)
            BY <1>4 DEF Laid
        <3>2. EndAt(q) \in Nat /\ EndAt(q) > 0
            BY <2>3, <2>6 DEF EndAt
        <3> QED BY <2>3, <3>1, <3>2
    <2>9. /\ Offset(m, 4) = ObjectsAt(q) /\ Offset(m, 5) = PtrsAt(q) /\ Offset(m, 6) = RangesAt(q)
          /\ Layout(req)[4] = ObjectsAt(req) /\ Layout(req)[5] = PtrsAt(req)
          /\ Layout(req)[6] = RangesAt(req)
        BY <1>4, <2>2, ImageIs, LayoutIs
    <2>10. /\ Offset(m, 4) \in Int /\ Offset(m, 5) \in Int /\ Offset(m, 6) \in Int
           /\ Layout(req)[4] \in Int /\ Layout(req)[5] \in Int /\ Layout(req)[6] \in Int
           /\ Layout(req)[4] >= Offset(m, 4) /\ Layout(req)[5] >= Offset(m, 5)
           /\ Layout(req)[6] >= Offset(m, 6)
        BY <2>5, <2>6, <2>9 DEF ObjectsAt, PtrsAt, RangesAt
    <2>11. PICK r : r = [ok |-> TRUE, mem |-> m]
        OBVIOUS
    <2>12. PICK garbage : garbage = Relocate(r, Garbage, m, req)
        OBVIOUS
    <2>13. PICK dataptrs : dataptrs = Relocate(garbage, DataPtrs, m, req)
        OBVIOUS
    <2>14. garbage.ok
        BY <2>10, <2>11, <2>12, RelocatedUp
    <2>15. dataptrs.ok
        BY <2>10, <2>13, <2>14, RelocatedUp
    <2>16. Relocate(dataptrs, Objects, m, req).ok
        BY <2>10, <2>15, RelocatedUp
    <2>17. RelocateSections(m, req) = Relocate(dataptrs, Objects, m, req)
        BY <2>11, <2>12, <2>13 DEF RelocateSections
    <2>18. PICK rs : rs = RelocateSections(m, req)
        OBVIOUS
    <2>19. rs.ok
        BY <2>16, <2>17, <2>18
    <2>20. ~(BufferLength(req) > n)
        <3>1. BufferLength(req) \in Nat
            BY <2>2, LayoutIs, PlacesAre
        <3> QED BY <1>5, <2>3, <3>1
    <2>21. Reserve(m, req, n) =
               IF req = Maxima(m) THEN [ok |-> TRUE, mem |-> m]
               ELSE [ok |-> TRUE, mem |-> WithLayout(rs.mem, req)]
        BY <2>7, <2>8, <2>18, <2>19, <2>20 DEF Reserve
    <2> QED BY <2>21
<1> QED BY <1>2, <1>3, <1>5 DEF GrowthAccepted

-----------------------------------------------------------------------------
(* The theorems.                                                           *)

LEMMA StartKeeps ==
    ASSUME Init
    PROVE  BInv
BY NewsAre DEF Init, BInv

\* Whatever calls are made of a buffer, in whatever order, and whichever of
\* them fail: its fields agree with its memory, whose sections are laid out for
\* some number of entities, and what the caller has stored is there as long as
\* the buffer has not lost its memory.
THEOREM BufferInvariant == Spec => []BInv
<1>1. Init => BInv
    BY StartKeeps
<1>2. BInv /\ [Next]_vars => BInv'
    BY StepKeeps
<1> QED BY <1>1, <1>2, PTL DEF Spec

\* The fields of a buffer have their types, and agree with the image and with
\* the pool.
THEOREM BufferTypes == Spec => []TypeOK
<1>1. BInv => TypeOK
    BY TypeFollows
<1> QED BY <1>1, BufferInvariant, PTL

\* The sections follow one another and hold no more than they may.
THEOREM BufferSections == Spec => []SectionsInOrder
<1>1. BInv => SectionsInOrder
    BY OrderFollows
<1> QED BY <1>1, BufferInvariant, PTL

\* The objects a caller has stored are in the index, in their order, and their
\* pointers lead to what was stored in their attributes.
THEOREM BufferKeepsObjects == Spec => []ObjectsIntact
<1>1. BInv => ObjectsIntact
    BY ObjectsFollow
<1> QED BY <1>1, BufferInvariant, PTL

\* A request that takes nothing from any section is accepted.
THEOREM BufferGrows == Spec => []GrowthAccepted
<1>1. BInv => GrowthAccepted
    BY GrowthFollows
<1> QED BY <1>1, BufferInvariant, PTL

\* No call but one that grows the memory makes the address of the index stale.
THEOREM BufferKeepsIndex == Spec => IndexKept
<1>1. BInv /\ [Next]_vars =>
          [Usable /\ Usable' /\ IndexRight(b) /\ b'.capacity <= b.capacity => IndexRight(b')]_vars
    BY StepKeeps DEF IndexStep
<1>2. Spec => [][Next]_vars
    BY DEF Spec
<1> QED BY <1>1, <1>2, BufferInvariant, PTL DEF IndexKept

\* A buffer whose objects have no attribute of length zero loses its memory to
\* no call, unless one has been refused half way before.
THEOREM BufferKeepsMemory ==
    ASSUME NoneEmpty
    PROVE  Spec => DataInPool
<1>1. BInv /\ [Next]_vars => [Usable /\ Whole => Usable']_vars
    BY StepKeeps, NoneEmpty DEF PoolStep
<1>2. Spec => [][Next]_vars
    BY DEF Spec
<1> QED BY <1>1, <1>2, BufferInvariant, PTL DEF DataInPool
=============================================================================
