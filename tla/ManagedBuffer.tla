--------------------------- MODULE ManagedBuffer ---------------------------
(***************************************************************************)
(* The flat memory in which SixTrackLib keeps all of its objects           *)
(* (common/buffer/managed_buffer.h, managed_buffer_minimal.h and           *)
(* managed_buffer_remap.h): a header, followed by a section for the slots  *)
(* (the objects' data), one for the objects index, one for the addresses   *)
(* of the pointers within the data, and one for garbage ranges.            *)
(*                                                                         *)
(* The memory is a function from 0 .. n - 1 to integers, one for every     *)
(* slot of eight bytes; a size is a number of slots.  (The size that a     *)
(* section holds of itself is kept in bytes, as a reader may mistake it    *)
(* for a number of entities.)  An address is the address of the first slot *)
(* plus an index, so an image that has been copied elsewhere holds         *)
(* addresses of the place it came from.  The operators are pure: each      *)
(* takes the memory and returns what the call leaves of it, with ok for    *)
(* the status 0 of the code; what it does to slots behind the memory is    *)
(* left out.                                                               *)
(***************************************************************************)
EXTENDS Integers, FiniteSetsExt

\* The words of the header that matter, and the sections in their order.
Base       == 0
LengthWord == 1
HeaderWord == 2
Slots      == 3
Objects    == 4
DataPtrs   == 5
Garbage    == 6
Sections   == Slots .. Garbage

SlotSize      == 8   \* bytes
HeaderLength  == 8
SectionHeader == 2

\* A slot, an object (address, type, size), a pointer, a range (address, size).
EntitySize(s) == CASE s = Objects -> 3 [] s = Garbage -> 2 [] OTHER -> 1

-----------------------------------------------------------------------------
(* Plain memory operations.                                                *)

Cells(at, n) == at .. (at + n - 1)
Zeroed(m, at, n) == [a \in DOMAIN m |-> IF a \in Cells(at, n) THEN 0 ELSE m[a]]
Moved(m, to, from, n) ==
    [a \in DOMAIN m |-> IF a \in Cells(to, n) THEN m[from + (a - to)] ELSE m[a]]
Shifted(m, cells, d) ==
    [a \in DOMAIN m |-> IF a \in cells THEN m[a] + d ELSE m[a]]

(* What the sections say of themselves.                                    *)

Offset(m, s)      == m[s] - m[Base]
MaxSize(m, s)     == m[Offset(m, s)] \div SlotSize
NumEntities(m, s) == m[Offset(m, s) + 1]
DataAt(m, s)      == Offset(m, s) + SectionHeader

SectionSize(n, s) == n * EntitySize(s) + SectionHeader
UsedSize(m, s)    == SectionSize(NumEntities(m, s), s)
MaxEntities(m, s) ==
    IF MaxSize(m, s) >= SectionHeader
    THEN (MaxSize(m, s) - SectionHeader) \div EntitySize(s)
    ELSE 0
Fits(m, s) == UsedSize(m, s) <= MaxSize(m, s)
Maxima(m) == [s \in Sections |-> MaxEntities(m, s)]

(* The layout for a request: how many entities each section is to hold.    *)

Layout(req) ==
    LET objects  == HeaderLength + SectionSize(req[Slots], Slots)
        dataptrs == objects + SectionSize(req[Objects], Objects)
        garbage  == dataptrs + SectionSize(req[DataPtrs], DataPtrs)
    IN  [s \in Sections |-> CASE s = Slots    -> HeaderLength
                              [] s = Objects  -> objects
                              [] s = DataPtrs -> dataptrs
                              [] s = Garbage  -> garbage]

BufferLength(req) == Layout(req)[Garbage] + SectionSize(req[Garbage], Garbage)

\* Mutant: a section may not be full.
BadHoldsCurrentNeverFull(m, req) ==
    \A s \in Sections : NumEntities(m, s) < req[s]

HoldsCurrent(m, req) == \A s \in Sections : NumEntities(m, s) <= req[s]

-----------------------------------------------------------------------------
(* Reserving: the sections are moved from the last to the first, each by   *)
(* what it holds now.  A section moves up, or down if its new place begins *)
(* behind what the section before it holds; else this and the sections     *)
(* before it stay, and those already moved are not moved back.             *)

MoveUp(m, s, to, m0, extent) ==
    LET from    == Offset(m0, s)
        used    == UsedSize(m0, s)
        vacated == Min({to - from, used})
        there   == Zeroed(Moved(m, to, from, used), from, vacated)
    IN  Zeroed(there, to + used, extent - used)

\* Mutant: the header of the section before is forgotten.
BadFitsBehindNoHeader(m, s, to) ==
    to >= Offset(m, s - 1) + UsedSize(m, s - 1) - SectionHeader

FitsBehind(m, s, to) == to >= Offset(m, s - 1) + UsedSize(m, s - 1)

Relocate(r, s, m0, req) ==
    LET to   == Layout(req)[s]
        from == Offset(m0, s)
    IN  IF ~r.ok \/ to = from THEN r
        ELSE IF to > from
        THEN [ok |-> TRUE, mem |-> MoveUp(r.mem, s, to, m0, SectionSize(req[s], s))]
        ELSE IF FitsBehind(m0, s, to)
        THEN [ok |-> TRUE, mem |-> Moved(r.mem, to, from, UsedSize(m0, s))]
        ELSE [ok |-> FALSE, mem |-> r.mem]

RelocateSections(m, req) ==
    LET garbage  == Relocate([ok |-> TRUE, mem |-> m], Garbage, m, req)
        dataptrs == Relocate(garbage, DataPtrs, m, req)
    IN  Relocate(dataptrs, Objects, m, req)

\* The slots' section grows at its end, then the header and the maximal
\* sizes follow.
WithLayout(m, req) ==
    LET used   == UsedSize(m, Slots)
        grown  == Zeroed(m, HeaderLength + used,
                         SectionSize(req[Slots], Slots) - used)
        at     == Layout(req)
    IN  [a \in DOMAIN m |->
            IF a = LengthWord THEN BufferLength(req)
            ELSE IF a \in Sections THEN m[Base] + at[a]
            ELSE IF \E s \in Sections : a = at[s]
            THEN LET s == CHOOSE t \in Sections : a = at[t]
                 IN  SlotSize * SectionSize(req[s], s)
            ELSE grown[a]]

Reserve(m, req, capacity) ==
    LET admissible == /\ m[LengthWord] > 0
                      /\ m[LengthWord] <= capacity
                      /\ HoldsCurrent(m, req)
        r          == RelocateSections(m, req)
    IN  IF ~admissible THEN [ok |-> FALSE, mem |-> m]
        ELSE IF req = Maxima(m) THEN [ok |-> TRUE, mem |-> m]
        ELSE IF BufferLength(req) > capacity THEN [ok |-> FALSE, mem |-> m]
        ELSE IF r.ok THEN [ok |-> TRUE, mem |-> WithLayout(r.mem, req)]
        ELSE r

-----------------------------------------------------------------------------
(* Initialising and clearing.                                              *)

Initialised(m, base, req) ==
    LET at    == Layout(req)
        clear == Zeroed(m, 0, BufferLength(req))
    IN  [a \in DOMAIN m |->
            IF a = Base THEN base
            ELSE IF a = LengthWord THEN BufferLength(req)
            ELSE IF a = HeaderWord THEN HeaderLength
            ELSE IF a \in Sections THEN base + at[a]
            ELSE IF \E s \in Sections : a = at[s]
            THEN LET s == CHOOSE t \in Sections : a = at[t]
                 IN  SlotSize * SectionSize(req[s], s)
            ELSE clear[a]]

\* Mutant: the objects keep their number unless the data is cleared.
BadClearedKeepsObjects(m, set_data_to_zero) ==
    [a \in DOMAIN m |->
        IF \E s \in Sections \ {Objects} : a = Offset(m, s) + 1 THEN 0
        ELSE IF set_data_to_zero /\ a = Offset(m, Objects) + 1 THEN 0
        ELSE m[a]]

Cleared(m, set_data_to_zero) ==
    [a \in DOMAIN m |->
        IF \/ \E s \in Sections : a = Offset(m, s) + 1
           \/ /\ set_data_to_zero
              /\ \E s \in Sections :
                    a \in Cells(DataAt(m, s), NumEntities(m, s) * EntitySize(s))
        THEN 0
        ELSE m[a]]

-----------------------------------------------------------------------------
(* Remapping an image that is now at address base.  The header is shifted  *)
(* first; a section stops at its first entity that does not fit, and       *)
(* leaves the rest as it was.                                              *)

RemapHeader(m, d) == Shifted(m, {Base} \cup Sections, d)

\* The addresses of the slots in use: from the first, up to behind the last.
SlotsBegin(m) == m[Slots] + SectionHeader
SlotsEnd(m)   == m[Slots] + UsedSize(m, Slots)
\* Mutant: the last slot in use is taken for the end.
BadInSlotsLast(m, address) ==
    SlotsBegin(m) <= address /\ address < SlotsEnd(m) - 1

InSlots(m, address) == SlotsBegin(m) <= address /\ address < SlotsEnd(m)

\* The entities before the first bad one among n.
BeforeBad(bad, n) == {i \in 1 .. n : \A j \in 1 .. i : j \notin bad}

RemapSlots(m) == MaxSize(m, Slots) >= NumEntities(m, Slots)

RemapObjects(m, d) ==
    LET n        == IF Fits(m, Objects) THEN NumEntities(m, Objects) ELSE 0
        Entry(i) == DataAt(m, Objects) + EntitySize(Objects) * (i - 1)
        Begin(i) == m[Entry(i)] + d
        Bad(i)   == \/ Begin(i) < SlotsBegin(m)
                    \/ Begin(i) > SlotsEnd(m)
                    \/ i > 1 /\ Begin(i) < Begin(i - 1) + m[Entry(i - 1) + 2]
        bad      == {i \in 1 .. n : Bad(i)}
    IN  [ok  |-> Fits(m, Objects) /\ bad = {},
         mem |-> Shifted(m, {Entry(i) : i \in BeforeBad(bad, n)}, d)]

\* Mutant: the list of pointers is shifted, the pointers in the data are not.
BadRemapDataPtrsListOnly(m, d) ==
    [ok  |-> Fits(m, DataPtrs),
     mem |-> Shifted(m, Cells(DataAt(m, DataPtrs), NumEntities(m, DataPtrs)), d)]

RemapDataPtrs(m, d) ==
    LET n          == IF Fits(m, DataPtrs) THEN NumEntities(m, DataPtrs) ELSE 0
        Entry(i)   == DataAt(m, DataPtrs) + i - 1
        Pointer(i) == m[Entry(i)] + d
        Cell(i)    == Pointer(i) - m[Base]
        Bad(i)     == \/ ~InSlots(m, Pointer(i))
                      \/ ~InSlots(m, m[Cell(i)] + d)
        bad        == {i \in 1 .. n : Bad(i)}
    IN  [ok  |-> Fits(m, DataPtrs) /\ bad = {},
         mem |-> Shifted(m, {Entry(i) : i \in BeforeBad(bad, n)}
                                \cup {Cell(i) : i \in BeforeBad(bad, n)}, d)]

RemapGarbage(m, d) ==
    LET n        == IF Fits(m, Garbage) THEN NumEntities(m, Garbage) ELSE 0
        Entry(i) == DataAt(m, Garbage) + EntitySize(Garbage) * (i - 1)
        Bad(i)   == ~InSlots(m, m[Entry(i)] + d)
        bad      == {i \in 1 .. n : Bad(i)}
    IN  [ok  |-> Fits(m, Garbage) /\ bad = {},
         mem |-> Shifted(m, {Entry(i) : i \in BeforeBad(bad, n)}, d)]

Remap(m, base) ==
    LET d        == base - m[Base]
        header   == RemapHeader(m, d)
        objects  == RemapObjects(header, d)
        dataptrs == RemapDataPtrs(objects.mem, d)
        garbage  == RemapGarbage(dataptrs.mem, d)
    IN  IF d = 0 THEN [ok |-> TRUE, mem |-> m]
        ELSE [ok  |-> /\ RemapSlots(header)
                      /\ objects.ok /\ dataptrs.ok /\ garbage.ok,
              mem |-> garbage.mem]
=============================================================================
