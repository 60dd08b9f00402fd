---------------------------- MODULE AssignItems ----------------------------
(***************************************************************************)
(* The assign address items of a track job (common/track/                  *)
(* track_job_base.cpp, common/buffer/assign_address_item.h): each names an *)
(* object of a source buffer whose address is to be written into an object *)
(* of a destination buffer.  Buffers are named by id, which is looked up   *)
(* when the addresses are assigned.                                        *)
(*                                                                         *)
(* Items are filed under the pair of their buffers, in a map, and the      *)
(* pairs are kept once more in a sorted vector.                            *)
(***************************************************************************)
EXTENDS StoredBuffers

CONSTANTS
    ItemIds,        \* ids of buffers that items name
    Types,          \* types of objects
    TypeOf,         \* object -> its type
    Items,          \* the items users add
    MaxItems        \* bound on the items of one pair of buffers

\* An end of an item: a buffer, an object in it, and the type it should have.
End  == [id : ItemIds, object : Objects, type : Types]
Item == [dest : End, src : End]
Key  == ItemIds \X ItemIds

ASSUME AssignItemsAssumption ==
    /\ ItemIds \subseteq Nat /\ TypeOf \in [Objects -> Types]
    /\ Items \subseteq Item /\ MaxItems \in Nat

VARIABLES
    items,      \* job -> m_assign_address_items
    keys,       \* job -> m_assign_item_keys
    settled     \* the job whose assign_all_addresses has just succeeded, if any

vars == <<storeVars, items, keys, settled>>

KeyOf(item) == <<item.dest.id, item.src.id>>
Pairs       == {KeyOf(item) : item \in Items}
Less(k, l)  == k[1] < l[1] \/ (k[1] = l[1] /\ k[2] < l[2])

Init ==
    /\ StoresInit
    /\ items = [j \in Jobs |-> [k \in {} |-> <<>>]]
    /\ keys = [j \in Jobs |-> <<>>]
    /\ settled = {}

-----------------------------------------------------------------------------
(* Adding and removing items.                                              *)

\* The first place whose key is not less than k.
LowerBound(s, k) ==
    CHOOSE p \in 1 .. Len(s) + 1 :
        /\ \A i \in 1 .. p - 1 : Less(s[i], k)
        /\ \A i \in p .. Len(s) : ~Less(s[i], k)

\* Mutant: the vector is not sorted.
BadWithKeyUnsorted(s, k) == Append(s, k)

\* Appending and, if that breaks the order, sorting.
WithKey(s, k)    == InsertAt(s, LowerBound(s, k), k)
WithoutKey(s, k) == RemoveAt(s, LowerBound(s, k))

Filed(f, k, s) == [l \in DOMAIN f \cup {k} |-> IF l = k THEN s ELSE f[l]]
Unfiled(f, k)  == [l \in DOMAIN f \ {k} |-> f[l]]

\* An item that is there already is found, not added.
AddItem(j, item) ==
    LET k == KeyOf(item)
    IN  /\ IF k \notin DOMAIN items[j]
           THEN /\ items' = [items EXCEPT ![j] = Filed(@, k, <<item>>)]
                /\ keys' = [keys EXCEPT ![j] = WithKey(@, k)]
           ELSE IF \E i \in DOMAIN items[j][k] : items[j][k][i] = item
           THEN UNCHANGED <<items, keys>>
           ELSE /\ Len(items[j][k]) < MaxItems
                /\ items' = [items EXCEPT ![j][k] = Append(@, item)]
                /\ UNCHANGED keys
        /\ settled' = {}
        /\ UNCHANGED storeVars

\* What is left when item i goes.  The others are copied to the end of the
\* buffer they are in, which is then given up for the new one: nothing is left.
Kept(s, i) == <<>>

RemoveItem(j, k, i) ==
    /\ IF k \in DOMAIN items[j] /\ i <= Len(items[j][k])
       THEN IF Kept(items[j][k], i) = <<>>
            THEN /\ items' = [items EXCEPT ![j] = Unfiled(@, k)]
                 /\ keys' = [keys EXCEPT ![j] = WithoutKey(@, k)]
            ELSE /\ items' = [items EXCEPT ![j] = Filed(@, k, Kept(@[k], i))]
                 /\ UNCHANGED keys
       ELSE UNCHANGED <<items, keys>>
    /\ settled' = {}
    /\ UNCHANGED storeVars

-----------------------------------------------------------------------------
(* Assigning addresses.                                                    *)

\* The object an end names is of the type the end gives.
Matches(end) == TypeOf[end.object] = end.type

\* A source that does not match gives a null pointer.
SourceAddress(j, item) ==
    IF Matches(item.src) THEN AddressOf(BufferById(j, item.src.id), item.src.object)
                         ELSE Null

HasBuffers(j, k) == BufferById(j, k[1]) # NoBuffer /\ BufferById(j, k[2]) # NoBuffer

\* The status for one pair: there are items, both buffers, and all
\* destinations match.
Succeeds(j, k) ==
    /\ k \in DOMAIN items[j] /\ HasBuffers(j, k)
    /\ \A i \in DOMAIN items[j][k] : Matches(items[j][k][i].dest)

\* The items of a job that write a pointer: <<pair, place>>.
Writers(j, b, o) ==
    {w \in UNION {{k} \X DOMAIN items[j][k] : k \in DOMAIN items[j]} :
        LET item == items[j][w[1]][w[2]]
        IN  /\ HasBuffers(j, w[1]) /\ Matches(item.dest)
            /\ BufferById(j, item.dest.id) = b /\ item.dest.object = o}

Before(v, w) == Less(v[1], w[1]) \/ (v[1] = w[1] /\ v[2] <= w[2])

\* The memory after the items of these pairs are applied in order: the last one
\* that writes a pointer decides.
Assigned(j, pairs) ==
    [b \in Buffers |-> [memory[b] EXCEPT !.pointer =
        [o \in Objects |->
            LET ws == {w \in Writers(j, b, o) : w[1] \in pairs}
            IN  IF ws = {} THEN memory[b].pointer[o]
                ELSE LET w == CHOOSE w \in ws : \A v \in ws : Before(v, w)
                     IN  SourceAddress(j, items[j][w[1]][w[2]])]]]

\* assign_addresses: one pair.
Assign(j, k) ==
    /\ memory' = Assigned(j, {k})
    /\ settled' = {}
    /\ UNCHANGED <<slots, num, items, keys>>

\* Mutant: stops at the first that succeeds.
BadReachedUntilSuccess(j) == {k \in DOMAIN items[j] :
                \A l \in DOMAIN items[j] : Less(l, k) => ~Succeeds(j, l)}

\* assign_all_addresses: the pairs in order, up to the first that fails.
Reached(j) == {k \in DOMAIN items[j] :
                \A l \in DOMAIN items[j] : Less(l, k) => Succeeds(j, l)}

AssignAll(j) ==
    /\ memory' = Assigned(j, Reached(j))
    /\ settled' = IF \A k \in DOMAIN items[j] : Succeeds(j, k) THEN {j} ELSE {}
    /\ UNCHANGED <<slots, num, items, keys>>

-----------------------------------------------------------------------------
(* Stored buffers and copies of jobs.                                      *)

AddBuffer(j) ==
    /\ \E b \in Pointers, owned \in BOOLEAN : StoreBuffer(j, b, owned)
    /\ settled' = {}
    /\ UNCHANGED <<items, keys>>

RemoveBuffer(j, id) ==
    /\ IF IsStoredId(j, id) THEN DropBuffer(j, id) ELSE UNCHANGED storeVars
    /\ settled' = {}
    /\ UNCHANGED <<items, keys>>

MoveBuffer(b) ==
    /\ Move(b)
    /\ settled' = {}
    /\ UNCHANGED <<items, keys>>

CopyJob(j, k) ==
    /\ CopyStores(j, k)
    /\ items' = [items EXCEPT ![k] = items[j]]
    /\ keys' = [keys EXCEPT ![k] = keys[j]]
    /\ settled' = {}

Next ==
    \/ \E j \in Jobs, item \in Items : AddItem(j, item)
    \/ \E j \in Jobs, k \in Pairs, i \in 1..MaxItems : RemoveItem(j, k, i)
    \/ \E j \in Jobs, k \in Pairs : Assign(j, k)
    \/ \E j \in Jobs : AssignAll(j)
    \/ \E j \in Jobs : AddBuffer(j)
    \/ \E j \in Jobs, id \in MinUserId .. MinUserId + MaxSlots : RemoveBuffer(j, id)
    \/ \E b \in Buffers : MoveBuffer(b)
    \/ \E j, k \in Jobs : CopyJob(j, k)

Spec == Init /\ [][Next]_vars

-----------------------------------------------------------------------------
(* Properties.                                                             *)

\* Types of all tables; items are filed under pairs of buffers' ids.
TypeOK ==
    /\ StoresTypeOK
    /\ \A j \in Jobs : /\ DOMAIN items[j] \in SUBSET Key
                       /\ items[j] \in [DOMAIN items[j] -> Seq(Items)]
    /\ items \in [Jobs -> {items[j] : j \in Jobs}]
    /\ keys \in [Jobs -> Seq(Key)]
    /\ settled \in SUBSET Jobs

\* The sorted vector holds the pairs of the map, each once (asserted wherever
\* one of the two is changed).
KeysAgree == \A j \in Jobs :
    /\ \A i, m \in DOMAIN keys[j] : i < m => Less(keys[j][i], keys[j][m])
    /\ {keys[j][i] : i \in DOMAIN keys[j]} = DOMAIN items[j]

\* A pair of the map has items, all of that pair and no two the same.
ItemsFiled == \A j \in Jobs : \A k \in DOMAIN items[j] :
    /\ items[j][k] # <<>>
    /\ \A i \in DOMAIN items[j][k] : KeyOf(items[j][k][i]) = k
    /\ \A i, m \in DOMAIN items[j][k] : items[j][k][i] = items[j][k][m] => i = m

\* The tables of every job agree with each other and with memory, however its
\* buffers and items come and go and jobs are copied: what the assertions of
\* track_job_base.cpp say of them, and that a slot never names freed memory.
TablesAgree == TypeOK /\ CountsAgree /\ SlotsAreSound /\ KeysAgree /\ ItemsFiled

\* When assign_all_addresses reports success, the destination of every item
\* points to where the source of an item for it is now, in memory that is
\* allocated, or is null if that source is not of the type given: no item was
\* left out, and none was applied to a buffer that is gone.
AssignedIsCurrent == \A j \in settled :
    LET Target(item) == <<BufferById(j, item.dest.id), item.dest.object>>
        All == UNION {{items[j][k][i] : i \in DOMAIN items[j][k]} : k \in DOMAIN items[j]}
    IN  \A item \in All :
            LET t == Target(item)
                p == memory[t[1]].pointer[t[2]]
            IN  /\ Live(t[1])
                /\ \E other \in All : Target(other) = t /\ p = SourceAddress(j, other)
                /\ p # Null => Live(p[1]) /\ p[2] = memory[p[1]].place

\* An id a job has handed out names the buffer it was handed out for or, once
\* that is removed, none: items that outlive a buffer never act on another.
IdsNameOneBuffer ==
    [][\A j \in Jobs :
        \/ \A id \in MinUserId .. MinUserId + Len(slots[j]) - 1 :
                BufferById(j, id)' \in {BufferById(j, id), NoBuffer}
        \/ \E k \in Jobs : CopyJob(k, j)]_vars
=============================================================================
