------------------------ MODULE ElemByElemConfigApi -------------------------
(***************************************************************************)
(* One ElemByElemConfig object and every call that writes to it.  The      *)
(* setters are public and independent of each other, so a configuration    *)
(* can be cleared after its layout was chosen, given an output address     *)
(* before a window, or lose its order while a window is in place.          *)
(***************************************************************************)
EXTENDS ElemByElemConfig

CONSTANTS Ids,          \* the bounds a caller offers to init_detailed
          Queries,      \* the ids, elements and turns a store index is asked for
          Addresses     \* output addresses a caller may assign

\* The store index functions assert that their arguments are not negative.
ASSUME ApiAssumption ==
    Ids \subseteq Int /\ Queries \subseteq Nat /\ Addresses \subseteq Nat

VARIABLE config

Windows == [min_particle_id : Ids, max_particle_id : Ids,
            min_element_id  : Ids, max_element_id  : Ids,
            min_turn        : Ids, max_turn        : Ids]

Init == config = Preset

CallPreset == config' = Preset

CallClear == config' = Cleared(config)

CallInitDetailed ==
    \E order \in Orders, w \in Windows, rolling \in BOOLEAN :
        config' = InitDetailed(config, order, w, rolling)

CallSetOrder == \E order \in Orders : config' = [config EXCEPT !.order = order]

CallSetIsRolling ==
    \E rolling \in BOOLEAN : config' = [config EXCEPT !.is_rolling = rolling]

CallSetOutputStoreAddress ==
    \E a \in Addresses : config' = [config EXCEPT !.out_store_addr = a]

Next == \/ CallPreset
        \/ CallClear
        \/ CallInitDetailed
        \/ CallSetOrder
        \/ CallSetIsRolling
        \/ CallSetOutputStoreAddress

Spec == Init /\ [][Next]_config

-----------------------------------------------------------------------------
(* Properties.                                                             *)

\* The object is either cleared, or a window whose counts are the sizes of
\* its ranges: no sequence of setters separates the two.
TypeOK == /\ config \in Configs
          /\ WindowConsistent(config) \/ WindowEmpty(config)

\* Every store index handed out lies inside the store of
\* out_store_num_particles slots: the copy that follows in track.h is
\* bounded by nothing else than this and the size of the output.
IndexInStore ==
    \A pid, elem, turn \in Queries :
        StoreIndex(config, pid, elem, turn) < OutStoreNumParticles(config)
        \/ StoreIndex(config, pid, elem, turn) = -1

\* A configuration that is_active denies stores nothing: no particle of a
\* cleared or order-less configuration reaches the output.
InactiveStoresNothing ==
    ~IsActive(config) =>
        \A pid, elem, turn \in Queries :
            StoreIndex(config, pid, elem, turn) = -1

\* Two entries share a slot only if they are the same particle at the same
\* element, a whole number of store depths apart in turns; without rolling
\* that means the same turn.
SlotsCollideOnlyAcrossRolls ==
    \A p1, p2, e1, e2, t1, t2 \in Queries :
        LET i1 == StoreIndex(config, p1, e1, t1)
            i2 == StoreIndex(config, p2, e2, t2)
        IN  i1 = i2 /\ i1 >= 0 /\ IsActive(config) =>
              /\ p1 = p2 /\ e1 = e2
              /\ IF config.is_rolling
                 THEN (t1 - t2) % config.num_turns = 0
                 ELSE t1 = t2

\* The three inverse functions name the entry whose store index a slot is.
InverseAgrees ==
    IsActive(config) =>
        \A i \in 0 .. OutStoreNumParticles(config) - 1 :
            StoreIndex(config, ParticleIdOfIndex(config, i),
                       AtElementOfIndex(config, i),
                       AtTurnOfIndex(config, i)) = i
=============================================================================
