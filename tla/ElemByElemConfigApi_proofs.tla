---------------------- MODULE ElemByElemConfigApi_proofs ----------------------
(***************************************************************************)
(* Theorems about ElemByElemConfigApi: its properties hold for every       *)
(* window a caller can ask for, not only the small ones TLC enumerates.    *)
(* The shape of the object (TypeOK) is inductive; the other properties     *)
(* follow from it by the arithmetic of the store index.                    *)
(***************************************************************************)
EXTENDS ElemByElemConfigApi, ElemByElemConfig_lemmas

\* init_detailed returns a consistent window or leaves the object alone.
LEMMA InitDetailedType ==
    ASSUME NEW c \in Configs, WindowConsistent(c) \/ WindowEmpty(c),
           NEW order \in Orders, NEW w \in Windows, NEW rolling \in BOOLEAN
    PROVE  /\ InitDetailed(c, order, w, rolling) \in Configs
           /\ \/ WindowConsistent(InitDetailed(c, order, w, rolling))
              \/ WindowEmpty(InitDetailed(c, order, w, rolling))
<1>1. /\ w.min_particle_id \in Int /\ w.max_particle_id \in Int
      /\ w.min_element_id \in Int /\ w.max_element_id \in Int
      /\ w.min_turn \in Int /\ w.max_turn \in Int
    BY ApiAssumption DEF Windows
<1>2. CASE order # InvalidOrder /\ ValidWindow(w)
    BY <1>1, <1>2
    DEF InitDetailed, ValidWindow, Configs, WindowConsistent, NoAddress
<1>3. CASE ~ (order # InvalidOrder /\ ValidWindow(w))
    BY <1>3 DEF InitDetailed
<1> QED BY <1>2, <1>3

\* clear and preset leave a cleared window.
LEMMA EmptyConfigType ==
    ASSUME NEW order \in Orders, NEW rolling \in BOOLEAN
    PROVE  /\ EmptyConfig(order, rolling) \in Configs
           /\ WindowEmpty(EmptyConfig(order, rolling))
    BY DEF EmptyConfig, Configs, WindowEmpty, NoAddress

\* The configuration stays cleared or consistent whatever sequence of
\* preset, clear, init_detailed and setters is called.
THEOREM ConfigTypeOK == Spec => []TypeOK
<1>1. Init => TypeOK
    BY EmptyConfigType DEF Init, TypeOK, Preset, Orders
<1>2. TypeOK /\ [Next]_config => TypeOK'
    <2> SUFFICES ASSUME TypeOK, [Next]_config PROVE TypeOK'
        OBVIOUS
    <2>1. CASE CallPreset
        BY <2>1, EmptyConfigType DEF CallPreset, TypeOK, Preset, Orders
    <2>2. CASE CallClear
        BY <2>2, EmptyConfigType DEF CallClear, TypeOK, Cleared, Configs
    <2>3. CASE CallInitDetailed
        BY <2>3, InitDetailedType DEF CallInitDetailed, TypeOK
    <2>4. CASE CallSetOrder
        BY <2>4 DEF CallSetOrder, TypeOK, Configs, WindowConsistent,
                    ValidWindow, WindowEmpty
    <2>5. CASE CallSetIsRolling
        BY <2>5 DEF CallSetIsRolling, TypeOK, Configs, WindowConsistent,
                    ValidWindow, WindowEmpty
    <2>6. CASE CallSetOutputStoreAddress
        BY <2>6, ApiAssumption DEF CallSetOutputStoreAddress, TypeOK, Configs,
                    WindowConsistent, ValidWindow, WindowEmpty
    <2>7. CASE UNCHANGED config
        BY <2>7 DEF TypeOK, WindowConsistent, ValidWindow, WindowEmpty
    <2> QED BY <2>1, <2>2, <2>3, <2>4, <2>5, <2>6, <2>7 DEF Next
<1> QED BY <1>1, <1>2, PTL DEF Spec

\* Every index handed out lies inside the store, for any window.
THEOREM ConfigIndexInStore == Spec => []IndexInStore
<1>1. TypeOK => IndexInStore
    <2> SUFFICES ASSUME TypeOK,
                        NEW pid \in Queries, NEW elem \in Queries,
                        NEW turn \in Queries
                 PROVE  \/ StoreIndex(config, pid, elem, turn)
                             < OutStoreNumParticles(config)
                        \/ StoreIndex(config, pid, elem, turn) = -1
        BY DEF IndexInStore
    <2>1. pid \in Nat /\ elem \in Nat /\ turn \in Nat
        BY ApiAssumption
    <2>2. CASE WindowEmpty(config)
        BY <2>1, <2>2, EmptyWindowStoresNothing DEF TypeOK
    <2>3. CASE ~ (/\ InWindow(config, pid, elem, turn)
                  /\ config.order = TurnElemParticles)
        BY <2>3 DEF StoreIndex
    <2>4. CASE /\ WindowConsistent(config)
               /\ InWindow(config, pid, elem, turn)
               /\ config.order = TurnElemParticles
        BY <2>1, <2>4, StoreIndexInStore, WindowCounts DEF TypeOK
    <2> QED BY <2>2, <2>3, <2>4 DEF TypeOK
<1> QED BY <1>1, ConfigTypeOK, PTL

\* An inactive configuration hands out no index, for any window.
THEOREM ConfigInactiveStoresNothing == Spec => []InactiveStoresNothing
<1>1. TypeOK => InactiveStoresNothing
    <2> SUFFICES ASSUME TypeOK, ~IsActive(config),
                        NEW pid \in Queries, NEW elem \in Queries,
                        NEW turn \in Queries
                 PROVE  StoreIndex(config, pid, elem, turn) = -1
        BY DEF InactiveStoresNothing
    <2>1. CASE WindowEmpty(config)
        BY <2>1, EmptyWindowStoresNothing, ApiAssumption DEF TypeOK
    <2>2. CASE WindowConsistent(config)
        <3>1. config.order = InvalidOrder
            BY <2>2, WindowCounts DEF TypeOK, IsActive
        <3> QED BY <3>1 DEF StoreIndex, InvalidOrder, TurnElemParticles
    <2> QED BY <2>1, <2>2 DEF TypeOK
<1> QED BY <1>1, ConfigTypeOK, PTL

\* A slot is shared only by one particle at one element in turns a whole
\* number of store depths apart, for any window.
THEOREM ConfigSlotsCollideOnlyAcrossRolls ==
    Spec => []SlotsCollideOnlyAcrossRolls
<1>1. TypeOK => SlotsCollideOnlyAcrossRolls
    <2> SUFFICES ASSUME TypeOK,
                        NEW p1 \in Queries, NEW p2 \in Queries,
                        NEW e1 \in Queries, NEW e2 \in Queries,
                        NEW t1 \in Queries, NEW t2 \in Queries,
                        StoreIndex(config, p1, e1, t1)
                          = StoreIndex(config, p2, e2, t2),
                        StoreIndex(config, p1, e1, t1) >= 0,
                        IsActive(config)
                 PROVE  /\ p1 = p2 /\ e1 = e2
                        /\ IF config.is_rolling
                           THEN (t1 - t2) % config.num_turns = 0
                           ELSE t1 = t2
        BY DEF SlotsCollideOnlyAcrossRolls
    <2>1. /\ p1 \in Nat /\ p2 \in Nat /\ e1 \in Nat /\ e2 \in Nat
          /\ t1 \in Nat /\ t2 \in Nat
        BY ApiAssumption
    <2>2. WindowConsistent(config)
        BY DEF TypeOK, IsActive, WindowEmpty
    <2>3. /\ InWindow(config, p1, e1, t1) /\ InWindow(config, p2, e2, t2)
          /\ config.order = TurnElemParticles
        BY DEF StoreIndex
    <2> DEFINE n == config.num_turns
               T1 == t1 - config.min_turn
               T2 == t2 - config.min_turn
    <2>4. /\ p1 = p2 /\ e1 = e2 /\ T1 % n = T2 % n
          /\ ~config.is_rolling => t1 = t2
        BY <2>1, <2>2, <2>3, StoreIndexCollision DEF TypeOK
    <2>5. (t1 - t2) % n = 0
        <3>1. T1 \in Int /\ T2 \in Int /\ n \in Nat \ {0} /\ t1 - t2 = T1 - T2
            BY <2>1, <2>2, WindowCounts DEF TypeOK, Configs
        <3> HIDE DEF n, T1, T2
        <3>2. PICK q1 \in Int, q2 \in Int, r \in Int :
                 T1 = q1 * n + r /\ T2 = q2 * n + r
            <4>1. /\ T1 \div n \in Int /\ T1 = (T1 \div n) * n + (T1 % n)
                  /\ T2 \div n \in Int /\ T2 = (T2 \div n) * n + (T2 % n)
                  /\ T1 % n \in Int
                BY <3>1
            <4> QED BY <2>4, <4>1
        <3>3. T1 - T2 = (q1 - q2) * n + 0
            BY <3>1, <3>2
        <3>4. ((q1 - q2) * n + 0) % n = 0
            <4>1. q1 - q2 \in Int /\ 0 \in 0 .. n - 1
                BY <3>1
            <4> QED BY <3>1, <4>1, DivModRadix
        <3> QED BY <3>1, <3>3, <3>4
    <2> QED BY <2>4, <2>5
<1> QED BY <1>1, ConfigTypeOK, PTL

\* The inverse functions invert the store index on every slot.
THEOREM ConfigInverseAgrees == Spec => []InverseAgrees
<1>1. TypeOK => InverseAgrees
    <2> SUFFICES ASSUME TypeOK, IsActive(config),
                        NEW i \in 0 .. OutStoreNumParticles(config) - 1
                 PROVE  StoreIndex(config, ParticleIdOfIndex(config, i),
                                   AtElementOfIndex(config, i),
                                   AtTurnOfIndex(config, i)) = i
        BY DEF InverseAgrees
    <2> DEFINE P == config.num_particles
               E == config.num_elements
               n == config.num_turns
               pid  == ParticleIdOfIndex(config, i)
               elem == AtElementOfIndex(config, i)
               turn == AtTurnOfIndex(config, i)
    <2>1. WindowConsistent(config) /\ config \in Configs
        BY DEF TypeOK, IsActive, WindowEmpty
    <2>2. config.order = TurnElemParticles
        BY <2>1 DEF IsActive, Configs, Orders
    <2>3. /\ P \in Nat \ {0} /\ E \in Nat \ {0} /\ n \in Nat \ {0}
          /\ P * E \in Nat \ {0} /\ OutStoreNumParticles(config) = n * (P * E)
        BY <2>1, WindowCounts
    <2>4. PICK A \in Nat \ {0} : A = P * E
        BY <2>3
    <2>5. i \in 0 .. n * A - 1
        BY <2>3, <2>4
    <2>6. /\ i \div A \in 0 .. n - 1 /\ i % A \in 0 .. A - 1
          /\ i = (i \div A) * A + (i % A)
        BY <2>3, <2>4, <2>5, QuotientBound
    <2>7. PICK R \in 0 .. A - 1 : R = i % A
        BY <2>6
    <2>8. A = E * P
        BY <2>3, <2>4
    <2>9. /\ R \div P \in 0 .. E - 1 /\ R % P \in 0 .. P - 1
          /\ R = (R \div P) * P + (R % P)
        BY <2>3, <2>7, <2>8, QuotientBound
    <2>10. Decodes(config, i)
        BY <2>2, <2>3, <2>4, <2>5 DEF Decodes
    <2>11. /\ pid  = (R % P) + config.min_particle_id
           /\ elem = (R \div P) + config.min_element_id
           /\ turn = (i \div A) + config.min_turn
        BY <2>4, <2>7, <2>10
        DEF ParticleIdOfIndex, AtElementOfIndex, AtTurnOfIndex
    <2>12. /\ pid \in Int /\ elem \in Int /\ turn \in Int
           /\ pid - config.min_particle_id = R % P
           /\ elem - config.min_element_id = R \div P
           /\ turn - config.min_turn = i \div A
        BY <2>1, <2>6, <2>9, <2>11 DEF Configs
    <2>13. InWindow(config, pid, elem, turn)
        <3>1. PICK a \in Int, b \in Int, d \in Int :
                 a = R % P /\ b = R \div P /\ d = i \div A
            BY <2>6, <2>9
        <3>2. a \in 0 .. P - 1 /\ b \in 0 .. E - 1 /\ d \in 0 .. n - 1
            BY <2>6, <2>9, <3>1
        <3>3. /\ pid = a + config.min_particle_id
              /\ elem = b + config.min_element_id
              /\ turn = d + config.min_turn
            BY <2>11, <3>1
        <3> HIDE DEF pid, elem, turn
        <3> QED BY <2>1, <3>2, <3>3
                DEF InWindow, WindowConsistent, ValidWindow, Configs
    <2>14. InTurn(config, pid, elem) = R
        BY <2>9, <2>12 DEF InTurn
    <2>15. (i \div A) % n = i \div A
        <3>1. PICK q \in 0 .. n - 1 : q = i \div A
            BY <2>6
        <3> QED BY <2>3, <3>1, SmallMod
    <2>16. StoreIndex(config, pid, elem, turn) =
             ((turn - config.min_turn) % n) * A + InTurn(config, pid, elem)
        BY <2>1, <2>2, <2>4, <2>12, <2>13, StoreIndexForm
    <2> QED BY <2>6, <2>7, <2>12, <2>14, <2>15, <2>16
<1> QED BY <1>1, ConfigTypeOK, PTL
=============================================================================
