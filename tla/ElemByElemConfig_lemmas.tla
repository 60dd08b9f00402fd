----------------------- MODULE ElemByElemConfig_lemmas -----------------------
(***************************************************************************)
(* Lemmas about the store index of an element by element configuration,    *)
(* for any window: the arithmetic of mixed-radix numbers first, then the   *)
(* operators of ElemByElemConfig.                                          *)
(***************************************************************************)
EXTENDS ElemByElemConfig, TLAPS

\* Multiplication by a natural number preserves order.
LEMMA ProductMonotone ==
    ASSUME NEW a \in Int, NEW b \in Int, NEW n \in Nat, a <= b
    PROVE  a * n <= b * n
<1>1. (b - a) * n >= 0
    OBVIOUS
<1>2. (b - a) * n = b * n - a * n
    OBVIOUS
<1> QED BY <1>1, <1>2

\* A two-digit number q * n + r in radix n stays below m * n.
LEMMA RadixBound ==
    ASSUME NEW m \in Nat, NEW n \in Nat, NEW q \in 0 .. m - 1, NEW r \in 0 .. n - 1
    PROVE  q * n + r \in 0 .. m * n - 1
<1>1. q * n >= 0 /\ q * n \in Int /\ m * n \in Int
    OBVIOUS
<1>2. (q + 1) * n <= m * n
    BY ProductMonotone
<1>3. (q + 1) * n = q * n + n
    OBVIOUS
<1> QED BY <1>1, <1>2, <1>3

\* The digits of a number in radix n are unique.
LEMMA RadixUnique ==
    ASSUME NEW n \in Nat, NEW q1 \in Int, NEW q2 \in Int,
           NEW r1 \in 0 .. n - 1, NEW r2 \in 0 .. n - 1,
           q1 * n + r1 = q2 * n + r2
    PROVE  q1 = q2 /\ r1 = r2
<1>0. q1 * n \in Int /\ q2 * n \in Int
    OBVIOUS
<1>1. ~ (q1 < q2)
    <2> SUFFICES ASSUME q1 < q2 PROVE FALSE OBVIOUS
    <2>1. (q1 + 1) * n <= q2 * n BY ProductMonotone
    <2>2. (q1 + 1) * n = q1 * n + n OBVIOUS
    <2> QED BY <1>0, <2>1, <2>2
<1>2. ~ (q2 < q1)
    <2> SUFFICES ASSUME q2 < q1 PROVE FALSE OBVIOUS
    <2>1. (q2 + 1) * n <= q1 * n BY ProductMonotone
    <2>2. (q2 + 1) * n = q2 * n + n OBVIOUS
    <2> QED BY <1>0, <2>1, <2>2
<1> QED BY <1>0, <1>1, <1>2

\* Division and remainder read the two digits.
LEMMA DivModRadix ==
    ASSUME NEW n \in Nat \ {0}, NEW q \in Int, NEW r \in 0 .. n - 1
    PROVE  (q * n + r) \div n = q /\ (q * n + r) % n = r
<1>1. q * n + r \in Int
    OBVIOUS
<1>2. PICK x \in Int : x = q * n + r
    BY <1>1
<1>3. x \div n \in Int /\ x % n \in 0 .. n - 1 /\ x = (x \div n) * n + (x % n)
    BY <1>2
<1>4. x \div n = q /\ x % n = r
    BY <1>2, <1>3, RadixUnique
<1> QED BY <1>2, <1>4

\* A number below n is its own remainder.
LEMMA SmallMod ==
    ASSUME NEW n \in Nat \ {0}, NEW x \in 0 .. n - 1
    PROVE  x % n = x
<1>1. (0 * n + x) % n = x
    BY DivModRadix
<1> QED BY <1>1

\* Quotient and remainder of a number below m * n.
LEMMA QuotientBound ==
    ASSUME NEW m \in Nat, NEW n \in Nat \ {0}, NEW x \in 0 .. m * n - 1
    PROVE  /\ x \div n \in 0 .. m - 1
           /\ x % n \in 0 .. n - 1
           /\ x = (x \div n) * n + (x % n)
<1>1. m * n \in Nat
    OBVIOUS
<1>2. x \div n \in Nat /\ x % n \in 0 .. n - 1 /\ x = (x \div n) * n + (x % n)
    BY <1>1
<1>3. x \div n < m
    <2>1. SUFFICES ASSUME m <= x \div n PROVE FALSE
        BY <1>2
    <2>2. m * n <= (x \div n) * n
        BY <1>2, <2>1, ProductMonotone
    <2>3. (x \div n) * n \in Nat
        BY <1>2
    <2> QED BY <1>1, <1>2, <2>2, <2>3
<1> QED BY <1>2, <1>3

-----------------------------------------------------------------------------
(* The window of a consistent configuration.                               *)

\* A consistent window has at least one particle, element and turn, and the
\* store is as many slots as turns times the slots of a turn.
LEMMA WindowCounts ==
    ASSUME NEW c \in Configs, WindowConsistent(c)
    PROVE  /\ c.num_particles \in Nat \ {0}
           /\ c.num_elements \in Nat \ {0}
           /\ c.num_turns \in Nat \ {0}
           /\ c.num_particles * c.num_elements \in Nat \ {0}
           /\ OutStoreNumParticles(c) =
                c.num_turns * (c.num_particles * c.num_elements)
           /\ OutStoreNumParticles(c) \in Nat \ {0}
<1>1. /\ c.num_particles \in Nat \ {0}
      /\ c.num_elements \in Nat \ {0}
      /\ c.num_turns \in Nat \ {0}
    BY DEF Configs, WindowConsistent, ValidWindow
<1>2. \A a, b \in Nat \ {0} : a * b \in Nat \ {0}
    OBVIOUS
<1>3. c.num_particles * c.num_elements \in Nat \ {0}
    BY <1>1, <1>2
<1>4. OutStoreNumParticles(c) = c.num_turns * (c.num_particles * c.num_elements)
    BY <1>1, <1>3 DEF OutStoreNumParticles
<1>5. OutStoreNumParticles(c) \in Nat \ {0}
    BY <1>1, <1>2, <1>3, <1>4
<1> QED BY <1>1, <1>3, <1>4, <1>5

\* The position inside one turn.
InTurn(c, pid, elem) ==
    (elem - c.min_element_id) * c.num_particles + (pid - c.min_particle_id)

\* A query inside the window: its digits are in range, and the flat index is
\* the turn and the position in the turn as two digits.
LEMMA FlatIndexSplit ==
    ASSUME NEW c \in Configs, WindowConsistent(c),
           NEW pid \in Int, NEW elem \in Int, NEW turn \in Int,
           InWindow(c, pid, elem, turn)
    PROVE  /\ pid - c.min_particle_id \in 0 .. c.num_particles - 1
           /\ elem - c.min_element_id \in 0 .. c.num_elements - 1
           /\ turn - c.min_turn \in Nat
           /\ ~c.is_rolling => turn - c.min_turn \in 0 .. c.num_turns - 1
           /\ InTurn(c, pid, elem)
                \in 0 .. (c.num_particles * c.num_elements) - 1
           /\ FlatIndex(c, pid, elem, turn) =
                (turn - c.min_turn) * (c.num_particles * c.num_elements)
                + InTurn(c, pid, elem)
           /\ FlatIndex(c, pid, elem, turn) \in Nat
<1>1. /\ pid - c.min_particle_id \in 0 .. c.num_particles - 1
      /\ elem - c.min_element_id \in 0 .. c.num_elements - 1
      /\ turn - c.min_turn \in Nat
      /\ ~c.is_rolling => turn - c.min_turn \in 0 .. c.num_turns - 1
    BY DEF Configs, WindowConsistent, ValidWindow, InWindow
<1>2. InTurn(c, pid, elem) \in 0 .. (c.num_elements * c.num_particles) - 1
    BY <1>1, WindowCounts, RadixBound DEF InTurn
<1>3. c.num_elements * c.num_particles = c.num_particles * c.num_elements
    BY WindowCounts
<1>4. InTurn(c, pid, elem) \in 0 .. (c.num_particles * c.num_elements) - 1
    BY <1>2, <1>3
<1>5. FlatIndex(c, pid, elem, turn) =
         (turn - c.min_turn) * (c.num_particles * c.num_elements)
         + InTurn(c, pid, elem)
    <2>1. \A a, b, d \in Int : a + b + d = a + (b + d)
        OBVIOUS
    <2>2. /\ (turn - c.min_turn) * (c.num_particles * c.num_elements) \in Int
          /\ (elem - c.min_element_id) * c.num_particles \in Int
          /\ pid - c.min_particle_id \in Int
        BY <1>1, WindowCounts
    <2> QED BY <2>1, <2>2 DEF FlatIndex, InTurn
<1>6. (turn - c.min_turn) * (c.num_particles * c.num_elements) \in Nat
    BY <1>1, WindowCounts
<1> QED BY <1>1, <1>4, <1>5, <1>6

\* The store index of a query inside the window, rolling or not: the turn
\* modulo the depth of the store, then the position in the turn.
LEMMA StoreIndexForm ==
    ASSUME NEW c \in Configs, WindowConsistent(c), c.order = TurnElemParticles,
           NEW pid \in Int, NEW elem \in Int, NEW turn \in Int,
           InWindow(c, pid, elem, turn)
    PROVE  StoreIndex(c, pid, elem, turn) =
             ((turn - c.min_turn) % c.num_turns)
               * (c.num_particles * c.num_elements) + InTurn(c, pid, elem)
<1> DEFINE A == c.num_particles * c.num_elements
           n == c.num_turns
           T == turn - c.min_turn
           r == InTurn(c, pid, elem)
<1>1. /\ A \in Nat \ {0} /\ n \in Nat \ {0} /\ T \in Nat /\ r \in 0 .. A - 1
      /\ OutStoreNumParticles(c) = n * A /\ n * A \in Nat \ {0}
      /\ FlatIndex(c, pid, elem, turn) = T * A + r
      /\ FlatIndex(c, pid, elem, turn) \in Nat
      /\ ~c.is_rolling => T \in 0 .. n - 1
    BY WindowCounts, FlatIndexSplit
<1> HIDE DEF A, n, T, r
<1>2. T % n \in 0 .. n - 1 /\ T \div n \in Nat /\ T = (T \div n) * n + (T % n)
    BY <1>1
<1>3. (T % n) * A + r \in 0 .. n * A - 1
    BY <1>1, <1>2, RadixBound
<1>4. T * A + r = (T \div n) * (n * A) + ((T % n) * A + r)
    <2>1. PICK q \in Nat, m \in Nat : q = T \div n /\ m = T % n
        BY <1>2
    <2>2. (q * n + m) * A + r = q * (n * A) + (m * A + r)
        BY <1>1
    <2> QED BY <1>2, <2>1, <2>2
<1>5. (T * A + r) % (n * A) = (T % n) * A + r
    <2>1. PICK N \in Nat \ {0}, R \in Nat, q \in Nat :
             N = n * A /\ R = (T % n) * A + r /\ q = T \div n
        BY <1>1, <1>2, <1>3
    <2>2. (q * N + R) % N = R
        BY <1>3, <2>1, DivModRadix
    <2> QED BY <1>4, <2>1, <2>2
<1>6. CASE T * A + r < n * A
    <2>1. T < n
        <3>1. SUFFICES ASSUME n <= T PROVE FALSE
            BY <1>1
        <3>2. n * A <= T * A
            BY <1>1, <3>1, ProductMonotone
        <3>3. T * A \in Nat
            BY <1>1
        <3> QED BY <1>1, <1>6, <3>2, <3>3
    <2>2. T = T % n
        BY <1>1, <2>1, SmallMod
    <2>3. ~ (FlatIndex(c, pid, elem, turn) >= OutStoreNumParticles(c))
        BY <1>1, <1>6
    <2> QED BY <1>1, <2>2, <2>3 DEF StoreIndex, Wrapped, A, n, T, r
<1>7. CASE ~ (T * A + r < n * A)
    <2>1. c.is_rolling
        <3>1. SUFFICES ASSUME ~c.is_rolling PROVE FALSE
            OBVIOUS
        <3>2. T * A + r \in 0 .. n * A - 1
            BY <1>1, <3>1, RadixBound
        <3> QED BY <1>1, <1>7, <3>2
    <2>2. /\ OutStoreNumParticles(c) > 0
          /\ FlatIndex(c, pid, elem, turn) >= OutStoreNumParticles(c)
        BY <1>1, <1>7
    <2>3. StoreIndex(c, pid, elem, turn) = (T * A + r) % (n * A)
        BY <1>1, <2>1, <2>2 DEF StoreIndex, Wrapped
    <2> QED BY <1>5, <2>3 DEF A, n, T, r
<1> QED BY <1>6, <1>7

\* A cleared window admits no query.
LEMMA EmptyWindowStoresNothing ==
    ASSUME NEW c \in Configs, WindowEmpty(c),
           NEW pid \in Nat, NEW elem \in Nat, NEW turn \in Nat
    PROVE  StoreIndex(c, pid, elem, turn) = -1
    BY DEF StoreIndex, InWindow, WindowEmpty

\* The store index of a query inside the window is a slot of the store.
LEMMA StoreIndexInStore ==
    ASSUME NEW c \in Configs, WindowConsistent(c),
           NEW pid \in Int, NEW elem \in Int, NEW turn \in Int,
           InWindow(c, pid, elem, turn), c.order = TurnElemParticles
    PROVE  StoreIndex(c, pid, elem, turn) \in 0 .. OutStoreNumParticles(c) - 1
<1>1. turn - c.min_turn \in Nat
    BY FlatIndexSplit
<1>2. (turn - c.min_turn) % c.num_turns \in 0 .. c.num_turns - 1
    BY <1>1, WindowCounts
<1>3. PICK A \in Nat : A = c.num_particles * c.num_elements
    BY WindowCounts
<1>4. PICK r \in 0 .. A - 1 : r = InTurn(c, pid, elem)
    BY <1>3, FlatIndexSplit
<1>5. ((turn - c.min_turn) % c.num_turns) * A + r \in 0 .. c.num_turns * A - 1
    BY <1>2, <1>3, <1>4, WindowCounts, RadixBound
<1> QED BY <1>3, <1>4, <1>5, StoreIndexForm, WindowCounts

\* Two queries with the same slot are of the same particle and element, and
\* of turns that are equal modulo the depth of the store.
LEMMA StoreIndexCollision ==
    ASSUME NEW c \in Configs, WindowConsistent(c), c.order = TurnElemParticles,
           NEW p1 \in Int, NEW e1 \in Int, NEW t1 \in Int,
           NEW p2 \in Int, NEW e2 \in Int, NEW t2 \in Int,
           InWindow(c, p1, e1, t1), InWindow(c, p2, e2, t2),
           StoreIndex(c, p1, e1, t1) = StoreIndex(c, p2, e2, t2)
    PROVE  /\ p1 = p2 /\ e1 = e2
           /\ (t1 - c.min_turn) % c.num_turns = (t2 - c.min_turn) % c.num_turns
           /\ ~c.is_rolling => t1 = t2
<1> DEFINE n == c.num_turns
           P == c.num_particles
           T1 == t1 - c.min_turn
           T2 == t2 - c.min_turn
<1>1. PICK A \in Nat : A = c.num_particles * c.num_elements
    BY WindowCounts
<1>2. /\ InTurn(c, p1, e1) \in 0 .. A - 1
      /\ InTurn(c, p2, e2) \in 0 .. A - 1
      /\ T1 \in Nat /\ T2 \in Nat /\ n \in Nat \ {0} /\ P \in Nat
      /\ p1 - c.min_particle_id \in 0 .. P - 1
      /\ p2 - c.min_particle_id \in 0 .. P - 1
      /\ ~c.is_rolling => T1 \in 0 .. n - 1 /\ T2 \in 0 .. n - 1
    BY <1>1, FlatIndexSplit, WindowCounts
<1>3. (T1 % n) * A + InTurn(c, p1, e1) = (T2 % n) * A + InTurn(c, p2, e2)
    BY <1>1, StoreIndexForm
<1>4. T1 % n \in Int /\ T2 % n \in Int
    BY <1>2
<1>5. T1 % n = T2 % n /\ InTurn(c, p1, e1) = InTurn(c, p2, e2)
    BY <1>1, <1>2, <1>3, <1>4, RadixUnique
<1>6. p1 - c.min_particle_id = p2 - c.min_particle_id
         /\ e1 - c.min_element_id = e2 - c.min_element_id
    <2>1. PICK u1 \in Int, u2 \in Int : /\ u1 = e1 - c.min_element_id
                                        /\ u2 = e2 - c.min_element_id
        BY DEF Configs
    <2>2. PICK v1 \in 0 .. P - 1, v2 \in 0 .. P - 1 :
             v1 = p1 - c.min_particle_id /\ v2 = p2 - c.min_particle_id
        BY <1>2
    <2>3. u1 * P + v1 = u2 * P + v2
        BY <1>5, <2>1, <2>2 DEF InTurn
    <2>4. u1 = u2 /\ v1 = v2
        BY <1>2, <2>3, RadixUnique
    <2> QED BY <2>1, <2>2, <2>4
<1>7. p1 = p2 /\ e1 = e2
    BY <1>6 DEF Configs
<1>8. ASSUME ~c.is_rolling PROVE t1 = t2
    <2>1. T1 % n = T1 /\ T2 % n = T2
        BY <1>2, <1>8, SmallMod
    <2> QED BY <1>2, <1>5, <2>1 DEF Configs
<1> QED BY <1>5, <1>7, <1>8
=============================================================================
