------------------------- MODULE AssignItems_proofs -------------------------
(***************************************************************************)
(* Proofs about StoredBuffers and AssignItems: for any jobs, buffers and   *)
(* items, any number of slots, and any order of calls.                     *)
(***************************************************************************)
EXTENDS AssignItems, TLAPS, SequenceTheorems, FiniteSetTheorems, WellFoundedInduction

-----------------------------------------------------------------------------
(* Least and greatest elements.                                            *)

LessPairs == {ss \in Nat \X Nat : ss[1] < ss[2]}

\* A set of natural numbers has a least element.
LEMMA Least ==
    ASSUME NEW T \in SUBSET Nat, T # {}
    PROVE  \E x \in T : \A y \in T : x <= y
<1>1. IsWellFoundedOn(LessPairs, Nat)
  BY NatLessThanWellFounded DEF OpToRel, LessPairs
<1>2. PICK x \in T : \A y \in T : ~(<<y, x>> \in LessPairs)
  BY <1>1, WFMin
<1>3. \A y \in T : ~(y < x)
  BY <1>2 DEF LessPairs
<1> QED
  BY <1>3

\* A set of natural numbers that has a bound has a greatest element.
LEMMA Greatest ==
    ASSUME NEW n \in Nat, NEW T \in SUBSET (0 .. n), T # {}
    PROVE  \E x \in T : \A y \in T : y <= x
<1> DEFINE U == {i \in 0 .. n : n - i \in T}
<1>1. U \in SUBSET Nat
  OBVIOUS
<1>2. U # {}
  <2>1. PICK x \in T : TRUE
    OBVIOUS
  <2>2. n - x \in 0 .. n /\ n - (n - x) = x
    BY <2>1
  <2> QED
    BY <2>1, <2>2
<1>3. PICK i \in U : \A m \in U : i <= m
  BY <1>1, <1>2, Least
<1>4. \A y \in T : n - y \in U /\ n - (n - y) = y
  OBVIOUS
<1>5. \A y \in T : y <= n - i
  BY <1>3, <1>4
<1> QED
  BY <1>3, <1>5

-----------------------------------------------------------------------------
(* The sorted vector of pairs.                                             *)

Sorted(s) == \A i, m \in DOMAIN s : i < m => Less(s[i], s[m])
Image(s)  == {s[i] : i \in DOMAIN s}

\* Less is a strict and total order of pairs.
LEMMA LessOrders ==
    /\ \A a \in Key : ~Less(a, a)
    /\ \A a, b \in Key : a = b \/ Less(a, b) \/ Less(b, a)
    /\ \A a, b, c \in Key : Less(a, b) /\ Less(b, c) => Less(a, c)
<1>1. \A a \in Key : a = <<a[1], a[2]>> /\ a[1] \in Nat /\ a[2] \in Nat
  <2>1. \A a \in ItemIds \X ItemIds : a = <<a[1], a[2]>> /\ a[1] \in ItemIds /\ a[2] \in ItemIds
    OBVIOUS
  <2> QED
    BY <2>1, AssignItemsAssumption DEF Key
<1>2. \A a, b \in Key : a[1] = b[1] /\ a[2] = b[2] => a = b
  <2> TAKE a, b \in Key
  <2> HAVE a[1] = b[1] /\ a[2] = b[2]
  <2>1. a = <<a[1], a[2]>> /\ b = <<b[1], b[2]>>
    BY <1>1
  <2> QED
    BY <2>1
<1>3. \A a \in Key : ~Less(a, a)
  BY <1>1 DEF Less
<1>4. \A a, b \in Key : a = b \/ Less(a, b) \/ Less(b, a)
  BY <1>1, <1>2 DEF Less
<1>5. \A a, b, c \in Key : Less(a, b) /\ Less(b, c) => Less(a, c)
  <2> SUFFICES ASSUME NEW a \in Key, NEW b \in Key, NEW c \in Key,
                      Less(a, b), Less(b, c)
               PROVE  Less(a, c)
    OBVIOUS
  <2>1. a[1] \in Nat /\ b[1] \in Nat /\ c[1] \in Nat
    BY <1>1
  <2>2. a[2] \in Nat /\ b[2] \in Nat /\ c[2] \in Nat
    BY <1>1
  <2> QED
    BY <2>1, <2>2 DEF Less
<1> QED
  BY <1>3, <1>4, <1>5

\* There is a place where a pair belongs in a sorted vector.
LEMMA LowerBoundIs ==
    ASSUME NEW s \in Seq(Key), Sorted(s), NEW k \in Key
    PROVE  /\ LowerBound(s, k) \in 1 .. Len(s) + 1
           /\ \A i \in 1 .. LowerBound(s, k) - 1 : Less(s[i], k)
           /\ \A i \in LowerBound(s, k) .. Len(s) : ~Less(s[i], k)
<1> DEFINE T == {p \in 1 .. Len(s) + 1 : p = Len(s) + 1 \/ ~Less(s[p], k)}
<1>1. T \in SUBSET Nat /\ T # {}
  <2>1. Len(s) + 1 \in T
    OBVIOUS
  <2> QED
    BY <2>1
<1>2. PICK p \in T : \A q \in T : p <= q
  BY <1>1, Least
<1>3. \A i \in 1 .. p - 1 : Less(s[i], k)
  BY <1>2
<1>4. ASSUME NEW i \in p .. Len(s) PROVE ~Less(s[i], k)
  <2>1. p \in DOMAIN s /\ i \in DOMAIN s /\ ~Less(s[p], k)
    BY <1>2
  <2>2. p = i \/ Less(s[p], s[i])
    BY <2>1 DEF Sorted
  <2>3. s[p] \in Key /\ s[i] \in Key
    BY <2>1
  <2> QED
    BY <2>1, <2>2, <2>3, LessOrders
<1> HIDE DEF T
<1>5. p \in 1 .. Len(s) + 1
  BY <1>2 DEF T
<1> QED
  BY <1>3, <1>4, <1>5 DEF LowerBound

\* Adding a pair where it belongs keeps the order.
LEMMA WithKeySorted ==
    ASSUME NEW s \in Seq(Key), Sorted(s), NEW k \in Key, k \notin Image(s)
    PROVE  /\ WithKey(s, k) \in Seq(Key)
           /\ Sorted(WithKey(s, k))
           /\ Image(WithKey(s, k)) = Image(s) \cup {k}
<1> DEFINE p == LowerBound(s, k)
           a == SubSeq(s, 1, p - 1)
           b == SubSeq(s, p, Len(s))
           t == WithKey(s, k)
<1>1. /\ p \in 1 .. Len(s) + 1
      /\ \A i \in 1 .. p - 1 : Less(s[i], k)
      /\ \A i \in p .. Len(s) : ~Less(s[i], k)
  BY LowerBoundIs
<1>2. t = (a \o <<k>>) \o b
  BY DEF WithKey, InsertAt
<1> HIDE DEF p
<1>3. a \in Seq(Key) /\ Len(a) = p - 1 /\ \A i \in 1 .. p - 1 : a[i] = s[i]
  BY <1>1
<1>4. b \in Seq(Key) /\ Len(b) = Len(s) + 1 - p
      /\ \A i \in 1 .. Len(s) + 1 - p : b[i] = s[p + i - 1]
  BY <1>1
<1> HIDE DEF a, b, t
<1> DEFINE c == a \o <<k>>
<1>10. c \in Seq(Key) /\ Len(c) = p /\ c[p] = k /\ \A i \in 1 .. p - 1 : c[i] = s[i]
  <2>1. <<k>> \in Seq(Key) /\ Len(<<k>>) = 1 /\ <<k>>[1] = k
    OBVIOUS
  <2>2. /\ c \in Seq(Key) /\ Len(c) = Len(a) + Len(<<k>>)
        /\ \A i \in 1 .. Len(a) + Len(<<k>>) :
                c[i] = IF i <= Len(a) THEN a[i] ELSE <<k>>[i - Len(a)]
    BY <2>1, <1>3, ConcatProperties
  <2>3. Len(a) + Len(<<k>>) = p /\ p \in Nat /\ p >= 1 /\ p - Len(a) = 1
    BY <2>1, <1>1, <1>3
  <2> HIDE DEF c
  <2>4. c[p] = k
    BY <2>1, <2>2, <2>3, <1>3
  <2>5. ASSUME NEW i \in 1 .. p - 1 PROVE c[i] = s[i]
    <3>1. i \in 1 .. Len(a) + Len(<<k>>) /\ i <= Len(a)
      BY <2>3, <1>3
    <3>2. c[i] = a[i]
      BY <2>2, <3>1
    <3> QED
      BY <3>2, <1>3
  <2> QED
    BY <2>2, <2>3, <2>4, <2>5
<1>11. t = c \o b
  BY <1>2
<1> HIDE DEF c
<1>12. /\ t \in Seq(Key)
      /\ Len(t) = Len(c) + Len(b)
      /\ \A i \in 1 .. Len(c) + Len(b) :
            t[i] = IF i <= Len(c) THEN c[i] ELSE b[i - Len(c)]
  BY <1>11, <1>10, <1>4, ConcatProperties
<1>5. t \in Seq(Key) /\ Len(t) = Len(s) + 1
  BY <1>12, <1>1, <1>10, <1>4
<1>6. /\ \A i \in 1 .. p - 1 : t[i] = s[i]
      /\ t[p] = k
      /\ \A i \in p + 1 .. Len(s) + 1 : t[i] = s[i - 1]
  <2>1. /\ Len(c) + Len(b) = Len(s) + 1
        /\ \A i \in 1 .. Len(c) + Len(b) :
            t[i] = IF i <= Len(c) THEN c[i] ELSE b[i - Len(c)]
    BY <1>12, <1>1, <1>10, <1>4
  <2>2. ASSUME NEW i \in 1 .. p - 1 PROVE t[i] = s[i]
    <3>1. i \in 1 .. Len(c) + Len(b) /\ i <= Len(c)
      BY <2>1, <1>10, <1>1
    <3>2. t[i] = c[i]
      BY <2>1, <3>1
    <3> QED
      BY <3>2, <1>10
  <2>3. t[p] = k
    BY <2>1, <1>10, <1>1
  <2>4. ASSUME NEW i \in p + 1 .. Len(s) + 1 PROVE t[i] = s[i - 1]
    <3>1. t[i] = b[i - p]
      BY <2>1, <1>10, <1>1
    <3>2. i - p \in 1 .. Len(s) + 1 - p /\ p + (i - p) - 1 = i - 1
      BY <1>1
    <3> QED
      BY <3>1, <3>2, <1>4
  <2> QED
    BY <2>2, <2>3, <2>4
<1>7. \A i \in p .. Len(s) : Less(k, s[i])
  <2> SUFFICES ASSUME NEW i \in p .. Len(s) PROVE Less(k, s[i])
    OBVIOUS
  <2>1. i \in DOMAIN s /\ s[i] \in Key /\ s[i] # k
    BY <1>1 DEF Image
  <2> QED
    BY <2>1, <1>1, LessOrders
<1>8. Sorted(t)
  <2> SUFFICES ASSUME NEW i \in 1 .. Len(s) + 1, NEW m \in 1 .. Len(s) + 1, i < m
               PROVE  Less(t[i], t[m])
    BY <1>5 DEF Sorted
  <2>0. \A x, y \in 1 .. Len(s) : x < y => Less(s[x], s[y])
    BY DEF Sorted
  <2>1. CASE m < p
    BY <2>1, <2>0, <1>1, <1>6
  <2>2. CASE m = p
    BY <2>2, <1>1, <1>6
  <2>3. CASE m > p /\ i = p
    BY <2>3, <1>1, <1>6, <1>7
  <2>4. CASE m > p /\ i < p
    BY <2>4, <2>0, <1>1, <1>6
  <2>5. CASE i > p
    BY <2>5, <2>0, <1>1, <1>6
  <2> QED
    BY <2>1, <2>2, <2>3, <2>4, <2>5, <1>1
<1>9. Image(t) = Image(s) \cup {k}
  <2>1. ASSUME NEW i \in 1 .. Len(s) + 1
        PROVE  t[i] = k \/ \E m \in 1 .. Len(s) : t[i] = s[m]
    <3>1. CASE i < p
      BY <3>1, <1>1, <1>6
    <3>2. CASE i = p
      BY <3>2, <1>6
    <3>3. CASE i > p
      <4>1. t[i] = s[i - 1] /\ i - 1 \in 1 .. Len(s)
        BY <3>3, <1>1, <1>6
      <4> QED
        BY <4>1
    <3> QED
      BY <3>1, <3>2, <3>3, <1>1
  <2>2. \A m \in 1 .. Len(s) : \E i \in 1 .. Len(s) + 1 : t[i] = s[m]
    <3> SUFFICES ASSUME NEW m \in 1 .. Len(s)
                 PROVE  \E i \in 1 .. Len(s) + 1 : t[i] = s[m]
      OBVIOUS
    <3>1. CASE m < p
      BY <3>1, <1>1, <1>6
    <3>2. CASE m >= p
      <4>1. t[m + 1] = s[m]
        BY <3>2, <1>1, <1>6
      <4> QED
        BY <4>1
    <3> QED
      BY <3>1, <3>2, <1>1
  <2>3. DOMAIN t = 1 .. Len(s) + 1 /\ DOMAIN s = 1 .. Len(s)
    BY <1>5
  <2>4. k \in Image(t)
    BY <2>3, <1>6, <1>1 DEF Image
  <2>5. Image(t) \subseteq Image(s) \cup {k}
    BY <2>1, <2>3 DEF Image
  <2>6. Image(s) \subseteq Image(t)
    BY <2>2, <2>3 DEF Image
  <2> QED
    BY <2>4, <2>5, <2>6
<1> QED
  BY <1>5, <1>8, <1>9 DEF t

\* Taking a pair out of the vector keeps the order.
LEMMA WithoutKeySorted ==
    ASSUME NEW s \in Seq(Key), Sorted(s), NEW k \in Image(s)
    PROVE  /\ WithoutKey(s, k) \in Seq(Key)
           /\ Sorted(WithoutKey(s, k))
           /\ Image(WithoutKey(s, k)) = Image(s) \ {k}
<1>0. k \in Key
  BY DEF Image
<1> DEFINE p == LowerBound(s, k)
           a == SubSeq(s, 1, p - 1)
           b == SubSeq(s, p + 1, Len(s))
           t == WithoutKey(s, k)
<1>1. /\ p \in 1 .. Len(s) + 1
      /\ \A i \in 1 .. p - 1 : Less(s[i], k)
      /\ \A i \in p .. Len(s) : ~Less(s[i], k)
  BY <1>0, LowerBoundIs
<1>2. t = a \o b
  BY DEF WithoutKey, RemoveAt
<1> HIDE DEF p
<1>3. PICK m \in 1 .. Len(s) : s[m] = k
  BY DEF Image
<1>4. p = m
  <2>1. ~(m < p)
    BY <1>0, <1>1, <1>3, LessOrders
  <2>2. ~(p < m)
    <3>1. p < m => Less(s[p], k)
      BY <1>1, <1>3 DEF Sorted
    <3> QED
      BY <3>1, <1>1, <1>3
  <2> QED
    BY <2>1, <2>2, <1>1, <1>3
<1>5. p \in 1 .. Len(s) /\ s[p] = k
  BY <1>3, <1>4
<1>6. a \in Seq(Key) /\ Len(a) = p - 1 /\ \A i \in 1 .. p - 1 : a[i] = s[i]
  BY <1>5
<1>7. b \in Seq(Key) /\ Len(b) = Len(s) - p
      /\ \A i \in 1 .. Len(s) - p : b[i] = s[p + i]
  BY <1>5
<1> HIDE DEF a, b, t
<1>13. /\ t \in Seq(Key)
      /\ Len(t) = Len(a) + Len(b)
      /\ \A i \in 1 .. Len(a) + Len(b) :
            t[i] = IF i <= Len(a) THEN a[i] ELSE b[i - Len(a)]
  BY <1>2, <1>6, <1>7, ConcatProperties
<1>8. t \in Seq(Key) /\ Len(t) = Len(s) - 1
  BY <1>13, <1>5, <1>6, <1>7
<1>9. /\ \A i \in 1 .. p - 1 : t[i] = s[i]
      /\ \A i \in p .. Len(s) - 1 : t[i] = s[i + 1]
  <2>1. /\ Len(a) + Len(b) = Len(s) - 1
        /\ \A i \in 1 .. Len(a) + Len(b) :
            t[i] = IF i <= Len(a) THEN a[i] ELSE b[i - Len(a)]
    BY <1>13, <1>5, <1>6, <1>7
  <2>2. \A i \in 1 .. p - 1 : t[i] = s[i]
    BY <2>1, <1>5, <1>6
  <2>3. ASSUME NEW i \in p .. Len(s) - 1 PROVE t[i] = s[i + 1]
    <3>0. i \in 1 .. Len(a) + Len(b) /\ ~(i <= Len(a)) /\ Len(a) = p - 1
      BY <2>1, <1>5, <1>6
    <3>1. t[i] = b[i - (p - 1)]
      BY <3>0, <2>1
    <3>2. i - (p - 1) \in 1 .. Len(s) - p /\ p + (i - (p - 1)) = i + 1
      BY <1>5
    <3>3. b[i - (p - 1)] = s[p + (i - (p - 1))]
      BY <3>2, <1>7
    <3> QED
      BY <3>1, <3>2, <3>3
  <2> QED
    BY <2>2, <2>3
<1>10. \A x, y \in 1 .. Len(s) : x < y => Less(s[x], s[y])
  BY DEF Sorted
<1>11. Sorted(t)
  <2> SUFFICES ASSUME NEW x \in 1 .. Len(s) - 1, NEW y \in 1 .. Len(s) - 1, x < y
               PROVE  Less(t[x], t[y])
    BY <1>8 DEF Sorted
  <2>1. CASE y < p
    BY <2>1, <1>5, <1>9, <1>10
  <2>2. CASE y >= p /\ x < p
    BY <2>2, <1>5, <1>9, <1>10
  <2>3. CASE x >= p
    BY <2>3, <1>5, <1>9, <1>10
  <2> QED
    BY <2>1, <2>2, <2>3, <1>5
<1>12. Image(t) = Image(s) \ {k}
  <2>1. \A i \in 1 .. Len(s) - 1 : \E x \in 1 .. Len(s) : t[i] = s[x] /\ x # p
    <3> SUFFICES ASSUME NEW i \in 1 .. Len(s) - 1
                 PROVE  \E x \in 1 .. Len(s) : t[i] = s[x] /\ x # p
      OBVIOUS
    <3>1. CASE i < p
      BY <3>1, <1>5, <1>9
    <3>2. CASE i >= p
      BY <3>2, <1>5, <1>9
    <3> QED
      BY <3>1, <3>2, <1>5
  <2>2. \A x \in 1 .. Len(s) : x # p => \E i \in 1 .. Len(s) - 1 : t[i] = s[x]
    <3> SUFFICES ASSUME NEW x \in 1 .. Len(s), x # p
                 PROVE  \E i \in 1 .. Len(s) - 1 : t[i] = s[x]
      OBVIOUS
    <3>1. CASE x < p
      BY <3>1, <1>5, <1>9
    <3>2. CASE x > p
      <4>1. t[x - 1] = s[x] /\ x - 1 \in 1 .. Len(s) - 1
        BY <3>2, <1>5, <1>9
      <4> QED
        BY <4>1
    <3> QED
      BY <3>1, <3>2, <1>5
  <2>3. \A x \in 1 .. Len(s) : x # p => s[x] # k
    <3>1. \A x \in 1 .. Len(s) : s[x] \in Key
      OBVIOUS
    <3> QED
      BY <3>1, <1>0, <1>5, <1>10, LessOrders
  <2>4. DOMAIN t = 1 .. Len(s) - 1 /\ DOMAIN s = 1 .. Len(s)
    BY <1>8
  <2>5. Image(t) \subseteq Image(s) \ {k}
    BY <2>1, <2>3, <2>4 DEF Image
  <2>6. Image(s) \ {k} \subseteq Image(t)
    BY <2>2, <2>4, <1>5 DEF Image
  <2> QED
    BY <2>5, <2>6
<1> QED
  BY <1>8, <1>11, <1>12 DEF t

-----------------------------------------------------------------------------
(* The items of one job: the map and the vector together.                  *)

Table(X, s) ==
    /\ DOMAIN X \subseteq Key
    /\ X \in [DOMAIN X -> Seq(Items)]
    /\ s \in Seq(Key) /\ Sorted(s) /\ Image(s) = DOMAIN X
    /\ \A k \in DOMAIN X :
        /\ X[k] # <<>>
        /\ \A i \in DOMAIN X[k] : KeyOf(X[k][i]) = k
        /\ \A i, m \in DOMAIN X[k] : X[k][i] = X[k][m] => i = m

FilingInv ==
    /\ items = [j \in Jobs |-> items[j]]
    /\ keys = [j \in Jobs |-> keys[j]]
    /\ \A j \in Jobs : Table(items[j], keys[j])

\* An item is filed under a pair of ids.
LEMMA KeyOfItem == \A item \in Items : KeyOf(item) \in Key
  BY AssignItemsAssumption DEF KeyOf, Key, Item, End

\* A pair and its first item are filed together.
LEMMA TableAddPair ==
    ASSUME NEW X, NEW s, Table(X, s), NEW item \in Items, KeyOf(item) \notin DOMAIN X
    PROVE  Table(Filed(X, KeyOf(item), <<item>>), WithKey(s, KeyOf(item)))
<1> DEFINE k == KeyOf(item)
           Y == Filed(X, k, <<item>>)
<1>1. k \in Key
  BY KeyOfItem
<1>2. /\ WithKey(s, k) \in Seq(Key) /\ Sorted(WithKey(s, k))
      /\ Image(WithKey(s, k)) = DOMAIN X \cup {k}
  BY <1>1, WithKeySorted DEF Table
<1>3. /\ DOMAIN Y = DOMAIN X \cup {k} /\ Y[k] = <<item>>
      /\ \A l \in DOMAIN X : Y[l] = X[l]
  BY DEF Filed
<1>4. <<item>> \in Seq(Items) /\ <<item>> # <<>> /\ DOMAIN <<item>> = {1} /\ <<item>>[1] = item
  OBVIOUS
<1>5. Y \in [DOMAIN Y -> Seq(Items)]
  <2>1. \A l \in DOMAIN Y : Y[l] \in Seq(Items)
    BY <1>3, <1>4 DEF Table
  <2> QED
    BY <2>1 DEF Filed
<1> HIDE DEF k, Y
<1>6. ASSUME NEW l \in DOMAIN Y
      PROVE  /\ Y[l] # <<>>
             /\ \A i \in DOMAIN Y[l] : KeyOf(Y[l][i]) = l
             /\ \A i, m \in DOMAIN Y[l] : Y[l][i] = Y[l][m] => i = m
  <2>1. CASE l = k
    BY <2>1, <1>3, <1>4 DEF k
  <2>2. CASE l \in DOMAIN X
    BY <2>2, <1>3 DEF Table
  <2> QED
    BY <2>1, <2>2, <1>3
<1>7. DOMAIN Y \subseteq Key
  BY <1>1, <1>3 DEF Table
<1>8. Table(Y, WithKey(s, k))
  BY <1>2, <1>3, <1>5, <1>6, <1>7 DEF Table
<1> QED
  BY <1>8 DEF k, Y

\* A further item of a pair, if it is not there already.
LEMMA TableAddItem ==
    ASSUME NEW X, NEW s, Table(X, s), NEW item \in Items, KeyOf(item) \in DOMAIN X,
           ~ \E i \in DOMAIN X[KeyOf(item)] : X[KeyOf(item)][i] = item
    PROVE  Table([X EXCEPT ![KeyOf(item)] = Append(@, item)], s)
<1> DEFINE k == KeyOf(item)
           Y == [X EXCEPT ![k] = Append(@, item)]
<1>1. X[k] \in Seq(Items) /\ X = [l \in DOMAIN X |-> X[l]]
  BY DEF Table
<1>2. /\ Append(X[k], item) \in Seq(Items)
      /\ DOMAIN Append(X[k], item) = 1 .. Len(X[k]) + 1
      /\ \A i \in 1 .. Len(X[k]) : Append(X[k], item)[i] = X[k][i]
      /\ Append(X[k], item)[Len(X[k]) + 1] = item
      /\ DOMAIN X[k] = 1 .. Len(X[k]) /\ Len(X[k]) \in Nat
  BY <1>1, AppendProperties
<1>3. /\ DOMAIN Y = DOMAIN X /\ Y[k] = Append(X[k], item)
      /\ \A l \in DOMAIN X \ {k} : Y[l] = X[l]
  BY <1>1
<1>4. Y \in [DOMAIN Y -> Seq(Items)]
  BY <1>1, <1>2 DEF Table
<1>5. ASSUME NEW l \in DOMAIN Y
      PROVE  /\ Y[l] # <<>>
             /\ \A i \in DOMAIN Y[l] : KeyOf(Y[l][i]) = l
             /\ \A i, m \in DOMAIN Y[l] : Y[l][i] = Y[l][m] => i = m
  <2>1. CASE l = k
    <3> DEFINE a == Append(X[k], item)
               n == Len(X[k]) + 1
    <3>1. DOMAIN a = 1 .. n /\ n \in Nat /\ n > 0 /\ a[n] = item
          /\ \A i \in 1 .. n : i # n => i \in DOMAIN X[k] /\ a[i] = X[k][i]
      BY <1>2
    <3> HIDE DEF a, n
    <3>2. a # <<>>
      BY <1>1, AppendProperties DEF a
    <3>3. \A i \in DOMAIN a : KeyOf(a[i]) = k
      <4>1. \A i \in DOMAIN X[k] : KeyOf(X[k][i]) = k
        BY DEF Table
      <4>2. KeyOf(a[n]) = k
        BY <3>1
      <4> QED
        BY <3>1, <4>1, <4>2
    <3>4. ASSUME NEW i \in DOMAIN a, NEW m \in DOMAIN a, a[i] = a[m] PROVE i = m
      <4>1. \A x, y \in DOMAIN X[k] : X[k][x] = X[k][y] => x = y
        BY DEF Table
      <4>2. \A x \in DOMAIN X[k] : X[k][x] # item
        OBVIOUS
      <4>3. CASE i = n
        BY <3>1, <3>4, <4>2, <4>3
      <4>4. CASE i # n /\ m = n
        BY <3>1, <3>4, <4>2, <4>4
      <4>5. CASE i # n /\ m # n
        BY <3>1, <3>4, <4>1, <4>5
      <4> QED
        BY <4>3, <4>4, <4>5
    <3>5. Y[l] = a
      BY <2>1, <1>3 DEF a
    <3> QED
      BY <2>1, <3>2, <3>3, <3>4, <3>5
  <2>2. CASE l # k
    BY <2>2, <1>3 DEF Table
  <2> QED
    BY <2>1, <2>2
<1> HIDE DEF Y
<1>6. Table(Y, s)
  BY <1>3, <1>4, <1>5 DEF Table
<1> QED
  BY <1>6 DEF Y

\* A pair goes from both.
LEMMA TableRemovePair ==
    ASSUME NEW X, NEW s, Table(X, s), NEW k \in DOMAIN X
    PROVE  Table(Unfiled(X, k), WithoutKey(s, k))
<1> DEFINE Y == Unfiled(X, k)
<1>1. /\ WithoutKey(s, k) \in Seq(Key) /\ Sorted(WithoutKey(s, k))
      /\ Image(WithoutKey(s, k)) = DOMAIN X \ {k}
  BY WithoutKeySorted DEF Table
<1>2. DOMAIN Y = DOMAIN X \ {k} /\ \A l \in DOMAIN Y : Y[l] = X[l]
  BY DEF Unfiled
<1>3. Y \in [DOMAIN Y -> Seq(Items)]
  BY DEF Table, Unfiled
<1> HIDE DEF Y
<1>4. Table(Y, WithoutKey(s, k))
  BY <1>1, <1>2, <1>3 DEF Table
<1> QED
  BY <1>4 DEF Y

\* Changing the table of one job.
LEMMA OneTable ==
    ASSUME FilingInv, NEW j \in Jobs, NEW X, NEW s, Table(X, s),
           items' = [items EXCEPT ![j] = X], keys' = [keys EXCEPT ![j] = s]
    PROVE  FilingInv'
<1>1. /\ items' = [k \in Jobs |-> items'[k]] /\ keys' = [k \in Jobs |-> keys'[k]]
      /\ items'[j] = X /\ keys'[j] = s
      /\ \A k \in Jobs \ {j} : items'[k] = items[k] /\ keys'[k] = keys[k]
  BY DEF FilingInv
<1>2. \A k \in Jobs : Table(items'[k], keys'[k])
  <2> TAKE k \in Jobs
  <2>1. CASE k = j
    BY <2>1, <1>1
  <2>2. CASE k # j
    BY <2>2, <1>1 DEF FilingInv
  <2> QED
    BY <2>1, <2>2
<1> QED
  BY <1>1, <1>2 DEF FilingInv, Table, Key, Sorted, Image, Less, KeyOf

-----------------------------------------------------------------------------
(* The steps that change the items.                                        *)

\* AddItem keeps the map and the vector in agreement.
LEMMA AddItemFiles ==
    ASSUME FilingInv, NEW j \in Jobs, NEW item \in Items, AddItem(j, item)
    PROVE  FilingInv'
<1> DEFINE k == KeyOf(item)
<1>1. Table(items[j], keys[j])
  BY DEF FilingInv
<1>2. CASE k \notin DOMAIN items[j]
  <2>1. /\ items' = [items EXCEPT ![j] = Filed(items[j], k, <<item>>)]
        /\ keys' = [keys EXCEPT ![j] = WithKey(keys[j], k)]
    BY <1>2 DEF AddItem
  <2>2. Table(Filed(items[j], k, <<item>>), WithKey(keys[j], k))
    BY <1>1, <1>2, TableAddPair
  <2> QED
    BY <2>1, <2>2, OneTable
<1>3. CASE k \in DOMAIN items[j] /\ \E i \in DOMAIN items[j][k] : items[j][k][i] = item
  <2>1. UNCHANGED <<items, keys>>
    BY <1>3 DEF AddItem
  <2> QED
    BY <2>1 DEF FilingInv, Table, Sorted, Image, Less, KeyOf
<1>4. CASE k \in DOMAIN items[j] /\ ~ \E i \in DOMAIN items[j][k] : items[j][k][i] = item
  <2>1. /\ items' = [items EXCEPT ![j][k] = Append(@, item)]
        /\ keys' = keys
    BY <1>4 DEF AddItem
  <2>2. /\ items' = [items EXCEPT ![j] = [items[j] EXCEPT ![k] = Append(@, item)]]
        /\ keys' = [keys EXCEPT ![j] = keys[j]]
    BY <2>1 DEF FilingInv
  <2>3. Table([items[j] EXCEPT ![k] = Append(@, item)], keys[j])
    BY <1>1, <1>4, TableAddItem
  <2> QED
    BY <2>2, <2>3, OneTable
<1> QED
  BY <1>2, <1>3, <1>4

\* So does RemoveItem, which takes the whole pair.
LEMMA RemoveItemFiles ==
    ASSUME FilingInv, NEW j \in Jobs, NEW k, NEW i, RemoveItem(j, k, i)
    PROVE  FilingInv'
<1>1. Table(items[j], keys[j])
  BY DEF FilingInv
<1>2. CASE k \in DOMAIN items[j] /\ i <= Len(items[j][k])
  <2>1. /\ items' = [items EXCEPT ![j] = Unfiled(items[j], k)]
        /\ keys' = [keys EXCEPT ![j] = WithoutKey(keys[j], k)]
    BY <1>2 DEF RemoveItem, Kept
  <2>2. Table(Unfiled(items[j], k), WithoutKey(keys[j], k))
    BY <1>1, <1>2, TableRemovePair
  <2> QED
    BY <2>1, <2>2, OneTable
<1>3. CASE ~(k \in DOMAIN items[j] /\ i <= Len(items[j][k]))
  <2>1. UNCHANGED <<items, keys>>
    BY <1>3 DEF RemoveItem
  <2> QED
    BY <2>1 DEF FilingInv, Table, Sorted, Image, Less, KeyOf
<1> QED
  BY <1>2, <1>3

\* No step breaks the agreement of map and vector.
LEMMA FilingStep == FilingInv /\ [Next]_vars => FilingInv'
<1> SUFFICES ASSUME FilingInv, [Next]_vars PROVE FilingInv'
  OBVIOUS
<1>0. ASSUME UNCHANGED <<items, keys>> PROVE FilingInv'
  BY <1>0 DEF FilingInv, Table, Sorted, Image, Less, KeyOf
<1>1. CASE \E j \in Jobs, item \in Items : AddItem(j, item)
  BY <1>1, AddItemFiles
<1>2. CASE \E j \in Jobs, k \in Pairs, i \in 1..MaxItems : RemoveItem(j, k, i)
  BY <1>2, RemoveItemFiles
<1>3. CASE \E j \in Jobs, k \in Pairs : Assign(j, k)
  BY <1>0, <1>3 DEF Assign
<1>4. CASE \E j \in Jobs : AssignAll(j)
  BY <1>0, <1>4 DEF AssignAll
<1>5. CASE \E j \in Jobs : AddBuffer(j)
  BY <1>0, <1>5 DEF AddBuffer
<1>6. CASE \E j \in Jobs, id \in MinUserId .. MinUserId + MaxSlots : RemoveBuffer(j, id)
  BY <1>0, <1>6 DEF RemoveBuffer
<1>7. CASE \E b \in Buffers : MoveBuffer(b)
  BY <1>0, <1>7 DEF MoveBuffer
<1>8. ASSUME NEW j \in Jobs, NEW k \in Jobs, CopyJob(j, k) PROVE FilingInv'
  <2>1. /\ items' = [items EXCEPT ![k] = items[j]]
        /\ keys' = [keys EXCEPT ![k] = keys[j]]
    BY <1>8 DEF CopyJob
  <2>2. Table(items[j], keys[j])
    BY DEF FilingInv
  <2> QED
    BY <2>1, <2>2, OneTable
<1>9. CASE UNCHANGED vars
  BY <1>0, <1>9 DEF vars
<1> QED
  BY <1>1, <1>2, <1>3, <1>4, <1>5, <1>6, <1>7, <1>8, <1>9 DEF Next

-----------------------------------------------------------------------------
(* Slots.                                                                  *)

StoresInv == StoresTypeOK /\ CountsAgree /\ SlotsAreSound

UsedIn(s) == {i \in DOMAIN s : Active(s[i])}

\* The slots in use are finitely many.
LEMMA UsedFinite ==
    ASSUME NEW s \in Seq(Slot)
    PROVE  IsFiniteSet(UsedIn(s)) /\ Cardinality(UsedIn(s)) \in Nat
<1>1. UsedIn(s) \subseteq 1 .. Len(s) /\ IsFiniteSet(1 .. Len(s))
  BY FS_Interval DEF UsedIn
<1>2. IsFiniteSet(UsedIn(s))
  BY <1>1, FS_Subset
<1> QED
  BY <1>2, FS_CardinalityType

\* A slot that is appended counts if it is in use.
LEMMA UsedAppend ==
    ASSUME NEW s \in Seq(Slot), NEW e \in Slot
    PROVE  Cardinality(UsedIn(Append(s, e))) =
              IF Active(e) THEN Cardinality(UsedIn(s)) + 1 ELSE Cardinality(UsedIn(s))
<1>1. UsedIn(Append(s, e)) = IF Active(e) THEN UsedIn(s) \cup {Len(s) + 1} ELSE UsedIn(s)
  BY AppendProperties DEF UsedIn
<1>2. Len(s) + 1 \notin UsedIn(s)
  BY DEF UsedIn
<1> QED
  BY <1>1, <1>2, UsedFinite, FS_AddElement

\* A slot that is emptied does not count any more.
LEMMA UsedDrop ==
    ASSUME NEW s \in Seq(Slot), NEW i \in DOMAIN s, Active(s[i])
    PROVE  /\ Cardinality(UsedIn(s)) > 0
           /\ Cardinality(UsedIn([s EXCEPT ![i] = Empty])) = Cardinality(UsedIn(s)) - 1
<1>1. UsedIn([s EXCEPT ![i] = Empty]) = UsedIn(s) \ {i} /\ i \in UsedIn(s)
  BY DEF UsedIn, Empty, Active
<1>2. Cardinality(UsedIn(s)) # 0
  BY <1>1, UsedFinite, FS_EmptySet
<1>3. Cardinality(UsedIn(s) \ {i}) = Cardinality(UsedIn(s)) - 1
  BY <1>1, UsedFinite, FS_RemoveElement
<1>4. Cardinality(UsedIn(s)) > 0
  BY <1>2, UsedFinite
<1> QED
  BY <1>1, <1>3, <1>4

\* The count of a job is that of its slots.
LEMMA CountsAre == CountsAgree <=> \A j \in Jobs : num[j] = Cardinality(UsedIn(slots[j]))
  BY DEF CountsAgree, InUse, UsedIn

\* Memory that is new or freed is of its type.
LEMMA BlankType == \A life \in {"none", "live", "freed"} : Blank(life) \in Memory
  BY DEF Blank, Memory

\* A buffer to store makes a slot.
LEMMA NewSlotType ==
    ASSUME NEW b \in Pointers, NEW owned \in BOOLEAN
    PROVE  /\ NewSlot(b, owned) \in Slot /\ NewSlot(b, owned).buffer = b
           /\ NewSlot(b, owned).owned => owned /\ b # NoBuffer
           /\ Active(NewSlot(b, owned)) <=> b # NoBuffer
  BY DEF NewSlot, Empty, Slot, Pointers, Active

\* A slot holds a buffer or none.
LEMMA SlotBuffers ==
    ASSUME slots \in [Jobs -> Seq(Slot)]
    PROVE  \A j \in Jobs : \A i \in DOMAIN slots[j] :
              slots[j][i] \in Slot /\ slots[j][i].buffer \in Buffers \cup {NoBuffer}
<1>1. \A j \in Jobs : \A i \in DOMAIN slots[j] : slots[j][i] \in Slot
  OBVIOUS
<1>2. \A x \in Slot : x.buffer \in Buffers \cup {NoBuffer}
  BY DEF Slot, Pointers
<1> QED
  BY <1>1, <1>2

\* Storing a buffer.
LEMMA StoreBufferStores ==
    ASSUME StoresInv, NEW j \in Jobs, NEW b \in Pointers, NEW owned \in BOOLEAN,
           StoreBuffer(j, b, owned)
    PROVE  StoresInv'
<1> DEFINE e == NewSlot(b, owned)
           n == Len(slots[j]) + 1
<1>1. /\ slots \in [Jobs -> Seq(Slot)] /\ num \in [Jobs -> Nat] /\ memory \in [Buffers -> Memory]
  BY DEF StoresInv, StoresTypeOK
<1>2. e \in Slot /\ e.buffer = b /\ (e.owned => owned /\ b # NoBuffer) /\ (Active(e) <=> b # NoBuffer)
  BY NewSlotType
<1> HIDE DEF e
<1>3. /\ slots' = [slots EXCEPT ![j] = Append(slots[j], e)]
      /\ num' = [num EXCEPT ![j] = IF Active(e) THEN num[j] + 1 ELSE num[j]]
      /\ memory' = IF b # NoBuffer /\ memory[b].life = "none"
                   THEN [memory EXCEPT ![b] = Blank("live")] ELSE memory
  BY DEF StoreBuffer, e
<1>4. slots[j] \in Seq(Slot)
  BY <1>1
<1>5. /\ Append(slots[j], e) \in Seq(Slot)
      /\ DOMAIN Append(slots[j], e) = DOMAIN slots[j] \cup {n}
      /\ n \notin DOMAIN slots[j]
      /\ \A i \in DOMAIN slots[j] : Append(slots[j], e)[i] = slots[j][i]
      /\ Append(slots[j], e)[n] = e
  BY <1>2, <1>4, AppendProperties
<1>6. StoresTypeOK'
  <2>1. slots' \in [Jobs -> Seq(Slot)] /\ num' \in [Jobs -> Nat]
    BY <1>1, <1>3, <1>5
  <2>2. memory' \in [Buffers -> Memory]
    BY <1>1, <1>3, BlankType
  <2> QED
    BY <2>1, <2>2 DEF StoresTypeOK, Slot, Memory, Pointers, Address
<1>7. CountsAgree'
  <2>1. \A k \in Jobs : num'[k] = Cardinality(UsedIn(slots'[k]))
    <3> TAKE k \in Jobs
    <3>1. num[k] = Cardinality(UsedIn(slots[k]))
      BY CountsAre DEF StoresInv
    <3>2. CASE k = j
      <4>1. slots'[k] = Append(slots[j], e)
            /\ num'[k] = IF Active(e) THEN num[j] + 1 ELSE num[j]
        BY <1>1, <1>3, <3>2
      <4> QED
        BY <4>1, <3>1, <3>2, <1>2, <1>4, UsedAppend
    <3>3. CASE k # j
      BY <3>3, <3>1, <1>1, <1>3
    <3> QED
      BY <3>2, <3>3
  <2> QED
    BY <2>1 DEF CountsAgree, InUse, UsedIn, Active
<1>8. SlotsAreSound'
  <2>1. MayStore(b, owned)
    BY DEF StoreBuffer
  <2>2. \A x \in Buffers : memory[x].life = "live" => memory'[x].life = "live"
    BY <1>1, <1>3 DEF Blank
  <2>3. b # NoBuffer => memory'[b].life = "live"
    BY <1>1, <1>3, <2>1 DEF MayStore, Live, Blank, Pointers
  <2>4. \A x \in GivenBuffers : x \in Buffers
    BY StoredBuffersAssumption DEF GivenBuffers
  <2>5. \A k \in Jobs : \A i \in DOMAIN slots'[k] :
            \/ i \in DOMAIN slots[k] /\ slots'[k][i] = slots[k][i]
            \/ k = j /\ i = n /\ slots'[k][i] = e
    BY <1>1, <1>3, <1>5
  <2>6. \A k \in Jobs : \A i \in DOMAIN slots[k] : slots[k][i] \in Slot
    BY <1>1
  <2>7. \A x \in GivenBuffers : memory'[x].life = "live"
    BY <2>2, <2>4 DEF StoresInv, SlotsAreSound, Live
  <2>8. \A k \in Jobs : \A i \in DOMAIN slots[k] :
            slots[k][i].owned => slots[k][i].buffer # b
    <3>1. b # NoBuffer => \A k \in Jobs : b \notin Owned(k)
      BY <2>1 DEF MayStore
    <3>2. \A k \in Jobs : \A i \in DOMAIN slots[k] :
            slots[k][i].owned => slots[k][i].buffer # NoBuffer
      BY DEF StoresInv, SlotsAreSound, Active
    <3> QED
      BY <3>1, <3>2 DEF Owned
  <2>9. e.owned => /\ b \notin GivenBuffers
                   /\ \A k \in Jobs : \A i \in DOMAIN slots[k] : slots[k][i].buffer # b
    BY <1>2, <2>1 DEF MayStore
  <2>10. ASSUME NEW k \in Jobs, NEW i \in DOMAIN slots'[k]
         PROVE  /\ slots'[k][i].buffer # NoBuffer => memory'[slots'[k][i].buffer].life = "live"
                /\ slots'[k][i].owned =>
                    /\ slots'[k][i].buffer # NoBuffer /\ slots'[k][i].buffer \notin GivenBuffers
                    /\ \A l \in Jobs : \A m \in DOMAIN slots'[l] :
                        slots'[l][m].buffer = slots'[k][i].buffer => l = k /\ m = i
    <3>1. CASE k = j /\ i = n /\ slots'[k][i] = e
      BY <3>1, <2>3, <2>5, <2>9, <1>2
    <3>2. CASE i \in DOMAIN slots[k] /\ slots'[k][i] = slots[k][i]
      <4>1. slots[k][i].buffer # NoBuffer => memory[slots[k][i].buffer].life = "live"
        BY <3>2 DEF StoresInv, SlotsAreSound, Active, Live
      <4>2. slots[k][i].owned =>
                /\ slots[k][i].buffer # NoBuffer /\ slots[k][i].buffer \notin GivenBuffers
                /\ \A l \in Jobs : \A m \in DOMAIN slots[l] :
                        slots[l][m].buffer = slots[k][i].buffer => l = k /\ m = i
        BY <3>2 DEF StoresInv, SlotsAreSound, Active
      <4>3. slots[k][i].buffer \in Buffers \cup {NoBuffer}
        BY <2>6, <3>2 DEF Slot, Pointers
      <4> QED
        BY <4>1, <4>2, <4>3, <3>2, <2>2, <2>5, <2>8, <1>2
    <3> QED
      BY <3>1, <3>2, <2>5
  <2> QED
    BY <2>7, <2>10 DEF SlotsAreSound, Live, Active, GivenBuffers
<1> QED
  BY <1>6, <1>7, <1>8 DEF StoresInv

\* An id of a job is that of one of its slots.
LEMMA IndexIs ==
    ASSUME StoresTypeOK, NEW j \in Jobs, NEW id \in Nat, IsStoredId(j, id)
    PROVE  /\ num[j] > 0
           /\ Index(j, id) = id - MinUserId + 1
           /\ Index(j, id) \in DOMAIN slots[j]
<1>1. num[j] \in Nat /\ slots[j] \in Seq(Slot) /\ MinUserId \in Nat
  BY StoredBuffersAssumption DEF StoresTypeOK
<1>2. num[j] > 0 /\ MinStoredId(j) = MinUserId
  BY <1>1 DEF IsStoredId, MinStoredId
<1>3. id >= MinUserId /\ id < MinUserId + Len(slots[j])
  BY <1>2 DEF IsStoredId
<1>4. Index(j, id) = id - MinUserId + 1
  BY <1>2 DEF Index
<1>5. id - MinUserId + 1 \in 1 .. Len(slots[j])
  BY <1>1, <1>3
<1> QED
  BY <1>1, <1>2, <1>4, <1>5

\* Removing a buffer.
LEMMA DropBufferStores ==
    ASSUME StoresInv, NEW j \in Jobs, NEW id \in Nat, IsStoredId(j, id), DropBuffer(j, id)
    PROVE  StoresInv'
<1> DEFINE i == Index(j, id)
           s == slots[j][i]
           gone == IF s.owned THEN {s.buffer} ELSE {}
<1>1. /\ slots \in [Jobs -> Seq(Slot)] /\ num \in [Jobs -> Nat] /\ memory \in [Buffers -> Memory]
  BY DEF StoresInv, StoresTypeOK
<1>2. slots[j] \in Seq(Slot) /\ i \in DOMAIN slots[j]
  BY <1>1, IndexIs DEF StoresInv
<1>3. CASE ~Active(s)
  <2>1. UNCHANGED storeVars
    BY <1>3 DEF DropBuffer
  <2> QED
    BY <2>1 DEF storeVars, StoresInv, StoresTypeOK, CountsAgree, SlotsAreSound, InUse, Live
<1>4. CASE Active(s)
  <2>1. /\ slots' = [slots EXCEPT ![j] = [slots[j] EXCEPT ![i] = Empty]]
        /\ num' = [num EXCEPT ![j] = num[j] - 1]
        /\ memory' = Freed(gone)
    BY <1>4 DEF DropBuffer
  <2> HIDE DEF gone
  <2>2. Empty \in Slot /\ Empty.buffer = NoBuffer /\ Empty.owned = FALSE
    BY DEF Empty, Slot, Pointers
  <2>3. [slots[j] EXCEPT ![i] = Empty] \in Seq(Slot)
    BY <1>2, <2>2
  <2>4. /\ num[j] = Cardinality(UsedIn(slots[j])) /\ num[j] > 0
        /\ num[j] - 1 = Cardinality(UsedIn([slots[j] EXCEPT ![i] = Empty]))
    BY <1>2, <1>4, CountsAre, UsedDrop DEF StoresInv
  <2>5. StoresTypeOK'
    <3>1. slots' \in [Jobs -> Seq(Slot)]
      BY <1>1, <2>1, <2>3
    <3>2. num' \in [Jobs -> Nat]
      <4>1. num[j] - 1 \in Nat
        BY <1>1, <2>4
      <4> QED
        BY <1>1, <2>1, <4>1
    <3>3. memory' \in [Buffers -> Memory]
      BY <1>1, <2>1, BlankType DEF Freed
    <3> QED
      BY <3>1, <3>2, <3>3 DEF StoresTypeOK, Slot, Memory, Pointers, Address
  <2>6. CountsAgree'
    <3>1. \A k \in Jobs : num'[k] = Cardinality(UsedIn(slots'[k]))
      <4> TAKE k \in Jobs
      <4>1. CASE k = j
        BY <4>1, <1>1, <2>1, <2>4
      <4>2. CASE k # j
        BY <4>2, <1>1, <2>1, CountsAre DEF StoresInv
      <4> QED
        BY <4>1, <4>2
    <3> QED
      BY <3>1 DEF CountsAgree, InUse, UsedIn, Active
  <2>7. SlotsAreSound'
    <3>1. \A x \in gone : /\ x \notin GivenBuffers
                          /\ \A k \in Jobs : \A m \in DOMAIN slots[k] :
                                slots[k][m].buffer = x => k = j /\ m = i
      BY <1>2 DEF gone, StoresInv, SlotsAreSound
    <3>2. \A x \in Buffers \ gone : memory'[x] = memory[x]
      BY <2>1 DEF Freed
    <3>3. \A x \in GivenBuffers : x \in Buffers /\ memory'[x].life = "live"
      BY <3>1, <3>2, StoredBuffersAssumption DEF GivenBuffers, StoresInv, SlotsAreSound, Live
    <3>4. \A k \in Jobs : \A m \in DOMAIN slots'[k] :
            /\ m \in DOMAIN slots[k]
            /\ IF k = j /\ m = i THEN slots'[k][m] = Empty ELSE slots'[k][m] = slots[k][m]
      BY <1>1, <2>1
    <3>5. \A k \in Jobs : \A m \in DOMAIN slots[k] : slots[k][m].buffer \in Buffers \cup {NoBuffer}
      BY <1>1, SlotBuffers
    <3>6. ASSUME NEW k \in Jobs, NEW m \in DOMAIN slots'[k]
          PROVE  /\ slots'[k][m].buffer # NoBuffer => memory'[slots'[k][m].buffer].life = "live"
                 /\ slots'[k][m].owned =>
                    /\ slots'[k][m].buffer # NoBuffer /\ slots'[k][m].buffer \notin GivenBuffers
                    /\ \A l \in Jobs : \A q \in DOMAIN slots'[l] :
                        slots'[l][q].buffer = slots'[k][m].buffer => l = k /\ q = m
      <4>1. CASE k = j /\ m = i
        BY <4>1, <3>4, <2>2
      <4>2. CASE ~(k = j /\ m = i)
        <5>1. /\ m \in DOMAIN slots[k] /\ slots'[k][m] = slots[k][m]
              /\ slots[k][m].buffer \notin gone
          BY <4>2, <3>1, <3>4
        <5>2. slots[k][m].buffer # NoBuffer => memory[slots[k][m].buffer].life = "live"
          BY <5>1 DEF StoresInv, SlotsAreSound, Active, Live
        <5>3. slots[k][m].owned =>
                /\ slots[k][m].buffer # NoBuffer /\ slots[k][m].buffer \notin GivenBuffers
                /\ \A l \in Jobs : \A q \in DOMAIN slots[l] :
                        slots[l][q].buffer = slots[k][m].buffer => l = k /\ q = m
          BY <5>1 DEF StoresInv, SlotsAreSound, Active
        <5> QED
          BY <5>1, <5>2, <5>3, <3>2, <3>4, <3>5, <2>2
      <4> QED
        BY <4>1, <4>2
    <3> QED
      BY <3>3, <3>6 DEF SlotsAreSound, Live, Active, GivenBuffers
  <2> QED
    BY <2>5, <2>6, <2>7 DEF StoresInv
<1> QED
  BY <1>3, <1>4

\* Memory that keeps its life keeps the stores sound.
LEMMA MemoryStores ==
    ASSUME StoresInv, UNCHANGED <<slots, num>>, memory' \in [Buffers -> Memory],
           \A x \in Buffers : memory'[x].life = memory[x].life
    PROVE  StoresInv'
<1>1. StoresTypeOK'
  BY DEF StoresInv, StoresTypeOK, Slot, Memory, Pointers, Address
<1>2. CountsAgree'
  BY DEF StoresInv, CountsAgree, InUse, Active
<1>3. \A j \in Jobs : \A i \in DOMAIN slots[j] : slots[j][i].buffer \in Buffers \cup {NoBuffer}
  BY SlotBuffers DEF StoresInv, StoresTypeOK
<1>4. \A x \in GivenBuffers : x \in Buffers
  BY StoredBuffersAssumption DEF GivenBuffers
<1>5. SlotsAreSound'
  BY <1>3, <1>4 DEF StoresInv, SlotsAreSound, Live, Active, GivenBuffers
<1> QED
  BY <1>1, <1>2, <1>5 DEF StoresInv

\* Moving a buffer.
LEMMA MoveStores ==
    ASSUME StoresInv, NEW b \in Buffers, Move(b)
    PROVE  StoresInv'
<1>1. memory \in [Buffers -> Memory] /\ memory' = [memory EXCEPT ![b].place = @ + 1]
  BY DEF StoresInv, StoresTypeOK, Move
<1>2. memory' \in [Buffers -> Memory]
  BY <1>1 DEF Memory
<1>3. \A x \in Buffers : memory'[x].life = memory[x].life
  BY <1>1 DEF Memory
<1> QED
  BY <1>2, <1>3, MemoryStores DEF Move

\* A copy of a job in the place of another: what it owns is new memory, and
\* only what the job it replaces owned is freed.
LEMMA CopyStoresStores ==
    ASSUME StoresInv, NEW j \in Jobs, NEW k \in Jobs, CopyStores(j, k)
    PROVE  StoresInv'
<1> DEFINE D == DOMAIN slots[j]
           Own(i) == slots[j][i].owned
<1>1. /\ slots \in [Jobs -> Seq(Slot)] /\ num \in [Jobs -> Nat] /\ memory \in [Buffers -> Memory]
  BY DEF StoresInv, StoresTypeOK
<1>2. j # k
  BY DEF CopyStores
<1>3. PICK f \in Copies(j) :
        /\ slots' = [slots EXCEPT ![k] =
                        [i \in D |-> [slots[j][i] EXCEPT !.buffer = f[i]]]]
        /\ num' = [num EXCEPT ![k] = num[j]]
        /\ memory' = [b \in Buffers |->
                IF \E i \in D : Own(i) /\ f[i] = b
                THEN LET i == CHOOSE i \in D : Own(i) /\ f[i] = b
                     IN  [life |-> "live", place |-> 0,
                          pointer |-> memory[slots[j][i].buffer].pointer]
                ELSE Freed(Owned(k))[b]]
  BY DEF CopyStores
<1> DEFINE New == {f[i] : i \in {i \in D : Own(i)}}
           t == [i \in D |-> [slots[j][i] EXCEPT !.buffer = f[i]]]
<1>4. /\ \A i \in D : f[i] \in Buffers \cup {NoBuffer}
      /\ \A i \in D : Own(i) =>
            /\ f[i] \in Buffers /\ memory[f[i]].life = "none"
            /\ \A m \in D : f[m] = f[i] => m = i
      /\ \A i \in D : ~Own(i) => f[i] = slots[j][i].buffer
  BY DEF Copies, Pointers
<1>5. /\ t \in Seq(Slot) /\ DOMAIN t = D
      /\ \A i \in D : t[i].buffer = f[i] /\ t[i].owned = Own(i)
  <2>1. \A i \in D : /\ slots[j][i] = [buffer |-> slots[j][i].buffer, owned |-> Own(i)]
                     /\ Own(i) \in BOOLEAN
    <3>1. \A x \in Slot : x = [buffer |-> x.buffer, owned |-> x.owned] /\ x.owned \in BOOLEAN
      BY DEF Slot
    <3> QED
      BY <3>1, <1>1, SlotBuffers
  <2>2. \A i \in D : [slots[j][i] EXCEPT !.buffer = f[i]] = [buffer |-> f[i], owned |-> Own(i)]
    <3>1. \A b, c, o : [[buffer |-> b, owned |-> o] EXCEPT !.buffer = c] = [buffer |-> c, owned |-> o]
      OBVIOUS
    <3> HIDE DEF Own
    <3>2. \A i \in D : [[buffer |-> slots[j][i].buffer, owned |-> Own(i)] EXCEPT !.buffer = f[i]]
                        = [buffer |-> f[i], owned |-> Own(i)]
      BY <3>1
    <3> TAKE i \in D
    <3>3. slots[j][i] = [buffer |-> slots[j][i].buffer, owned |-> Own(i)]
      BY <2>1
    <3>4. [slots[j][i] EXCEPT !.buffer = f[i]]
            = [[buffer |-> slots[j][i].buffer, owned |-> Own(i)] EXCEPT !.buffer = f[i]]
      BY <3>3
    <3> QED
      BY <3>2, <3>4
  <2>3. \A i \in D : [slots[j][i] EXCEPT !.buffer = f[i]] \in Slot
    <3>1. \A i \in D : Own(i) \in BOOLEAN /\ f[i] \in Pointers
      BY <2>1, <1>4 DEF Pointers
    <3>2. \A b \in Pointers, o \in BOOLEAN : [buffer |-> b, owned |-> o] \in Slot
      BY DEF Slot
    <3> HIDE DEF Own
    <3>3. \A i \in D : [buffer |-> f[i], owned |-> Own(i)] \in Slot
      BY <3>1, <3>2
    <3> QED
      BY <2>2, <3>3
  <2>4. slots[j] \in Seq(Slot) /\ D = 1 .. Len(slots[j]) /\ Len(slots[j]) \in Nat
    BY <1>1
  <2>5. t \in [1 .. Len(slots[j]) -> Slot]
    BY <2>3, <2>4
  <2>6. t \in Seq(Slot)
    BY <2>4, <2>5
  <2> QED
    BY <2>2, <2>6
<1>6. /\ \A i \in D : Own(i) => slots[j][i].buffer \in Buffers
      /\ \A i \in D : slots[j][i].buffer \in Buffers => memory[slots[j][i].buffer].life = "live"
  <2>1. \A i \in D : Own(i) => slots[j][i].buffer # NoBuffer
    BY DEF StoresInv, SlotsAreSound, Active
  <2>2. \A i \in D : slots[j][i].buffer # NoBuffer => memory[slots[j][i].buffer].life = "live"
    BY DEF StoresInv, SlotsAreSound, Active, Live
  <2> QED
    BY <2>1, <2>2, <1>1, SlotBuffers, StoredBuffersAssumption
<1>7. /\ \A b \in New : memory'[b] \in Memory /\ memory'[b].life = "live"
      /\ \A b \in Buffers \ New : memory'[b] = Freed(Owned(k))[b]
  <2>1. ASSUME NEW b \in New PROVE memory'[b] \in Memory /\ memory'[b].life = "live"
    <3> DEFINE i == CHOOSE i \in D : Own(i) /\ f[i] = b
    <3>1. b \in Buffers /\ \E m \in D : Own(m) /\ f[m] = b
      BY <1>4
    <3>2. i \in D /\ Own(i)
      BY <3>1
    <3>3. memory[slots[j][i].buffer].pointer \in [Objects -> Address \cup {Null}]
      BY <3>2, <1>1, <1>6 DEF Memory
    <3>4. memory'[b] = [life |-> "live", place |-> 0,
                        pointer |-> memory[slots[j][i].buffer].pointer]
      BY <3>1, <1>3
    <3> HIDE DEF i
    <3>5. \A p \in [Objects -> Address \cup {Null}] :
            [life |-> "live", place |-> 0, pointer |-> p] \in Memory
      BY DEF Memory
    <3> QED
      BY <3>3, <3>4, <3>5
  <2>2. \A b \in Buffers \ New : ~ \E m \in D : Own(m) /\ f[m] = b
    OBVIOUS
  <2> QED
    BY <2>1, <2>2, <1>3
<1>8. slots' = [slots EXCEPT ![k] = t]
  BY <1>3
<1>9. /\ New \subseteq Buffers /\ \A b \in New : memory[b].life = "none"
  BY <1>4
<1> HIDE DEF t
<1>10. StoresTypeOK'
  <2>1. slots' \in [Jobs -> Seq(Slot)] /\ num' \in [Jobs -> Nat]
    BY <1>1, <1>3, <1>5, <1>8
  <2>2. \A b \in Buffers : Freed(Owned(k))[b] \in Memory
    BY <1>1, BlankType DEF Freed
  <2>3. memory' \in [Buffers -> Memory]
    <3>1. \A b \in Buffers : memory'[b] \in Memory
      BY <2>2, <1>7
    <3> QED
      BY <3>1, <1>3
  <2> QED
    BY <2>1, <2>3 DEF StoresTypeOK, Slot, Memory, Pointers, Address
<1>11. CountsAgree'
  <2>1. UsedIn(t) = UsedIn(slots[j])
    <3>1. ASSUME NEW i \in D PROVE t[i].buffer # NoBuffer <=> slots[j][i].buffer # NoBuffer
      <4>1. t[i].buffer = f[i]
        BY <1>5
      <4>2. CASE Own(i)
        BY <4>1, <4>2, <1>4, <1>6, StoredBuffersAssumption
      <4>3. CASE ~Own(i)
        BY <4>1, <4>3, <1>4
      <4> QED
        BY <4>2, <4>3
    <3>2. DOMAIN t = D
      BY <1>5
    <3> QED
      BY <3>1, <3>2 DEF UsedIn, Active
  <2>2. \A l \in Jobs : num'[l] = Cardinality(UsedIn(slots'[l]))
    <3> TAKE l \in Jobs
    <3>1. CASE l = k
      <4>1. num'[l] = num[j] /\ slots'[l] = t
        BY <3>1, <1>1, <1>3, <1>8
      <4> QED
        BY <4>1, <2>1, CountsAre DEF StoresInv
    <3>2. CASE l # k
      <4>1. num'[l] = num[l] /\ slots'[l] = slots[l]
        BY <3>2, <1>1, <1>3, <1>8
      <4> QED
        BY <4>1, CountsAre DEF StoresInv
    <3> QED
      BY <3>1, <3>2
  <2> QED
    BY <2>2 DEF CountsAgree, InUse, UsedIn, Active
<1> HIDE DEF New
<1>12. SlotsAreSound'
  <2>1. \A b \in Buffers : memory[b].life = "live" /\ b \notin Owned(k) => memory'[b].life = "live"
    BY <1>7 DEF Freed
  <2>2. \A b \in GivenBuffers : b \in Buffers /\ memory[b].life = "live"
    BY StoredBuffersAssumption DEF GivenBuffers, StoresInv, SlotsAreSound, Live
  <2>3. \A b \in Owned(k) : /\ b \notin GivenBuffers
                            /\ \A l \in Jobs : \A m \in DOMAIN slots[l] :
                                    slots[l][m].buffer = b => l = k
    BY DEF Owned, StoresInv, SlotsAreSound
  <2>4. \A b \in GivenBuffers : memory'[b].life = "live"
    BY <2>1, <2>2, <2>3
  <2>5. \A l \in Jobs : \A m \in DOMAIN slots[l] :
            /\ slots[l][m].buffer \in Buffers \cup {NoBuffer}
            /\ slots[l][m].buffer # NoBuffer =>
                /\ memory[slots[l][m].buffer].life = "live"
                /\ l # k => memory'[slots[l][m].buffer].life = "live"
            /\ slots[l][m].buffer \notin New
    <3> TAKE l \in Jobs
    <3> TAKE m \in DOMAIN slots[l]
    <3>1. slots[l][m].buffer \in Buffers \cup {NoBuffer}
      BY <1>1, SlotBuffers
    <3>2. slots[l][m].buffer # NoBuffer => memory[slots[l][m].buffer].life = "live"
      BY DEF StoresInv, SlotsAreSound, Active, Live
    <3>3. NoBuffer \notin New
      BY <1>9, StoredBuffersAssumption
    <3>4. slots[l][m].buffer \in New => slots[l][m].buffer = NoBuffer
      BY <3>2, <1>9
    <3>5. l # k => slots[l][m].buffer \notin Owned(k)
      BY <2>3
    <3>6. l # k /\ slots[l][m].buffer # NoBuffer => memory'[slots[l][m].buffer].life = "live"
      BY <3>1, <3>2, <3>5, <2>1
    <3> QED
      BY <3>1, <3>2, <3>3, <3>4, <3>6
  <2>6. \A l \in Jobs : \A m \in DOMAIN slots'[l] :
            \/ l # k /\ m \in DOMAIN slots[l] /\ slots'[l][m] = slots[l][m]
            \/ l = k /\ m \in D /\ slots'[l][m].buffer = f[m] /\ slots'[l][m].owned = Own(m)
    BY <1>1, <1>5, <1>8
  <2>7. \A m \in D : Own(m) => f[m] \in New
    BY DEF New
  <2>8. \A l \in Jobs : \A m \in DOMAIN slots[l] : slots[l][m].owned =>
            /\ slots[l][m].buffer # NoBuffer /\ slots[l][m].buffer \notin GivenBuffers
            /\ \A x \in Jobs : \A y \in DOMAIN slots[x] :
                    slots[x][y].buffer = slots[l][m].buffer => x = l /\ y = m
    BY DEF StoresInv, SlotsAreSound, Active
  <2>9. ASSUME NEW l \in Jobs, NEW m \in DOMAIN slots'[l], slots'[l][m].buffer # NoBuffer
        PROVE  memory'[slots'[l][m].buffer].life = "live"
    <3>1. CASE l # k
      BY <3>1, <2>5, <2>6, <2>9
    <3>2. CASE l = k /\ Own(m)
      BY <3>2, <2>6, <2>7, <1>7
    <3>3. CASE l = k /\ ~Own(m)
      <4>1. m \in D /\ slots'[l][m].buffer = slots[j][m].buffer
        BY <3>3, <2>6, <1>4
      <4> QED
        BY <4>1, <1>2, <2>5, <2>9
    <3> QED
      BY <3>1, <3>2, <3>3
  <2>10. ASSUME NEW l \in Jobs, NEW m \in DOMAIN slots'[l], slots'[l][m].owned
         PROVE  slots'[l][m].buffer # NoBuffer /\ slots'[l][m].buffer \notin GivenBuffers
    <3>1. CASE l # k
      BY <3>1, <2>6, <2>8, <2>10
    <3>2. CASE l = k
      <4>1. slots'[l][m].buffer \in New
        BY <3>2, <2>6, <2>7, <2>10
      <4> QED
        BY <4>1, <2>2, <1>9, StoredBuffersAssumption
    <3> QED
      BY <3>1, <3>2
  <2>11. ASSUME NEW l \in Jobs, NEW m \in DOMAIN slots'[l], slots'[l][m].owned,
                NEW x \in Jobs, NEW y \in DOMAIN slots'[x],
                slots'[x][y].buffer = slots'[l][m].buffer
         PROVE  x = l /\ y = m
    <3>1. CASE l = k
      <4>1. m \in D /\ Own(m) /\ slots'[l][m].buffer = f[m] /\ f[m] \in New
        BY <3>1, <2>6, <2>7, <2>11
      <4>2. x = k
        BY <4>1, <2>5, <2>6, <2>11
      <4>3. y \in D /\ f[y] = f[m]
        BY <4>1, <4>2, <2>6, <2>11
      <4> QED
        BY <3>1, <4>1, <4>2, <4>3, <1>4
    <3>2. CASE l # k
      <4>1. m \in DOMAIN slots[l] /\ slots'[l][m] = slots[l][m] /\ slots[l][m].owned
        BY <3>2, <2>6, <2>11
      <4>2. CASE x # k
        BY <4>1, <4>2, <2>6, <2>8, <2>11
      <4>3. CASE x = k
        <5>1. y \in D /\ f[y] = slots[l][m].buffer /\ slots[l][m].buffer \notin New
          BY <4>1, <4>3, <2>5, <2>6, <2>11
        <5>2. ~Own(y) /\ slots[j][y].buffer = slots[l][m].buffer
          BY <5>1, <2>7, <1>4
        <5>3. j = l /\ y = m
          BY <4>1, <5>1, <5>2, <2>8
        <5> QED
          BY <4>1, <5>2, <5>3
      <4> QED
        BY <4>2, <4>3
    <3> QED
      BY <3>1, <3>2
  <2> QED
    BY <2>4, <2>9, <2>10, <2>11 DEF SlotsAreSound, Live, Active, GivenBuffers
<1> QED
  BY <1>10, <1>11, <1>12 DEF StoresInv

-----------------------------------------------------------------------------
(* Assigning addresses.                                                    *)

\* An id names no buffer, or one that is allocated.
LEMMA BufferByIdIs ==
    ASSUME StoresInv, NEW j \in Jobs, NEW id \in Nat
    PROVE  /\ BufferById(j, id) \in Buffers \cup {NoBuffer}
           /\ BufferById(j, id) # NoBuffer =>
                BufferById(j, id) \in Buffers /\ memory[BufferById(j, id)].life = "live"
<1>1. CASE id \in FixedIds
  <2>1. BufferById(j, id) = Given[id] /\ Given[id] \in Buffers \cup {NoBuffer}
    BY <1>1, StoredBuffersAssumption DEF BufferById
  <2>2. Given[id] # NoBuffer => Given[id] \in GivenBuffers
    BY <1>1 DEF GivenBuffers
  <2> QED
    BY <2>1, <2>2 DEF StoresInv, SlotsAreSound, Live
<1>2. CASE id \notin FixedIds /\ IsStoredId(j, id)
  <2>1. /\ Index(j, id) \in DOMAIN slots[j]
        /\ BufferById(j, id) = slots[j][Index(j, id)].buffer
    BY <1>2, IndexIs DEF BufferById, StoresInv
  <2>2. slots[j][Index(j, id)].buffer \in Buffers \cup {NoBuffer}
    BY <2>1, SlotBuffers DEF StoresInv, StoresTypeOK
  <2> QED
    BY <2>1, <2>2 DEF StoresInv, SlotsAreSound, Active, Live
<1>3. CASE id \notin FixedIds /\ ~IsStoredId(j, id)
  BY <1>3 DEF BufferById
<1> QED
  BY <1>1, <1>2, <1>3

\* The places of a job's items.
Places(X) == UNION {{k} \X DOMAIN X[k] : k \in DOMAIN X}

\* A place is a pair and an index.
LEMMA PlaceIs ==
    ASSUME NEW X, NEW w \in Places(X)
    PROVE  w = <<w[1], w[2]>> /\ w[1] \in DOMAIN X /\ w[2] \in DOMAIN X[w[1]]
  BY DEF Places

\* Of any items of a job one is the last: the pairs are finitely many and
\* ordered, and so are the items of each.
LEMMA LastWriter ==
    ASSUME NEW X, NEW s, Table(X, s), NEW W \in SUBSET Places(X), W # {}
    PROVE  \E w \in W : \A v \in W : Before(v, w)
<1> DEFINE P == {p \in DOMAIN s : \E w \in W : w[1] = s[p]}
<1>1. s \in Seq(Key) /\ Sorted(s) /\ Image(s) = DOMAIN X /\ X \in [DOMAIN X -> Seq(Items)]
  BY DEF Table
<1>2. \A w \in W : w = <<w[1], w[2]>> /\ w[1] \in DOMAIN X /\ w[2] \in DOMAIN X[w[1]]
  BY PlaceIs
<1>3. \A w \in W : \E q \in P : w[1] = s[q]
  BY <1>1, <1>2 DEF Image
<1>4. Len(s) \in Nat /\ P \in SUBSET (0 .. Len(s)) /\ P # {}
  BY <1>1, <1>3
<1>5. PICK p \in P : \A q \in P : q <= p
  BY <1>4, Greatest
<1> DEFINE k == s[p]
           T == {i \in DOMAIN X[k] : <<k, i>> \in W}
<1>6. PICK u \in W : u[1] = k
  BY <1>5
<1>7. k \in DOMAIN X /\ X[k] \in Seq(Items)
  BY <1>1, <1>2, <1>6
<1>8. Len(X[k]) \in Nat /\ T \in SUBSET (0 .. Len(X[k])) /\ T # {}
  <2>1. u[2] \in T
    <3>1. u = <<u[1], u[2]>> /\ u[2] \in DOMAIN X[u[1]]
      BY <1>2
    <3>2. <<k, u[2]>> \in W
      BY <3>1, <1>6
    <3> QED
      BY <3>1, <3>2, <1>6
  <2>2. Len(X[k]) \in Nat /\ DOMAIN X[k] = 1 .. Len(X[k])
    BY <1>7
  <2>3. T \in SUBSET (0 .. Len(X[k]))
    BY <2>2
  <2> QED
    BY <2>1, <2>2, <2>3
<1>9. PICK i \in T : \A m \in T : m <= i
  BY <1>8, Greatest
<1>10. ASSUME NEW v \in W PROVE Before(v, <<k, i>>)
  <2>1. PICK q \in P : v[1] = s[q]
    BY <1>3
  <2>2. CASE q = p
    <3>1. v[1] = k /\ v[2] \in T
      BY <2>1, <2>2, <1>2
    <3> QED
      BY <3>1, <1>9 DEF Before
  <2>3. CASE q # p
    <3>1. q \in DOMAIN s /\ p \in DOMAIN s /\ q < p
      BY <2>3, <1>4, <1>5
    <3>2. Less(s[q], s[p])
      BY <3>1, <1>1 DEF Sorted
    <3> QED
      BY <2>1, <3>2 DEF Before
  <2> QED
    BY <2>2, <2>3
<1> QED
  BY <1>9, <1>10

\* What the items of a job are, and the buffers of a pair.
LEMMA ItemIs ==
    ASSUME FilingInv, NEW j \in Jobs, NEW k \in DOMAIN items[j], NEW i \in DOMAIN items[j][k]
    PROVE  /\ items[j][k][i] \in Items
           /\ items[j][k][i].dest.id = k[1] /\ items[j][k][i].src.id = k[2]
           /\ items[j][k][i].dest.id \in Nat /\ items[j][k][i].src.id \in Nat
           /\ items[j][k][i].dest.object \in Objects /\ items[j][k][i].src.object \in Objects
<1>1. Table(items[j], keys[j])
  BY DEF FilingInv
<1>2. items[j][k] \in Seq(Items)
  BY <1>1 DEF Table
<1>3. items[j][k][i] \in Items
  BY <1>2
<1>4. KeyOf(items[j][k][i]) = k
  BY <1>1 DEF Table
<1>5. \A item \in Items : /\ item.dest.id \in Nat /\ item.src.id \in Nat
                          /\ item.dest.object \in Objects /\ item.src.object \in Objects
  BY AssignItemsAssumption DEF Item, End
<1> QED
  BY <1>3, <1>4, <1>5 DEF KeyOf

\* The address an item gives is null or that of an object of an allocated buffer.
LEMMA SourceAddressIs ==
    ASSUME StoresInv, FilingInv, NEW j \in Jobs,
           NEW k \in DOMAIN items[j], NEW i \in DOMAIN items[j][k], HasBuffers(j, k)
    PROVE  LET a == SourceAddress(j, items[j][k][i])
           IN  /\ a \in Address \cup {Null}
               /\ a # Null => /\ a[1] \in Buffers /\ memory[a[1]].life = "live"
                              /\ a[2] = memory[a[1]].place
<1> DEFINE item == items[j][k][i]
           b == BufferById(j, item.src.id)
<1>1. item.src.id = k[2] /\ item.src.id \in Nat /\ item.src.object \in Objects
  BY ItemIs
<1>2. b \in Buffers /\ memory[b].life = "live"
  BY <1>1, BufferByIdIs DEF HasBuffers
<1>3. memory[b].place \in Nat
  BY <1>2 DEF StoresInv, StoresTypeOK, Memory
<1> HIDE DEF b
<1>4. SourceAddress(j, item) = IF Matches(item.src) THEN <<b, memory[b].place, item.src.object>> ELSE Null
  BY DEF SourceAddress, AddressOf, b
<1> QED
  BY <1>1, <1>2, <1>3, <1>4 DEF Address

\* After an assignment every buffer is what and where it was; a pointer that an
\* item writes is what the last of these items gives, any other is unchanged.
LEMMA AssignedIs ==
    ASSUME StoresInv, FilingInv, NEW j \in Jobs, NEW pairs
    PROVE  /\ Assigned(j, pairs) \in [Buffers -> Memory]
           /\ \A b \in Buffers : /\ Assigned(j, pairs)[b].life = memory[b].life
                                 /\ Assigned(j, pairs)[b].place = memory[b].place
           /\ \A b \in Buffers, o \in Objects :
                LET ws == {w \in Writers(j, b, o) : w[1] \in pairs}
                IN  ws # {} => \E w \in ws :
                        Assigned(j, pairs)[b].pointer[o] = SourceAddress(j, items[j][w[1]][w[2]])
<1> DEFINE Ws(b, o) == {w \in Writers(j, b, o) : w[1] \in pairs}
           New(b, o) == IF Ws(b, o) = {} THEN memory[b].pointer[o]
                        ELSE LET w == CHOOSE w \in Ws(b, o) : \A v \in Ws(b, o) : Before(v, w)
                             IN  SourceAddress(j, items[j][w[1]][w[2]])
<1>1. Assigned(j, pairs) = [b \in Buffers |->
            [memory[b] EXCEPT !.pointer = [o \in Objects |-> New(b, o)]]]
  BY DEF Assigned
<1>2. ASSUME NEW b \in Buffers, NEW o \in Objects, Ws(b, o) # {}
      PROVE  \E w \in Ws(b, o) : New(b, o) = SourceAddress(j, items[j][w[1]][w[2]])
  <2>1. Table(items[j], keys[j])
    BY DEF FilingInv
  <2>2. Ws(b, o) \in SUBSET Places(items[j])
    BY DEF Writers, Places
  <2>3. \E w \in Ws(b, o) : \A v \in Ws(b, o) : Before(v, w)
    BY <2>1, <2>2, <1>2, LastWriter
  <2> QED
    BY <2>3, <1>2
<1>3. ASSUME NEW b \in Buffers, NEW o \in Objects
      PROVE  New(b, o) \in Address \cup {Null}
  <2>1. CASE Ws(b, o) = {}
    BY <2>1 DEF StoresInv, StoresTypeOK, Memory
  <2>2. CASE Ws(b, o) # {}
    <3>1. PICK w \in Ws(b, o) : New(b, o) = SourceAddress(j, items[j][w[1]][w[2]])
      BY <2>2, <1>2
    <3>2. w \in Places(items[j]) /\ HasBuffers(j, w[1])
      BY DEF Writers, Places
    <3>3. w[1] \in DOMAIN items[j] /\ w[2] \in DOMAIN items[j][w[1]]
      BY <3>2, PlaceIs
    <3>4. SourceAddress(j, items[j][w[1]][w[2]]) \in Address \cup {Null}
      BY <3>2, <3>3, SourceAddressIs
    <3> HIDE DEF New, Ws
    <3> QED
      BY <3>1, <3>4
  <2> QED
    BY <2>1, <2>2
<1> HIDE DEF Ws, New
<1>4. ASSUME NEW b \in Buffers
      PROVE  /\ Assigned(j, pairs)[b] \in Memory
             /\ Assigned(j, pairs)[b].life = memory[b].life
             /\ Assigned(j, pairs)[b].place = memory[b].place
             /\ \A o \in Objects : Assigned(j, pairs)[b].pointer[o] = New(b, o)
  <2> DEFINE q == [o \in Objects |-> New(b, o)]
  <2>1. q \in [Objects -> Address \cup {Null}]
    BY <1>3
  <2>2. memory[b] \in Memory
    BY DEF StoresInv, StoresTypeOK
  <2>3. Assigned(j, pairs)[b] = [memory[b] EXCEPT !.pointer = q]
    BY <1>1
  <2>4. \A o \in Objects : q[o] = New(b, o)
    OBVIOUS
  <2> HIDE DEF q
  <2>5. /\ [memory[b] EXCEPT !.pointer = q] \in Memory
        /\ [memory[b] EXCEPT !.pointer = q].life = memory[b].life
        /\ [memory[b] EXCEPT !.pointer = q].place = memory[b].place
        /\ [memory[b] EXCEPT !.pointer = q].pointer = q
    BY <2>1, <2>2 DEF Memory
  <2> QED
    BY <2>3, <2>4, <2>5
<1>5. Assigned(j, pairs) \in [Buffers -> Memory]
  BY <1>1, <1>4
<1> QED
  BY <1>2, <1>4, <1>5 DEF Ws

\* Assigning addresses disturbs no slot and no memory but the pointers.
LEMMA AssignedStores ==
    ASSUME StoresInv, FilingInv, NEW j \in Jobs, NEW pairs,
           memory' = Assigned(j, pairs), UNCHANGED <<slots, num>>
    PROVE  StoresInv'
<1>1. /\ memory' \in [Buffers -> Memory]
      /\ \A x \in Buffers : memory'[x].life = memory[x].life
  BY AssignedIs
<1> QED
  BY <1>1, MemoryStores

-----------------------------------------------------------------------------
(* The inductive invariant.                                                *)

IInv == StoresInv /\ FilingInv /\ settled \in SUBSET Jobs

\* The invariant says all the tables agree on.
LEMMA IInvAgrees == IInv => TablesAgree
<1> SUFFICES ASSUME IInv PROVE TablesAgree
  OBVIOUS
<1>1. \A j \in Jobs : Table(items[j], keys[j])
  BY DEF IInv, FilingInv
<1>2. TypeOK
  <2>1. \A j \in Jobs : /\ DOMAIN items[j] \in SUBSET Key
                        /\ items[j] \in [DOMAIN items[j] -> Seq(Items)]
    BY <1>1 DEF Table
  <2>2. items \in [Jobs -> {items[j] : j \in Jobs}]
    BY DEF IInv, FilingInv
  <2>3. keys \in [Jobs -> Seq(Key)]
    BY <1>1 DEF Table, IInv, FilingInv
  <2> QED
    BY <2>1, <2>2, <2>3 DEF TypeOK, IInv, StoresInv
<1>3. KeysAgree
  <2> SUFFICES ASSUME NEW j \in Jobs
               PROVE  /\ \A i, m \in DOMAIN keys[j] : i < m => Less(keys[j][i], keys[j][m])
                      /\ {keys[j][i] : i \in DOMAIN keys[j]} = DOMAIN items[j]
    BY DEF KeysAgree
  <2> QED
    BY <1>1 DEF Table, Sorted, Image
<1>4. ItemsFiled
  BY <1>1 DEF Table, ItemsFiled
<1> QED
  BY <1>2, <1>3, <1>4 DEF TablesAgree, IInv, StoresInv

\* It holds at first.
LEMMA IInvInit == Init => IInv
<1> SUFFICES ASSUME Init PROVE IInv
  OBVIOUS
<1>1. slots = [j \in Jobs |-> <<>>] /\ num = [j \in Jobs |-> 0]
      /\ memory = [b \in Buffers |-> Blank(IF b \in Held THEN "live" ELSE "none")]
  BY DEF Init, StoresInit
<1>2. StoresTypeOK
  <2>1. slots \in [Jobs -> Seq(Slot)] /\ num \in [Jobs -> Nat]
    BY <1>1
  <2>2. memory \in [Buffers -> Memory]
    BY <1>1, BlankType
  <2> QED
    BY <2>1, <2>2 DEF StoresTypeOK
<1>3. CountsAgree
  <2>1. \A j \in Jobs : UsedIn(slots[j]) = {}
    BY <1>1 DEF UsedIn
  <2>2. \A j \in Jobs : num[j] = Cardinality(UsedIn(slots[j]))
    BY <2>1, <1>1, FS_EmptySet
  <2> QED
    BY <2>2, CountsAre
<1>4. SlotsAreSound
  <2>1. \A b \in GivenBuffers : b \in Held /\ b \in Buffers
    BY StoredBuffersAssumption DEF GivenBuffers
  <2>2. \A b \in GivenBuffers : Live(b)
    BY <2>1, <1>1 DEF Live, Blank
  <2>3. \A j \in Jobs : DOMAIN slots[j] = {}
    BY <1>1
  <2> QED
    BY <2>2, <2>3 DEF SlotsAreSound
<1>5. FilingInv
  <2>1. items = [j \in Jobs |-> items[j]] /\ keys = [j \in Jobs |-> keys[j]]
    BY DEF Init
  <2>2. ASSUME NEW j \in Jobs PROVE Table(items[j], keys[j])
    <3>1. items[j] = [k \in {} |-> <<>>] /\ keys[j] = <<>>
      BY DEF Init
    <3> QED
      BY <3>1 DEF Table, Sorted, Image
  <2> QED
    BY <2>1, <2>2 DEF FilingInv
<1> QED
  BY <1>2, <1>3, <1>4, <1>5 DEF IInv, StoresInv, Init

\* No step breaks what the job relies on of its slots.
LEMMA StoresStep == IInv /\ [Next]_vars => StoresInv'
<1> SUFFICES ASSUME IInv, [Next]_vars PROVE StoresInv'
  OBVIOUS
<1> USE DEF IInv
<1>0. ASSUME UNCHANGED storeVars PROVE StoresInv'
  BY <1>0 DEF storeVars, StoresInv, StoresTypeOK, CountsAgree, SlotsAreSound, InUse, Live
<1>1. CASE \E j \in Jobs, item \in Items : AddItem(j, item)
  BY <1>0, <1>1 DEF AddItem
<1>2. CASE \E j \in Jobs, k \in Pairs, i \in 1..MaxItems : RemoveItem(j, k, i)
  BY <1>0, <1>2 DEF RemoveItem
<1>3. CASE \E j \in Jobs, k \in Pairs : Assign(j, k)
  BY <1>3, AssignedStores DEF Assign
<1>4. CASE \E j \in Jobs : AssignAll(j)
  BY <1>4, AssignedStores DEF AssignAll
<1>5. CASE \E j \in Jobs : AddBuffer(j)
  BY <1>5, StoreBufferStores DEF AddBuffer
<1>6. CASE \E j \in Jobs, id \in MinUserId .. MinUserId + MaxSlots : RemoveBuffer(j, id)
  <2>1. PICK j \in Jobs, id \in MinUserId .. MinUserId + MaxSlots : RemoveBuffer(j, id)
    BY <1>6
  <2>2. id \in Nat
    BY StoredBuffersAssumption
  <2> QED
    BY <1>0, <2>1, <2>2, DropBufferStores DEF RemoveBuffer
<1>7. CASE \E b \in Buffers : MoveBuffer(b)
  BY <1>7, MoveStores DEF MoveBuffer
<1>8. CASE \E j, k \in Jobs : CopyJob(j, k)
  BY <1>8, CopyStoresStores DEF CopyJob
<1>9. CASE UNCHANGED vars
  BY <1>0, <1>9 DEF vars
<1> QED
  BY <1>1, <1>2, <1>3, <1>4, <1>5, <1>6, <1>7, <1>8, <1>9 DEF Next

\* Every step but that of assign_all_addresses leaves no job settled.
LEMMA SettledStep ==
    [Next]_vars => \/ settled' = {}
                   \/ UNCHANGED vars
                   \/ \E j \in Jobs : AssignAll(j)
  BY DEF Next, AddItem, RemoveItem, Assign, AddBuffer, RemoveBuffer, MoveBuffer, CopyJob

\* The invariant is inductive.
LEMMA IInvStep == IInv /\ [Next]_vars => IInv'
<1> SUFFICES ASSUME IInv, [Next]_vars PROVE IInv'
  OBVIOUS
<1>1. StoresInv'
  BY StoresStep
<1>2. FilingInv'
  BY FilingStep DEF IInv
<1>3. settled' \in SUBSET Jobs
  BY SettledStep DEF IInv, AssignAll, vars
<1> QED
  BY <1>1, <1>2, <1>3 DEF IInv

\* The invariant holds throughout.
LEMMA Invariant == Spec => []IInv
  BY IInvInit, IInvStep, PTL DEF Spec

\* The map of items and the vector of pairs agree, the count of stored buffers
\* is that of the slots in use, and no slot names freed memory: after any calls
\* that store, remove, move or copy buffers and add, remove or apply items.
THEOREM ItemsTablesAgree == Spec => []TablesAgree
  BY Invariant, IInvAgrees, PTL

-----------------------------------------------------------------------------
(* What a success of assign_all_addresses says.                            *)

\* A success means that all pairs were reached.
LEMMA AllReached ==
    ASSUME NEW j \in Jobs, AssignAll(j), settled' # {}
    PROVE  /\ settled' = {j}
           /\ \A k \in DOMAIN items[j] : Succeeds(j, k)
           /\ memory' = Assigned(j, DOMAIN items[j])
<1>1. settled' = {j} /\ \A k \in DOMAIN items[j] : Succeeds(j, k)
  BY DEF AssignAll
<1>2. Reached(j) = DOMAIN items[j]
  BY <1>1 DEF Reached
<1> QED
  BY <1>1, <1>2 DEF AssignAll

\* Then every item has its destination written by one of the job's items for it.
LEMMA EveryItemWritten ==
    ASSUME StoresInv, FilingInv, NEW j \in Jobs,
           \A k \in DOMAIN items[j] : Succeeds(j, k),
           NEW k \in DOMAIN items[j], NEW i \in DOMAIN items[j][k]
    PROVE  LET b == BufferById(j, items[j][k][i].dest.id)
               o == items[j][k][i].dest.object
           IN  /\ b \in Buffers /\ memory[b].life = "live"
               /\ \E l \in DOMAIN items[j] : \E m \in DOMAIN items[j][l] :
                    /\ HasBuffers(j, l)
                    /\ BufferById(j, items[j][l][m].dest.id) = b
                    /\ items[j][l][m].dest.object = o
                    /\ Assigned(j, DOMAIN items[j])[b].pointer[o] = SourceAddress(j, items[j][l][m])
<1> DEFINE b == BufferById(j, items[j][k][i].dest.id)
           o == items[j][k][i].dest.object
           Ws == {w \in Writers(j, b, o) : w[1] \in DOMAIN items[j]}
<1>1. /\ items[j][k][i].dest.id = k[1] /\ items[j][k][i].dest.id \in Nat /\ o \in Objects
      /\ HasBuffers(j, k) /\ Matches(items[j][k][i].dest)
  BY ItemIs DEF Succeeds
<1>2. b \in Buffers /\ memory[b].life = "live"
  BY <1>1, BufferByIdIs DEF HasBuffers
<1>3. <<k, i>> \in Ws
  BY <1>1 DEF Writers
<1> HIDE DEF b, o
<1>4. PICK w \in Ws :
        Assigned(j, DOMAIN items[j])[b].pointer[o] = SourceAddress(j, items[j][w[1]][w[2]])
  BY <1>1, <1>2, <1>3, AssignedIs
<1>5. /\ w \in Places(items[j])
      /\ HasBuffers(j, w[1])
      /\ BufferById(j, items[j][w[1]][w[2]].dest.id) = b
      /\ items[j][w[1]][w[2]].dest.object = o
  BY <1>4 DEF Writers, Places
<1>6. w[1] \in DOMAIN items[j] /\ w[2] \in DOMAIN items[j][w[1]]
  BY <1>5, PlaceIs
<1> QED
  BY <1>2, <1>4, <1>5, <1>6 DEF b, o

AllItems(X) == UNION {{X[k][i] : i \in DOMAIN X[k]} : k \in DOMAIN X}

ItemCurrent(j, item) ==
    LET b == BufferById(j, item.dest.id)
        o == item.dest.object
        p == memory[b].pointer[o]
    IN  /\ memory[b].life = "live"
        /\ \E other \in AllItems(items[j]) :
            /\ BufferById(j, other.dest.id) = b /\ other.dest.object = o
            /\ p = SourceAddress(j, other)
        /\ p # Null => memory[p[1]].life = "live" /\ p[2] = memory[p[1]].place

AllCurrent == \A j \in settled : \A item \in AllItems(items[j]) : ItemCurrent(j, item)

\* The property, item by item.
LEMMA CurrentIs == AssignedIsCurrent <=> AllCurrent
<1> DEFINE Target(j, item) == <<BufferById(j, item.dest.id), item.dest.object>>
           P(j, item) == memory[Target(j, item)[1]].pointer[Target(j, item)[2]]
           Q(j, item) ==
                /\ memory[Target(j, item)[1]].life = "live"
                /\ \E other \in AllItems(items[j]) :
                    Target(j, other) = Target(j, item) /\ P(j, item) = SourceAddress(j, other)
                /\ P(j, item) # Null =>
                    memory[P(j, item)[1]].life = "live" /\ P(j, item)[2] = memory[P(j, item)[1]].place
<1>1. AssignedIsCurrent <=> \A j \in settled : \A item \in AllItems(items[j]) : Q(j, item)
  BY DEF AssignedIsCurrent, AllItems, Live
<1>2. ASSUME NEW j, NEW item PROVE Q(j, item) <=> ItemCurrent(j, item)
  <2>1. P(j, item) = memory[BufferById(j, item.dest.id)].pointer[item.dest.object]
    OBVIOUS
  <2>2. memory[Target(j, item)[1]].life = memory[BufferById(j, item.dest.id)].life
    OBVIOUS
  <2>3. \A other : Target(j, other) = Target(j, item) <=>
            BufferById(j, other.dest.id) = BufferById(j, item.dest.id)
            /\ other.dest.object = item.dest.object
    OBVIOUS
  <2> HIDE DEF Target, P
  <2> QED
    BY <2>1, <2>2, <2>3 DEF ItemCurrent
<1> HIDE DEF Q
<1> QED
  BY <1>1, <1>2 DEF AllCurrent

\* So a success leaves every destination current.
LEMMA AssignAllCurrent ==
    ASSUME IInv, NEW j \in Jobs, AssignAll(j)
    PROVE  AssignedIsCurrent'
<1>0. CASE settled' = {}
  BY <1>0 DEF AssignedIsCurrent
<1>1. CASE settled' # {}
  <2>1. /\ settled' = {j}
        /\ \A k \in DOMAIN items[j] : Succeeds(j, k)
        /\ memory' = Assigned(j, DOMAIN items[j])
    BY <1>1, AllReached
  <2>2. slots' = slots /\ num' = num /\ items' = items
    BY DEF AssignAll
  <2>3. StoresInv /\ FilingInv
    BY DEF IInv
  <2>4. \A x \in Buffers : memory'[x].life = memory[x].life /\ memory'[x].place = memory[x].place
    BY <2>1, <2>3, AssignedIs
  <2>5. \A id : BufferById(j, id)' = BufferById(j, id)
    BY <2>2 DEF BufferById, IsStoredId, MinStoredId, Index
  <2>6. ASSUME NEW other, BufferById(j, other.src.id) \in Buffers
        PROVE  SourceAddress(j, other)' = SourceAddress(j, other)
    <3>1. BufferById(j, other.src.id)' = BufferById(j, other.src.id)
      BY <2>5
    <3> QED
      BY <2>6, <3>1, <2>4 DEF SourceAddress, AddressOf
  <2> DEFINE All == AllItems(items[j])
  <2>7. ASSUME NEW item \in All
        PROVE  LET b == BufferById(j, item.dest.id)
                   o == item.dest.object
                   p == memory'[b].pointer[o]
               IN  /\ memory'[b].life = "live"
                   /\ \E other \in All :
                        /\ BufferById(j, other.dest.id) = b
                        /\ other.dest.object = o
                        /\ p = SourceAddress(j, other)'
                   /\ p # Null => memory'[p[1]].life = "live" /\ p[2] = memory'[p[1]].place
    <3> DEFINE b == BufferById(j, item.dest.id)
               o == item.dest.object
               p == memory'[b].pointer[o]
    <3>1. PICK k \in DOMAIN items[j] : \E i \in DOMAIN items[j][k] : item = items[j][k][i]
      BY DEF AllItems
    <3>2. PICK i \in DOMAIN items[j][k] : item = items[j][k][i]
      BY <3>1
    <3>3. b \in Buffers /\ memory[b].life = "live"
      BY <2>1, <2>3, <3>2, EveryItemWritten
    <3> HIDE DEF All
    <3>4. PICK l \in DOMAIN items[j] : \E m \in DOMAIN items[j][l] :
                    /\ HasBuffers(j, l)
                    /\ BufferById(j, items[j][l][m].dest.id) = b
                    /\ items[j][l][m].dest.object = o
                    /\ p = SourceAddress(j, items[j][l][m])
      <4>1. p = Assigned(j, DOMAIN items[j])[b].pointer[o]
        BY <2>1
      <4> HIDE DEF p
      <4>2. /\ b = BufferById(j, items[j][k][i].dest.id)
            /\ o = items[j][k][i].dest.object
        BY <3>2
      <4>3. \E l \in DOMAIN items[j] : \E m \in DOMAIN items[j][l] :
                /\ HasBuffers(j, l)
                /\ BufferById(j, items[j][l][m].dest.id) = BufferById(j, items[j][k][i].dest.id)
                /\ items[j][l][m].dest.object = items[j][k][i].dest.object
                /\ Assigned(j, DOMAIN items[j])[BufferById(j, items[j][k][i].dest.id)]
                    .pointer[items[j][k][i].dest.object] = SourceAddress(j, items[j][l][m])
        BY <2>1, <2>3, EveryItemWritten
      <4> HIDE DEF b, o
      <4> QED
        BY <4>1, <4>2, <4>3
    <3>5. PICK m \in DOMAIN items[j][l] :
                    /\ HasBuffers(j, l)
                    /\ BufferById(j, items[j][l][m].dest.id) = b
                    /\ items[j][l][m].dest.object = o
                    /\ p = SourceAddress(j, items[j][l][m])
      BY <3>4
    <3> HIDE DEF b, o, p
    <3>6. p # Null => p[1] \in Buffers /\ memory[p[1]].life = "live" /\ p[2] = memory[p[1]].place
      BY <2>3, <3>5, SourceAddressIs
    <3>7. PICK other \in All : other = items[j][l][m]
      BY DEF All, AllItems
    <3>8. other.src.id = l[2] /\ other.src.id \in Nat
      BY <2>3, <3>7, ItemIs
    <3>9. BufferById(j, other.src.id) \in Buffers
      BY <2>3, <3>5, <3>8, BufferByIdIs DEF HasBuffers
    <3>10. SourceAddress(j, other)' = p
      BY <2>6, <3>5, <3>7, <3>9
    <3>11. memory'[b].life = "live"
      BY <3>3, <2>4
    <3>12. p # Null => memory'[p[1]].life = "live" /\ p[2] = memory'[p[1]].place
      BY <3>6, <2>4
    <3>13. BufferById(j, other.dest.id) = b /\ other.dest.object = o
      BY <3>5, <3>7
    <3> QED
      BY <3>10, <3>11, <3>12, <3>13 DEF b, o, p
  <2>8. ASSUME NEW item \in All PROVE ItemCurrent(j, item)'
    <3>1. BufferById(j, item.dest.id)' = BufferById(j, item.dest.id)
      BY <2>5
    <3>2. \A other : BufferById(j, other.dest.id)' = BufferById(j, other.dest.id)
      BY <2>5
    <3>3. AllItems(items[j])' = All
      BY <2>2
    <3> DEFINE b == BufferById(j, item.dest.id)
               p == memory'[b].pointer[item.dest.object]
    <3> HIDE DEF All
    <3>4. /\ memory'[b].life = "live"
          /\ p # Null => memory'[p[1]].life = "live" /\ p[2] = memory'[p[1]].place
      BY <2>7
    <3>5. \E other \in All :
            /\ BufferById(j, other.dest.id)' = b /\ other.dest.object = item.dest.object
            /\ p = SourceAddress(j, other)'
      <4>1. PICK other \in All :
            /\ BufferById(j, other.dest.id) = b /\ other.dest.object = item.dest.object
            /\ p = SourceAddress(j, other)'
        BY <2>7
      <4>2. BufferById(j, other.dest.id)' = BufferById(j, other.dest.id)
        BY <3>2
      <4> HIDE DEF b, p
      <4> QED
        BY <4>1, <4>2
    <3> HIDE DEF b, p
    <3>6. b = BufferById(j, item.dest.id)' /\ p = memory'[b].pointer[item.dest.object]
      BY <3>1 DEF b, p
    <3> QED
      BY <3>3, <3>4, <3>5, <3>6 DEF ItemCurrent
  <2>9. AllCurrent'
    BY <2>1, <2>2, <2>8 DEF AllCurrent
  <2> QED
    BY <2>9, CurrentIs, PTL
<1> QED
  BY <1>0, <1>1

\* When assign_all_addresses reports success, every destination points to where
\* a source for it is, in allocated memory, or is null for a source of the wrong
\* type: for any items, any buffers stored, removed, moved and copied before.
THEOREM ItemsAssignedIsCurrent == Spec => []AssignedIsCurrent
<1>1. Init => AssignedIsCurrent
  BY DEF Init, AssignedIsCurrent
<1>2. IInv /\ AssignedIsCurrent /\ [Next]_vars => AssignedIsCurrent'
  <2> SUFFICES ASSUME IInv, AssignedIsCurrent, [Next]_vars PROVE AssignedIsCurrent'
    OBVIOUS
  <2>1. CASE settled' = {}
    BY <2>1 DEF AssignedIsCurrent
  <2>2. CASE UNCHANGED vars
    <3>1. /\ slots' = slots /\ num' = num /\ memory' = memory
          /\ items' = items /\ settled' = settled
      BY <2>2 DEF vars, storeVars
    <3>2. \A j, id : BufferById(j, id)' = BufferById(j, id)
      BY <3>1 DEF BufferById, IsStoredId, MinStoredId, Index
    <3>3. \A j, item : SourceAddress(j, item)' = SourceAddress(j, item)
      BY <3>1, <3>2 DEF SourceAddress, AddressOf
    <3>4. ASSUME NEW j, NEW item PROVE ItemCurrent(j, item)' <=> ItemCurrent(j, item)
      <4>1. AllItems(items[j])' = AllItems(items[j])
        BY <3>1
      <4>2. BufferById(j, item.dest.id)' = BufferById(j, item.dest.id)
        BY <3>2
      <4>3. \A other : /\ BufferById(j, other.dest.id)' = BufferById(j, other.dest.id)
                       /\ SourceAddress(j, other)' = SourceAddress(j, other)
        BY <3>2, <3>3
      <4> QED
        BY <3>1, <4>1, <4>2, <4>3 DEF ItemCurrent
    <3>5. AllCurrent'
      BY <3>1, <3>4, CurrentIs DEF AllCurrent
    <3> QED
      BY <3>5, CurrentIs, PTL
  <2>3. CASE \E j \in Jobs : AssignAll(j)
    BY <2>3, AssignAllCurrent
  <2> QED
    BY <2>1, <2>2, <2>3, SettledStep
<1> QED
  BY <1>1, <1>2, Invariant, PTL DEF Spec

-----------------------------------------------------------------------------
(* What an id names.                                                       *)

\* The buffer that an id is for, from the slots and the count.
ById(s, n, id) ==
    IF id \in FixedIds THEN Given[id]
    ELSE IF n > 0 /\ id >= MinUserId /\ id < MinUserId + Len(s) THEN s[id - MinUserId + 1].buffer
    ELSE NoBuffer

\* Ids of no slot are those below the first one.
LEMMA ByIdIs ==
    ASSUME NEW j, NEW id \in Nat
    PROVE  /\ BufferById(j, id) = ById(slots[j], num[j], id)
           /\ BufferById(j, id)' = ById(slots'[j], num'[j], id)
<1>1. MinUserId \in Nat /\ MinUserId > 5
  BY StoredBuffersAssumption
<1>2. BufferById(j, id) = ById(slots[j], num[j], id)
  <2>1. MinStoredId(j) = IF num[j] > 0 THEN MinUserId ELSE 0
    BY DEF MinStoredId, IllegalId
  <2>2. IsStoredId(j, id) <=> num[j] > 0 /\ id >= MinUserId /\ id < MinUserId + Len(slots[j])
    <3>1. CASE num[j] > 0
      <4>1. MinStoredId(j) = MinUserId /\ MinUserId # 0
        BY <1>1, <2>1, <3>1
      <4>2. id >= MinUserId => id # 0
        BY <1>1
      <4> QED
        BY <3>1, <4>1, <4>2 DEF IsStoredId, IllegalId
    <3>2. CASE ~(num[j] > 0)
      <4>1. MinStoredId(j) = 0
        BY <2>1, <3>2
      <4> QED
        BY <3>2, <4>1 DEF IsStoredId, IllegalId
    <3> QED
      BY <3>1, <3>2
  <2>3. num[j] > 0 => Index(j, id) = id - MinUserId + 1
    BY <2>1 DEF Index
  <2> QED
    BY <2>2, <2>3 DEF BufferById, ById
<1>3. BufferById(j, id)' = ById(slots'[j], num'[j], id)
  <2>1. MinStoredId(j)' = IF num'[j] > 0 THEN MinUserId ELSE 0
    BY DEF MinStoredId, IllegalId
  <2>2. IsStoredId(j, id)' <=> num'[j] > 0 /\ id >= MinUserId /\ id < MinUserId + Len(slots'[j])
    <3>1. CASE num'[j] > 0
      <4>1. MinStoredId(j)' = MinUserId /\ MinUserId # 0
        BY <1>1, <2>1, <3>1
      <4>2. id >= MinUserId => id # 0
        BY <1>1
      <4> QED
        BY <3>1, <4>1, <4>2 DEF IsStoredId, IllegalId
    <3>2. CASE ~(num'[j] > 0)
      <4>1. MinStoredId(j)' = 0
        BY <2>1, <3>2
      <4> QED
        BY <3>2, <4>1 DEF IsStoredId, IllegalId
    <3> QED
      BY <3>1, <3>2
  <2>3. num'[j] > 0 => Index(j, id)' = id - MinUserId + 1
    BY <2>1 DEF Index
  <2> QED
    BY <2>2, <2>3 DEF BufferById, ById
<1> QED
  BY <1>2, <1>3

\* An id of a slot names what is in the slot, even if no slot is in use.
LEMMA ByIdSlot ==
    ASSUME NEW s \in Seq(Slot), NEW i \in DOMAIN s
    PROVE  ById(s, Cardinality(UsedIn(s)), MinUserId + i - 1) = s[i].buffer
<1> DEFINE n == Cardinality(UsedIn(s))
           id == MinUserId + i - 1
<1>1. /\ MinUserId \in Nat /\ MinUserId > 5 /\ i \in Nat /\ i >= 1 /\ i <= Len(s) /\ Len(s) \in Nat
  BY StoredBuffersAssumption
<1>2. /\ id \notin FixedIds /\ id >= MinUserId /\ id < MinUserId + Len(s)
      /\ id - MinUserId + 1 = i
  BY <1>1 DEF FixedIds
<1> HIDE DEF id
<1>3. CASE n > 0
  BY <1>2, <1>3 DEF ById, id
<1>4. CASE ~(n > 0)
  <2>1. UsedIn(s) = {}
    <3>1. n \in Nat /\ IsFiniteSet(UsedIn(s))
      BY UsedFinite
    <3>2. n = 0
      BY <1>4, <3>1
    <3> QED
      BY <3>1, <3>2, FS_EmptySet
  <2>2. s[i].buffer = NoBuffer
    BY <2>1 DEF UsedIn, Active
  <2> QED
    BY <1>2, <1>4, <2>2 DEF ById, id
<1> QED
  BY <1>3, <1>4

\* A slot keeps its buffer or holds none, unless the whole job is replaced.
LEMMA SlotsStay ==
    ASSUME IInv, [Next]_vars, NEW j \in Jobs, ~ \E k \in Jobs : CopyJob(k, j)
    PROVE  \A i \in DOMAIN slots[j] :
              i \in DOMAIN slots'[j] /\ slots'[j][i].buffer \in {slots[j][i].buffer, NoBuffer}
<1> DEFINE Stay == \A i \in DOMAIN slots[j] :
              i \in DOMAIN slots'[j] /\ slots'[j][i].buffer \in {slots[j][i].buffer, NoBuffer}
<1>0. slots \in [Jobs -> Seq(Slot)] /\ slots[j] \in Seq(Slot)
  BY DEF IInv, StoresInv, StoresTypeOK
<1>1. ASSUME slots' = slots PROVE Stay
  BY <1>1
<1>2. CASE \/ \E l \in Jobs, item \in Items : AddItem(l, item)
           \/ \E l \in Jobs, k \in Pairs, i \in 1..MaxItems : RemoveItem(l, k, i)
           \/ \E l \in Jobs, k \in Pairs : Assign(l, k)
           \/ \E l \in Jobs : AssignAll(l)
           \/ \E b \in Buffers : MoveBuffer(b)
           \/ UNCHANGED vars
  <2>1. slots' = slots
    BY <1>2 DEF AddItem, RemoveItem, Assign, AssignAll, MoveBuffer, Move, vars, storeVars
  <2> QED
    BY <1>1, <2>1
<1>3. ASSUME NEW l \in Jobs, AddBuffer(l) PROVE Stay
  <2>1. PICK b \in Pointers, owned \in BOOLEAN :
            slots' = [slots EXCEPT ![l] = Append(slots[l], NewSlot(b, owned))]
    BY <1>3 DEF AddBuffer, StoreBuffer
  <2>2. CASE l = j
    <3>1. slots'[j] = Append(slots[j], NewSlot(b, owned)) /\ NewSlot(b, owned) \in Slot
      BY <1>0, <2>1, <2>2, NewSlotType
    <3> QED
      BY <1>0, <3>1, AppendProperties
  <2>3. CASE l # j
    BY <1>0, <2>1, <2>3
  <2> QED
    BY <2>2, <2>3
<1>4. ASSUME NEW l \in Jobs, NEW id \in MinUserId .. MinUserId + MaxSlots, RemoveBuffer(l, id)
      PROVE  Stay
  <2>1. CASE slots' = slots
    BY <1>1, <2>1
  <2>2. CASE slots' # slots
    <3>1. slots' = [slots EXCEPT ![l] = [slots[l] EXCEPT ![Index(l, id)] = Empty]]
      BY <1>4, <2>2 DEF RemoveBuffer, DropBuffer, storeVars
    <3>2. Empty.buffer = NoBuffer
      BY DEF Empty
    <3> QED
      BY <1>0, <3>1, <3>2
  <2> QED
    BY <2>1, <2>2
<1>5. ASSUME NEW l \in Jobs, NEW k \in Jobs, CopyJob(l, k) PROVE Stay
  <2>1. k # j
    BY <1>5
  <2>2. slots'[j] = slots[j]
    BY <1>0, <1>5, <2>1 DEF CopyJob, CopyStores
  <2> QED
    BY <2>2
<1> QED
  BY <1>2, <1>3, <1>4, <1>5 DEF Next

\* An id that a job has handed out names its buffer or, once that is removed,
\* none, for ever: items that outlive a buffer never act on another.
THEOREM ItemsIdsNameOneBuffer == Spec => IdsNameOneBuffer
<1> DEFINE A == \A j \in Jobs :
        \/ \A id \in MinUserId .. MinUserId + Len(slots[j]) - 1 :
                BufferById(j, id)' \in {BufferById(j, id), NoBuffer}
        \/ \E k \in Jobs : CopyJob(k, j)
<1>1. IInv /\ IInv' /\ [Next]_vars => A
  <2> SUFFICES ASSUME IInv, IInv', [Next]_vars, NEW j \in Jobs, ~ \E k \in Jobs : CopyJob(k, j),
                      NEW id \in MinUserId .. MinUserId + Len(slots[j]) - 1
               PROVE  BufferById(j, id)' \in {BufferById(j, id), NoBuffer}
    OBVIOUS
  <2>1. /\ slots[j] \in Seq(Slot) /\ num[j] = Cardinality(UsedIn(slots[j]))
    BY CountsAre DEF IInv, StoresInv, StoresTypeOK
  <2>2. slots'[j] \in Seq(Slot) /\ num'[j] = Cardinality(UsedIn(slots'[j]))
    BY DEF IInv, StoresInv, StoresTypeOK, CountsAgree, InUse, UsedIn, Active, Slot, Pointers
  <2> DEFINE i == id - MinUserId + 1
  <2>3. id \in Nat /\ i \in DOMAIN slots[j] /\ id = MinUserId + i - 1
    BY <2>1, StoredBuffersAssumption
  <2> HIDE DEF i
  <2>4. i \in DOMAIN slots'[j] /\ slots'[j][i].buffer \in {slots[j][i].buffer, NoBuffer}
    BY <2>3, SlotsStay
  <2>5. BufferById(j, id) = slots[j][i].buffer
    BY <2>1, <2>3, ByIdIs, ByIdSlot
  <2>6. BufferById(j, id)' = slots'[j][i].buffer
    BY <2>2, <2>3, <2>4, ByIdIs, ByIdSlot
  <2> QED
    BY <2>4, <2>5, <2>6
<1> QED
  BY <1>1, Invariant, PTL DEF Spec, IdsNameOneBuffer
=============================================================================
