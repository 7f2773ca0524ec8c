-------------------------- MODULE BookArraysProofs --------------------------
(***************************************************************************)
(* What the operations on arrays do to a book: they keep its types,        *)
(* whatever it holds, and on a legal book each is the operation of         *)
(* Matching on the sets of orders the arrays stand for.                    *)
(*                                                                         *)
(* ArraysLegal is what every operation finds and leaves behind on a legal  *)
(* book.  That the arrays are sorted is not inductive by itself: a sort    *)
(* puts two orders in one order only when their ids differ, which the      *)
(* legal book they stand for knows, and that book stays legal by the       *)
(* lemmas about Matching's own operations.                                 *)
(***************************************************************************)
EXTENDS BookArrays, MatchingProofs

\* The types of the locals of addOrder, and of the arrays.
CallTyped(c) ==
  /\ c \in [order: Order, matchingOrders: Seq(Order), round: Nat \ {0}, matches: Seq(Match)]
  /\ c.round <= Len(c.matchingOrders) + 1

ArraysTyped ==
  /\ buyOrders \in Seq(Order) /\ sellOrders \in Seq(Order) /\ matches \in Seq(Match)
  /\ Called => CallTyped(call)

\* The locals of addOrder on a legal book.
LocalsOK(c) == CallTyped(c) /\ InOrder(c.matchingOrders)

\* The arrays are sorted, and what they stand for is a legal book.
ArraysLegal ==
  /\ buyOrders \in Seq(Order) /\ sellOrders \in Seq(Order)
  /\ ArraysSorted
  /\ Called => LocalsOK(call)
  /\ LegalBook(TheBook)

\* The array of the orders of type t.
ArrayOf(t) == IF t = "buy" THEN buyOrders ELSE sellOrders

-----------------------------------------------------------------------------
(* The sort, the filter and the splice.                                    *)

\* The comparator of a side, on any two orders; among those of the side it is
\* Precedes.
LEMMA PrecedesOnMeans ==
  ASSUME NEW t \in OrderType, NEW a \in Order, NEW b \in Order
  PROVE  /\ PrecedesOn(t, a, b) <=>
              \/ BetterPrice(t, a.price, b.price)
              \/ /\ a.price = b.price
                 /\ \/ a.timestamp < b.timestamp
                    \/ a.timestamp = b.timestamp /\ a.id < b.id
         /\ a.type = t /\ b.type = t => (PrecedesOn(t, a, b) <=> Precedes(a, b))
<1> DEFINE c == [a EXCEPT !.type = t]
           d == [b EXCEPT !.type = t]
<1>1. /\ c.type = t /\ c.price = a.price /\ c.timestamp = a.timestamp /\ c.id = a.id
      /\ d.price = b.price /\ d.timestamp = b.timestamp /\ d.id = b.id
  BY DEF Order
<1>2. PrecedesOn(t, a, b) <=> Precedes(c, d)
  BY DEF PrecedesOn
<1> HIDE DEF c, d
<1>3. QED
  BY <1>1, <1>2 DEF Precedes

\* At one price: the earlier time, then the smaller id, then the earlier position.
Later(time1, id1, pos1, time2, id2, pos2) ==
  \/ time1 < time2
  \/ /\ time1 = time2
     /\ \/ id1 < id2
        \/ id1 = id2 /\ pos1 < pos2

LEMMA LaterThanLater ==
  ASSUME NEW t1 \in Nat, NEW i1 \in Nat, NEW p1 \in Nat,
         NEW t2 \in Nat, NEW i2 \in Nat, NEW p2 \in Nat,
         NEW t3 \in Nat, NEW i3 \in Nat, NEW p3 \in Nat,
         Later(t1, i1, p1, t2, i2, p2), Later(t2, i2, p2, t3, i3, p3)
  PROVE  Later(t1, i1, p1, t3, i3, p3)
BY DEF Later

\* The sort compares positions: those of equal orders keep their order.
LEMMA PositionsLineUp ==
  ASSUME NEW orders \in Seq(Order), NEW P \in SUBSET (DOMAIN orders), NEW t \in OrderType
  PROVE  LinesUp({p \in P \X P :
                    LET a == orders[p[1]]
                        b == orders[p[2]]
                    IN PrecedesOn(t, a, b) \/ (p[1] < p[2] /\ ~PrecedesOn(t, b, a))},
                 P)
<1> DEFINE before == {p \in P \X P :
                        LET a == orders[p[1]]
                            b == orders[p[2]]
                        IN PrecedesOn(t, a, b) \/ (p[1] < p[2] /\ ~PrecedesOn(t, b, a))}
           Less(i, j) == \/ PrecedesOn(t, orders[i], orders[j])
                         \/ i < j /\ ~PrecedesOn(t, orders[j], orders[i])
<1>1. \A i \in P : i \in Nat /\ orders[i] \in Order
  OBVIOUS
<1>2. \A i, j \in P : <<i, j>> \in before <=> Less(i, j)
  OBVIOUS
<1>3. ASSUME NEW i \in P, NEW j \in P
      PROVE  PrecedesOn(t, orders[i], orders[j]) <=>
               \/ BetterPrice(t, orders[i].price, orders[j].price)
               \/ /\ orders[i].price = orders[j].price
                  /\ \/ orders[i].timestamp < orders[j].timestamp
                     \/ orders[i].timestamp = orders[j].timestamp /\ orders[i].id < orders[j].id
  BY <1>1, PrecedesOnMeans
<1>4. \A i \in P : /\ orders[i].price \in Nat /\ orders[i].timestamp \in Nat
                   /\ orders[i].id \in Nat
  BY <1>1 DEF Order
<1> HIDE DEF before
<1>5. \A i \in P : ~Less(i, i)
  BY <1>1, <1>3, <1>4 DEF BetterPrice
<1>6. \A i, j \in P : i # j => Less(i, j) \/ Less(j, i)
  BY <1>1
<1>7. ASSUME NEW i \in P, NEW j \in P, NEW k \in P, Less(i, j), Less(j, k) PROVE Less(i, k)
  <2>1. \A m, n \in P : Less(m, n) <=>
          \/ BetterPrice(t, orders[m].price, orders[n].price)
          \/ /\ orders[m].price = orders[n].price
             /\ Later(orders[m].timestamp, orders[m].id, m, orders[n].timestamp, orders[n].id, n)
    <3> SUFFICES ASSUME NEW m \in P, NEW n \in P
                 PROVE  Less(m, n) <=>
                          \/ BetterPrice(t, orders[m].price, orders[n].price)
                          \/ /\ orders[m].price = orders[n].price
                             /\ Later(orders[m].timestamp, orders[m].id, m,
                                      orders[n].timestamp, orders[n].id, n)
      OBVIOUS
    <3> DEFINE a == orders[m]  b == orders[n]
    <3>1. /\ PrecedesOn(t, a, b) <=>
               \/ BetterPrice(t, a.price, b.price)
               \/ /\ a.price = b.price
                  /\ a.timestamp < b.timestamp \/ (a.timestamp = b.timestamp /\ a.id < b.id)
          /\ PrecedesOn(t, b, a) <=>
               \/ BetterPrice(t, b.price, a.price)
               \/ /\ b.price = a.price
                  /\ b.timestamp < a.timestamp \/ (b.timestamp = a.timestamp /\ b.id < a.id)
      BY <1>3
    <3>2. /\ a.price \in Nat /\ b.price \in Nat /\ a.timestamp \in Nat /\ b.timestamp \in Nat
          /\ a.id \in Nat /\ b.id \in Nat /\ m \in Nat /\ n \in Nat
      BY <1>1, <1>4
    <3>3. Less(m, n) <=> \/ PrecedesOn(t, a, b)
                         \/ m < n /\ ~PrecedesOn(t, b, a)
      OBVIOUS
    <3> HIDE DEF Less, a, b
    <3>4. /\ BetterPrice(t, a.price, b.price) => a.price # b.price
          /\ BetterPrice(t, b.price, a.price) => a.price # b.price
          /\ a.price # b.price =>
               (BetterPrice(t, a.price, b.price) <=> ~BetterPrice(t, b.price, a.price))
      BY <3>2 DEF BetterPrice
    <3>5. CASE a.price = b.price
      BY <3>1, <3>2, <3>3, <3>4, <3>5 DEF Later, a, b
    <3>6. CASE a.price # b.price
      BY <3>1, <3>3, <3>4, <3>6 DEF a, b
    <3>7. QED
      BY <3>5, <3>6
  <2> HIDE DEF Less
  <2>2. \A m \in P : m \in Nat /\ orders[m].timestamp \in Nat /\ orders[m].id \in Nat
    BY <1>1, <1>4
  <2>3. CASE orders[i].price = orders[j].price /\ orders[j].price = orders[k].price
    <3>1. /\ Later(orders[i].timestamp, orders[i].id, i, orders[j].timestamp, orders[j].id, j)
          /\ Later(orders[j].timestamp, orders[j].id, j, orders[k].timestamp, orders[k].id, k)
      BY <1>4, <1>7, <2>1, <2>3 DEF BetterPrice
    <3>2. Later(orders[i].timestamp, orders[i].id, i, orders[k].timestamp, orders[k].id, k)
      BY <2>2, <3>1, LaterThanLater
    <3>3. QED
      BY <2>1, <2>3, <3>2
  <2>4. CASE orders[i].price # orders[j].price \/ orders[j].price # orders[k].price
    <3>1. /\ BetterPrice(t, orders[i].price, orders[j].price) \/ orders[i].price = orders[j].price
          /\ BetterPrice(t, orders[j].price, orders[k].price) \/ orders[j].price = orders[k].price
      BY <1>7, <2>1
    <3>2. BetterPrice(t, orders[i].price, orders[k].price)
      BY <1>4, <2>4, <3>1 DEF BetterPrice
    <3>3. QED
      BY <2>1, <3>2
  <2>5. QED
    BY <2>3, <2>4
<1> HIDE DEF Less
<1>8. LinesUp(before, P)
  BY <1>2, <1>5, <1>6, <1>7 DEF LinesUp
<1>9. QED
  BY <1>8 DEF before

\* What the sort returns: the orders at the positions, none before one that should
\* precede it.
LEMMA SortedAtHolds ==
  ASSUME NEW orders \in Seq(Order), NEW P \in SUBSET (DOMAIN orders), NEW t \in OrderType
  PROVE  LET s == SortedAt(t, orders, P)
         IN /\ s \in Seq(Order)
            /\ ToSet(s) = {orders[i] : i \in P}
            /\ \A i, j \in DOMAIN s : i < j =>
                 \E p, q \in P : /\ p # q /\ s[i] = orders[p] /\ s[j] = orders[q]
                                 /\ \/ PrecedesOn(t, orders[p], orders[q])
                                    \/ ~PrecedesOn(t, orders[q], orders[p])
<1> DEFINE before == {p \in P \X P :
                        LET a == orders[p[1]]
                            b == orders[p[2]]
                        IN PrecedesOn(t, a, b) \/ (p[1] < p[2] /\ ~PrecedesOn(t, b, a))}
           line == Ranked(P, before)
           n == Cardinality(P)
           s == SortedAt(t, orders, P)
<1>1. IsFiniteSet(P) /\ \A i \in P : orders[i] \in Order /\ i \in Nat
  <2>1. DOMAIN orders = 1..Len(orders) /\ Len(orders) \in Nat
    OBVIOUS
  <2>2. IsFiniteSet(1..Len(orders))
    BY <2>1, FS_Interval
  <2>3. QED
    BY <2>1, <2>2, FS_Subset
<1>2. LinesUp(before, P)
  BY PositionsLineUp
<1>3. \A i, j \in P : <<i, j>> \in before =>
        /\ i # j
        /\ PrecedesOn(t, orders[i], orders[j]) \/ ~PrecedesOn(t, orders[j], orders[i])
  <2>1. \A i, j \in P : <<i, j>> \in before => i # j
    <3> HIDE DEF before
    <3>1. QED
      BY <1>2 DEF LinesUp
  <2>2. \A i, j \in P : <<i, j>> \in before =>
          PrecedesOn(t, orders[i], orders[j]) \/ ~PrecedesOn(t, orders[j], orders[i])
    OBVIOUS
  <2>3. QED
    BY <2>1, <2>2
<1>4. s = [k \in 1..n |-> orders[line[k]]]
  BY DEF SortedAt
<1> HIDE DEF before
<1>5. /\ n \in Nat
      /\ line \in [1..n -> P]
      /\ \A i, j \in 1..n : i < j => <<line[i], line[j]>> \in before
      /\ \A i \in P : \E k \in 1..n : line[k] = i
  BY <1>1, <1>2, RankedLine
<1> HIDE DEF line, n, s
<1>6. s \in Seq(Order) /\ DOMAIN s = 1..n
  BY <1>1, <1>4, <1>5
<1>7. \A k \in 1..n : line[k] \in P /\ s[k] = orders[line[k]]
  BY <1>4, <1>5
<1>8. ToSet(s) = {orders[i] : i \in P}
  <2>1. ToSet(s) = {s[k] : k \in 1..n}
    BY <1>6 DEF ToSet
  <2>2. \A x \in ToSet(s) : x \in {orders[i] : i \in P}
    BY <1>7, <2>1
  <2>3. ASSUME NEW i \in P PROVE orders[i] \in ToSet(s)
    <3>1. PICK k \in 1..n : line[k] = i
      BY <1>5
    <3>2. QED
      BY <1>7, <2>1, <3>1
  <2>4. QED
    BY <2>2, <2>3
<1>9. ASSUME NEW i \in DOMAIN s, NEW j \in DOMAIN s, i < j
      PROVE  \E p, q \in P : /\ p # q /\ s[i] = orders[p] /\ s[j] = orders[q]
                             /\ \/ PrecedesOn(t, orders[p], orders[q])
                                \/ ~PrecedesOn(t, orders[q], orders[p])
  <2>1. line[i] \in P /\ line[j] \in P /\ <<line[i], line[j]>> \in before
    BY <1>5, <1>6, <1>9
  <2>2. s[i] = orders[line[i]] /\ s[j] = orders[line[j]]
    BY <1>6, <1>7
  <2>3. QED
    BY <1>3, <2>1, <2>2
<1>10. QED
  BY <1>6, <1>8, <1>9 DEF s

\* Orders of one side with different ids come out in order.
LEMMA SortedAtSorts ==
  ASSUME NEW orders \in Seq(Order), NEW P \in SUBSET (DOMAIN orders),
         NEW t \in OrderType,
         \A i \in P : orders[i].type = t,
         \A i, j \in P : orders[i].id = orders[j].id => i = j
  PROVE  LET s == SortedAt(t, orders, P)
         IN /\ s \in Seq(Order)
            /\ ToSet(s) = {orders[i] : i \in P}
            /\ InOrder(s)
<1> DEFINE s == SortedAt(t, orders, P)
<1>1. /\ s \in Seq(Order)
      /\ ToSet(s) = {orders[i] : i \in P}
      /\ \A i, j \in DOMAIN s : i < j =>
           \E p, q \in P : /\ p # q /\ s[i] = orders[p] /\ s[j] = orders[q]
                           /\ \/ PrecedesOn(t, orders[p], orders[q])
                              \/ ~PrecedesOn(t, orders[q], orders[p])
  BY SortedAtHolds
<1> HIDE DEF s
<1>2. ASSUME NEW p \in P, NEW q \in P, p # q
      PROVE  ~PrecedesOn(t, orders[q], orders[p]) => PrecedesOn(t, orders[p], orders[q])
  <2>1. orders[p] \in Order /\ orders[q] \in Order /\ orders[p].id # orders[q].id
    BY <1>2
  <2>2. /\ orders[p].price \in Nat /\ orders[p].timestamp \in Nat /\ orders[p].id \in Nat
        /\ orders[q].price \in Nat /\ orders[q].timestamp \in Nat /\ orders[q].id \in Nat
    BY <2>1 DEF Order
  <2>3. QED
    BY <2>1, <2>2, PrecedesOnMeans DEF BetterPrice
<1>3. ASSUME NEW p \in P, NEW q \in P
      PROVE  PrecedesOn(t, orders[p], orders[q]) <=> Precedes(orders[p], orders[q])
  <2>1. orders[p] \in Order /\ orders[q] \in Order
    OBVIOUS
  <2>2. QED
    BY <2>1, PrecedesOnMeans
<1>4. InOrder(s)
  BY <1>1, <1>2, <1>3 DEF InOrder
<1>5. QED
  BY <1>1, <1>4 DEF s

\* An array in order holds every order once.
LEMMA InOrderOnce ==
  ASSUME NEW s \in Seq(Order), NEW t \in OrderType,
         \A i \in DOMAIN s : s[i].type = t,
         InOrder(s)
  PROVE  \A i, j \in DOMAIN s : s[i] = s[j] => i = j
<1>1. \A i \in DOMAIN s : ~Precedes(s[i], s[i])
  <2>1. \A i \in DOMAIN s : s[i] \in Order
    OBVIOUS
  <2>2. QED
    BY <2>1 DEF Precedes, BetterPrice, Order, OrderType
<1>2. \A i \in DOMAIN s : i \in Nat
  OBVIOUS
<1>3. QED
  BY <1>1, <1>2 DEF InOrder

\* findIndex and splice on any array.
LEMMA SplicedType ==
  ASSUME NEW s \in Seq(Order), NEW id
  PROVE  /\ Spliced(s, id) \in Seq(Order)
         /\ IndexOf(s, id) = 0 => Spliced(s, id) = s
         /\ IndexOf(s, id) # 0 => /\ IndexOf(s, id) \in DOMAIN s
                                 /\ s[IndexOf(s, id)].id = id
                                 /\ Spliced(s, id) = RemoveAt(s, IndexOf(s, id))
<1> DEFINE i == IndexOf(s, id)
           Found(j) == s[j].id = id /\ \A k \in 1..(j - 1) : s[k].id # id
<1>1. CASE \A j \in DOMAIN s : s[j].id # id
  <2>1. i = 0
    BY <1>1 DEF IndexOf
  <2>2. QED
    BY <2>1 DEF Spliced
<1>2. ASSUME NEW m \in DOMAIN s, s[m].id = id PROVE i \in DOMAIN s /\ s[i].id = id /\ i # 0
  <2> DEFINE M == {j \in Nat : j \in DOMAIN s /\ s[j].id = id}
  <2>1. m \in M /\ M \subseteq Nat
    BY <1>2
  <2>2. PICK j \in M : \A k \in M : j <= k
    BY <2>1, SmallestNat
  <2>3. \A k \in 1..(j - 1) : k \in DOMAIN s /\ k \in Nat /\ ~(j <= k)
    BY <2>2
  <2>4. j \in DOMAIN s /\ Found(j)
    BY <2>2, <2>3
  <2>5. i = CHOOSE k \in DOMAIN s : Found(k)
    BY <1>2 DEF IndexOf
  <2> HIDE DEF i
  <2>6. i \in DOMAIN s /\ Found(i)
    <3> HIDE DEF Found
    <3>1. QED
      BY <2>4, <2>5
  <2>7. QED
    BY <2>6
<1>3. CASE \E m \in DOMAIN s : s[m].id = id
  <2>1. i \in DOMAIN s /\ s[i].id = id /\ i # 0
    BY <1>2, <1>3
  <2>2. Spliced(s, id) = RemoveAt(s, i)
    BY <2>1 DEF Spliced
  <2> HIDE DEF i
  <2>3. RemoveAt(s, i) \in Seq(Order)
    <3>1. i \in 1..Len(s) /\ Len(s) \in Nat
      BY <2>1
    <3>2. SubSeq(s, 1, i - 1) \in Seq(Order) /\ SubSeq(s, i + 1, Len(s)) \in Seq(Order)
      BY <3>1
    <3>3. QED
      BY <3>2 DEF RemoveAt
  <2>4. QED
    BY <2>1, <2>2, <2>3 DEF i
<1>4. QED
  BY <1>1, <1>3

\* A splice takes out the order with the id, and nothing else.
LEMMA SplicedRemoves ==
  ASSUME NEW s \in Seq(Order), InOrder(s), NEW id,
         \A i, j \in DOMAIN s : s[i].id = s[j].id => i = j
  PROVE  /\ Spliced(s, id) \in Seq(Order)
         /\ InOrder(Spliced(s, id))
         /\ ToSet(Spliced(s, id)) = RemoveOrder(ToSet(s), id)
         /\ IndexOf(s, id) = 0 <=> \A o \in ToSet(s) : o.id # id
<1> DEFINE i == IndexOf(s, id)
           n == Len(s)
           r == Spliced(s, id)
<1>1. n \in Nat /\ DOMAIN s = 1..n
  OBVIOUS
<1>2. CASE \A j \in DOMAIN s : s[j].id # id
  <2>1. i = 0
    BY <1>2 DEF IndexOf
  <2>2. r = s
    BY <2>1 DEF Spliced
  <2>3. \A o \in ToSet(s) : o.id # id
    BY <1>2 DEF ToSet
  <2>4. QED
    BY <2>1, <2>2, <2>3 DEF RemoveOrder
<1>3. ASSUME NEW k \in DOMAIN s, s[k].id = id PROVE i = k
  <2>1. \A j \in 1..(k - 1) : j \in DOMAIN s /\ j # k
    BY <1>1
  <2>2. \A j \in 1..(k - 1) : s[j].id # id
    BY <1>3, <2>1
  <2>3. \E j \in DOMAIN s : s[j].id = id /\ \A l \in 1..(j - 1) : s[l].id # id
    BY <1>3, <2>2
  <2>4. i = CHOOSE j \in DOMAIN s : s[j].id = id /\ \A l \in 1..(j - 1) : s[l].id # id
    BY <1>3 DEF IndexOf
  <2> HIDE DEF i
  <2>5. i \in DOMAIN s /\ s[i].id = id
    BY <2>3, <2>4
  <2>6. QED
    BY <1>3, <2>5
<1>4. ASSUME NEW k \in DOMAIN s, s[k].id = id
      PROVE  /\ r \in Seq(Order) /\ InOrder(r)
             /\ ToSet(r) = RemoveOrder(ToSet(s), id)
             /\ i # 0 /\ \E o \in ToSet(s) : o.id = id
  <2>1. i = k /\ k \in 1..n
    BY <1>1, <1>3, <1>4
  <2> DEFINE a == SubSeq(s, 1, k - 1)
             b == SubSeq(s, k + 1, n)
  <2>2. r = a \o b
    <3>1. i # 0
      BY <1>1, <2>1
    <3>2. r = RemoveAt(s, i)
      BY <3>1 DEF Spliced
    <3>3. QED
      BY <2>1, <3>2 DEF RemoveAt
  <2>3. /\ r \in Seq(Order) /\ Len(r) = n - 1
        /\ \A j \in 1..(n - 1) : r[j] = IF j < k THEN s[j] ELSE s[j + 1]
    <3>1. a \in Seq(Order) /\ Len(a) = k - 1 /\ \A j \in 1..(k - 1) : a[j] = s[j]
      BY <1>1, <2>1
    <3>2. b \in Seq(Order) /\ Len(b) = n - k /\ \A j \in 1..(n - k) : b[j] = s[j + k]
      BY <1>1, <2>1
    <3> HIDE DEF a, b, r, n
    <3>3. r \in Seq(Order) /\ Len(r) = n - 1
      BY <1>1, <2>1, <2>2, <3>1, <3>2
    <3>4. ASSUME NEW j \in 1..(n - 1) PROVE r[j] = IF j < k THEN s[j] ELSE s[j + 1]
      <4>1. CASE j < k
        BY <1>1, <2>1, <2>2, <3>1, <3>2, <4>1
      <4>2. CASE ~(j < k)
        <5>1. j - (k - 1) \in 1..(n - k) /\ (j - (k - 1)) + k = j + 1
          BY <1>1, <2>1, <4>2
        <5>2. j > Len(a) /\ j <= Len(a) + Len(b) /\ j \in Nat
          BY <1>1, <2>1, <3>1, <3>2, <4>2
        <5>3. (a \o b)[j] = b[j - Len(a)]
          BY <3>1, <3>2, <5>2
        <5>4. r[j] = b[j - (k - 1)]
          BY <2>2, <3>1, <5>3
        <5>5. QED
          BY <3>2, <4>2, <5>1, <5>4
      <4>3. QED
        BY <4>1, <4>2
    <3>5. QED
      BY <3>3, <3>4
  <2>4. DOMAIN r = 1..(n - 1)
    BY <1>1, <2>3
  <2> HIDE DEF r, i
  <2>5. InOrder(r)
    BY <1>1, <2>1, <2>3, <2>4 DEF InOrder
  <2>6. ASSUME NEW o \in ToSet(s), o.id # id PROVE o \in ToSet(r)
    <3>1. PICK j \in 1..n : o = s[j]
      BY <1>1 DEF ToSet
    <3>2. j # k
      BY <1>4, <2>6, <3>1
    <3>3. CASE j < k
      <4>1. j \in 1..(n - 1) /\ r[j] = o
        BY <1>1, <2>1, <2>3, <3>1, <3>3
      <4>2. QED
        BY <2>4, <4>1 DEF ToSet
    <3>4. CASE j > k
      <4>1. j - 1 \in 1..(n - 1) /\ r[j - 1] = o
        BY <1>1, <2>1, <2>3, <3>1, <3>4
      <4>2. QED
        BY <2>4, <4>1 DEF ToSet
    <3>5. QED
      BY <2>1, <3>2, <3>3, <3>4
  <2>7. ASSUME NEW o \in ToSet(r) PROVE o \in ToSet(s) /\ o.id # id
    <3>1. PICK j \in 1..(n - 1) : o = r[j]
      BY <2>4 DEF ToSet
    <3> DEFINE l == IF j < k THEN j ELSE j + 1
    <3>2. l \in 1..n /\ o = s[l] /\ l # k
      BY <1>1, <2>1, <2>3, <3>1
    <3>3. o.id # id
      BY <1>1, <1>4, <3>2
    <3>4. QED
      BY <1>1, <3>2, <3>3 DEF ToSet
  <2>8. ToSet(r) = RemoveOrder(ToSet(s), id)
    BY <2>6, <2>7 DEF RemoveOrder
  <2>9. i # 0 /\ \E o \in ToSet(s) : o.id = id
    BY <1>4, <2>1 DEF ToSet
  <2>10. QED
    BY <2>3, <2>5, <2>8, <2>9
<1>5. QED
  BY <1>2, <1>4

-----------------------------------------------------------------------------
(* What the arrays stand for.                                              *)

\* Each array holds the orders of its side, in order and each once.
LEMMA ArrayFacts ==
  ASSUME ArraysLegal, NEW t \in OrderType
  PROVE  /\ ArrayOf(t) \in Seq(Order) /\ InOrder(ArrayOf(t))
         /\ ToSet(ArrayOf(t)) = TheBook.sides[t]
         /\ \A i \in DOMAIN ArrayOf(t) : ArrayOf(t)[i].type = t
         /\ OncePerId(ArrayOf(t))
<1> DEFINE a == ArrayOf(t)
<1>1. a \in Seq(Order) /\ InOrder(a)
  BY DEF ArraysLegal, ArraysSorted, ArrayOf
<1>2. ToSet(a) = TheBook.sides[t]
  BY DEF TheBook, SidesOf, ArrayOf
<1>3. \A i \in DOMAIN a : a[i] \in TheBook.sides[t]
  BY <1>2 DEF ToSet
<1>4. LegalSides(TheBook.sides)
  BY DEF ArraysLegal, LegalBook
<1> HIDE DEF a
<1>5. \A i \in DOMAIN a : a[i].type = t
  BY <1>3, <1>4 DEF LegalSides, ActiveOnTheirSide
<1>6. \A i, j \in DOMAIN a : a[i].id = a[j].id => a[i] = a[j]
  BY <1>3, <1>4 DEF LegalSides, UniqueIds
<1>7. OncePerId(a)
  BY <1>1, <1>5, <1>6, InOrderOnce DEF OncePerId
<1>8. QED
  BY <1>1, <1>2, <1>5, <1>7 DEF a

\* What the arrays show of the book.
LEMMA BookFacts ==
  ASSUME ArraysLegal
  PROVE  /\ TheBook \in Book /\ LegalBook(TheBook)
         /\ TheBook.matches = matches /\ matches \in Seq(Match)
         /\ Idle(TheBook) <=> ~Called
         /\ Called => TheBook.call = CallOf(call)
<1>1. LegalBook(TheBook) /\ TheBook \in Book
  BY DEF ArraysLegal, LegalBook
<1>2. matches \in Seq(Match) /\ TheBook.matches = matches
  BY <1>1, BookParts DEF TheBook
<1>3. Called => CallOf(call) # NoCall
  <2> SUFFICES ASSUME CallOf(call) = NoCall PROVE FALSE
    OBVIOUS
  <2>1. "fills" \in DOMAIN CallOf(call)
    BY DEF CallOf
  <2>2. "fills" \notin DOMAIN NoCall
    BY DEF NoCall
  <2>3. QED
    BY <2>1, <2>2
<1>4. QED
  BY <1>1, <1>2, <1>3 DEF TheBook, Idle

\* findIndex finds no order of the book, or the one with the id.
LEMMA IndexZero ==
  ASSUME ArraysLegal, NEW id
  PROVE  /\ IndexOf(buyOrders, id) = 0 <=> \A o \in TheBook.sides["buy"] : o.id # id
         /\ IndexOf(sellOrders, id) = 0 <=> \A o \in TheBook.sides["sell"] : o.id # id
<1>1. "buy" \in OrderType /\ "sell" \in OrderType /\ "sell" # "buy"
  BY DEF OrderType
<1>2. ArrayOf("buy") = buyOrders /\ ArrayOf("sell") = sellOrders
  BY <1>1 DEF ArrayOf
<1>3. QED
  BY <1>1, <1>2, ArrayFacts, SplicedRemoves DEF OncePerId

\* A call begins with clones of the orders it could match, in order.
LEMMA AddOrderStep ==
  ASSUME ArraysLegal, NEW o \in Order, ValidInputs(o), o.amount <= o.originalAmount,
         AddOrder(o)
  PROVE  /\ Idle(TheBook) /\ Accepts(TheBook, o)
         /\ TheBook' = BeginCall(TheBook, o)
         /\ ArraysLegal'
<1> DEFINE t == Opposite(o.type)
           a == ArrayOf(t)
           mo == MatchingOrders(o)
           c == [order |-> o, matchingOrders |-> mo, round |-> 1, matches |-> <<>>]
<1>1. /\ ~Called /\ IsActive(o)
      /\ IndexOf(buyOrders, o.id) = 0 /\ IndexOf(sellOrders, o.id) = 0
      /\ call' = c /\ buyOrders' = buyOrders /\ sellOrders' = sellOrders /\ matches' = matches
  BY DEF AddOrder, FindOrderById
<1>2. o \in Order /\ ValidInputs(o) /\ o.amount <= o.originalAmount
  OBVIOUS
<1>3. t \in OrderType /\ Others(o) = a
  BY <1>2 DEF Opposite, OrderType, Others, ArrayOf, Order
<1>4. Idle(TheBook) /\ Accepts(TheBook, o)
  <2>1. ~InBook(TheBook.sides, o.id)
    BY <1>1, IndexZero DEF InBook, OrderType
  <2>2. QED
    BY <1>1, <2>1, BookFacts DEF Accepts
<1>5. /\ a \in Seq(Order) /\ ToSet(a) = TheBook.sides[t]
      /\ \A i \in DOMAIN a : a[i].type = t
      /\ OncePerId(a)
  BY <1>3, ArrayFacts
<1>6. /\ mo \in Seq(Order) /\ InOrder(mo)
      /\ ToSet(mo) = FindMatchingOrders(TheBook.sides, o)
  <2> DEFINE b == [i \in DOMAIN a |-> Clone(a[i])]
             P == {i \in DOMAIN a : CanMatchWith(a[i], o)}
  <2>1. mo = SortedAt(t, b, P)
    BY <1>3 DEF MatchingOrders
  <2>2. b = a
    <3>1. \A i \in DOMAIN a : a[i] \in Order
      BY <1>5
    <3>2. \A i \in DOMAIN a : Clone(a[i]) = a[i]
      BY <3>1, CloneIsEqual
    <3>3. a = [i \in DOMAIN a |-> a[i]]
      BY <1>5
    <3> HIDE DEF a
    <3>4. QED
      BY <3>2, <3>3
  <2>3. mo \in Seq(Order) /\ InOrder(mo) /\ ToSet(mo) = {a[i] : i \in P}
    <3>1. P \in SUBSET (DOMAIN a)
      OBVIOUS
    <3>2. mo = SortedAt(t, a, P)
      BY <2>1, <2>2
    <3>3. /\ \A i \in P : a[i].type = t
          /\ \A i, j \in P : a[i].id = a[j].id => i = j
      BY <1>5 DEF OncePerId
    <3> HIDE DEF a, P, b, mo, t
    <3>4. LET r == SortedAt(t, a, P)
          IN r \in Seq(Order) /\ ToSet(r) = {a[i] : i \in P} /\ InOrder(r)
      BY <1>3, <1>5, <3>1, <3>3, SortedAtSorts
    <3>5. QED
      BY <3>2, <3>4
  <2>4. TheBook.sides[t] \subseteq Order
    BY <1>3, BookFacts, BookParts
  <2>5. FindMatchingOrders(TheBook.sides, o) = {x \in TheBook.sides[t] : CanMatchWith(x, o)}
    BY <2>4, CloneIsEqual DEF FindMatchingOrders
  <2>6. {a[i] : i \in P} = {x \in ToSet(a) : CanMatchWith(x, o)}
    BY DEF ToSet
  <2>7. QED
    BY <1>5, <2>3, <2>5, <2>6
<1> HIDE DEF mo, a, t
<1>7. Called' /\ LocalsOK(c)
  <2>1. c \in [order: Order, matchingOrders: Seq(Order), round: Nat \ {0}, matches: Seq(Match)]
    BY <1>2, <1>6
  <2>2. LocalsOK(c)
    BY <1>6, <2>1 DEF LocalsOK, CallTyped
  <2>3. "round" \in DOMAIN c /\ "round" \notin DOMAIN NotCalled
    BY DEF NotCalled
  <2>4. QED
    BY <1>1, <2>2, <2>3 DEF Called
<1>8. TheBook' = BeginCall(TheBook, o)
  <2>1. SubSeq(mo, 1, Len(mo)) = mo
    BY <1>6
  <2>2. o.amount + Filled(<<>>) = o.amount
    BY <1>2, FilledEmpty DEF Order
  <2>3. CallOf(c) = [order |-> o, candidates |-> FindMatchingOrders(TheBook.sides, o),
                     fills |-> <<>>, entryAmount |-> o.amount]
    BY <1>6, <2>1, <2>2 DEF CallOf
  <2>4. TheBook' = [sides |-> SidesOf(buyOrders, sellOrders), matches |-> matches,
                    call |-> CallOf(c)]
    BY <1>1, <1>7 DEF TheBook
  <2>5. TheBook.sides = SidesOf(buyOrders, sellOrders) /\ TheBook.matches = matches
    BY DEF TheBook
  <2>6. QED
    BY <2>3, <2>4, <2>5 DEF BeginCall
<1>9. LegalBook(TheBook')
  BY <1>2, <1>4, <1>8, BookFacts, BeginLegal
<1>10. ArraysLegal'
  BY <1>1, <1>7, <1>9 DEF ArraysLegal, ArraysSorted, LegalBook
<1>11. QED
  BY <1>4, <1>8, <1>10

-----------------------------------------------------------------------------
(* The steps, one by one.                                                  *)

\* The round's order stands first among those that are left, and no other place
\* of the array holds it.
LEMMA LeftToVisit ==
  ASSUME NEW mo \in Seq(Order), InOrder(mo), NEW k \in 1..Len(mo),
         NEW t \in OrderType, \A i \in DOMAIN mo : i >= k => mo[i].type = t
  PROVE  LET left == ToSet(SubSeq(mo, k, Len(mo)))
         IN /\ mo[k] \in left /\ mo[k] \in Order
            /\ \A d \in left : d # mo[k] => Precedes(mo[k], d)
            /\ ToSet(SubSeq(mo, k + 1, Len(mo))) = left \ {mo[k]}
<1> DEFINE n == Len(mo)
           L == SubSeq(mo, k, n)
           M == SubSeq(mo, k + 1, n)
<1>1. n \in Nat /\ DOMAIN mo = 1..n /\ k \in Nat /\ k >= 1 /\ k <= n
      /\ \A i \in 1..n : mo[i] \in Order
  OBVIOUS
<1>2. ToSet(L) = {mo[i] : i \in k..n}
  <2>1. DOMAIN L = 1..(n - k + 1) /\ \A j \in 1..(n - k + 1) : L[j] = mo[k + j - 1]
    BY <1>1
  <2>2. \A i \in k..n : i - k + 1 \in 1..(n - k + 1) /\ k + (i - k + 1) - 1 = i
    BY <1>1
  <2>3. \A j \in 1..(n - k + 1) : k + j - 1 \in k..n
    BY <1>1
  <2> HIDE DEF L, n
  <2>4. \A x \in ToSet(L) : x \in {mo[i] : i \in k..n}
    BY <2>1, <2>3 DEF ToSet
  <2>5. ASSUME NEW i \in k..n PROVE mo[i] \in ToSet(L)
    BY <2>1, <2>2 DEF ToSet
  <2>6. QED
    BY <2>4, <2>5
<1>3. ToSet(M) = {mo[i] : i \in (k + 1)..n}
  <2>1. DOMAIN M = 1..(n - k) /\ \A j \in 1..(n - k) : M[j] = mo[k + j]
    BY <1>1
  <2>2. \A i \in (k + 1)..n : i - k \in 1..(n - k) /\ k + (i - k) = i
    BY <1>1
  <2>3. \A j \in 1..(n - k) : k + j \in (k + 1)..n
    BY <1>1
  <2> HIDE DEF M, n
  <2>4. \A x \in ToSet(M) : x \in {mo[i] : i \in (k + 1)..n}
    BY <2>1, <2>3 DEF ToSet
  <2>5. ASSUME NEW i \in (k + 1)..n PROVE mo[i] \in ToSet(M)
    BY <2>1, <2>2 DEF ToSet
  <2>6. QED
    BY <2>4, <2>5
<1> HIDE DEF L, M, n
<1>4. \A i \in (k + 1)..n : i \in 1..n /\ k < i
  BY <1>1
<1>5. \A i \in (k + 1)..n : Precedes(mo[k], mo[i])
  BY <1>1, <1>4 DEF InOrder
<1>6. ~Precedes(mo[k], mo[k])
  BY <1>1 DEF Precedes, BetterPrice, Order
<1>7. k..n = {k} \cup ((k + 1)..n)
  BY <1>1
<1>8. ToSet(L) = {mo[k]} \cup ToSet(M)
  BY <1>2, <1>3, <1>7
<1>9. mo[k] \notin ToSet(M)
  BY <1>3, <1>5, <1>6
<1>10. \A d \in ToSet(M) : Precedes(mo[k], d)
  BY <1>3, <1>5
<1>11. QED
  BY <1>1, <1>8, <1>9, <1>10 DEF L, M, n

\* The locals after a round.
LEMMA NextLocals ==
  ASSUME NEW c \in [order: Order, matchingOrders: Seq(Order), round: Nat \ {0}, matches: Seq(Match)],
         NEW u \in Order, NEW m \in Match
  PROVE  LET d == [c EXCEPT !.order = u, !.round = @ + 1, !.matches = Append(@, m)]
         IN /\ d \in [order: Order, matchingOrders: Seq(Order), round: Nat \ {0}, matches: Seq(Match)]
            /\ d.matchingOrders = c.matchingOrders /\ d.round = c.round + 1
<1> DEFINE d == [c EXCEPT !.order = u, !.round = @ + 1, !.matches = Append(@, m)]
<1>1. c.round + 1 \in Nat \ {0} /\ Append(c.matches, m) \in Seq(Match)
  OBVIOUS
<1>2. d.matchingOrders = c.matchingOrders /\ d.round = c.round + 1
  OBVIOUS
<1> DEFINE v == c.round + 1
           w == Append(c.matches, m)
<1>3. d = [c EXCEPT !.order = u, !.round = v, !.matches = w]
  OBVIOUS
<1> HIDE DEF d, v, w
<1>4. d \in [order: Order, matchingOrders: Seq(Order), round: Nat \ {0}, matches: Seq(Match)]
  BY <1>1, <1>3 DEF v, w
<1>5. QED
  BY <1>2, <1>4 DEF d

\* A round of the walk is a round of the loop: it makes a match with the first of
\* the candidates that are left.
LEMMA MatchNextStep ==
  ASSUME ArraysLegal, MatchNext
  PROVE  /\ ~Idle(TheBook)
         /\ \E c \in TheBook.call.candidates :
              Looping(TheBook.call, c) /\ TheBook' = Iterate(TheBook, c)
         /\ ArraysLegal'
<1> DEFINE o == call.order
           mo == call.matchingOrders
           k == call.round
           c == mo[k]
           m == MakeMatch(o, c)
           n == MatchAmount(o, c)
           t == Opposite(o.type)
           left == ToSet(SubSeq(mo, k, Len(mo)))
           filled == UpdateAfterMatch(c, m.matchedAmount).status = "filled"
           next == [call EXCEPT !.order = UpdateAfterMatch(o, m.matchedAmount),
                                !.round = @ + 1,
                                !.matches = Append(@, m)]
<1>1. Called /\ k <= Len(mo) /\ IsActive(o)
  BY DEF MatchNext, InLoop
<1>2. /\ call \in [order: Order, matchingOrders: Seq(Order), round: Nat \ {0}, matches: Seq(Match)]
      /\ o \in Order /\ mo \in Seq(Order) /\ k \in Nat \ {0} /\ call.matches \in Seq(Match)
      /\ InOrder(mo)
  BY <1>1 DEF ArraysLegal, LocalsOK, CallTyped
<1>3. /\ ~Idle(TheBook) /\ TheBook.call = CallOf(call) /\ LegalBook(TheBook)
      /\ TheBook \in Book /\ TheBook.matches = matches /\ matches \in Seq(Match)
      /\ TheBook.sides = SidesOf(buyOrders, sellOrders) /\ TheBook.sides \in Sides
  <2>1. TheBook.sides = SidesOf(buyOrders, sellOrders)
    BY DEF TheBook
  <2>2. QED
    BY <1>1, <2>1, BookFacts, BookParts
<1>4. /\ TheBook.call.order = o /\ TheBook.call.candidates = left
      /\ TheBook.call.fills = call.matches
      /\ TheBook.call.entryAmount = o.amount + Filled(call.matches)
  BY <1>3 DEF CallOf
<1>5. t \in OrderType /\ o.type \in {"buy", "sell"} /\ t # o.type
  BY <1>2 DEF Opposite, OrderType, Order
<1>6. left \subseteq TheBook.sides[t]
  BY <1>3, <1>4 DEF LegalBook, CallLegal
<1>7. \A i \in DOMAIN mo : i >= k => mo[i].type = t
  <2>1. \A d \in left : d.type = t
    BY <1>3, <1>5, <1>6 DEF LegalBook, LegalSides, ActiveOnTheirSide
  <2>2. ASSUME NEW i \in DOMAIN mo, i >= k PROVE mo[i] \in left
    <3>1. i \in 1..Len(mo) /\ Len(mo) \in Nat
      BY <1>2
    <3>2. i - k + 1 \in 1..(Len(mo) - k + 1) /\ k + (i - k + 1) - 1 = i
      BY <1>2, <2>2, <3>1
    <3>3. DOMAIN SubSeq(mo, k, Len(mo)) = 1..(Len(mo) - k + 1)
          /\ \A j \in 1..(Len(mo) - k + 1) : SubSeq(mo, k, Len(mo))[j] = mo[k + j - 1]
      BY <1>1, <1>2
    <3>4. SubSeq(mo, k, Len(mo))[i - k + 1] = mo[i]
      BY <3>2, <3>3
    <3>5. QED
      BY <3>2, <3>3, <3>4 DEF ToSet
  <2>3. QED
    BY <2>1, <2>2
<1>8. /\ c \in left /\ c \in Order
      /\ \A d \in left : d # c => Precedes(c, d)
      /\ ToSet(SubSeq(mo, k + 1, Len(mo))) = left \ {c}
  <2>1. k \in 1..Len(mo)
    BY <1>1, <1>2
  <2> HIDE DEF mo, k, left, t
  <2>2. QED
    BY <1>2, <1>5, <1>7, <2>1, LeftToVisit DEF left
<1>9. Looping(TheBook.call, c)
  BY <1>1, <1>4, <1>8 DEF Looping
<1>10. /\ m \in Match /\ m.matchedAmount = n /\ n \in Nat
       /\ ValidFilledAmount(o, n) /\ o.amount <= o.originalAmount
       /\ Iterate(TheBook, c) = Fill(TheBook, c, m)
  <2> HIDE DEF o, c, m, n
  <2>1. QED
    BY <1>3, <1>4, <1>9, RoundIsAFill DEF m, n
<1>11. IsActive(c) /\ IsValidMatch(m, o, c)
  <2>1. /\ LegalSides(TheBook.sides) /\ CallLegal(TheBook.sides, TheBook.call)
    BY <1>3 DEF LegalBook
  <2>2. c.type = t /\ IsActive(c) /\ c.amount > 0 /\ c.amount <= c.originalAmount
    BY <1>5, <1>6, <1>8, <2>1 DEF LegalSides, ActiveOnTheirSide, IsActive, Order
  <2>3. o.amount > 0 /\ (BetterPrice(o.type, o.price, c.price) \/ o.price = c.price)
    BY <1>1, <1>4, <1>8, <2>1 DEF CallLegal
  <2> HIDE DEF o, c
  <2>4. QED
    BY <1>1, <1>2, <1>8, <1>10, <2>2, <2>3, MatchOfCandidate
<1>12. /\ matches' = Append(matches, m) /\ call' = next
       /\ sellOrders' = IF filled /\ o.type = "buy" THEN Spliced(sellOrders, c.id) ELSE sellOrders
       /\ buyOrders' = IF filled /\ o.type = "sell" THEN Spliced(buyOrders, c.id) ELSE buyOrders
  BY <1>11 DEF MatchNext
<1>13. /\ buyOrders' \in Seq(Order) /\ sellOrders' \in Seq(Order) /\ ArraysSorted'
       /\ SidesOf(buyOrders', sellOrders')
            = [TheBook.sides EXCEPT ![t] = SideAfterFill(@, c, m.matchedAmount)]
  <2>1. "buy" \in OrderType /\ "sell" \in OrderType /\ OrderType = {"buy", "sell"}
    BY DEF OrderType
  <2>2. /\ \A u \in OrderType :
             /\ ArrayOf(u) \in Seq(Order) /\ InOrder(ArrayOf(u))
             /\ Spliced(ArrayOf(u), c.id) \in Seq(Order)
             /\ InOrder(Spliced(ArrayOf(u), c.id))
             /\ ToSet(Spliced(ArrayOf(u), c.id)) = RemoveOrder(ToSet(ArrayOf(u)), c.id)
        /\ ArrayOf("buy") = buyOrders /\ ArrayOf("sell") = sellOrders
    <3>1. ArrayOf("buy") = buyOrders /\ ArrayOf("sell") = sellOrders
      BY DEF ArrayOf
    <3> HIDE DEF c
    <3>2. QED
      BY <3>1, ArrayFacts, SplicedRemoves DEF OncePerId
  <2> DEFINE after == SidesOf(buyOrders', sellOrders')
  <2>3. TheBook.sides = [u \in OrderType |-> ToSet(IF u = "buy" THEN buyOrders ELSE sellOrders)]
    BY <1>3 DEF SidesOf
  <2>4. after = [u \in OrderType |-> ToSet(IF u = "buy" THEN buyOrders' ELSE sellOrders')]
    BY DEF SidesOf
  <2>5. CASE o.type = "buy"
    <3>1. t = "sell" /\ buyOrders' = buyOrders
          /\ sellOrders' = IF filled THEN Spliced(sellOrders, c.id) ELSE sellOrders
      BY <1>12, <2>5 DEF Opposite
    <3>2. /\ ToSet(sellOrders') = SideAfterFill(ToSet(sellOrders), c, m.matchedAmount)
          /\ sellOrders' \in Seq(Order) /\ InOrder(sellOrders')
          /\ buyOrders \in Seq(Order) /\ InOrder(buyOrders)
      BY <2>1, <2>2, <3>1 DEF SideAfterFill
    <3>3. ArraysSorted'
      BY <3>1, <3>2 DEF ArraysSorted
    <3> HIDE DEF c, m, filled
    <3>4. QED
      BY <2>1, <2>3, <2>4, <3>1, <3>2, <3>3
  <2>6. CASE o.type = "sell"
    <3>1. t = "buy" /\ sellOrders' = sellOrders
          /\ buyOrders' = IF filled THEN Spliced(buyOrders, c.id) ELSE buyOrders
      BY <1>12, <2>6 DEF Opposite
    <3>2. /\ ToSet(buyOrders') = SideAfterFill(ToSet(buyOrders), c, m.matchedAmount)
          /\ buyOrders' \in Seq(Order) /\ InOrder(buyOrders')
          /\ sellOrders \in Seq(Order) /\ InOrder(sellOrders)
      BY <2>1, <2>2, <3>1 DEF SideAfterFill
    <3>3. ArraysSorted'
      BY <3>1, <3>2 DEF ArraysSorted
    <3> HIDE DEF c, m, filled
    <3>4. QED
      BY <2>1, <2>3, <2>4, <3>1, <3>2, <3>3
  <2>7. QED
    BY <1>5, <2>5, <2>6
<1>14. Called' /\ LocalsOK(next)
  <2> DEFINE u == UpdateAfterMatch(o, m.matchedAmount)
  <2>1. u \in Order
    <3> HIDE DEF o, m, n
    <3>1. QED
      BY <1>2, <1>10, UpdateAfterMatchType
  <2>2. Append(call.matches, m) \in Seq(Match)
    BY <1>2, <1>10
  <2>3. /\ next \in [order: Order, matchingOrders: Seq(Order), round: Nat \ {0},
                     matches: Seq(Match)]
        /\ next.matchingOrders = mo /\ next.round = k + 1
    <3> HIDE DEF o, m, u
    <3>1. QED
      BY <1>2, <1>10, <2>1, NextLocals DEF u
  <2>4. k + 1 <= Len(mo) + 1
    BY <1>1, <1>2
  <2>5. LocalsOK(next)
    BY <1>2, <2>3, <2>4 DEF LocalsOK, CallTyped
  <2>6. "round" \in DOMAIN next /\ "round" \notin DOMAIN NotCalled
    BY <2>3 DEF NotCalled
  <2>7. QED
    BY <1>12, <2>5, <2>6 DEF Called
<1>15. TheBook' = Iterate(TheBook, c)
  <2> DEFINE u == UpdateAfterMatch(o, m.matchedAmount)
  <2>1. /\ next.order = u /\ next.matchingOrders = mo /\ next.round = k + 1
        /\ next.matches = Append(call.matches, m)
    BY <1>2
  <2>2. u.amount + Filled(Append(call.matches, m)) = o.amount + Filled(call.matches)
    <3>1. u.amount = o.amount - n
      <4> HIDE DEF o, m, n
      <4>1. QED
        BY <1>2, <1>10, UpdateAfterMatchType
    <3>2. /\ Filled(call.matches) \in Nat
          /\ Filled(Append(call.matches, m)) = Filled(call.matches) + n
      <4> HIDE DEF m, n
      <4>1. QED
        BY <1>2, <1>10, FilledAppend
    <3>3. o.amount \in Nat
      BY <1>2 DEF Order
    <3> HIDE DEF o, m, n, u
    <3>4. QED
      BY <1>10, <3>1, <3>2, <3>3
  <2>3. CallOf(next) = [order |-> u, candidates |-> left \ {c},
                        fills |-> Append(call.matches, m),
                        entryAmount |-> o.amount + Filled(call.matches)]
    <3> HIDE DEF next, u, mo, k, c, m, left
    <3>1. QED
      BY <1>8, <2>1, <2>2 DEF CallOf
  <2>4. TheBook' = [sides |-> SidesOf(buyOrders', sellOrders'), matches |-> matches',
                    call |-> CallOf(next)]
    BY <1>12, <1>14 DEF TheBook
  <2> HIDE DEF next, m, c, left, u
  <2>5. QED
    BY <1>3, <1>4, <1>10, <1>12, <1>13, <2>3, <2>4 DEF Fill, u
<1>16. LegalBook(TheBook')
  BY <1>3, <1>9, <1>15, IterateLegal
<1>17. ArraysLegal'
  BY <1>12, <1>13, <1>14, <1>16 DEF ArraysLegal, LegalBook
<1>18. QED
  BY <1>3, <1>4, <1>8, <1>9, <1>15, <1>17

\* Sorting an array that holds each order once puts the same orders in order.
LEMMA SortedSorts ==
  ASSUME NEW s \in Seq(Order), NEW t \in OrderType,
         \A i \in DOMAIN s : s[i].type = t, OncePerId(s)
  PROVE  /\ Sorted(t, s) \in Seq(Order) /\ InOrder(Sorted(t, s))
         /\ ToSet(Sorted(t, s)) = ToSet(s)
<1>1. Sorted(t, s) = SortedAt(t, s, DOMAIN s) /\ DOMAIN s \in SUBSET (DOMAIN s)
  BY DEF Sorted
<1>2. ToSet(s) = {s[i] : i \in DOMAIN s}
  BY DEF ToSet
<1>3. QED
  BY <1>1, <1>2, SortedAtSorts DEF OncePerId

\* After its loop a call pushes what is left and sorts.
LEMMA ReturnStep ==
  ASSUME ArraysLegal, Return
  PROVE  /\ ~Idle(TheBook) /\ LoopDone(TheBook.call)
         /\ TheBook' = EndCall(TheBook)
         /\ ArraysLegal'
<1> DEFINE o == call.order
           pushed(type, orders) ==
             IF IsActive(o) /\ o.type = type THEN Append(orders, o) ELSE orders
<1>1. /\ Called /\ ~InLoop /\ call' = NotCalled /\ matches' = matches
      /\ buyOrders' = Sorted("buy", pushed("buy", buyOrders))
      /\ sellOrders' = Sorted("sell", pushed("sell", sellOrders))
  BY DEF Return
<1>2. /\ o \in Order /\ call.matchingOrders \in Seq(Order) /\ call.round \in Nat \ {0}
      /\ call.round <= Len(call.matchingOrders) + 1
  BY <1>1 DEF ArraysLegal, LocalsOK, CallTyped
<1>3. /\ ~Idle(TheBook) /\ TheBook.call = CallOf(call) /\ LegalBook(TheBook)
      /\ TheBook \in Book /\ TheBook.matches = matches
      /\ TheBook.sides = SidesOf(buyOrders, sellOrders) /\ TheBook.sides \in Sides
  <2>1. TheBook.sides = SidesOf(buyOrders, sellOrders)
    BY DEF TheBook
  <2>2. QED
    BY <1>1, <2>1, BookFacts, BookParts
<1>4. TheBook.call.order = o
  BY <1>3 DEF CallOf
<1>5. LoopDone(TheBook.call)
  <2>1. CASE ~IsActive(o)
    BY <1>4, <2>1 DEF LoopDone
  <2>2. CASE ~(call.round <= Len(call.matchingOrders))
    <3>1. SubSeq(call.matchingOrders, call.round, Len(call.matchingOrders)) = <<>>
      BY <1>2, <2>2
    <3>2. TheBook.call.candidates = {}
      BY <1>3, <3>1 DEF CallOf, ToSet
    <3>3. QED
      BY <3>2 DEF LoopDone
  <2>3. QED
    BY <1>1, <2>1, <2>2 DEF InLoop
<1>6. ASSUME NEW t \in OrderType
      PROVE  LET a == pushed(t, ArrayOf(t))
             IN /\ Sorted(t, a) \in Seq(Order) /\ InOrder(Sorted(t, a))
                /\ ToSet(Sorted(t, a)) = IF IsActive(o) /\ o.type = t
                                        THEN TheBook.sides[t] \cup {o}
                                        ELSE TheBook.sides[t]
  <2> DEFINE b == ArrayOf(t)
             a == pushed(t, b)
  <2>1. /\ b \in Seq(Order) /\ ToSet(b) = TheBook.sides[t]
        /\ \A i \in DOMAIN b : b[i].type = t
        /\ OncePerId(b)
    BY ArrayFacts
  <2> HIDE DEF b
  <2>2. CASE ~(IsActive(o) /\ o.type = t)
    <3>1. a = b
      BY <2>2
    <3> HIDE DEF a, o
    <3>2. QED
      BY <2>1, <2>2, <3>1, SortedSorts DEF a, b, o
  <2>3. CASE IsActive(o) /\ o.type = t
    <3>1. a = Append(b, o)
      BY <2>3
    <3>2. \A i \in DOMAIN b : b[i].id # o.id
      <4>1. ~InBook(TheBook.sides, o.id)
        BY <1>3, <1>4 DEF LegalBook, CallLegal
      <4>2. \A i \in DOMAIN b : b[i] \in TheBook.sides[t]
        BY <2>1 DEF ToSet
      <4>3. QED
        BY <4>1, <4>2 DEF InBook
    <3> HIDE DEF a
    <3>3. /\ a \in Seq(Order) /\ DOMAIN a = DOMAIN b \cup {Len(b) + 1}
          /\ a[Len(b) + 1] = o /\ \A i \in DOMAIN b : a[i] = b[i]
      BY <1>2, <2>1, <3>1
    <3>4. OncePerId(a) /\ \A i \in DOMAIN a : a[i].type = t
      BY <2>1, <2>3, <3>2, <3>3 DEF OncePerId
    <3>5. ToSet(a) = ToSet(b) \cup {o}
      BY <3>3 DEF ToSet
    <3>6. /\ Sorted(t, a) \in Seq(Order) /\ InOrder(Sorted(t, a))
          /\ ToSet(Sorted(t, a)) = TheBook.sides[t] \cup {o}
      BY <2>1, <3>3, <3>4, <3>5, SortedSorts
    <3>7. QED
      BY <2>3, <3>6 DEF a, b
  <2>4. QED
    BY <2>2, <2>3
<1>7. /\ "buy" \in OrderType /\ "sell" \in OrderType /\ OrderType = {"buy", "sell"}
      /\ ArrayOf("buy") = buyOrders /\ ArrayOf("sell") = sellOrders
  BY DEF OrderType, ArrayOf
<1>8. /\ buyOrders' \in Seq(Order) /\ sellOrders' \in Seq(Order) /\ ArraysSorted'
      /\ \A t \in OrderType :
           ToSet(IF t = "buy" THEN buyOrders' ELSE sellOrders') =
             IF IsActive(o) /\ o.type = t THEN TheBook.sides[t] \cup {o} ELSE TheBook.sides[t]
  <2> HIDE DEF pushed
  <2>1. /\ buyOrders' = Sorted("buy", pushed("buy", ArrayOf("buy")))
        /\ sellOrders' = Sorted("sell", pushed("sell", ArrayOf("sell")))
    BY <1>1, <1>7
  <2>2. QED
    BY <1>6, <1>7, <2>1 DEF ArraysSorted
<1>9. SidesOf(buyOrders', sellOrders') = SidesAfterRest(TheBook.sides, o)
  <2>1. TheBook.sides = [t \in OrderType |-> TheBook.sides[t]] /\ o.type \in OrderType
    BY <1>2, <1>3 DEF Sides, Order
  <2>2. SidesOf(buyOrders', sellOrders') =
          [t \in OrderType |-> IF IsActive(o) /\ o.type = t THEN TheBook.sides[t] \cup {o}
                                                            ELSE TheBook.sides[t]]
    BY <1>8 DEF SidesOf
  <2> HIDE DEF o
  <2>3. CASE IsActive(o)
    BY <2>1, <2>2, <2>3 DEF SidesAfterRest
  <2>4. CASE ~IsActive(o)
    BY <2>1, <2>2, <2>4 DEF SidesAfterRest
  <2>5. QED
    BY <2>3, <2>4
<1>10. ~Called' /\ TheBook' = EndCall(TheBook)
  <2>1. ~Called'
    BY <1>1 DEF Called
  <2>2. TheBook' = [sides |-> SidesOf(buyOrders', sellOrders'), matches |-> matches',
                    call |-> NoCall]
    BY <2>1 DEF TheBook
  <2>3. QED
    BY <1>1, <1>3, <1>4, <1>9, <2>1, <2>2 DEF EndCall
<1>11. LegalBook(TheBook')
  BY <1>3, <1>5, <1>10, EndLegal
<1>12. ArraysLegal'
  BY <1>8, <1>10, <1>11 DEF ArraysLegal, LegalBook
<1>13. QED
  BY <1>3, <1>5, <1>10, <1>12

\* cancelOrder splices the order out of the array that has it.
LEMMA CancelStep ==
  ASSUME ArraysLegal, NEW id, FindOrderById(id), CancelOrder(id)
  PROVE  /\ Idle(TheBook) /\ InBook(TheBook.sides, id)
         /\ TheBook' = WithoutOrder(TheBook, id)
         /\ ArraysLegal'
<1>1. /\ ~Called /\ (IndexOf(buyOrders, id) # 0 \/ IndexOf(sellOrders, id) # 0)
      /\ buyOrders' = Spliced(buyOrders, id)
      /\ sellOrders' = IF IndexOf(buyOrders, id) = 0 THEN Spliced(sellOrders, id) ELSE sellOrders
      /\ matches' = matches /\ call' = call
  BY DEF CancelOrder, FindOrderById
<1>2. /\ OrderType = {"buy", "sell"}
      /\ ArrayOf("buy") = buyOrders /\ ArrayOf("sell") = sellOrders
  BY DEF OrderType, ArrayOf
<1>3. \A t \in OrderType :
        /\ ArrayOf(t) \in Seq(Order) /\ InOrder(ArrayOf(t))
        /\ ToSet(ArrayOf(t)) = TheBook.sides[t]
        /\ Spliced(ArrayOf(t), id) \in Seq(Order) /\ InOrder(Spliced(ArrayOf(t), id))
        /\ ToSet(Spliced(ArrayOf(t), id)) = RemoveOrder(TheBook.sides[t], id)
  BY ArrayFacts, SplicedRemoves DEF OncePerId
<1>4. /\ Idle(TheBook) /\ LegalBook(TheBook) /\ TheBook \in Book /\ TheBook.matches = matches
      /\ TheBook.sides \in Sides
  BY <1>1, BookFacts, BookParts
<1>5. InBook(TheBook.sides, id)
  BY <1>1, <1>2, IndexZero DEF InBook
<1>6. /\ buyOrders' \in Seq(Order) /\ sellOrders' \in Seq(Order) /\ ArraysSorted'
      /\ ToSet(buyOrders') = RemoveOrder(TheBook.sides["buy"], id)
      /\ ToSet(sellOrders') = IF IndexOf(buyOrders, id) = 0
                                THEN RemoveOrder(TheBook.sides["sell"], id)
                                ELSE TheBook.sides["sell"]
  BY <1>1, <1>2, <1>3 DEF ArraysSorted
<1>7. SidesOf(buyOrders', sellOrders') = SidesAfterCancel(TheBook.sides, id)
  <2>1. TheBook.sides = [t \in OrderType |-> TheBook.sides[t]]
    BY <1>4 DEF Sides
  <2>2. SidesOf(buyOrders', sellOrders') =
          [t \in OrderType |-> IF t = "buy" THEN ToSet(buyOrders') ELSE ToSet(sellOrders')]
    BY DEF SidesOf
  <2>3. CASE IndexOf(buyOrders, id) = 0
    <3>1. ~\E o \in TheBook.sides["buy"] : o.id = id
      BY <2>3, IndexZero
    <3>2. RemoveOrder(TheBook.sides["buy"], id) = TheBook.sides["buy"]
      BY <3>1 DEF RemoveOrder
    <3>3. SidesAfterCancel(TheBook.sides, id) =
            [TheBook.sides EXCEPT !["sell"] = RemoveOrder(@, id)]
      BY <3>1 DEF SidesAfterCancel
    <3>4. QED
      BY <1>2, <1>6, <2>1, <2>2, <2>3, <3>2, <3>3
  <2>4. CASE IndexOf(buyOrders, id) # 0
    <3>1. \E o \in TheBook.sides["buy"] : o.id = id
      BY <2>4, IndexZero
    <3>2. SidesAfterCancel(TheBook.sides, id) =
            [TheBook.sides EXCEPT !["buy"] = RemoveOrder(@, id)]
      BY <3>1 DEF SidesAfterCancel
    <3>3. QED
      BY <1>2, <1>6, <2>1, <2>2, <2>4, <3>2
  <2>5. QED
    BY <2>3, <2>4
<1>8. ~Called' /\ TheBook' = WithoutOrder(TheBook, id)
  <2>1. ~Called'
    BY <1>1 DEF Called
  <2>2. TheBook' = [sides |-> SidesOf(buyOrders', sellOrders'), matches |-> matches',
                    call |-> NoCall]
    BY <2>1 DEF TheBook
  <2>3. TheBook.call = NoCall
    BY <1>4 DEF Idle
  <2>4. QED
    BY <1>1, <1>4, <1>7, <2>1, <2>2, <2>3 DEF WithoutOrder
<1>9. LegalBook(TheBook')
  BY <1>4, <1>8, CancelLegal
<1>10. ArraysLegal'
  BY <1>6, <1>8, <1>9 DEF ArraysLegal, LegalBook
<1>11. QED
  BY <1>4, <1>5, <1>8, <1>10

\* setState installs the arrays of a state, sorted.
LEMMA SetStateStep ==
  ASSUME NEW s, s.buyOrders \in Seq(Order), s.sellOrders \in Seq(Order),
         s.matches \in Seq(Match), LegalState(s), SetState(s)
  PROVE  /\ ~Called
         /\ TheBook' = BookOf(SidesOf(s.buyOrders, s.sellOrders), s.matches)
         /\ ArraysLegal'
<1>1. /\ ~Called /\ call' = call /\ matches' = s.matches
      /\ buyOrders' = Sorted("buy", s.buyOrders) /\ sellOrders' = Sorted("sell", s.sellOrders)
  BY DEF SetState
<1>2. /\ s.buyOrders \in Seq(Order) /\ s.sellOrders \in Seq(Order)
      /\ OncePerId(s.buyOrders) /\ OncePerId(s.sellOrders)
      /\ LegalSides(SidesOf(s.buyOrders, s.sellOrders))
      /\ s.matches \in Seq(Match) /\ FairLog(s.matches)
  BY DEF LegalState
<1> DEFINE sides == SidesOf(s.buyOrders, s.sellOrders)
<1>3. /\ OrderType = {"buy", "sell"}
      /\ sides["buy"] = ToSet(s.buyOrders) /\ sides["sell"] = ToSet(s.sellOrders)
      /\ sides = [t \in OrderType |-> IF t = "buy" THEN ToSet(s.buyOrders) ELSE ToSet(s.sellOrders)]
  BY DEF OrderType, SidesOf
<1>4. /\ \A i \in DOMAIN s.buyOrders : s.buyOrders[i] \in sides["buy"]
      /\ \A i \in DOMAIN s.sellOrders : s.sellOrders[i] \in sides["sell"]
  BY <1>3 DEF ToSet
<1>5. /\ \A i \in DOMAIN s.buyOrders : s.buyOrders[i].type = "buy"
      /\ \A i \in DOMAIN s.sellOrders : s.sellOrders[i].type = "sell"
  BY <1>2, <1>3, <1>4 DEF LegalSides, ActiveOnTheirSide
<1>6. /\ buyOrders' \in Seq(Order) /\ InOrder(buyOrders') /\ ToSet(buyOrders') = ToSet(s.buyOrders)
      /\ sellOrders' \in Seq(Order) /\ InOrder(sellOrders')
      /\ ToSet(sellOrders') = ToSet(s.sellOrders)
  BY <1>1, <1>2, <1>3, <1>5, SortedSorts
<1>7. ~Called' /\ ~Called
  BY <1>1 DEF Called
<1>8. SidesOf(buyOrders', sellOrders') = sides
  <2>1. SidesOf(buyOrders', sellOrders') =
          [t \in OrderType |-> IF t = "buy" THEN ToSet(buyOrders') ELSE ToSet(sellOrders')]
    BY DEF SidesOf
  <2>2. QED
    BY <1>3, <1>6, <2>1
<1>9. TheBook' = [sides |-> sides, matches |-> s.matches, call |-> NoCall]
  BY <1>1, <1>7, <1>8 DEF TheBook
<1>10. TheBook' = BookOf(sides, s.matches)
  BY <1>9 DEF BookOf
<1>11. LegalBook(TheBook')
  <2>1. sides \in Sides
    <3>1. ToSet(s.buyOrders) \subseteq Order /\ ToSet(s.sellOrders) \subseteq Order
      BY <1>2 DEF ToSet
    <3> HIDE DEF sides
    <3>2. QED
      BY <1>3, <3>1 DEF Sides
  <2> HIDE DEF sides
  <2>2. TheBook' \in Book
    BY <1>2, <1>9, <2>1 DEF Book
  <2>3. QED
    BY <1>2, <1>9, <2>2 DEF LegalBook, Idle, sides
<1>12. ArraysLegal'
  BY <1>6, <1>7, <1>11 DEF ArraysLegal, ArraysSorted, LegalBook
<1>13. QED
  BY <1>7, <1>10, <1>12

\* The arrays start empty.
LEMMA EmptyArraysLegal == EmptyArrays => ArraysLegal /\ TheBook = EmptyBook
<1> SUFFICES ASSUME EmptyArrays PROVE ArraysLegal /\ TheBook = EmptyBook
  OBVIOUS
<1>1. buyOrders = <<>> /\ sellOrders = <<>> /\ matches = <<>> /\ ~Called
  BY DEF EmptyArrays, Called
<1>2. TheBook = EmptyBook
  <2>1. ToSet(<<>>) = {}
    BY DEF ToSet
  <2>2. QED
    BY <1>1, <2>1 DEF TheBook, SidesOf, EmptyBook, EmptySides
<1>3. ArraysSorted
  BY <1>1 DEF ArraysSorted, InOrder
<1>4. LegalBook(TheBook)
  <2>1. EmptyBook \in Book /\ Idle(EmptyBook) /\ EmptyBook.matches = <<>>
        /\ EmptyBook.sides = [t \in OrderType |-> {}]
    BY DEF EmptyBook, EmptySides, Book, Sides, Idle
  <2>2. LegalSides(EmptyBook.sides)
    BY <2>1 DEF LegalSides, ActiveOnTheirSide, UniqueIds, Uncrossed, OrderType
  <2>3. QED
    BY <1>2, <2>1, <2>2 DEF LegalBook, FairLog
<1>5. QED
  BY <1>1, <1>2, <1>3, <1>4 DEF ArraysLegal


-----------------------------------------------------------------------------
(* The types of the arrays, whatever they hold.                            *)

\* An array of orders is one when it is sorted.
LEMMA SortedType ==
  ASSUME NEW t \in OrderType, NEW s \in Seq(Order)
  PROVE  Sorted(t, s) \in Seq(Order)
<1> DEFINE P == DOMAIN s
<1>1. Sorted(t, s) = SortedAt(t, s, P) /\ P \in SUBSET (DOMAIN s)
  BY DEF Sorted
<1> HIDE DEF P
<1>2. SortedAt(t, s, P) \in Seq(Order)
  BY <1>1, SortedAtHolds
<1>3. QED
  BY <1>1, <1>2

\* A call begins with an array of orders.
LEMMA AddOrderTypes ==
  ASSUME ArraysTyped, NEW o \in Order, AddOrder(o)
  PROVE  ArraysTyped' /\ Called'
<1> DEFINE t == Opposite(o.type)
           a == Others(o)
           b == [i \in DOMAIN a |-> Clone(a[i])]
           P == {i \in DOMAIN a : CanMatchWith(a[i], o)}
           mo == MatchingOrders(o)
           c == [order |-> o, matchingOrders |-> mo, round |-> 1, matches |-> <<>>]
<1>1. /\ call' = c /\ buyOrders' = buyOrders /\ sellOrders' = sellOrders
      /\ matches' = matches
  BY DEF AddOrder
<1>2. t \in OrderType /\ a \in Seq(Order)
  BY DEF Opposite, OrderType, Others, ArraysTyped
<1>3. b = a
  <2>1. \A i \in DOMAIN a : a[i] \in Order
    BY <1>2
  <2>2. \A i \in DOMAIN a : Clone(a[i]) = a[i]
    BY <2>1, CloneIsEqual
  <2>3. a = [i \in DOMAIN a |-> a[i]]
    BY <1>2
  <2> HIDE DEF a
  <2>4. QED
    BY <2>2, <2>3
<1>4. mo \in Seq(Order)
  <2>1. mo = SortedAt(t, a, P)
    BY <1>3 DEF MatchingOrders
  <2>2. P \in SUBSET (DOMAIN a)
    OBVIOUS
  <2> HIDE DEF a, P, mo, t
  <2>3. QED
    BY <1>2, <2>1, <2>2, SortedAtHolds
<1> HIDE DEF mo
<1>5. CallTyped(c)
  <2>1. c \in [order: Order, matchingOrders: Seq(Order), round: Nat \ {0}, matches: Seq(Match)]
    BY <1>4
  <2>2. QED
    BY <1>4, <2>1 DEF CallTyped
<1>6. Called'
  <2>1. "round" \in DOMAIN c /\ "round" \notin DOMAIN NotCalled
    BY DEF NotCalled
  <2>2. QED
    BY <1>1, <2>1 DEF Called
<1>7. QED
  BY <1>1, <1>5, <1>6 DEF ArraysTyped

\* A fill leaves an order an order, though it may ask for more than it was for.
LEMMA ReducedType ==
  ASSUME NEW o \in Order, NEW n \in Nat, ValidFilledAmount(o, n)
  PROVE  UpdateAfterMatch(o, n) \in Order
<1> DEFINE r == [o EXCEPT !.amount = o.amount - n]
           s == IF r.amount = 0 THEN "filled"
                ELSE IF r.amount < r.originalAmount THEN "partially_filled" ELSE r.status
<1>1. o.amount \in Nat /\ o.amount - n \in Nat
  BY DEF Order, ValidFilledAmount
<1>2. r \in Order
  BY <1>1 DEF Order
<1>3. UpdateAfterMatch(o, n) = [r EXCEPT !.status = s]
  BY DEF UpdateAfterMatch, UpdateStatus
<1>4. s \in OrderStatus
  <2>1. r.status \in OrderStatus
    BY <1>2 DEF Order
  <2> HIDE DEF r
  <2>2. QED
    BY <2>1 DEF OrderStatus
<1> HIDE DEF r, s
<1>5. QED
  BY <1>2, <1>3, <1>4 DEF Order

\* A round keeps the types: a match that isValidMatch lets through takes no more
\* than either order has.
LEMMA MatchNextTypes ==
  ASSUME ArraysTyped, MatchNext
  PROVE  ArraysTyped' /\ Called /\ Called'
<1> DEFINE o == call.order
           mo == call.matchingOrders
           k == call.round
           c == mo[k]
           m == MakeMatch(o, c)
           u == UpdateAfterMatch(o, m.matchedAmount)
           next == [call EXCEPT !.order = u, !.round = @ + 1, !.matches = Append(@, m)]
           skip == [call EXCEPT !.round = @ + 1]
<1>1. /\ Called /\ k <= Len(mo)
      /\ call \in [order: Order, matchingOrders: Seq(Order), round: Nat \ {0}, matches: Seq(Match)]
      /\ o \in Order /\ mo \in Seq(Order) /\ k \in Nat \ {0}
      /\ buyOrders \in Seq(Order) /\ sellOrders \in Seq(Order) /\ matches \in Seq(Match)
  BY DEF MatchNext, InLoop, ArraysTyped, CallTyped
<1>2. c \in Order
  BY <1>1
<1>3. \A d : d \in [order: Order, matchingOrders: Seq(Order), round: Nat \ {0}, matches: Seq(Match)]
               => d # NotCalled
  BY DEF NotCalled
<1>4. CASE IsActive(c) /\ IsValidMatch(m, o, c)
  <2>1. /\ matches' = Append(matches, m) /\ call' = next
        /\ sellOrders' = sellOrders \/ sellOrders' = Spliced(sellOrders, c.id)
        /\ buyOrders' = buyOrders \/ buyOrders' = Spliced(buyOrders, c.id)
    BY <1>4 DEF MatchNext
  <2>2. m \in Match
    <3> HIDE DEF o, c
    <3>1. QED
      BY <1>1, <1>2 DEF MakeMatch, MatchAmount, Match, OrderRef, Ref, Order
  <2>3. u \in Order
    <3> DEFINE n == m.matchedAmount
    <3>1. ValidFilledAmount(o, n) /\ n \in Nat
      BY <1>4, <2>2 DEF IsValidMatch, ValidFilledAmount, Match
    <3>2. o \in Order /\ u = UpdateAfterMatch(o, n)
      BY <1>1
    <3> HIDE DEF o, m, n, u
    <3>3. QED
      BY <3>1, <3>2, ReducedType
  <2>4. /\ next \in [order: Order, matchingOrders: Seq(Order), round: Nat \ {0},
                     matches: Seq(Match)]
        /\ next.matchingOrders = mo /\ next.round = k + 1
    <3> HIDE DEF u, m
    <3>1. QED
      BY <1>1, <2>2, <2>3, NextLocals
  <2>5. buyOrders' \in Seq(Order) /\ sellOrders' \in Seq(Order)
    <3> HIDE DEF c
    <3>1. QED
      BY <1>1, <2>1, SplicedType
  <2>6. matches' \in Seq(Match)
    <3> HIDE DEF m
    <3>1. QED
      BY <1>1, <2>1, <2>2
  <2> HIDE DEF next, mo, k, m, c
  <2>7. CallTyped(next) /\ next # NotCalled
    BY <1>1, <1>3, <2>4 DEF CallTyped
  <2>8. QED
    BY <1>1, <2>1, <2>5, <2>6, <2>7 DEF ArraysTyped, Called
<1>5. CASE ~(IsActive(c) /\ IsValidMatch(m, o, c))
  <2>1. call' = skip /\ UNCHANGED <<buyOrders, sellOrders, matches>>
    BY <1>5 DEF MatchNext
  <2>2. /\ skip \in [order: Order, matchingOrders: Seq(Order), round: Nat \ {0},
                     matches: Seq(Match)]
        /\ skip.matchingOrders = mo /\ skip.round = k + 1
    <3> DEFINE v == k + 1
    <3>1. skip = [call EXCEPT !.round = v] /\ v \in Nat \ {0}
      BY <1>1
    <3>2. skip.matchingOrders = mo /\ skip.round = v
      BY <1>1
    <3> HIDE DEF v, skip
    <3>3. skip \in [order: Order, matchingOrders: Seq(Order), round: Nat \ {0},
                    matches: Seq(Match)]
      BY <1>1, <3>1
    <3>4. QED
      BY <3>2, <3>3 DEF v
  <2> HIDE DEF skip, mo, k
  <2>3. CallTyped(skip) /\ skip # NotCalled
    BY <1>1, <1>3, <2>2 DEF CallTyped
  <2>4. QED
    BY <1>1, <2>1, <2>3 DEF ArraysTyped, Called
<1>6. QED
  BY <1>4, <1>5

\* So does the end of a call.
LEMMA ReturnTypes ==
  ASSUME ArraysTyped, Return
  PROVE  ArraysTyped' /\ Called /\ ~Called'
<1> DEFINE o == call.order
           pushed(type, orders) ==
             IF IsActive(o) /\ o.type = type THEN Append(orders, o) ELSE orders
<1>1. /\ Called /\ call' = NotCalled /\ matches' = matches
      /\ buyOrders' = Sorted("buy", pushed("buy", buyOrders))
      /\ sellOrders' = Sorted("sell", pushed("sell", sellOrders))
  BY DEF Return
<1>2. o \in Order
  BY <1>1 DEF ArraysTyped, CallTyped
<1>3. \A a \in Seq(Order), t \in OrderType : pushed(t, a) \in Seq(Order)
  BY <1>2
<1> HIDE DEF pushed
<1>4. buyOrders' \in Seq(Order) /\ sellOrders' \in Seq(Order)
  BY <1>1, <1>3, SortedType DEF ArraysTyped, OrderType
<1>5. QED
  BY <1>1, <1>4 DEF ArraysTyped, Called

\* A cancellation that finds its order takes it out of one array; one that does
\* not changes nothing.
LEMMA CancelTakes ==
  ASSUME ArraysTyped, NEW id, CancelOrder(id)
  PROVE  /\ ArraysTyped' /\ ~Called /\ UNCHANGED <<matches, call>>
         /\ ~FindOrderById(id) => UNCHANGED bookVars
         /\ FindOrderById(id) =>
              \/ /\ \E i \in DOMAIN buyOrders : /\ buyOrders[i].id = id
                                               /\ buyOrders[i] = ToCancel(id)
                                               /\ buyOrders' = RemoveAt(buyOrders, i)
                 /\ UNCHANGED sellOrders
              \/ /\ \E i \in DOMAIN sellOrders : /\ sellOrders[i].id = id
                                                /\ sellOrders[i] = ToCancel(id)
                                                /\ sellOrders' = RemoveAt(sellOrders, i)
                 /\ UNCHANGED buyOrders
<1> DEFINE ib == IndexOf(buyOrders, id)
           is == IndexOf(sellOrders, id)
<1>1. /\ ~Called /\ matches' = matches /\ call' = call
      /\ buyOrders' = Spliced(buyOrders, id)
      /\ sellOrders' = IF ib = 0 THEN Spliced(sellOrders, id) ELSE sellOrders
  BY DEF CancelOrder
<1>2. buyOrders \in Seq(Order) /\ sellOrders \in Seq(Order)
  BY DEF ArraysTyped
<1>3. /\ Spliced(buyOrders, id) \in Seq(Order)
      /\ ib = 0 => Spliced(buyOrders, id) = buyOrders
      /\ ib # 0 => /\ ib \in DOMAIN buyOrders /\ buyOrders[ib].id = id
                  /\ Spliced(buyOrders, id) = RemoveAt(buyOrders, ib)
  BY <1>2, SplicedType
<1>4. /\ Spliced(sellOrders, id) \in Seq(Order)
      /\ is = 0 => Spliced(sellOrders, id) = sellOrders
      /\ is # 0 => /\ is \in DOMAIN sellOrders /\ sellOrders[is].id = id
                  /\ Spliced(sellOrders, id) = RemoveAt(sellOrders, is)
  BY <1>2, SplicedType
<1>5. /\ FindOrderById(id) <=> ib # 0 \/ is # 0
      /\ ToCancel(id) = IF ib # 0 THEN buyOrders[ib] ELSE sellOrders[is]
  BY DEF FindOrderById, ToCancel
<1> HIDE DEF ib, is
<1>6. ArraysTyped'
  BY <1>1, <1>3, <1>4 DEF ArraysTyped, Called
<1>7. ~FindOrderById(id) => UNCHANGED bookVars
  BY <1>1, <1>3, <1>4, <1>5 DEF bookVars
<1>8. CASE ib # 0
  BY <1>1, <1>3, <1>5, <1>6, <1>8
<1>9. CASE ib = 0
  BY <1>1, <1>3, <1>4, <1>5, <1>6, <1>7, <1>9
<1>10. QED
  BY <1>8, <1>9

\* setState installs arrays of orders, whatever they are.
LEMMA SetStateTypes ==
  ASSUME NEW s, s.buyOrders \in Seq(Order), s.sellOrders \in Seq(Order),
         s.matches \in Seq(Match), SetState(s)
  PROVE  ArraysTyped' /\ ~Called /\ ~Called'
<1>1. /\ ~Called /\ call' = call /\ matches' = s.matches
      /\ buyOrders' = Sorted("buy", s.buyOrders) /\ sellOrders' = Sorted("sell", s.sellOrders)
  BY DEF SetState
<1>2. buyOrders' \in Seq(Order) /\ sellOrders' \in Seq(Order)
  BY <1>1, SortedType DEF OrderType
<1>3. QED
  BY <1>1, <1>2 DEF ArraysTyped, Called
=============================================================================
