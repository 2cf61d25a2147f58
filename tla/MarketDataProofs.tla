-------------------------- MODULE MarketDataProofs --------------------------
(***************************************************************************)
(* Proofs about MarketData, for every set of orders and clients and every  *)
(* number of levels: what the reads of the book show, and that no change   *)
(* of the book is kept from a connection.                                  *)
(***************************************************************************)
EXTENDS MarketData, OrderBookProofs

(* Sorting *)

\* s lists its elements best first.
InOrder(s, isBid) == \A i, j \in DOMAIN s : i < j => Better(s[i], s[j], isBid)

\* The worst price of a set is worse than all others.
LEMMA WorstExists ==
    ASSUME NEW P \in SUBSET Nat, IsFiniteSet(P), P # {}, NEW isBid \in BOOLEAN
    PROVE  \E w \in P : \A p \in P \ {w} : Better(p, w, isBid)
<1> DEFINE T == {s \in SUBSET P : s # {} => \E w \in s : \A p \in s \ {w} : Better(p, w, isBid)}
<1>1. {} \in T
  OBVIOUS
<1>2. ASSUME NEW s \in SUBSET P, NEW x \in P, s \in T, x \notin s
      PROVE  s \cup {x} \in T
  <2>1. CASE s = {}
    BY <2>1
  <2>2. CASE s # {}
    <3>1. PICK w \in s : \A p \in s \ {w} : Better(p, w, isBid)
      BY <1>2, <2>2
    <3>2. x \in Nat /\ w \in Nat /\ x # w /\ \A p \in s : p \in Nat
      BY <1>2, <3>1
    <3>3. CASE Better(x, w, isBid)
      <4>1. \A p \in (s \cup {x}) \ {w} : Better(p, w, isBid)
        BY <3>1, <3>3
      <4> QED BY <3>1, <4>1
    <3>4. CASE ~Better(x, w, isBid)
      <4>1. \A p \in s : Better(p, x, isBid)
        BY <3>1, <3>2, <3>4 DEF Better
      <4>2. \A p \in (s \cup {x}) \ {x} : Better(p, x, isBid)
        BY <4>1
      <4> QED BY <4>2
    <3> QED BY <3>3, <3>4
  <2> QED BY <2>1, <2>2
<1>3. P \in T
  <2> HIDE DEF T
  <2> QED BY <1>1, <1>2, InductionOnSubsets
<1> QED BY <1>3

\* A finite set of prices can be listed best first.
LEMMA InOrderExists ==
    ASSUME NEW P \in SUBSET Nat, IsFiniteSet(P), NEW isBid \in BOOLEAN
    PROVE  \E s \in [1..Cardinality(P) -> P] : InOrder(s, isBid)
<1> DEFINE good == {n \in Nat : \A Q \in SUBSET P : Cardinality(Q) = n =>
                       \E s \in [1..n -> Q] : InOrder(s, isBid)}
<1>0. \A Q \in SUBSET P : IsFiniteSet(Q) /\ Cardinality(Q) \in Nat
  BY FS_Subset, FS_CardinalityType
<1>1. 0 \in good
  <2> SUFFICES ASSUME NEW Q \in SUBSET P, Cardinality(Q) = 0
               PROVE  \E s \in [1..0 -> Q] : InOrder(s, isBid)
    OBVIOUS
  <2> DEFINE s == [i \in 1..0 |-> 0]
  <2>1. s \in [1..0 -> Q] /\ InOrder(s, isBid)
    BY DEF InOrder
  <2> QED BY <2>1
<1>2. ASSUME NEW n \in Nat, n \in good PROVE n + 1 \in good
  <2> SUFFICES ASSUME NEW Q \in SUBSET P, Cardinality(Q) = n + 1
               PROVE  \E s \in [1..(n + 1) -> Q] : InOrder(s, isBid)
    OBVIOUS
  <2>1. Q # {}
    BY FS_EmptySet
  <2>2. PICK w \in Q : \A p \in Q \ {w} : Better(p, w, isBid)
    BY <1>0, <2>1, WorstExists
  <2>3. Cardinality(Q \ {w}) = n
    <3>1. IsFiniteSet(Q)
      BY <1>0
    <3>2. Cardinality(Q \ {w}) = Cardinality(Q) - 1
      BY <2>2, <3>1, FS_RemoveElement
    <3> QED BY <3>2
  <2>4. PICK r \in [1..n -> Q \ {w}] : InOrder(r, isBid)
    <3>1. Q \ {w} \in SUBSET P
      OBVIOUS
    <3>2. \A R \in SUBSET P : Cardinality(R) = n => \E s \in [1..n -> R] : InOrder(s, isBid)
      BY <1>2
    <3> HIDE DEF good
    <3> QED BY <2>3, <3>1, <3>2
  <2> DEFINE s == [i \in 1..(n + 1) |-> IF i = n + 1 THEN w ELSE r[i]]
  <2>5. s \in [1..(n + 1) -> Q]
    OBVIOUS
  <2>6. ASSUME NEW i \in 1..(n + 1), NEW j \in 1..(n + 1), i < j
        PROVE  Better(s[i], s[j], isBid)
    <3>1. i \in 1..n /\ s[i] = r[i] /\ r[i] \in Q \ {w}
      BY <2>6
    <3>2. CASE j = n + 1
      <4>1. s[j] = w
        BY <3>2
      <4> QED BY <2>2, <3>1, <4>1
    <3>3. CASE j # n + 1
      <4>1. j \in 1..n /\ s[j] = r[j]
        BY <3>3
      <4> QED BY <2>4, <2>6, <3>1, <4>1 DEF InOrder
    <3> QED BY <3>2, <3>3
  <2>7. InOrder(s, isBid)
    BY <2>6 DEF InOrder
  <2> QED BY <2>5, <2>7
<1>3. Cardinality(P) \in good
  <2> HIDE DEF good
  <2> QED BY <1>0, <1>1, <1>2, InductionOnNat
<1> QED BY <1>3

\* sort.Slice on the keys of byPrice: each price once, best first.
LEMMA BestFirstFacts ==
    ASSUME NEW P \in SUBSET Nat, IsFiniteSet(P), NEW isBid \in BOOLEAN
    PROVE  /\ BestFirst(P, isBid) \in [1..Cardinality(P) -> P]
           /\ InOrder(BestFirst(P, isBid), isBid)
           /\ \A p \in P : \E i \in 1..Cardinality(P) : BestFirst(P, isBid)[i] = p
           /\ Cardinality(P) \in Nat
<1> DEFINE n == Cardinality(P)
           s == BestFirst(P, isBid)
<1>1. n \in Nat
  BY FS_CardinalityType
<1>2. s \in [1..n -> P] /\ InOrder(s, isBid)
  BY InOrderExists DEF BestFirst, InOrder
<1> HIDE DEF s
<1>3. s \in Injection(1..n, P)
  <2> SUFFICES ASSUME NEW i \in 1..n, NEW j \in 1..n, s[i] = s[j], i # j PROVE FALSE
    BY <1>2 DEF Injection, IsInjective
  <2>1. s[i] \in Nat
    BY <1>2
  <2>2. CASE i < j
    <3>1. Better(s[i], s[i], isBid)
      BY <1>2, <2>2 DEF InOrder
    <3> QED BY <2>1, <3>1 DEF Better
  <2>3. CASE j < i
    <3>1. Better(s[i], s[i], isBid)
      BY <1>2, <2>3 DEF InOrder
    <3> QED BY <2>1, <3>1 DEF Better
  <2> QED BY <1>1, <2>2, <2>3
<1>4. Cardinality(1..n) = n
  <2>1. 1 \in Int /\ n \in Int
    BY <1>1
  <2>2. Cardinality(1..n) = IF 1 > n THEN 0 ELSE n - 1 + 1
    BY <2>1, FS_Interval
  <2> HIDE DEF n
  <2> QED BY <1>1, <2>2
<1>5. s \in Surjection(1..n, P)
  BY <1>3, <1>4, FS_Injection
<1> QED BY <1>1, <1>2, <1>5 DEF s, Surjection
-----------------------------------------------------------------------------
(* One side of a depth, as a function of the orders it is computed from *)

\* What is left at a price, and the prices with something left.
LeftAt(ord, rem, orders, price) ==
    SumFunction([i \in DOMAIN orders |->
        IF ord[orders[i]].price = price THEN rem[orders[i]] ELSE 0])

PricesLeft(ord, rem, orders) == {ord[o].price : o \in {p \in Range(orders) : rem[p] # 0}}

\* A list of orders as it is on a side of the book: no order twice, each
\* with a limit and something left.
OpenSide(ord, rem, orders) ==
    /\ orders \in Seq(Orders) /\ IsInjective(orders)
    /\ ord \in [Orders -> OrderFields] /\ rem \in [Orders -> Nat]
    /\ \A o \in Range(orders) : ord[o].price \in Prices /\ rem[o] > 0

\* The levels shown of a side.
SideLevels(ord, rem, orders, levels, isBid) ==
    LET sorted == BestFirst(PricesLeft(ord, rem, orders), isBid)
        shown == SubSeq(sorted, 1, MinOf(Len(sorted), levels))
    IN  [i \in 1..Len(shown) |->
            [price |-> shown[i], quantity |-> LeftAt(ord, rem, orders, shown[i])]]

\* The elements of a sequence are finitely many.
LEMMA RangeIsFinite ==
    ASSUME NEW S, NEW s \in Seq(S)
    PROVE  IsFiniteSet(Range(s)) /\ IsFiniteSet(DOMAIN s)
<1>1. DOMAIN s = 1..Len(s) /\ 1 \in Int /\ Len(s) \in Int
  OBVIOUS
<1>2. IsFiniteSet(DOMAIN s)
  BY <1>1, FS_Interval
<1>3. s \in Surjection(DOMAIN s, Range(s))
  BY DEF Surjection, Range
<1> QED BY <1>2, <1>3, FS_Surjection

\* What is left at a price is the sum over the orders at that price.
LEMMA LeftIsSum ==
    ASSUME NEW ord, NEW rem, NEW orders, OpenSide(ord, rem, orders), NEW price
    PROVE  LeftAt(ord, rem, orders, price)
             = SumFunctionOnSet(rem, {o \in Range(orders) : ord[o].price = price})
<1> DEFINE D == DOMAIN orders
           f == [i \in D |-> IF ord[orders[i]].price = price THEN rem[orders[i]] ELSE 0]
           A == {i \in D : ord[orders[i]].price = price}
           B == D \ A
<1>1. IsFiniteSet(D) /\ IsFiniteSet(A) /\ IsFiniteSet(B)
  <2>1. IsFiniteSet(D)
    BY RangeIsFinite DEF OpenSide
  <2> QED BY <2>1, FS_Subset
<1>2. \A i \in D : orders[i] \in Orders /\ rem[orders[i]] \in Int /\ f[i] \in Int
  BY DEF OpenSide
<1>3. LeftAt(ord, rem, orders, price) = SumFunctionOnSet(f, D)
  BY DEF LeftAt, SumFunction, SumFunctionOnSet, FoldFunction
<1>4. SumFunctionOnSet(f, A \cup B) = SumFunctionOnSet(f, A) + SumFunctionOnSet(f, B)
  BY <1>1, <1>2, SumUnion
<1>5. A \cup B = D
  OBVIOUS
<1>6. SumFunctionOnSet(f, B) = 0
  BY <1>1, SumZero
<1>7. SumFunctionOnSet(f, A) \in Int
  BY <1>1, <1>2, SumIsInt
<1>8. SumFunctionOnSet(f, A) = SumFunctionOnSet(rem, {orders[i] : i \in A})
  <2>1. \A i \in A : f[i] = rem[orders[i]] /\ f[i] \in Int
    BY <1>2
  <2>2. \A i, j \in A : orders[i] = orders[j] => i = j
    BY DEF OpenSide, IsInjective
  <2> HIDE DEF f, A
  <2> QED BY <1>1, <2>1, <2>2, SumReindex
<1>9. {orders[i] : i \in A} = {o \in Range(orders) : ord[o].price = price}
  BY DEF Range
<1>10. SumFunctionOnSet(f, D) = SumFunctionOnSet(f, A)
  <2> DEFINE a == SumFunctionOnSet(f, A)
             b == SumFunctionOnSet(f, B)
             all == SumFunctionOnSet(f, D)
  <2>1. all = a + b /\ a \in Int /\ b = 0
    BY <1>4, <1>5, <1>6, <1>7
  <2> HIDE DEF a, b, all
  <2>2. all = a
    BY <2>1
  <2> QED BY <2>2 DEF a, all
<1> QED BY <1>3, <1>8, <1>9, <1>10

\* The levels d are the prices of a side, best first, each with all that is
\* left there, and none better than the last is left out.
ShowsSide(d, ord, rem, orders, levels, isBid) ==
    /\ d \in Seq(Level) /\ Len(d) <= levels
    /\ \A i, j \in 1..Len(d) : i < j => Better(d[i].price, d[j].price, isBid)
    /\ \A i \in 1..Len(d) :
          d[i].quantity
            = SumFunctionOnSet(rem, {o \in Range(orders) : ord[o].price = d[i].price})
    /\ \A i \in 1..Len(d) : \E o \in Range(orders) : ord[o].price = d[i].price
    /\ \A o \in Range(orders) :
          \/ \E i \in 1..Len(d) : d[i].price = ord[o].price
          \/ Len(d) > 0 /\ Better(d[Len(d)].price, ord[o].price, isBid)

\* The levels of a list of open orders show it.
LEMMA SideLevelsFacts ==
    ASSUME NEW ord, NEW rem, NEW orders, OpenSide(ord, rem, orders),
           NEW levels \in Nat \ {0}, NEW isBid \in BOOLEAN
    PROVE  ShowsSide(SideLevels(ord, rem, orders, levels, isBid), ord, rem, orders, levels,
                     isBid)
<1> DEFINE P == PricesLeft(ord, rem, orders)
           n == Cardinality(P)
           s == BestFirst(P, isBid)
           k == MinOf(n, levels)
           shown == SubSeq(s, 1, MinOf(Len(s), levels))
           d == SideLevels(ord, rem, orders, levels, isBid)
<1>1. P = {ord[o].price : o \in Range(orders)}
  BY DEF PricesLeft, OpenSide
<1>2. P \in SUBSET Prices /\ P \in SUBSET Nat
  BY <1>1, PricesAssumption DEF OpenSide
<1>3. IsFiniteSet(P)
  <2>1. IsFiniteSet(Range(orders))
    BY RangeIsFinite DEF OpenSide
  <2>2. [o \in Range(orders) |-> ord[o].price] \in Surjection(Range(orders), P)
    BY <1>1 DEF Surjection
  <2> QED BY <2>1, <2>2, FS_Surjection
<1>4. /\ s \in [1..n -> P] /\ InOrder(s, isBid) /\ n \in Nat
      /\ \A p \in P : \E i \in 1..n : s[i] = p
  BY <1>2, <1>3, BestFirstFacts
<1> HIDE DEF P, s, n
<1>5. /\ s \in Seq(P) /\ Len(s) = n
      /\ k \in Nat /\ k <= n /\ k <= levels /\ (k < n => k = levels)
  BY <1>4 DEF MinOf
<1>6. Len(shown) = k /\ \A i \in 1..k : shown[i] = s[i] /\ s[i] \in P
  <2> HIDE DEF k
  <2>1. shown = SubSeq(s, 1, k)
    BY <1>5 DEF k
  <2>2. /\ s \in Seq(P) /\ k \in Nat /\ k <= Len(s)
        /\ \A i \in 1..Len(s) : s[i] \in P
    BY <1>4, <1>5
  <2>3. Len(SubSeq(s, 1, k)) = k /\ \A i \in 1..k : SubSeq(s, 1, k)[i] = s[i]
    BY <2>2
  <2> HIDE DEF shown
  <2> QED BY <2>1, <2>2, <2>3
<1>7. d = [i \in 1..k |-> [price |-> s[i], quantity |-> LeftAt(ord, rem, orders, s[i])]]
  <2>1. d = [i \in 1..Len(shown) |->
               [price |-> shown[i], quantity |-> LeftAt(ord, rem, orders, shown[i])]]
    BY DEF d, s, P, SideLevels
  <2> HIDE DEF d, shown, k
  <2> QED BY <1>6, <2>1
<1> HIDE DEF d, k, shown
<1>8. \A i \in 1..k : d[i].price = s[i] /\ d[i].quantity = LeftAt(ord, rem, orders, s[i])
  BY <1>7
<1>9. ASSUME NEW i \in 1..k
      PROVE  /\ d[i] \in Level
             /\ \E o \in Range(orders) : ord[o].price = d[i].price
  <2>1. s[i] \in P
    BY <1>6
  <2>2. PICK o \in Range(orders) : ord[o].price = s[i]
    BY <1>1, <2>1
  <2> DEFINE R == {p \in Range(orders) : ord[p].price = s[i]}
  <2>3. IsFiniteSet(R) /\ \A p \in R : rem[p] \in Nat /\ rem[p] > 0
    <3>1. IsFiniteSet(Range(orders))
      BY RangeIsFinite DEF OpenSide
    <3>2. \A p \in Range(orders) : p \in Orders
      BY DEF OpenSide, Range
    <3> QED BY <3>1, <3>2, FS_Subset DEF OpenSide
  <2>4. SumFunctionOnSet(rem, R) = rem[o] + SumFunctionOnSet(rem, R \ {o})
    BY <2>2, <2>3, SumRemove
  <2>5. SumFunctionOnSet(rem, R \ {o}) \in Nat
    BY <2>3, SumIsNat, FS_RemoveElement
  <2>6. rem[o] \in Nat \ {0}
    BY <2>2, <2>3
  <2>7. SumFunctionOnSet(rem, R) \in Nat \ {0}
    <3> DEFINE a == rem[o]
               b == SumFunctionOnSet(rem, R \ {o})
               c == SumFunctionOnSet(rem, R)
    <3>1. c = a + b /\ a \in Nat \ {0} /\ b \in Nat
      BY <2>4, <2>5, <2>6
    <3> HIDE DEF a, b, c
    <3>2. c \in Nat \ {0}
      BY <3>1
    <3> QED BY <3>2 DEF c
  <2>8. LeftAt(ord, rem, orders, s[i]) \in Nat \ {0}
    BY <2>7, LeftIsSum
  <2>9. d[i] = [price |-> s[i], quantity |-> LeftAt(ord, rem, orders, s[i])]
    BY <1>7
  <2> QED BY <1>2, <1>8, <2>1, <2>2, <2>8, <2>9 DEF Level
<1>10. d \in Seq(Level) /\ Len(d) = k
  <2>1. DOMAIN d = 1..k
    BY <1>7
  <2>2. d \in [1..k -> Level]
    BY <1>7, <1>9, <2>1
  <2> QED BY <1>5, <2>2
<1>11. ASSUME NEW i \in 1..k, NEW j \in 1..k, i < j
       PROVE  Better(d[i].price, d[j].price, isBid)
  <2>1. i \in DOMAIN s /\ j \in DOMAIN s
    BY <1>4, <1>5
  <2> QED BY <1>4, <1>8, <1>11, <2>1 DEF InOrder
<1>12. ASSUME NEW i \in 1..k
       PROVE  d[i].quantity
                = SumFunctionOnSet(rem, {o \in Range(orders) : ord[o].price = d[i].price})
  BY <1>8, LeftIsSum
<1>13. ASSUME NEW o \in Range(orders)
       PROVE  \/ \E i \in 1..k : d[i].price = ord[o].price
              \/ k > 0 /\ Better(d[k].price, ord[o].price, isBid)
  <2>1. PICK i \in 1..n : s[i] = ord[o].price
    BY <1>1, <1>4
  <2>2. CASE i <= k
    <3>1. i \in 1..k
      BY <1>5, <2>2
    <3> QED BY <1>8, <2>1, <3>1
  <2>3. CASE i > k
    <3>1. k = levels /\ k > 0 /\ k \in 1..k /\ k < i
      BY <1>4, <1>5, <2>1, <2>3
    <3>2. k \in DOMAIN s /\ i \in DOMAIN s
      BY <1>4, <1>5, <3>1
    <3>3. Better(s[k], s[i], isBid)
      BY <1>4, <3>1, <3>2 DEF InOrder
    <3> QED BY <1>8, <2>1, <3>1, <3>3
  <2> QED BY <1>4, <1>5, <2>2, <2>3
<1>14. ShowsSide(d, ord, rem, orders, levels, isBid)
  BY <1>5, <1>9, <1>10, <1>11, <1>12, <1>13 DEF ShowsSide
<1> QED BY <1>14 DEF d
-----------------------------------------------------------------------------
(* Depth *)

\* The orders of both sides are open.
LEMMA SidesAreOpen ==
    ASSUME BookInv
    PROVE  OpenSide(order, remaining, bids) /\ OpenSide(order, remaining, asks)
<1>1. /\ bids \in Seq(Orders) /\ asks \in Seq(Orders)
      /\ order \in [Orders -> OrderFields] /\ remaining \in [Orders -> Nat]
  BY DEF BookInv, BookTypeOK
<1>2. IsInjective(bids) /\ IsInjective(asks)
  BY DEF BookInv, OnBookExactlyWhileOpen
<1>3. \A o \in Range(bids) \cup Range(asks) : o \in Orders
  BY <1>1 DEF Range
<1>4. \A o \in Range(bids) \cup Range(asks) : remaining[o] > 0 /\ order[o].price # Market
  BY <1>3 DEF BookInv, OnBookExactlyWhileOpen, Resting, isMarket
<1>5. \A o \in Orders : order[o].price \in Prices \cup {Market}
  BY <1>1 DEF OrderFields
<1> QED BY <1>1, <1>2, <1>3, <1>4, <1>5 DEF OpenSide

\* Depth shows the levels of the two sides.
LEMMA DepthIsSides ==
    \A levels :
        Depth(levels) = [bids |-> SideLevels(order, remaining, bids, levels, TRUE),
                         asks |-> SideLevels(order, remaining, asks, levels, FALSE)]
  BY DEF Depth, aggregateSide, SideLevels, QuantityAt, LeftAt, OpenPrices, PricesLeft

\* A depth is two lists of levels.
LEMMA DepthIsTyped ==
    ASSUME BookInv, NEW levels \in Nat \ {0}
    PROVE  Depth(levels) \in [bids : Seq(Level), asks : Seq(Level)]
<1>1. /\ SideLevels(order, remaining, bids, levels, TRUE) \in Seq(Level)
      /\ SideLevels(order, remaining, asks, levels, FALSE) \in Seq(Level)
  BY SidesAreOpen, SideLevelsFacts DEF ShowsSide
<1> QED BY <1>1, DepthIsSides

\* The orders in S have the same fields and the same left.
SameOrders(S, ord, rem, ord2, rem2) == \A o \in S : ord2[o] = ord[o] /\ rem2[o] = rem[o]

\* The levels of a side depend on the orders of that side only.
LEMMA SideLevelsAgree ==
    ASSUME NEW ord, NEW rem, NEW ord2, NEW rem2, NEW orders, NEW levels,
           NEW isBid \in BOOLEAN,
           SameOrders(Range(orders), ord, rem, ord2, rem2)
    PROVE  SideLevels(ord2, rem2, orders, levels, isBid)
             = SideLevels(ord, rem, orders, levels, isBid)
<1>1. PricesLeft(ord2, rem2, orders) = PricesLeft(ord, rem, orders)
  BY DEF PricesLeft, SameOrders
<1>2. \A i \in DOMAIN orders : orders[i] \in Range(orders)
  BY DEF Range
<1>3. ASSUME NEW price PROVE LeftAt(ord2, rem2, orders, price) = LeftAt(ord, rem, orders, price)
  <2>1. [i \in DOMAIN orders |-> IF ord2[orders[i]].price = price THEN rem2[orders[i]] ELSE 0]
          = [i \in DOMAIN orders |-> IF ord[orders[i]].price = price THEN rem[orders[i]] ELSE 0]
    BY <1>2 DEF SameOrders
  <2> QED BY <2>1 DEF LeftAt
<1> QED BY <1>1, <1>3 DEF SideLevels

\* Depth answers the same after a step that leaves the resting orders alone.
LEMMA DepthStays ==
    ASSUME UNCHANGED <<bids, asks>>,
           \A o \in Resting : order'[o] = order[o] /\ remaining'[o] = remaining[o],
           NEW levels
    PROVE  Depth(levels)' = Depth(levels)
<1>1. Depth(levels)' = [bids |-> SideLevels(order', remaining', bids, levels, TRUE),
                        asks |-> SideLevels(order', remaining', asks, levels, FALSE)]
  BY DepthIsSides
  DEF Depth, aggregateSide, SideLevels, QuantityAt, LeftAt, OpenPrices, PricesLeft
<1>2. /\ SameOrders(Range(bids), order, remaining, order', remaining')
      /\ SameOrders(Range(asks), order, remaining, order', remaining')
  BY DEF Resting, SameOrders
<1>3. ASSUME NEW isBid \in BOOLEAN
      PROVE  /\ SideLevels(order', remaining', bids, levels, isBid)
                  = SideLevels(order, remaining, bids, levels, isBid)
             /\ SideLevels(order', remaining', asks, levels, isBid)
                  = SideLevels(order, remaining, asks, levels, isBid)
  BY <1>2, SideLevelsAgree
<1>4. /\ SideLevels(order', remaining', bids, levels, TRUE)
           = SideLevels(order, remaining, bids, levels, TRUE)
      /\ SideLevels(order', remaining', asks, levels, FALSE)
           = SideLevels(order, remaining, asks, levels, FALSE)
  BY <1>3
<1> QED BY <1>1, <1>3, <1>4, DepthIsSides

\* What GET /depth answers is the top of a sorted, uncrossed, exact book.
LEMMA DepthIsRight == BookInv => DepthIsTheTopOfTheBook
<1> SUFFICES ASSUME BookInv, NEW levels \in 1..(Levels + 1)
             PROVE  LET d == Depth(levels) IN
                    /\ Len(d.bids) <= levels /\ Len(d.asks) <= levels
                    /\ LevelsMatch(d.bids, Range(bids), TRUE)
                    /\ LevelsMatch(d.asks, Range(asks), FALSE)
                    /\ d.bids # <<>> /\ d.asks # <<>> => d.bids[1].price < d.asks[1].price
  BY DEF DepthIsTheTopOfTheBook
<1> DEFINE b == SideLevels(order, remaining, bids, levels, TRUE)
           a == SideLevels(order, remaining, asks, levels, FALSE)
<1>1. levels \in Nat \ {0}
  BY MarketDataAssumption
<1>2. Depth(levels).bids = b /\ Depth(levels).asks = a
  BY DepthIsSides
<1>3. OpenSide(order, remaining, bids) /\ OpenSide(order, remaining, asks)
  BY SidesAreOpen
<1>4. /\ ShowsSide(b, order, remaining, bids, levels, TRUE)
      /\ ShowsSide(a, order, remaining, asks, levels, FALSE)
  BY <1>1, <1>3, SideLevelsFacts
<1> HIDE DEF b, a
<1>5. Len(b) <= levels /\ LevelsMatch(b, Range(bids), TRUE)
  BY <1>4 DEF ShowsSide, LevelsMatch
<1>6. Len(a) <= levels /\ LevelsMatch(a, Range(asks), FALSE)
  BY <1>4 DEF ShowsSide, LevelsMatch
<1>7. /\ b \in Seq(Level) /\ a \in Seq(Level)
      /\ \A i \in 1..Len(b) : \E o \in Range(bids) : order[o].price = b[i].price
      /\ \A i \in 1..Len(a) : \E o \in Range(asks) : order[o].price = a[i].price
  BY <1>4 DEF ShowsSide
<1>8. ASSUME b # <<>>, a # <<>> PROVE b[1].price < a[1].price
  <2>1. 1 \in 1..Len(b) /\ 1 \in 1..Len(a)
    BY <1>7, <1>8
  <2>2. PICK o \in Range(bids) : order[o].price = b[1].price
    BY <1>7, <2>1
  <2>3. PICK p \in Range(asks) : order[p].price = a[1].price
    BY <1>7, <2>1
  <2>4. order[o].price < order[p].price
    BY DEF BookInv, Uncrossed
  <2> QED BY <2>2, <2>3, <2>4
<1> QED BY <1>2, <1>5, <1>6, <1>8
-----------------------------------------------------------------------------
(* RecentTrades *)

\* The trades of the tape that finished matches have recorded: all but those
\* of the match that is running.
Recorded == Len(tape) - (IF mu = None THEN 0 ELSE Len(fills))

\* The book's list is the newest of the recorded trades, and the local list
\* of the running match the rest of the tape.
TradesFollowTape ==
    /\ Recorded \in Nat
    /\ mu # None => \A i \in DOMAIN fills : fills[i] = tape[Recorded + i]
    /\ Len(trades) = MinOf(Recorded, TradeCap)
    /\ \A i \in DOMAIN trades : trades[i] = tape[Recorded - Len(trades) + i]

\* The last n elements of a sequence.
LEMMA LastNElements ==
    ASSUME NEW S, NEW s \in Seq(S), NEW n \in Nat
    PROVE  /\ LastN(s, n) \in Seq(S)
           /\ Len(LastN(s, n)) = MinOf(Len(s), n)
           /\ \A i \in 1..MinOf(Len(s), n) : LastN(s, n)[i] = s[Len(s) - MinOf(Len(s), n) + i]
<1>1. Len(s) \in Nat
  OBVIOUS
<1>2. CASE Len(s) > n
  <2>1. LastN(s, n) = SubSeq(s, Len(s) - n + 1, Len(s)) /\ MinOf(Len(s), n) = n
    BY <1>1, <1>2 DEF LastN, MinOf
  <2>2. /\ SubSeq(s, Len(s) - n + 1, Len(s)) \in Seq(S)
        /\ Len(SubSeq(s, Len(s) - n + 1, Len(s))) = n
        /\ \A i \in 1..n : SubSeq(s, Len(s) - n + 1, Len(s))[i] = s[Len(s) - n + i]
    BY <1>1, <1>2
  <2> QED BY <2>1, <2>2
<1>3. CASE Len(s) <= n
  <2>1. LastN(s, n) = SubSeq(s, 1, Len(s)) /\ MinOf(Len(s), n) = Len(s)
    <3>1. LastN(s, n) = SubSeq(s, 1, Len(s))
      <4>1. ~(Len(s) > n)
        BY <1>1, <1>3
      <4> QED BY <4>1 DEF LastN
    <3>2. MinOf(Len(s), n) = Len(s)
      <4> DEFINE l == Len(s)
      <4>1. l \in Nat /\ l <= n
        BY <1>1, <1>3
      <4> HIDE DEF l
      <4>2. MinOf(l, n) = l
        BY <4>1 DEF MinOf
      <4> QED BY <4>2 DEF l
    <3> QED BY <3>1, <3>2
  <2>2. SubSeq(s, 1, Len(s)) = s
    BY <1>1
  <2>3. \A i \in 1..Len(s) : Len(s) - Len(s) + i = i
    BY <1>1
  <2> QED BY <2>1, <2>2, <2>3
<1> QED BY <1>1, <1>2, <1>3

\* Initially nothing was traded.
LEMMA InitTradesFollowTape == BookInit => TradesFollowTape
  BY TradeCapAssumption DEF BookInit, TradesFollowTape, Recorded, MinOf

\* Match records the trades of its loop when it returns.
LEMMA ReturnRecordsTrades ==
    ASSUME BookInv, TradesFollowTape, NEW o \in Orders, MatchReturn(o)
    PROVE  TradesFollowTape'
<1> DEFINE n == Len(tape)
           f == Len(fills)
           t == Len(trades)
           s == trades \o fills
           k == MinOf(t + f, TradeCap)
<1>1. /\ trades \in Seq(Trade) /\ fills \in Seq(Trade) /\ tape \in Seq(Trade)
      /\ n \in Nat /\ f \in Nat /\ t \in Nat /\ TradeCap \in Nat \ {0}
  BY TradeCapAssumption DEF BookInv, BookTypeOK
<1>2. mu # None /\ mu' = None /\ tape' = tape /\ trades' = LastN(s, TradeCap)
  BY NoneAssumption DEF MatchReturn
<1>3. Recorded = n - f /\ Recorded' = n
  BY <1>1, <1>2 DEF Recorded
<1>4. /\ n - f \in Nat /\ t = MinOf(n - f, TradeCap)
      /\ \A i \in 1..f : fills[i] = tape[(n - f) + i]
      /\ \A i \in 1..t : trades[i] = tape[(n - f) - t + i]
  <2>1. DOMAIN fills = 1..f /\ DOMAIN trades = 1..t
    BY <1>1
  <2> DEFINE d == n - f
  <2>2. Recorded = d
    BY <1>3
  <2> HIDE DEF d
  <2>3. /\ d \in Nat /\ t = MinOf(d, TradeCap)
        /\ \A i \in 1..f : fills[i] = tape[d + i]
        /\ \A i \in 1..t : trades[i] = tape[d - t + i]
    BY <1>2, <2>1, <2>2 DEF TradesFollowTape
  <2> QED BY <2>3 DEF d
<1>5. /\ s \in Seq(Trade) /\ Len(s) = t + f
      /\ \A i \in 1..(t + f) : s[i] = IF i <= t THEN trades[i] ELSE fills[i - t]
  BY <1>1
<1>6. /\ Len(trades') = k /\ DOMAIN trades' = 1..k
      /\ \A i \in 1..k : trades'[i] = s[(t + f) - k + i]
  <2>1. TradeCap \in Nat
    BY <1>1
  <2> HIDE DEF s
  <2> DEFINE new == LastN(s, TradeCap)
  <2>2. /\ new \in Seq(Trade) /\ Len(new) = MinOf(Len(s), TradeCap)
        /\ \A i \in 1..MinOf(Len(s), TradeCap) :
              new[i] = s[Len(s) - MinOf(Len(s), TradeCap) + i]
    BY <1>5, <2>1, LastNElements
  <2>3. MinOf(Len(s), TradeCap) = k /\ Len(s) = t + f
    BY <1>5
  <2>4. trades' = new
    BY <1>2 DEF s
  <2> HIDE DEF new, k
  <2>5. new \in Seq(Trade) /\ Len(new) = k /\ \A i \in 1..k : new[i] = s[(t + f) - k + i]
    BY <2>2, <2>3
  <2> QED BY <2>4, <2>5
<1>7. k \in Nat /\ k <= t + f /\ k = MinOf(n, TradeCap)
  <2> HIDE DEF n, f, t
  <2> QED BY <1>1, <1>4 DEF MinOf
<1> HIDE DEF k, s
<1>8. \A i \in 1..(t + f) : s[i] = tape[n - (t + f) + i]
  <2> SUFFICES ASSUME NEW i \in 1..(t + f) PROVE s[i] = tape[n - (t + f) + i]
    OBVIOUS
  <2>1. CASE i <= t
    <3>1. s[i] = tape[(n - f) - t + i]
      BY <1>1, <1>4, <1>5, <2>1
    <3>2. (n - f) - t + i = n - (t + f) + i
      <4> HIDE DEF n, f, t
      <4> QED BY <1>1
    <3> QED BY <3>1, <3>2
  <2>2. CASE i > t
    <3>1. s[i] = fills[i - t] /\ i - t \in 1..f
      BY <1>1, <1>5, <2>2
    <3>2. s[i] = tape[(n - f) + (i - t)]
      BY <1>4, <3>1
    <3>3. (n - f) + (i - t) = n - (t + f) + i
      <4> HIDE DEF n, f, t
      <4> QED BY <1>1
    <3> QED BY <3>2, <3>3
  <2> QED BY <1>1, <2>1, <2>2
<1>9. \A i \in 1..k : trades'[i] = tape[n - k + i]
  <2> SUFFICES ASSUME NEW i \in 1..k PROVE trades'[i] = tape[n - k + i]
    OBVIOUS
  <2> HIDE DEF n, f, t
  <2>1. (t + f) - k + i \in 1..(t + f) /\ n - (t + f) + ((t + f) - k + i) = n - k + i
    BY <1>1, <1>7
  <2> QED BY <1>6, <1>8, <2>1
<1>10. /\ Recorded' \in Nat /\ mu' = None
       /\ Len(trades') = MinOf(Recorded', TradeCap)
       /\ \A i \in DOMAIN trades' : trades'[i] = tape'[Recorded' - Len(trades') + i]
  BY <1>1, <1>2, <1>3, <1>6, <1>7, <1>9
<1> QED BY <1>10 DEF TradesFollowTape

\* Every step keeps the lists in step with the tape.
LEMMA NextTradesFollowTape ==
    ASSUME BookInv, TradesFollowTape, [BookNext]_bookVars
    PROVE  TradesFollowTape'
<1>1. /\ trades \in Seq(Trade) /\ fills \in Seq(Trade) /\ tape \in Seq(Trade)
      /\ Len(tape) \in Nat /\ Len(fills) \in Nat /\ Len(trades) \in Nat
  BY DEF BookInv, BookTypeOK
<1>2. ASSUME UNCHANGED <<tape, fills, trades, mu>> PROVE TradesFollowTape'
  BY <1>2 DEF TradesFollowTape, Recorded
<1>3. ASSUME NEW o \in Orders, NEW side \in Sides, NEW p \in Prices \cup {Market},
             NEW q \in Quantities, NEW now \in clock..MaxClock, Submit(o, side, p, q, now)
      PROVE  TradesFollowTape'
  BY <1>2, <1>3 DEF Submit
<1>4. ASSUME NEW o \in Orders, MatchLock(o) PROVE TradesFollowTape'
  <2>1. mu = None /\ mu' # None /\ fills' = <<>> /\ tape' = tape /\ trades' = trades
    BY <1>4, NoneAssumption DEF MatchLock
  <2>2. Recorded' = Recorded
    BY <1>1, <2>1 DEF Recorded
  <2> QED BY <2>1, <2>2 DEF TradesFollowTape
<1>5. ASSUME NEW o \in Orders, MatchFill(o) PROVE TradesFollowTape'
  <2> DEFINE x == Fill(o, Head(Opposite(o)))
  <2>1. /\ mu # None /\ mu' = mu /\ trades' = trades
        /\ fills' = Append(fills, x) /\ tape' = Append(tape, x)
    BY <1>5, NoneAssumption DEF MatchFill
  <2> HIDE DEF x
  <2>2. /\ Len(fills') = Len(fills) + 1 /\ Len(tape') = Len(tape) + 1
        /\ DOMAIN fills' = 1..(Len(fills) + 1)
        /\ fills'[Len(fills) + 1] = x /\ tape'[Len(tape) + 1] = x
        /\ \A i \in 1..Len(fills) : fills'[i] = fills[i]
        /\ \A i \in 1..Len(tape) : tape'[i] = tape[i]
    BY <1>1, <2>1
  <2>3. Recorded = Len(tape) - Len(fills) /\ Recorded' = Recorded /\ Recorded \in Nat
    BY <1>1, <2>1, <2>2 DEF Recorded, TradesFollowTape
  <2>4. ASSUME NEW i \in DOMAIN fills' PROVE fills'[i] = tape'[Recorded + i]
    <3>1. CASE i = Len(fills) + 1
      <4>1. Recorded + i = Len(tape) + 1
        BY <1>1, <2>3, <3>1
      <4> QED BY <2>2, <3>1, <4>1
    <3>2. CASE i # Len(fills) + 1
      <4>1. i \in 1..Len(fills) /\ Recorded + i \in 1..Len(tape)
        BY <1>1, <2>2, <2>3, <3>2
      <4>2. fills[i] = tape[Recorded + i]
        BY <2>1, <4>1 DEF TradesFollowTape
      <4> QED BY <2>2, <4>1, <4>2
    <3> QED BY <3>1, <3>2
  <2>5. Len(trades) <= Recorded /\ Len(trades) = MinOf(Recorded, TradeCap)
    BY <1>1, <2>3, TradeCapAssumption DEF TradesFollowTape, MinOf
  <2>6. ASSUME NEW i \in DOMAIN trades PROVE trades[i] = tape'[Recorded - Len(trades) + i]
    <3>1. Recorded - Len(trades) + i \in 1..Len(tape)
      BY <1>1, <2>3, <2>5
    <3>2. trades[i] = tape[Recorded - Len(trades) + i]
      BY DEF TradesFollowTape
    <3> QED BY <2>2, <3>1, <3>2
  <2>7. /\ Recorded' \in Nat
        /\ \A i \in DOMAIN fills' : fills'[i] = tape'[Recorded' + i]
        /\ Len(trades') = MinOf(Recorded', TradeCap)
        /\ \A i \in DOMAIN trades' : trades'[i] = tape'[Recorded' - Len(trades') + i]
    BY <2>1, <2>3, <2>4, <2>5, <2>6
  <2> QED BY <2>7 DEF TradesFollowTape
<1>6. ASSUME NEW o \in Orders, MatchReturn(o) PROVE TradesFollowTape'
  BY <1>6, ReturnRecordsTrades
<1>7. ASSUME NEW o \in Orders, Cancel(o) PROVE TradesFollowTape'
  BY <1>2, <1>7 DEF Cancel
<1>8. CASE UNCHANGED bookVars
  BY <1>2, <1>8 DEF bookVars
<1> QED BY <1>3, <1>4, <1>5, <1>6, <1>7, <1>8 DEF BookNext

\* With the mutex free all trades are recorded.
LEMMA RecentTradesAreRight ==
    ASSUME BookInv, TradesFollowTape
    PROVE  RecentTradesAreTheNewest
<1> SUFFICES ASSUME mu = None
             PROVE  /\ Len(trades) = IF Len(tape) < TradeCap THEN Len(tape) ELSE TradeCap
                    /\ \A i \in DOMAIN trades : trades[i] = tape[Len(tape) - Len(trades) + i]
  BY DEF RecentTradesAreTheNewest
<1>1. tape \in Seq(Trade) /\ Len(tape) \in Nat
  BY DEF BookInv, BookTypeOK
<1>2. Recorded = Len(tape)
  BY <1>1 DEF Recorded
<1> QED BY <1>2 DEF TradesFollowTape, MinOf

\* GET /depth and GET /trades show the book, its top and its newest trades,
\* in every state: for any orders, prices, quantities, levels and cap.
THEOREM ReadsAreRight == BookSpec => []ReadsShowTheBook
<1> DEFINE Inv == BookInv /\ TradesFollowTape
<1>1. BookInit => Inv
  BY InitEstablishesBookInv, InitTradesFollowTape
<1>2. Inv /\ [BookNext]_bookVars => Inv'
  BY NextPreservesBookInv, NextTradesFollowTape
<1>3. Inv => ReadsShowTheBook
  BY DepthIsRight, RecentTradesAreRight DEF ReadsShowTheBook
<1> QED BY <1>1, <1>2, <1>3, PTL DEF BookSpec
-----------------------------------------------------------------------------
(* The feed *)

DepthType == [bids : Seq(Level), asks : Seq(Level)]
CastRecord == [at : {"idle", "depth", "trades", "rlock", "write", "done"},
               depth : DepthType, trades : Seq(Trade), left : SUBSET Clients]
ClientRecord == [at : {"away", "join", "depth", "trades", "write", "reading", "leave", "gone"},
                 depth : DepthType, trades : Seq(Trade)]

\* A broadcast has clients left to write to only while it holds the read
\* lock, and then no client is taken off the list.
FeedTyped ==
    /\ cast \in [Casts -> CastRecord]
    /\ \A k \in Casts : cast[k].left \subseteq registered
                        /\ (cast[k].at # "write" => cast[k].left = {})
    /\ client \in [Clients -> ClientRecord]
    /\ registered \subseteq Clients
    /\ rw \in Clients \cup {None}
    /\ inbox \in [Clients -> SUBSET Snapshot]
    /\ stalled \subseteq Stallers

\* A request that takes a snapshot (record s, a broadcast or a new client)
\* will have the book as it is, or has it and has not written it yet.
Carries(s, now) ==
    \/ s.at = "depth"
    \/ s.at = "trades" /\ s.depth = now.depth
    \/ s.at \in {"rlock", "write"} /\ s.depth = now.depth /\ s.trades = now.trades

\* The book as it is reached the connection of c, or is on its way there.
Reaches(c, now, ca, cl, in) ==
    \/ now \in in[c]
    \/ \E k \in Casts : Carries(ca[k], now) /\ (ca[k].at = "write" => c \in ca[k].left)
    \/ Carries(cl[c], now)

NewsIsOnItsWay ==
    mu = None => \A c \in registered : Reaches(c, Current, cast, client, inbox)

\* An order is broadcast when it is answered, and when it is cancelled: each
\* broadcast is made once.
CastsFollowBook ==
    \A o \in Orders :
        /\ cast[<<o, "submit">>].at # "idle" => pc[o] = "returned"
        /\ cast[<<o, "cancel">>].at # "idle" => o \in cancelled

\* The inductive invariant of the feed.
MarketConsistent ==
    BookInv /\ TradesFollowTape /\ FeedTyped /\ CastsFollowBook /\ NewsIsOnItsWay

\* What a request reads of the book has its type.
LEMMA CurrentIsTyped ==
    ASSUME BookInv
    PROVE  /\ Depth(Levels) \in DepthType /\ RecentTrades(TradeLimit) \in Seq(Trade)
           /\ Current.depth = Depth(Levels) /\ Current.trades = RecentTrades(TradeLimit)
<1>1. Depth(Levels) \in DepthType
  BY DepthIsTyped, MarketDataAssumption DEF DepthType
<1>2. RecentTrades(TradeLimit) \in Seq(Trade)
  <2>1. trades \in Seq(Trade) /\ TradeLimit \in Nat
    BY MarketDataAssumption DEF BookInv, BookTypeOK
  <2>2. CASE TradeLimit <= 0
    BY <2>2 DEF RecentTrades
  <2>3. CASE ~(TradeLimit <= 0)
    BY <2>1, <2>3, LastNElements DEF RecentTrades
  <2> QED BY <2>2, <2>3
<1> QED BY <1>1, <1>2 DEF Current

\* Both reads answer the same after a step that leaves what rests and what
\* was traded alone.
LEMMA CurrentStays ==
    ASSUME UNCHANGED <<bids, asks, trades>>,
           \A o \in Resting : order'[o] = order[o] /\ remaining'[o] = remaining[o]
    PROVE  Current' = Current
<1>1. Depth(Levels)' = Depth(Levels)
  BY DepthStays
<1>2. RecentTrades(TradeLimit)' = RecentTrades(TradeLimit)
  BY DEF RecentTrades
<1> QED BY <1>1, <1>2 DEF Current

\* The book of a state in which nobody touched it.
LEMMA BookStays ==
    ASSUME MarketConsistent, UNCHANGED bookVars
    PROVE  /\ BookInv' /\ TradesFollowTape' /\ Current' = Current
           /\ mu' = mu /\ pc' = pc /\ cancelled' = cancelled
<1>1. UNCHANGED <<bids, asks, trades, order, remaining, mu, pc, cancelled>>
  BY DEF bookVars
<1>2. Current' = Current
  BY <1>1, CurrentStays
<1>3. BookInv' /\ TradesFollowTape'
  BY NextPreservesBookInv, NextTradesFollowTape DEF MarketConsistent
<1> QED BY <1>1, <1>2, <1>3

\* What the invariant says of the variables of the feed.
LEMMA FeedFacts ==
    ASSUME MarketConsistent
    PROVE  /\ BookInv /\ cast \in [Casts -> CastRecord] /\ client \in [Clients -> ClientRecord]
           /\ registered \subseteq Clients /\ rw \in Clients \cup {None}
           /\ inbox \in [Clients -> SUBSET Snapshot] /\ stalled \subseteq Stallers
           /\ \A k \in Casts : cast[k] \in CastRecord /\ cast[k].left \subseteq registered
                               /\ (cast[k].at # "write" => cast[k].left = {})
           /\ \A c \in Clients : client[c] \in ClientRecord
  BY DEF MarketConsistent, FeedTyped

\* A broadcast goes on: whoever it would have served still is.
LEMMA CastMoves ==
    ASSUME MarketConsistent, NEW k \in Casts, NEW r \in CastRecord,
           cast[k].at # "idle", cast' = [cast EXCEPT ![k] = r],
           r.left \subseteq registered, r.at # "write" => r.left = {},
           UNCHANGED <<bookVars, client, registered, rw, stalled>>,
           inbox' \in [Clients -> SUBSET Snapshot],
           \A c \in Clients : inbox[c] \subseteq inbox'[c],
           mu = None => \A c \in registered :
              Carries(cast[k], Current) /\ (cast[k].at = "write" => c \in cast[k].left)
                => \/ Current \in inbox'[c]
                   \/ Carries(r, Current) /\ (r.at = "write" => c \in r.left)
    PROVE  MarketConsistent'
<1>1. /\ BookInv' /\ TradesFollowTape' /\ Current' = Current
      /\ mu' = mu /\ pc' = pc /\ cancelled' = cancelled
  BY BookStays
<1>2. cast'[k] = r /\ \A j \in Casts \ {k} : cast'[j] = cast[j]
  BY FeedFacts
<1>3. FeedTyped'
  BY <1>2, FeedFacts DEF FeedTyped
<1>4. CastsFollowBook'
  <2>1. \A j \in Casts : cast'[j].at # "idle" => cast[j].at # "idle"
    BY <1>2
  <2>2. \A o \in Orders : <<o, "submit">> \in Casts /\ <<o, "cancel">> \in Casts
    BY DEF Casts
  <2> QED BY <1>1, <2>1, <2>2 DEF CastsFollowBook, MarketConsistent
<1>5. ASSUME mu' = None, NEW c \in registered'
      PROVE  Reaches(c, Current', cast', client', inbox')
  <2> DEFINE now == Current
  <2>1. mu = None /\ c \in registered /\ c \in Clients
    BY <1>1, <1>5, FeedFacts
  <2>2. Reaches(c, now, cast, client, inbox)
    BY <2>1 DEF MarketConsistent, NewsIsOnItsWay
  <2>3. /\ inbox[c] \subseteq inbox'[c]
        /\ Carries(cast[k], now) /\ (cast[k].at = "write" => c \in cast[k].left)
             => \/ now \in inbox'[c]
                \/ Carries(r, now) /\ (r.at = "write" => c \in r.left)
    BY <2>1
  <2> HIDE DEF now
  <2>4. Reaches(c, now, cast', client', inbox')
    <3>1. CASE now \in inbox[c]
      BY <2>3, <3>1 DEF Reaches
    <3>2. ASSUME NEW j \in Casts, Carries(cast[j], now), cast[j].at = "write" => c \in cast[j].left
          PROVE  Reaches(c, now, cast', client', inbox')
      <4>1. CASE j = k
        BY <1>2, <2>3, <3>2, <4>1 DEF Reaches
      <4>2. CASE j # k
        BY <1>2, <3>2, <4>2 DEF Reaches
      <4> QED BY <4>1, <4>2
    <3>3. CASE Carries(client[c], now)
      BY <3>3 DEF Reaches
    <3> QED BY <2>2, <3>1, <3>2, <3>3 DEF Reaches
  <2> QED BY <1>1, <2>4 DEF now
<1> QED BY <1>1, <1>3, <1>4, <1>5 DEF MarketConsistent, NewsIsOnItsWay

\* A client goes on: if it relied on its own snapshot it still can.
LEMMA ClientMoves ==
    ASSUME MarketConsistent, NEW c \in Clients, NEW r \in ClientRecord,
           client' = [client EXCEPT ![c] = r], UNCHANGED <<bookVars, cast, stalled>>,
           registered' \subseteq Clients, \A k \in Casts : cast[k].left \subseteq registered',
           rw' \in Clients \cup {None},
           inbox' \in [Clients -> SUBSET Snapshot],
           \A d \in Clients : inbox[d] \subseteq inbox'[d],
           \A d \in registered' : d # c => d \in registered,
           mu = None /\ c \in registered' =>
              \/ Current \in inbox'[c] \/ Carries(r, Current)
              \/ c \in registered /\ ~Carries(client[c], Current)
    PROVE  MarketConsistent'
<1>1. /\ BookInv' /\ TradesFollowTape' /\ Current' = Current
      /\ mu' = mu /\ pc' = pc /\ cancelled' = cancelled
  BY BookStays
<1>2. client'[c] = r /\ \A d \in Clients \ {c} : client'[d] = client[d]
  BY FeedFacts
<1>3. FeedTyped'
  BY <1>2, FeedFacts DEF FeedTyped
<1>4. CastsFollowBook'
  BY <1>1 DEF CastsFollowBook, MarketConsistent
<1>5. ASSUME mu' = None, NEW d \in registered'
      PROVE  Reaches(d, Current', cast', client', inbox')
  <2> DEFINE now == Current
  <2>1. mu = None /\ d \in Clients
    BY <1>1, <1>5
  <2>2. d \in registered => Reaches(d, now, cast, client, inbox)
    BY <2>1 DEF MarketConsistent, NewsIsOnItsWay
  <2>3. /\ inbox[d] \subseteq inbox'[d] /\ (d # c => d \in registered)
        /\ d = c => \/ now \in inbox'[d] \/ Carries(r, now)
                    \/ d \in registered /\ ~Carries(client[d], now)
    BY <2>1
  <2> HIDE DEF now
  <2>4. Reaches(d, now, cast', client', inbox')
    <3>1. CASE d # c
      BY <1>2, <2>1, <2>2, <2>3, <3>1 DEF Reaches
    <3>2. CASE d = c
      BY <1>2, <2>1, <2>2, <2>3, <3>2 DEF Reaches
    <3> QED BY <3>1, <3>2
  <2> QED BY <1>1, <2>4 DEF now
<1> QED BY <1>1, <1>3, <1>4, <1>5 DEF MarketConsistent, NewsIsOnItsWay
\* A broadcast that has not begun, a client that has not come.
LEMMA FirstRecords ==
    /\ Idle \in CastRecord /\ Idle.at = "idle" /\ Idle.left = {}
    /\ [at |-> "away", depth |-> NoDepth, trades |-> <<>>] \in ClientRecord
<1>1. <<>> \in Seq(Level) /\ <<>> \in Seq(Trade) /\ {} \in SUBSET Clients
  OBVIOUS
<1>2. NoDepth \in DepthType
  BY <1>1 DEF NoDepth, DepthType
<1> QED BY <1>1, <1>2 DEF Idle, CastRecord, ClientRecord

LEMMA InitMarketConsistent == MarketInit => MarketConsistent
<1> SUFFICES ASSUME MarketInit PROVE MarketConsistent
  OBVIOUS
<1>1. BookInv /\ TradesFollowTape
  BY InitEstablishesBookInv, InitTradesFollowTape DEF MarketInit
<1>2. FeedTyped
  <2>1. cast \in [Casts -> CastRecord] /\ client \in [Clients -> ClientRecord]
    BY FirstRecords DEF MarketInit
  <2>2. \A k \in Casts : cast[k].left = {}
    BY FirstRecords DEF MarketInit
  <2> QED BY <2>1, <2>2 DEF MarketInit, FeedTyped
<1>3. CastsFollowBook
  <2>1. \A k \in Casts : cast[k].at = "idle"
    BY FirstRecords DEF MarketInit
  <2> QED BY <2>1 DEF CastsFollowBook, Casts
<1>4. NewsIsOnItsWay
  BY DEF MarketInit, NewsIsOnItsWay
<1> QED BY <1>1, <1>2, <1>3, <1>4 DEF MarketConsistent

\* The fields of a record of the feed, and of one with a field replaced.
LEMMA CastFields ==
    ASSUME NEW r \in CastRecord
    PROVE  /\ r.at \in {"idle", "depth", "trades", "rlock", "write", "done"}
           /\ r.depth \in DepthType /\ r.trades \in Seq(Trade) /\ r.left \in SUBSET Clients
  BY DEF CastRecord

LEMMA ClientFields ==
    ASSUME NEW r \in ClientRecord
    PROVE  /\ r.at \in {"away", "join", "depth", "trades", "write", "reading", "leave", "gone"}
           /\ r.depth \in DepthType /\ r.trades \in Seq(Trade)
  BY DEF ClientRecord

LEMMA CastDepthStep ==
    ASSUME MarketConsistent, NEW k \in Casts, CastDepth(k)
    PROVE  MarketConsistent'
<1> DEFINE r == [cast[k] EXCEPT !.at = "trades", !.depth = Depth(Levels)]
<1>1. /\ cast[k] \in CastRecord /\ cast[k].at = "depth" /\ cast[k].left = {}
      /\ inbox \in [Clients -> SUBSET Snapshot]
  BY FeedFacts DEF CastDepth
<1>2. Depth(Levels) \in DepthType /\ Current.depth = Depth(Levels)
  BY CurrentIsTyped, FeedFacts
<1>3. r \in CastRecord /\ r.at = "trades" /\ r.depth = Depth(Levels) /\ r.left = {}
  BY <1>1, <1>2 DEF CastRecord
<1>4. cast' = [cast EXCEPT ![k] = r] /\ UNCHANGED <<bookVars, client, registered, rw, inbox, stalled>>
  BY DEF CastDepth
<1>5. Carries(r, Current)
  BY <1>2, <1>3 DEF Carries
<1> HIDE DEF r
<1> QED BY <1>1, <1>3, <1>4, <1>5, CastMoves

LEMMA CastTradesStep ==
    ASSUME MarketConsistent, NEW k \in Casts, CastTrades(k)
    PROVE  MarketConsistent'
<1> DEFINE r == [cast[k] EXCEPT !.at = "rlock", !.trades = RecentTrades(TradeLimit)]
<1>1. /\ cast[k] \in CastRecord /\ cast[k].at = "trades" /\ cast[k].left = {}
      /\ inbox \in [Clients -> SUBSET Snapshot]
  BY FeedFacts DEF CastTrades
<1>2. /\ RecentTrades(TradeLimit) \in Seq(Trade)
      /\ Current.trades = RecentTrades(TradeLimit)
  BY CurrentIsTyped, FeedFacts
<1>3. /\ r \in CastRecord /\ r.at = "rlock" /\ r.depth = cast[k].depth
      /\ r.trades = RecentTrades(TradeLimit) /\ r.left = {}
  BY <1>1, <1>2 DEF CastRecord
<1>4. cast' = [cast EXCEPT ![k] = r] /\ UNCHANGED <<bookVars, client, registered, rw, inbox, stalled>>
  BY DEF CastTrades
<1>5. Carries(cast[k], Current) => Carries(r, Current)
  BY <1>1, <1>2, <1>3 DEF Carries
<1> HIDE DEF r
<1> QED BY <1>1, <1>3, <1>4, <1>5, CastMoves

LEMMA CastRLockStep ==
    ASSUME MarketConsistent, NEW k \in Casts, CastRLock(k)
    PROVE  MarketConsistent'
<1> DEFINE r == [cast[k] EXCEPT !.at = "write", !.left = registered]
<1>1. /\ cast[k] \in CastRecord /\ cast[k].at = "rlock"
      /\ registered \subseteq Clients /\ inbox \in [Clients -> SUBSET Snapshot]
  BY FeedFacts DEF CastRLock
<1>2. /\ r \in CastRecord /\ r.at = "write" /\ r.depth = cast[k].depth
      /\ r.trades = cast[k].trades /\ r.left = registered
  BY <1>1 DEF CastRecord
<1>3. cast' = [cast EXCEPT ![k] = r] /\ UNCHANGED <<bookVars, client, registered, rw, inbox, stalled>>
  BY DEF CastRLock
<1>4. Carries(cast[k], Current) => Carries(r, Current)
  BY <1>1, <1>2 DEF Carries
<1> HIDE DEF r
<1> QED BY <1>1, <1>2, <1>3, <1>4, CastMoves

LEMMA CastWriteStep ==
    ASSUME MarketConsistent, NEW k \in Casts, CastWrite(k)
    PROVE  MarketConsistent'
<1>1. PICK c \in cast[k].left \ stalled :
         /\ cast' = [cast EXCEPT ![k].left = @ \ {c}]
         /\ inbox' = [inbox EXCEPT ![c] =
               @ \cup {[depth |-> cast[k].depth, trades |-> cast[k].trades]}]
  BY DEF CastWrite, Deliver
<1> DEFINE r == [cast[k] EXCEPT !.left = @ \ {c}]
           msg == [depth |-> cast[k].depth, trades |-> cast[k].trades]
<1>2. /\ cast[k] \in CastRecord /\ cast[k].at = "write" /\ cast[k].left \subseteq registered
      /\ registered \subseteq Clients /\ inbox \in [Clients -> SUBSET Snapshot]
  BY FeedFacts DEF CastWrite
<1>3. /\ r \in CastRecord /\ r.at = "write" /\ r.depth = cast[k].depth
      /\ r.trades = cast[k].trades /\ r.left = cast[k].left \ {c}
  BY <1>2 DEF CastRecord
<1>4. msg \in Snapshot
  BY <1>2, CastFields DEF Snapshot, DepthType
<1>5. c \in Clients
  BY <1>1, <1>2
<1>6. cast' = [cast EXCEPT ![k] = r] /\ UNCHANGED <<bookVars, client, registered, rw, stalled>>
  BY <1>1 DEF CastWrite
<1>7. Carries(cast[k], Current) => Carries(r, Current) /\ msg = Current
  BY <1>2, <1>3 DEF Carries, Current
<1>8. inbox' = [inbox EXCEPT ![c] = @ \cup {msg}]
  BY <1>1
<1> HIDE DEF r, msg
<1>9. inbox' \in [Clients -> SUBSET Snapshot] /\ msg \in inbox'[c]
      /\ \A d \in Clients : inbox[d] \subseteq inbox'[d]
  BY <1>2, <1>4, <1>5, <1>8
<1>10. ASSUME NEW d \in registered, Carries(cast[k], Current), d \in cast[k].left
       PROVE  Current \in inbox'[d] \/ (Carries(r, Current) /\ d \in r.left)
  BY <1>3, <1>7, <1>9, <1>10
<1> QED BY <1>2, <1>3, <1>6, <1>9, <1>10, CastMoves

LEMMA CastRUnlockStep ==
    ASSUME MarketConsistent, NEW k \in Casts, CastRUnlock(k)
    PROVE  MarketConsistent'
<1> DEFINE r == [Idle EXCEPT !.at = "done"]
<1>1. /\ cast[k] \in CastRecord /\ cast[k].at = "write" /\ cast[k].left = {}
      /\ inbox \in [Clients -> SUBSET Snapshot]
  BY FeedFacts DEF CastRUnlock
<1>2. r \in CastRecord /\ r.at = "done" /\ r.left = {}
  BY FirstRecords DEF CastRecord
<1>3. cast' = [cast EXCEPT ![k] = r] /\ UNCHANGED <<bookVars, client, registered, rw, inbox, stalled>>
  BY DEF CastRUnlock
<1> HIDE DEF r
<1> QED BY <1>1, <1>2, <1>3, CastMoves
\* Steps of marketWS.  None of them is a step of the book, and only a client
\* that registers has to be told something new.
LEMMA GoFacts ==
    ASSUME MarketConsistent, NEW c \in Clients,
           NEW at \in {"away", "join", "depth", "trades", "write", "reading", "leave", "gone"},
           Go(c, at)
    PROVE  LET r == [client[c] EXCEPT !.at = at]
           IN  r \in ClientRecord /\ r.at = at /\ client' = [client EXCEPT ![c] = r]
<1>1. client[c] \in ClientRecord
  BY FeedFacts
<1> QED BY <1>1 DEF Go, ClientRecord

LEMMA ConnectStep ==
    ASSUME MarketConsistent, NEW c \in Clients, Connect(c)
    PROVE  MarketConsistent'
<1> DEFINE r == [client[c] EXCEPT !.at = "join"]
<1>1. r \in ClientRecord /\ client' = [client EXCEPT ![c] = r]
  BY GoFacts DEF Connect
<1>2. /\ client[c].at = "away" /\ UNCHANGED <<bookVars, cast, registered, rw, inbox, stalled>>
      /\ ~Carries(client[c], Current)
  BY DEF Connect, Carries
<1> HIDE DEF r
<1> QED BY <1>1, <1>2, FeedFacts, ClientMoves

LEMMA RegisterStep ==
    ASSUME MarketConsistent, NEW c \in Clients, Register(c)
    PROVE  MarketConsistent'
<1> DEFINE r == [client[c] EXCEPT !.at = "depth"]
<1>1. r \in ClientRecord /\ r.at = "depth" /\ client' = [client EXCEPT ![c] = r]
  BY GoFacts DEF Register
<1>2. /\ registered' = registered \cup {c} /\ rw' = None
      /\ UNCHANGED <<bookVars, cast, inbox, stalled>>
  BY DEF Register
<1>3. Carries(r, Current)
  BY <1>1 DEF Carries
<1> HIDE DEF r
<1> QED BY <1>1, <1>2, <1>3, FeedFacts, ClientMoves

LEMMA SnapshotDepthStep ==
    ASSUME MarketConsistent, NEW c \in Clients, SnapshotDepth(c)
    PROVE  MarketConsistent'
<1> DEFINE r == [client[c] EXCEPT !.at = "trades", !.depth = Depth(Levels)]
<1>1. client[c] \in ClientRecord /\ Depth(Levels) \in DepthType /\ Current.depth = Depth(Levels)
  BY FeedFacts, CurrentIsTyped
<1>2. r \in ClientRecord /\ r.at = "trades" /\ r.depth = Depth(Levels)
  BY <1>1 DEF ClientRecord
<1>3. /\ client' = [client EXCEPT ![c] = r]
      /\ UNCHANGED <<bookVars, cast, registered, rw, inbox, stalled>>
  BY DEF SnapshotDepth
<1>4. Carries(r, Current)
  BY <1>1, <1>2 DEF Carries
<1> HIDE DEF r
<1> QED BY <1>2, <1>3, <1>4, FeedFacts, ClientMoves

LEMMA SnapshotTradesStep ==
    ASSUME MarketConsistent, NEW c \in Clients, SnapshotTrades(c)
    PROVE  MarketConsistent'
<1> DEFINE r == [client[c] EXCEPT !.at = "write", !.trades = RecentTrades(TradeLimit)]
<1>1. /\ client[c] \in ClientRecord /\ client[c].at = "trades"
      /\ RecentTrades(TradeLimit) \in Seq(Trade)
      /\ Current.trades = RecentTrades(TradeLimit)
  BY FeedFacts, CurrentIsTyped DEF SnapshotTrades
<1>2. /\ r \in ClientRecord /\ r.at = "write" /\ r.depth = client[c].depth
      /\ r.trades = RecentTrades(TradeLimit)
  BY <1>1 DEF ClientRecord
<1>3. /\ client' = [client EXCEPT ![c] = r]
      /\ UNCHANGED <<bookVars, cast, registered, rw, inbox, stalled>>
  BY DEF SnapshotTrades
<1>4. Carries(client[c], Current) => Carries(r, Current)
  BY <1>1, <1>2 DEF Carries
<1> HIDE DEF r
<1> QED BY <1>2, <1>3, <1>4, FeedFacts, ClientMoves

LEMMA SnapshotWriteStep ==
    ASSUME MarketConsistent, NEW c \in Clients, SnapshotWrite(c)
    PROVE  MarketConsistent'
<1> DEFINE r == [at |-> "reading", depth |-> NoDepth, trades |-> <<>>]
           msg == [depth |-> client[c].depth, trades |-> client[c].trades]
<1>1. /\ client[c] \in ClientRecord /\ client[c].at = "write"
      /\ inbox \in [Clients -> SUBSET Snapshot]
  BY FeedFacts DEF SnapshotWrite
<1>2. r \in ClientRecord
  <2>1. NoDepth \in DepthType /\ <<>> \in Seq(Trade)
    BY FirstRecords, CastFields DEF Idle
  <2> QED BY <2>1 DEF ClientRecord
<1>3. msg \in Snapshot
  BY <1>1, ClientFields DEF Snapshot, DepthType
<1>4. /\ client' = [client EXCEPT ![c] = r] /\ inbox' = [inbox EXCEPT ![c] = @ \cup {msg}]
      /\ UNCHANGED <<bookVars, cast, registered, rw, stalled>>
  BY DEF SnapshotWrite, Deliver
<1>5. Carries(client[c], Current) => msg = Current
  BY <1>1 DEF Carries, Current
<1> HIDE DEF r, msg
<1>6. inbox' \in [Clients -> SUBSET Snapshot] /\ msg \in inbox'[c]
      /\ \A d \in Clients : inbox[d] \subseteq inbox'[d]
  BY <1>1, <1>3, <1>4
<1>7. Current \in inbox'[c] \/ ~Carries(client[c], Current)
  BY <1>5, <1>6
<1> QED BY <1>2, <1>4, <1>6, <1>7, FeedFacts, ClientMoves

LEMMA DisconnectStep ==
    ASSUME MarketConsistent, NEW c \in Clients, Disconnect(c)
    PROVE  MarketConsistent'
<1> DEFINE r == [client[c] EXCEPT !.at = "leave"]
<1>1. r \in ClientRecord /\ client' = [client EXCEPT ![c] = r]
  BY GoFacts DEF Disconnect
<1>2. /\ UNCHANGED <<bookVars, cast, registered, rw, inbox, stalled>>
      /\ ~Carries(client[c], Current)
  BY DEF Disconnect, Carries
<1> HIDE DEF r
<1> QED BY <1>1, <1>2, FeedFacts, ClientMoves

\* No broadcast is writing when the list of clients is changed.
LEMMA UnregisterStep ==
    ASSUME MarketConsistent, NEW c \in Clients, Unregister(c)
    PROVE  MarketConsistent'
<1> DEFINE r == [client[c] EXCEPT !.at = "gone"]
<1>1. r \in ClientRecord /\ client' = [client EXCEPT ![c] = r]
  BY GoFacts DEF Unregister
<1>2. /\ registered' = registered \ {c} /\ rw' = None /\ Readers = {}
      /\ UNCHANGED <<bookVars, cast, inbox, stalled>>
  BY DEF Unregister
<1>3. \A k \in Casts : cast[k].left \subseteq registered'
  BY <1>2, FeedFacts DEF Readers
<1> HIDE DEF r
<1> QED BY <1>1, <1>2, <1>3, FeedFacts, ClientMoves

\* Waiting for the write lock and ceasing to read change no snapshot.
LEMMA LockOrStallStep ==
    ASSUME MarketConsistent, NEW c \in Clients, ClientLock(c) \/ Stall(c)
    PROVE  MarketConsistent'
<1>1. /\ UNCHANGED <<bookVars, cast, client, registered, inbox>>
      /\ rw' \in Clients \cup {None} /\ stalled' \subseteq Stallers
  BY FeedFacts DEF ClientLock, Stall
<1>2. /\ BookInv' /\ TradesFollowTape' /\ Current' = Current
      /\ mu' = mu /\ pc' = pc /\ cancelled' = cancelled
  BY <1>1, BookStays
<1>3. FeedTyped'
  BY <1>1, FeedFacts DEF FeedTyped
<1>4. CastsFollowBook'
  BY <1>1, <1>2 DEF CastsFollowBook, MarketConsistent
<1>5. NewsIsOnItsWay'
  BY <1>1, <1>2 DEF NewsIsOnItsWay, MarketConsistent
<1> QED BY <1>2, <1>3, <1>4, <1>5 DEF MarketConsistent
\* A step of the book that may start one broadcast, of an order that has
\* just been answered or cancelled and was not broadcast for that before.
LEMMA BookMoves ==
    ASSUME MarketConsistent, BookNext, UNCHANGED <<client, registered, rw, inbox, stalled>>,
           NEW k \in Casts, NEW begun \in BOOLEAN,
           begun => StartCast(k) /\ cast[k].at = "idle",
           ~begun => cast' = cast,
           \A o \in Orders : begun /\ k = <<o, "submit">> => pc'[o] = "returned",
           \A o \in Orders : begun /\ k = <<o, "cancel">> => o \in cancelled',
           ~begun /\ mu' = None => mu = None /\ Current' = Current
    PROVE  MarketConsistent'
<1>1. BookInv' /\ TradesFollowTape'
  BY NextPreservesBookInv, NextTradesFollowTape DEF MarketConsistent
<1>2. /\ begun => /\ cast'[k] = [cast[k] EXCEPT !.at = "depth"]
                  /\ \A j \in Casts \ {k} : cast'[j] = cast[j]
                  /\ cast' = [cast EXCEPT ![k] = [cast[k] EXCEPT !.at = "depth"]]
      /\ cast[k] \in CastRecord
  BY FeedFacts DEF StartCast
<1>3. begun => /\ cast'[k] \in CastRecord /\ cast'[k].at = "depth" /\ cast'[k].left = {}
               /\ cast' \in [Casts -> CastRecord]
  <2>1. begun => [cast[k] EXCEPT !.at = "depth"] \in CastRecord
    BY <1>2 DEF CastRecord
  <2>2. begun => cast[k].left = {}
    BY FeedFacts
  <2> QED BY <1>2, <2>1, <2>2, FeedFacts DEF CastRecord
<1>4. FeedTyped'
  <2>1. CASE begun
    BY <1>2, <1>3, <2>1, FeedFacts DEF FeedTyped
  <2>2. CASE ~begun
    BY <2>2, FeedFacts DEF FeedTyped
  <2> QED BY <2>1, <2>2
<1>5. CastsFollowBook'
  <2>1. \A o \in Orders : pc[o] = "returned" => pc'[o] = "returned"
    <3>1. pc \in [Orders -> {"idle", "stamped", "matching", "returned"}]
          /\ \A o \in Orders : pc[o] = "matching" <=> mu = o
      BY DEF MarketConsistent, BookInv, BookTypeOK, Bookkeeping
    <3> QED BY <3>1 DEF BookNext, Submit, MatchLock, MatchFill, MatchReturn, Cancel
  <2>2. cancelled \subseteq cancelled'
    BY DEF BookNext, Submit, MatchLock, MatchFill, MatchReturn, Cancel
  <2>3. \A j \in Casts : cast'[j].at # "idle" => cast[j].at # "idle" \/ (begun /\ j = k)
    BY <1>2
  <2>4. \A o \in Orders : <<o, "submit">> \in Casts /\ <<o, "cancel">> \in Casts
    BY DEF Casts
  <2> QED BY <2>1, <2>2, <2>3, <2>4 DEF CastsFollowBook, MarketConsistent
<1>6. NewsIsOnItsWay'
  <2>1. CASE begun
    <3>1. Carries(cast'[k], Current') /\ cast'[k].at # "write"
      BY <1>3, <2>1 DEF Carries
    <3> DEFINE now == Current'
    <3>2. \A c \in registered' : Reaches(c, now, cast', client', inbox')
      <4> HIDE DEF now
      <4> QED BY <3>1, <1>3 DEF Reaches, now
    <3> QED BY <3>2 DEF NewsIsOnItsWay
  <2>2. CASE ~begun
    BY <2>2 DEF NewsIsOnItsWay, MarketConsistent
  <2> QED BY <2>1, <2>2
<1> QED BY <1>1, <1>4, <1>5, <1>6 DEF MarketConsistent

LEMMA SubmitOrderStep ==
    ASSUME MarketConsistent, NEW o \in Orders, SubmitOrder(o)
    PROVE  MarketConsistent'
<1>1. PICK side \in Sides, p \in Prices \cup {Market}, q \in Quantities, now \in clock..MaxClock :
         Submit(o, side, p, q, now)
  BY DEF SubmitOrder
<1>2. BookNext /\ UNCHANGED <<cast, client, registered, rw, inbox, stalled>>
  BY <1>1 DEF BookNext, SubmitOrder, feedVars
<1>3. /\ UNCHANGED <<bids, asks, trades, mu>>
      /\ \A x \in Orders : x # o => order'[x] = order[x] /\ remaining'[x] = remaining[x]
  BY <1>1 DEF Submit, MarketConsistent, BookInv, BookTypeOK
<1>4. Resting \subseteq Orders /\ o \notin Resting
  <2>1. bids \in Seq(Orders) /\ asks \in Seq(Orders)
    BY DEF MarketConsistent, BookInv, BookTypeOK
  <2>2. Resting \subseteq Orders
    BY <2>1 DEF Resting, Range
  <2>3. pc[o] = "idle" /\ (o \in Resting => pc[o] = "returned")
    BY <1>1 DEF Submit, MarketConsistent, BookInv, OnBookExactlyWhileOpen
  <2> QED BY <2>2, <2>3
<1>5. Current' = Current
  BY <1>3, <1>4, CurrentStays
<1>6. <<o, "submit">> \in Casts
  BY DEF Casts
<1> QED BY <1>2, <1>3, <1>5, <1>6, BookMoves

LEMMA CancelOrderStep ==
    ASSUME MarketConsistent, NEW o \in Orders, CancelOrder(o)
    PROVE  MarketConsistent'
<1> DEFINE k == <<o, "cancel">>
<1>1. k \in Casts /\ Cancel(o) /\ BookNext /\ StartCast(k)
      /\ UNCHANGED <<client, registered, rw, inbox, stalled>>
  BY DEF CancelOrder, BookNext, Casts
<1>2. o \in cancelled' /\ o \in Resting
  BY <1>1 DEF Cancel, Resting, Range
<1>3. cast[k].at = "idle"
  BY <1>2 DEF MarketConsistent, CastsFollowBook, BookInv, OnBookExactlyWhileOpen
<1>4. \A x \in Orders : k # <<x, "submit">> /\ (k = <<x, "cancel">> => x \in cancelled')
  BY <1>2
<1> HIDE DEF k
<1> QED BY <1>1, <1>3, <1>4, BookMoves

LEMMA MatchStepStep ==
    ASSUME MarketConsistent, NEW o \in Orders, MatchStep(o)
    PROVE  MarketConsistent'
<1> DEFINE k == <<o, "submit">>
<1>1. k \in Casts /\ BookNext /\ o # None
  BY NoneAssumption DEF MatchStep, BookNext, Casts
<1>2. CASE (MatchLock(o) \/ MatchFill(o)) /\ UNCHANGED feedVars
  <2>1. mu' # None /\ UNCHANGED <<cast, client, registered, rw, inbox, stalled>>
    BY <1>1, <1>2 DEF MatchLock, MatchFill, feedVars
  <2> QED BY <1>1, <2>1, BookMoves
<1>3. CASE MatchReturn(o) /\ StartCast(k) /\ UNCHANGED <<client, registered, rw, inbox, stalled>>
  <2>1. pc[o] = "matching" /\ pc'[o] = "returned"
    BY <1>3 DEF MatchReturn, MarketConsistent, BookInv, BookTypeOK, Bookkeeping
  <2>2. cast[k].at = "idle"
    BY <2>1 DEF MarketConsistent, CastsFollowBook
  <2>3. \A x \in Orders : k # <<x, "cancel">> /\ (k = <<x, "submit">> => pc'[x] = "returned")
    BY <2>1
  <2> HIDE DEF k
  <2> QED BY <1>1, <1>3, <2>2, <2>3, BookMoves
<1> QED BY <1>2, <1>3 DEF MatchStep

LEMMA NextMarketConsistent ==
    ASSUME MarketConsistent, [MarketNext]_marketVars
    PROVE  MarketConsistent'
<1>1. ASSUME NEW o \in Orders, SubmitOrder(o) \/ CancelOrder(o) \/ MatchStep(o)
      PROVE  MarketConsistent'
  BY <1>1, SubmitOrderStep, CancelOrderStep, MatchStepStep
<1>2. ASSUME NEW k \in Casts, CastStep(k)
      PROVE  MarketConsistent'
  BY <1>2, CastDepthStep, CastTradesStep, CastRLockStep, CastWriteStep, CastRUnlockStep
     DEF CastStep
<1>3. ASSUME NEW c \in Clients, Connect(c) \/ ClientStep(c) \/ Disconnect(c) \/ Stall(c)
      PROVE  MarketConsistent'
  BY <1>3, ConnectStep, RegisterStep, SnapshotDepthStep, SnapshotTradesStep, SnapshotWriteStep,
     DisconnectStep, UnregisterStep, LockOrStallStep DEF ClientStep
<1>4. CASE UNCHANGED marketVars
  <2>1. UNCHANGED <<bookVars, cast, client, registered, rw, inbox, stalled>>
    BY <1>4 DEF marketVars, feedVars
  <2>2. BookInv' /\ TradesFollowTape' /\ Current' = Current
        /\ mu' = mu /\ pc' = pc /\ cancelled' = cancelled
    BY <2>1, BookStays
  <2>3. FeedTyped' /\ CastsFollowBook' /\ NewsIsOnItsWay'
    BY <2>1, <2>2 DEF FeedTyped, CastsFollowBook, NewsIsOnItsWay, MarketConsistent
  <2> QED BY <2>2, <2>3 DEF MarketConsistent
<1> QED BY <1>1, <1>2, <1>3, <1>4 DEF MarketNext

\* The feed of the matching-engine, for any number of orders, broadcasts and
\* clients that join, leave and stall: whatever changed the book, each
\* client on the list of the handler has been written the book as it is, or
\* a broadcast or its own first snapshot still brings it.
THEOREM MarketIsConsistent == MarketSpec => []MarketConsistent
<1>1. MarketConsistent /\ [MarketNext]_marketVars => MarketConsistent'
  BY NextMarketConsistent
<1> QED BY <1>1, InitMarketConsistent, PTL DEF MarketSpec

\* When nothing is on its way nobody is left with an older book: register,
\* then take the snapshot, and read the book before the lock of the clients.
THEOREM FeedIsRight == MarketSpec => []MarketInv
<1>1. ASSUME MarketConsistent PROVE MarketInv
  <2>1. MarketTypeOK
    <3>1. BookTypeOK
      BY <1>1 DEF MarketConsistent, BookInv
    <3>2. \A k \in Casts :
            /\ cast[k].at \in {"idle", "depth", "trades", "rlock", "write", "done"}
            /\ cast[k].depth \in DepthType /\ cast[k].trades \in Seq(Trade)
            /\ cast[k].left \subseteq registered
      BY <1>1, FeedFacts, CastFields
    <3>3. \A c \in Clients :
            /\ client[c].at \in {"away", "join", "depth", "trades", "write", "reading", "leave", "gone"}
            /\ inbox[c] \subseteq Snapshot
      BY <1>1, FeedFacts, ClientFields
    <3>4. registered \subseteq Clients /\ rw \in Clients \cup {None} /\ stalled \subseteq Stallers
      BY <1>1, FeedFacts
    <3> QED BY <3>1, <3>2, <3>3, <3>4 DEF MarketTypeOK, DepthType
  <2>2. QuietClientsHaveTheBook
    <3>1. SUFFICES ASSUME FeedIsQuiet, NEW c \in registered PROVE Current \in inbox[c]
      BY DEF QuietClientsHaveTheBook
    <3>2. Reaches(c, Current, cast, client, inbox)
      BY <1>1, <3>1 DEF MarketConsistent, NewsIsOnItsWay, FeedIsQuiet
    <3>3. \A k \in Casts : ~Carries(cast[k], Current)
      BY <3>1 DEF Carries, FeedIsQuiet
    <3>4. ~Carries(client[c], Current)
      BY <3>1 DEF Carries, FeedIsQuiet
    <3> QED BY <3>2, <3>3, <3>4 DEF Reaches
  <2> QED BY <2>1, <2>2 DEF MarketInv
<1> QED BY <1>1, MarketIsConsistent, PTL
=============================================================================
