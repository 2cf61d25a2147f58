-------------------------- MODULE OrderBookProofs --------------------------
(***************************************************************************)
(* Proofs about OrderBook, for every set of orders, prices, quantities and *)
(* every cap: the invariant BookInv is inductive, and the action           *)
(* properties follow from it.                                              *)
(***************************************************************************)
EXTENDS OrderBook, SumLemmas, TLAPS

\* What SubSeq-based truncation of the trade list keeps: a sequence over the
\* same set.
LEMMA LastNType ==
    ASSUME NEW S, NEW s \in Seq(S), NEW n \in Nat \ {0}
    PROVE  LastN(s, n) \in Seq(S)
  BY DEF LastN

\* Dropping one element (Cancel) leaves a sequence over the same set.
LEMMA DropAtType ==
    ASSUME NEW S, NEW s \in Seq(S), NEW i \in DOMAIN s
    PROVE  /\ DropAt(s, i) \in Seq(S)
           /\ Len(DropAt(s, i)) = Len(s) - 1
           /\ \A j \in 1..(Len(s) - 1) : DropAt(s, i)[j] = s[IF j < i THEN j ELSE j + 1]
  BY DEF DropAt

\* A sort is a sequence of the same elements, without inversions.
LEMMA SortsProperties ==
    ASSUME NEW S, NEW s \in Seq(S), NEW t \in Sorts(s)
    PROVE  /\ t \in Seq(S)
           /\ Len(t) = Len(s)
           /\ Range(t) = Range(s)
           /\ IsInjective(t)
           /\ Sorted(t)
  BY DEF Sorts, Bijection, Injection, Surjection, Range

\* Appending (insertResting) adds one element.
LEMMA AppendProperties ==
    ASSUME NEW S, NEW s \in Seq(S), NEW x \in S
    PROVE  /\ Append(s, x) \in Seq(S)
           /\ Range(Append(s, x)) = Range(s) \cup {x}
<1> DEFINE t == Append(s, x)
<1>1. /\ t \in Seq(S)
      /\ DOMAIN t = 1..(Len(s) + 1)
      /\ DOMAIN s = 1..Len(s)
      /\ Len(s) \in Nat
      /\ \A i \in 1..Len(s) : t[i] = s[i]
      /\ t[Len(s) + 1] = x
  OBVIOUS
<1>2. ASSUME NEW y \in Range(t) PROVE y \in Range(s) \cup {x}
  BY <1>1 DEF Range
<1>3. ASSUME NEW y \in Range(s) \cup {x} PROVE y \in Range(t)
  <2>1. CASE y = x
    <3>1. Len(s) + 1 \in DOMAIN t
      BY <1>1
    <3> QED BY <1>1, <2>1, <3>1 DEF Range
  <2>2. CASE y \in Range(s)
    <3>1. PICK i \in DOMAIN s : s[i] = y
      BY <2>2 DEF Range
    <3>2. i \in DOMAIN t /\ t[i] = y
      BY <1>1, <3>1
    <3> QED BY <3>2 DEF Range
  <2> QED BY <2>1, <2>2
<1> QED BY <1>1, <1>2, <1>3

\* Popping the head of a side (the exhausted best order) removes exactly it.
LEMMA TailProperties ==
    ASSUME NEW S, NEW s \in Seq(S), s # <<>>, IsInjective(s)
    PROVE  /\ Tail(s) \in Seq(S)
           /\ Len(Tail(s)) = Len(s) - 1
           /\ \A i \in 1..(Len(s) - 1) : Tail(s)[i] = s[i + 1]
           /\ IsInjective(Tail(s))
           /\ Head(s) = s[1]
           /\ Head(s) \in Range(s)
           /\ Range(Tail(s)) = Range(s) \ {Head(s)}
<1> DEFINE t == Tail(s)
<1>1. /\ t \in Seq(S)
      /\ Len(s) \in Nat \ {0}
      /\ Len(t) = Len(s) - 1
      /\ DOMAIN t = 1..(Len(s) - 1)
      /\ DOMAIN s = 1..Len(s)
      /\ \A i \in 1..(Len(s) - 1) : t[i] = s[i + 1]
      /\ Head(s) = s[1]
  OBVIOUS
<1>2. IsInjective(t)
  BY <1>1 DEF IsInjective
<1>3. Head(s) \in Range(s)
  <2>1. 1 \in DOMAIN s
    BY <1>1
  <2> QED BY <1>1, <2>1 DEF Range
<1>4. ASSUME NEW y \in Range(t) PROVE y \in Range(s) \ {Head(s)}
  <2>1. PICK i \in 1..(Len(s) - 1) : t[i] = y
    BY <1>1 DEF Range
  <2>2. i + 1 \in DOMAIN s /\ 1 \in DOMAIN s /\ s[i + 1] = y /\ i + 1 # 1
    BY <1>1, <2>1
  <2> QED BY <1>1, <2>2 DEF Range, IsInjective
<1>5. ASSUME NEW y \in Range(s) \ {Head(s)} PROVE y \in Range(t)
  <2>1. PICK i \in 1..Len(s) : s[i] = y
    BY <1>1 DEF Range
  <2>2. i - 1 \in DOMAIN t /\ t[i - 1] = y
    BY <1>1, <2>1
  <2> QED BY <2>2 DEF Range
<1> QED BY <1>1, <1>2, <1>3, <1>4, <1>5

\* Cancelling the order at position i removes exactly it.
LEMMA DropAtProperties ==
    ASSUME NEW S, NEW s \in Seq(S), NEW i \in DOMAIN s, IsInjective(s)
    PROVE  /\ IsInjective(DropAt(s, i))
           /\ Range(DropAt(s, i)) = Range(s) \ {s[i]}
<1> DEFINE t == DropAt(s, i)
<1>1. /\ t \in Seq(S)
      /\ Len(s) \in Nat
      /\ i \in 1..Len(s)
      /\ DOMAIN t = 1..(Len(s) - 1)
      /\ DOMAIN s = 1..Len(s)
      /\ \A j \in 1..(Len(s) - 1) : t[j] = s[IF j < i THEN j ELSE j + 1]
  BY DropAtType
<1> HIDE DEF t
<1>2. IsInjective(t)
  <2> SUFFICES ASSUME NEW a \in 1..(Len(s) - 1), NEW b \in 1..(Len(s) - 1),
                      t[a] = t[b]
               PROVE  a = b
    BY <1>1 DEF IsInjective
  <2> DEFINE at(j) == IF j < i THEN j ELSE j + 1
  <2>1. at(a) \in DOMAIN s /\ at(b) \in DOMAIN s /\ s[at(a)] = s[at(b)]
    BY <1>1
  <2>2. at(a) = at(b)
    BY <2>1 DEF IsInjective
  <2> QED BY <1>1, <2>2
<1>3. ASSUME NEW y \in Range(t) PROVE y \in Range(s) \ {s[i]}
  <2>1. PICK j \in 1..(Len(s) - 1) : t[j] = y
    BY <1>1 DEF Range
  <2>2. PICK k \in 1..Len(s) : k # i /\ s[k] = y
    BY <1>1, <2>1
  <2> QED BY <1>1, <2>2 DEF Range, IsInjective
<1>4. ASSUME NEW y \in Range(s) \ {s[i]} PROVE y \in Range(t)
  <2>1. PICK k \in 1..Len(s) : s[k] = y /\ k # i
    BY <1>1 DEF Range
  <2>2. PICK j \in 1..(Len(s) - 1) : t[j] = y
    <3>1. CASE k < i
      BY <1>1, <2>1, <3>1
    <3>2. CASE k > i
      <4>1. k - 1 \in 1..(Len(s) - 1) /\ t[k - 1] = y
        BY <1>1, <2>1, <3>2
      <4> QED BY <4>1
    <3> QED BY <1>1, <2>1, <3>1, <3>2
  <2> QED BY <1>1, <2>2 DEF Range
<1> QED BY <1>2, <1>3, <1>4 DEF t

-----------------------------------------------------------------------------
(* The inductive invariant *)

\* NewBook's empty book satisfies the invariant.
LEMMA InitEstablishesBookInv == BookInit => BookInv
<1> SUFFICES ASSUME BookInit PROVE BookInv
  OBVIOUS
<1>1. BookTypeOK
  BY MaxClockAssumption DEF BookInit, BookTypeOK, OrderFields, Unsubmitted, Sides, Market
<1>2. bids = <<>> /\ asks = <<>> /\ tape = <<>>
  BY DEF BookInit
<1>3. Range(bids) = {} /\ Range(asks) = {} /\ DOMAIN bids = {} /\ DOMAIN asks = {}
      /\ DOMAIN tape = {}
  BY <1>2 DEF Range
<1>4. Bookkeeping
  BY <1>3, NoneAssumption DEF BookInit, Bookkeeping
<1>5. PriceTimeSorted /\ Uncrossed
  BY <1>2, <1>3 DEF PriceTimeSorted, Uncrossed, Sorted
<1>6. OnBookExactlyWhileOpen
  BY <1>2, <1>3 DEF OnBookExactlyWhileOpen, Resting, IsInjective, BookInit
<1>7. TradesWithinLimits
  BY <1>3 DEF TradesWithinLimits
<1> QED BY <1>1, <1>4, <1>5, <1>6, <1>7 DEF BookInv

\* The parties of every trade on the tape are orders.
LEMMA TapeType ==
    ASSUME BookTypeOK, NEW i \in DOMAIN tape
    PROVE  /\ tape[i].buy \in Orders /\ tape[i].sell \in Orders
           /\ tape[i].price \in Nat /\ tape[i].quantity \in Nat
<1>1. tape[i] \in Trade
  BY DEF BookTypeOK
<1> QED BY <1>1 DEF Trade

\* The fields of an order that prices a trade.
LEMMA OrderFieldsType ==
    ASSUME BookTypeOK, NEW o \in Orders
    PROVE  /\ order[o].price \in Nat
           /\ order[o].side \in {"BUY", "SELL"}
<1>1. order[o] \in OrderFields
  BY DEF BookTypeOK
<1>2. order[o].price \in Prices \cup {Market} /\ order[o].side \in Sides
  BY <1>1 DEF OrderFields
<1>3. Prices \cup {Market} \subseteq Nat
  BY PricesAssumption DEF Market
<1> QED BY <1>2, <1>3 DEF Sides

\* Submit only writes the fields of an order that is not yet on the book.
LEMMA SubmitPreservesBookInv ==
    ASSUME BookInv,
           NEW o \in Orders, NEW side \in Sides, NEW p \in Prices \cup {Market},
           NEW q \in Quantities, NEW now \in clock..MaxClock,
           Submit(o, side, p, q, now)
    PROVE  BookInv'
<1> USE DEF BookInv
<1>1. BookTypeOK'
  <2>1. now \in 0..MaxClock
    BY MaxClockAssumption DEF BookTypeOK
  <2>2. [side |-> side, price |-> p, quantity |-> q, createdAt |-> now] \in OrderFields
    BY <2>1 DEF OrderFields
  <2>3. order' \in [Orders -> OrderFields]
    BY <2>2 DEF Submit, BookTypeOK
  <2>4. remaining' \in [Orders -> Nat]
    BY QuantitiesAssumption DEF Submit, BookTypeOK
  <2> QED BY <2>1, <2>3, <2>4 DEF Submit, BookTypeOK
<1>2. o \notin Resting
  BY DEF OnBookExactlyWhileOpen, Submit
<1>3. \A x \in Orders \ {o} : order'[x] = order[x] /\ remaining'[x] = remaining[x]
                              /\ pc'[x] = pc[x]
  BY DEF Submit, BookTypeOK
<1>4. bids' = bids /\ asks' = asks /\ tape' = tape /\ cancelled' = cancelled /\ mu' = mu
  BY DEF Submit
<1>5. pc[o] = "idle" /\ pc'[o] = "stamped"
  BY DEF Submit, BookTypeOK
<1>6. Range(bids) \subseteq Orders \ {o} /\ Range(asks) \subseteq Orders \ {o}
  BY <1>2 DEF BookTypeOK, Resting, Range
<1>7. Bookkeeping'
  <2>1. \A x \in Orders : pc'[x] = "matching" <=> mu' = x
    BY <1>3, <1>4, <1>5 DEF Bookkeeping
  <2>2. \A x \in cancelled' : pc'[x] = "returned"
    BY <1>3, <1>4, <1>5 DEF Bookkeeping, BookTypeOK
  <2>3. \A i \in DOMAIN tape : pc'[tape[i].buy] # "idle" /\ pc'[tape[i].sell] # "idle"
    BY <1>3, <1>5, TapeType DEF Bookkeeping
  <2> QED BY <1>4, <2>1, <2>2, <2>3 DEF Bookkeeping
<1>8. PriceTimeSorted'
  <2>1. DOMAIN bids = 1..Len(bids) /\ DOMAIN asks = 1..Len(asks)
    BY DEF BookTypeOK
  <2>2. (\A i \in 1..Len(bids) : order'[bids[i]] = order[bids[i]])
        /\ (\A i \in 1..Len(asks) : order'[asks[i]] = order[asks[i]])
    BY <1>3, <1>6, <2>1 DEF Range
  <2>3. Sorted(bids)'
    <3> SUFFICES ASSUME NEW i \in 1..Len(bids), NEW j \in 1..Len(bids), i < j
                 PROVE  ~Before(bids[j], bids[i])'
      BY <1>4 DEF Sorted
    <3>1. ~Before(bids[j], bids[i])
      BY DEF PriceTimeSorted, Sorted
    <3> QED BY <1>4, <2>2, <3>1 DEF Before
  <2>4. Sorted(asks)'
    <3> SUFFICES ASSUME NEW i \in 1..Len(asks), NEW j \in 1..Len(asks), i < j
                 PROVE  ~Before(asks[j], asks[i])'
      BY <1>4 DEF Sorted
    <3>1. ~Before(asks[j], asks[i])
      BY DEF PriceTimeSorted, Sorted
    <3> QED BY <1>4, <2>2, <3>1 DEF Before
  <2> QED BY <1>3, <1>4, <1>6, <2>3, <2>4 DEF PriceTimeSorted
<1>9. Uncrossed'
  BY <1>3, <1>4, <1>6 DEF Uncrossed
<1>10. OnBookExactlyWhileOpen'
  BY <1>2, <1>3, <1>4, <1>5 DEF OnBookExactlyWhileOpen, Resting, isMarket
<1>11. TradesWithinLimits'
  <2>1. \A i \in DOMAIN tape : /\ tape[i].buy \in Orders \ {o}
                               /\ tape[i].sell \in Orders \ {o}
    BY <1>5, TapeType DEF Bookkeeping
  <2> QED BY <1>3, <1>4, <2>1 DEF TradesWithinLimits, isMarket
<1> QED BY <1>1, <1>7, <1>8, <1>9, <1>10, <1>11

\* Taking the mutex touches neither side of the book.
LEMMA MatchLockPreservesBookInv ==
    ASSUME BookInv, NEW o \in Orders, MatchLock(o)
    PROVE  BookInv'
<1> USE DEF BookInv, MatchLock
<1>1. BookTypeOK'
  BY DEF BookTypeOK
<1>2. Bookkeeping'
  <2>1. \A x \in Orders : pc'[x] = "matching" <=> mu' = x
    BY NoneAssumption DEF Bookkeeping, BookTypeOK
  <2>2. \A x \in cancelled' : pc'[x] = "returned"
    BY DEF Bookkeeping, BookTypeOK
  <2>3. \A i \in DOMAIN tape : pc'[tape[i].buy] # "idle" /\ pc'[tape[i].sell] # "idle"
    BY TapeType DEF Bookkeeping, BookTypeOK
  <2> QED BY <2>1, <2>2, <2>3 DEF Bookkeeping
<1>3. PriceTimeSorted' /\ Uncrossed'
  BY DEF PriceTimeSorted, Sorted, Before, Uncrossed
<1>4. OnBookExactlyWhileOpen'
  BY DEF OnBookExactlyWhileOpen, Resting, isMarket, BookTypeOK
<1>5. TradesWithinLimits'
  BY DEF TradesWithinLimits, isMarket
<1> QED BY <1>1, <1>2, <1>3, <1>4, <1>5

\* The tail of a sorted side is sorted.
LEMMA SortedTail ==
    ASSUME NEW S, NEW s \in Seq(S), s # <<>>, Sorted(s)
    PROVE  Sorted(Tail(s))
<1>1. /\ Len(s) \in Nat \ {0}
      /\ Len(Tail(s)) = Len(s) - 1
      /\ \A i \in 1..(Len(s) - 1) : Tail(s)[i] = s[i + 1]
  OBVIOUS
<1> SUFFICES ASSUME NEW i \in 1..(Len(s) - 1), NEW j \in 1..(Len(s) - 1), i < j
             PROVE  ~Before(s[j + 1], s[i + 1])
  BY <1>1 DEF Sorted
<1> QED BY <1>1 DEF Sorted

\* A sorted side stays sorted when one order is cancelled.
LEMMA SortedDropAt ==
    ASSUME NEW S, NEW s \in Seq(S), NEW k \in DOMAIN s, Sorted(s)
    PROVE  Sorted(DropAt(s, k))
<1>1. /\ Len(s) \in Nat
      /\ k \in 1..Len(s)
      /\ Len(DropAt(s, k)) = Len(s) - 1
      /\ \A i \in 1..(Len(s) - 1) : DropAt(s, k)[i] = s[IF i < k THEN i ELSE i + 1]
  BY DropAtType
<1> SUFFICES ASSUME NEW i \in 1..(Len(s) - 1), NEW j \in 1..(Len(s) - 1), i < j
             PROVE  ~Before(s[IF j < k THEN j ELSE j + 1], s[IF i < k THEN i ELSE i + 1])
  BY <1>1 DEF Sorted
<1> DEFINE at(x) == IF x < k THEN x ELSE x + 1
<1>2. at(i) \in 1..Len(s) /\ at(j) \in 1..Len(s) /\ at(i) < at(j)
  BY <1>1
<1> QED BY <1>2 DEF Sorted

\* What a fill knows about its two parties: the best resting order of the
\* opposite side and the incoming order, both with something left.
LEMMA FillFacts ==
    ASSUME BookInv, NEW o \in Orders, mu = o, CanFill(o)
    PROVE  LET best == Head(Opposite(o))
               q    == MinOf(remaining[o], remaining[best])
           IN  /\ Opposite(o) \in Seq(Orders) /\ Opposite(o) # <<>>
               /\ IsInjective(Opposite(o)) /\ Sorted(Opposite(o))
               /\ best \in Range(Opposite(o)) /\ best \in Orders /\ best \in Resting
               /\ best # o /\ order[best].side # order[o].side
               /\ pc[best] = "returned" /\ pc[o] = "matching"
               /\ ~isMarket(best) /\ best \notin cancelled
               /\ remaining[best] \in Nat /\ remaining[best] > 0
               /\ remaining[o] \in Nat /\ remaining[o] > 0
               /\ q \in Nat /\ q > 0 /\ q <= remaining[o] /\ q <= remaining[best]
               /\ q = remaining[o] \/ q = remaining[best]
<1> DEFINE best == Head(Opposite(o))
<1> USE DEF BookInv
<1>1. /\ Opposite(o) \in Seq(Orders) /\ Opposite(o) # <<>>
      /\ IsInjective(Opposite(o)) /\ Sorted(Opposite(o))
  BY DEF CanFill, Opposite, BookTypeOK, OnBookExactlyWhileOpen, PriceTimeSorted
<1>2. best \in Range(Opposite(o))
  BY <1>1, TailProperties
<1>3. best \in Resting
  BY <1>2 DEF Opposite, Resting
<1>4. best \in Orders
  BY <1>1
<1>5. /\ pc[best] = "returned" /\ remaining[best] > 0
      /\ ~isMarket(best) /\ best \notin cancelled
  BY <1>3, <1>4 DEF OnBookExactlyWhileOpen
<1>6. pc[o] = "matching" /\ best # o
  BY <1>5 DEF Bookkeeping
<1>7. order[best].side # order[o].side
  <2>1. order[o].side \in {"BUY", "SELL"}
    BY DEF BookTypeOK, OrderFields, Sides
  <2> QED BY <1>2, <2>1 DEF Opposite, PriceTimeSorted
<1>8. /\ remaining[best] \in Nat /\ remaining[o] \in Nat /\ remaining[o] > 0
  BY <1>4 DEF BookTypeOK, CanFill
<1> QED BY <1>1, <1>2, <1>3, <1>4, <1>5, <1>6, <1>7, <1>8 DEF MinOf

\* One iteration of the matching loop: both parties lose the same quantity,
\* the best resting order leaves exactly when it is exhausted, and the trade
\* is within both limits.
LEMMA MatchFillPreservesBookInv ==
    ASSUME BookInv, NEW o \in Orders, MatchFill(o)
    PROVE  BookInv'
<1> DEFINE opp  == Opposite(o)
           best == Head(opp)
           q    == MinOf(remaining[o], remaining[best])
           f    == Fill(o, best)
           rest == IF remaining[best] = q THEN Tail(opp) ELSE opp
<1> USE DEF BookInv
<1>0. mu = o /\ CanFill(o)
  BY DEF MatchFill
<1>1. /\ opp \in Seq(Orders) /\ opp # <<>> /\ IsInjective(opp) /\ Sorted(opp)
      /\ best \in Range(opp) /\ best \in Orders /\ best \in Resting
      /\ best # o /\ order[best].side # order[o].side
      /\ pc[best] = "returned" /\ pc[o] = "matching"
      /\ ~isMarket(best) /\ best \notin cancelled
      /\ remaining[best] \in Nat /\ remaining[best] > 0
      /\ remaining[o] \in Nat /\ remaining[o] > 0
      /\ q \in Nat /\ q > 0 /\ q <= remaining[o] /\ q <= remaining[best]
  BY <1>0, FillFacts
<1>2. f.quantity = q
  BY DEF Fill
<1>3. /\ remaining' = [remaining EXCEPT ![o] = @ - q, ![best] = @ - q]
      /\ IF order[o].side = "BUY" THEN asks' = rest /\ bids' = bids
                                  ELSE bids' = rest /\ asks' = asks
      /\ fills' = Append(fills, f) /\ tape' = Append(tape, f)
      /\ order' = order /\ trades' = trades /\ mu' = mu /\ pc' = pc
      /\ cancelled' = cancelled /\ clock' = clock
  BY <1>2 DEF MatchFill
<1>4. /\ rest \in Seq(Orders) /\ IsInjective(rest) /\ Sorted(rest)
      /\ Range(rest) = IF remaining[best] = q THEN Range(opp) \ {best} ELSE Range(opp)
  BY <1>1, TailProperties, SortedTail
<1>5. f \in Trade
  <2>1. order[o].price \in Nat /\ order[best].price \in Nat
    BY <1>1, OrderFieldsType
  <2> QED BY <1>1, <2>1 DEF Fill, Trade, TradePrice
<1> HIDE DEF f, q, rest
<1>6. BookTypeOK'
  <2>1. remaining' \in [Orders -> Nat]
    <3>1. remaining[o] - q \in Nat /\ remaining[best] - q \in Nat
      BY <1>1
    <3>2. remaining' = [remaining EXCEPT ![o] = remaining[o] - q,
                                         ![best] = remaining[best] - q]
      BY <1>1, <1>3 DEF BookTypeOK
    <3> QED BY <3>1, <3>2 DEF BookTypeOK
  <2>2. bids' \in Seq(Orders) /\ asks' \in Seq(Orders)
    BY <1>3, <1>4 DEF BookTypeOK
  <2>3. fills' \in Seq(Trade) /\ tape' \in Seq(Trade)
    BY <1>3, <1>5 DEF BookTypeOK
  <2> QED BY <1>3, <2>1, <2>2, <2>3 DEF BookTypeOK
<1>7. {f.buy, f.sell} = {o, best}
  BY DEF f, Fill
<1>8. /\ DOMAIN tape' = 1..(Len(tape) + 1)
      /\ DOMAIN tape = 1..Len(tape)
      /\ Len(tape) \in Nat
      /\ \A i \in DOMAIN tape : tape'[i] = tape[i]
      /\ tape'[Len(tape) + 1] = f
  BY <1>3, <1>5 DEF BookTypeOK
<1>9. \A i \in DOMAIN tape' : i \in DOMAIN tape \/ i = Len(tape) + 1
  BY <1>8
<1>10. Bookkeeping'
  <2>1. pc[f.buy] # "idle" /\ pc[f.sell] # "idle"
    BY <1>1, <1>7
  <2>2. \A i \in DOMAIN tape' : pc'[tape'[i].buy] # "idle" /\ pc'[tape'[i].sell] # "idle"
    BY <1>3, <1>8, <1>9, <2>1 DEF Bookkeeping
  <2> QED BY <1>3, <2>2 DEF Bookkeeping
<1>11. Range(bids') \subseteq Range(bids) /\ Range(asks') \subseteq Range(asks)
  BY <1>3, <1>4 DEF Opposite
<1>12. PriceTimeSorted'
  <2>1. Sorted(bids') /\ Sorted(asks')
    BY <1>3, <1>4 DEF PriceTimeSorted
  <2>2. Sorted(bids)' /\ Sorted(asks)'
    BY <1>3, <2>1 DEF Sorted, Before
  <2> QED BY <1>3, <1>11, <2>2 DEF PriceTimeSorted
<1>13. Uncrossed'
  BY <1>3, <1>11 DEF Uncrossed
<1>14. OnBookExactlyWhileOpen'
  <2>1. \A s \in {bids, asks}' : IsInjective(s)
    BY <1>3, <1>4 DEF OnBookExactlyWhileOpen
  <2>2. Resting' = IF remaining[best] = q THEN Resting \ {best} ELSE Resting
    <3>1. CASE order[o].side = "BUY"
      <4>1. best \notin Range(bids)
        BY <1>1, <3>1 DEF PriceTimeSorted, BookTypeOK
      <4> QED BY <1>3, <1>4, <3>1, <4>1 DEF Resting, Opposite
    <3>2. CASE order[o].side # "BUY"
      <4>1. best \notin Range(asks)
        BY <1>1, <3>2 DEF PriceTimeSorted, BookTypeOK, OrderFields, Sides
      <4> QED BY <1>3, <1>4, <3>2, <4>1 DEF Resting, Opposite
    <3> QED BY <3>1, <3>2
  <2>3. \A x \in Orders \ {o, best} : remaining'[x] = remaining[x]
    BY <1>3 DEF BookTypeOK
  <2>4. remaining'[best] = remaining[best] - q
    BY <1>1, <1>3 DEF BookTypeOK
  <2>5. ASSUME NEW x \in Orders
        PROVE  x \in Resting' <=> /\ pc'[x] = "returned" /\ remaining'[x] > 0
                                  /\ ~isMarket(x)' /\ x \notin cancelled'
    <3>1. CASE x = best
      BY <1>1, <1>3, <2>2, <2>4, <3>1 DEF isMarket
    <3>2. CASE x = o
      BY <1>1, <1>3, <2>2, <3>2 DEF OnBookExactlyWhileOpen
    <3>3. CASE x \notin {o, best}
      BY <1>3, <2>2, <2>3, <3>3 DEF OnBookExactlyWhileOpen, isMarket
    <3> QED BY <3>1, <3>2, <3>3
  <2> QED BY <2>1, <2>5 DEF OnBookExactlyWhileOpen
<1>15. TradesWithinLimits'
  <2>1. /\ order[f.buy].side = "BUY" /\ order[f.sell].side = "SELL"
        /\ f.quantity > 0 /\ f.price > 0
        /\ isMarket(f.buy) \/ f.price <= order[f.buy].price
        /\ isMarket(f.sell) \/ f.price >= order[f.sell].price
    <3>1. /\ order[o].price \in Nat /\ order[best].price \in Nat
          /\ order[o].side \in {"BUY", "SELL"} /\ order[best].side \in {"BUY", "SELL"}
      BY <1>1, OrderFieldsType
    <3>2. Crosses(o, best) /\ order[best].price > 0
      BY <1>0, <1>1, <3>1 DEF CanFill, isMarket, Market
    <3> QED BY <1>1, <1>2, <3>1, <3>2 DEF f, Fill, TradePrice, Crosses, isMarket, Market
  <2> QED BY <1>3, <1>8, <1>9, <2>1 DEF TradesWithinLimits, isMarket
<1> QED BY <1>6, <1>10, <1>12, <1>13, <1>14, <1>15

\* The head of a sorted side has the best claim, and so the best price.
LEMMA HeadIsBest ==
    ASSUME BookTypeOK, NEW s \in Seq(Orders), s # <<>>, Sorted(s), NEW x \in Range(s)
    PROVE  /\ Head(s) \in Orders
           /\ ~Before(x, Head(s))
           /\ order[x].side = "BUY" => order[x].price <= order[Head(s)].price
           /\ order[x].side = "SELL" => order[x].price >= order[Head(s)].price
<1>1. Head(s) = s[1] /\ Len(s) \in Nat \ {0} /\ DOMAIN s = 1..Len(s)
  OBVIOUS
<1>2. PICK i \in 1..Len(s) : s[i] = x
  BY <1>1 DEF Range
<1>3. s[1] \in Orders /\ x \in Orders
  BY <1>1, <1>2
<1>4. /\ order[x].price \in Nat /\ order[s[1]].price \in Nat
      /\ order[x].createdAt \in Nat /\ order[s[1]].createdAt \in Nat
  <2>1. order[x] \in OrderFields /\ order[s[1]] \in OrderFields
    BY <1>3 DEF BookTypeOK
  <2>2. order[x].createdAt \in 0..MaxClock /\ order[s[1]].createdAt \in 0..MaxClock
    BY <2>1 DEF OrderFields
  <2> QED BY <1>3, <2>2, OrderFieldsType, MaxClockAssumption
<1>5. ~Before(x, s[1])
  <2>1. CASE i = 1
    BY <1>2, <1>4, <2>1 DEF Before
  <2>2. CASE 1 < i
    BY <1>1, <1>2, <2>2 DEF Sorted
  <2> QED BY <2>1, <2>2
<1> QED BY <1>1, <1>3, <1>4, <1>5 DEF Before

\* After the loop, what is left of a limit order rests behind nothing it
\* could still have taken.
LEMMA RemainderDoesNotCross ==
    ASSUME BookInv, NEW o \in Orders, ~CanFill(o), remaining[o] > 0, ~isMarket(o),
           NEW x \in Range(Opposite(o))
    PROVE  IF order[o].side = "BUY" THEN order[o].price < order[x].price
                                    ELSE order[x].price < order[o].price
<1> DEFINE opp == Opposite(o)
<1> USE DEF BookInv
<1>1. opp \in Seq(Orders) /\ Sorted(opp)
  BY DEF Opposite, BookTypeOK, PriceTimeSorted
<1>2. opp # <<>>
  BY <1>1 DEF Range
<1>3. ~Crosses(o, Head(opp))
  BY <1>2 DEF CanFill
<1>4. x \in Orders
  BY <1>1 DEF Range
<1>5. /\ order[o].price \in Nat /\ order[x].price \in Nat
      /\ Head(opp) \in Orders /\ order[Head(opp)].price \in Nat
      /\ order[o].side \in {"BUY", "SELL"}
  BY <1>1, <1>2, <1>4, HeadIsBest, OrderFieldsType
<1>6. order[x].side = IF order[o].side = "BUY" THEN "SELL" ELSE "BUY"
  BY DEF Opposite, PriceTimeSorted
<1>7. IF order[o].side = "BUY" THEN order[x].price >= order[Head(opp)].price
                               ELSE order[x].price <= order[Head(opp)].price
  BY <1>1, <1>2, <1>6, HeadIsBest
<1> HIDE DEF opp
<1> QED BY <1>3, <1>5, <1>7 DEF Crosses

\* The end of Match: the remainder of a limit order joins its own side in
\* its sorted place; every other order leaves the book as it is.
LEMMA MatchReturnPreservesBookInv ==
    ASSUME BookInv, NEW o \in Orders, MatchReturn(o)
    PROVE  BookInv'
<1> USE DEF BookInv
<1>1. /\ mu = o /\ mu' = None /\ pc' = [pc EXCEPT ![o] = "returned"]
      /\ order' = order /\ remaining' = remaining /\ fills' = fills
      /\ cancelled' = cancelled /\ tape' = tape /\ clock' = clock
      /\ ~CanFill(o)
  BY DEF MatchReturn
<1>2. pc[o] = "matching" /\ o \notin Resting /\ o \notin cancelled
  BY <1>1 DEF Bookkeeping, OnBookExactlyWhileOpen
<1>3. trades' \in Seq(Trade)
  <2>1. trades \o fills \in Seq(Trade)
    BY DEF BookTypeOK
  <2> QED BY <2>1, LastNType, TradeCapAssumption DEF MatchReturn
<1>4. Bookkeeping'
  <2>1. \A x \in Orders : pc'[x] = "matching" <=> mu' = x
    BY <1>1, NoneAssumption DEF Bookkeeping, BookTypeOK
  <2>2. \A x \in cancelled' : pc'[x] = "returned"
    BY <1>1 DEF Bookkeeping, BookTypeOK
  <2>3. \A i \in DOMAIN tape : pc'[tape[i].buy] # "idle" /\ pc'[tape[i].sell] # "idle"
    BY <1>1, TapeType DEF Bookkeeping, BookTypeOK
  <2> QED BY <1>1, <2>1, <2>2, <2>3 DEF Bookkeeping
<1>5. TradesWithinLimits'
  BY <1>1 DEF TradesWithinLimits, isMarket
<1>6. CASE ~(remaining[o] > 0 /\ ~isMarket(o))
  <2>1. bids' = bids /\ asks' = asks
    BY <1>6 DEF MatchReturn
  <2>2. BookTypeOK'
    BY <1>1, <1>3, <2>1 DEF BookTypeOK
  <2>3. PriceTimeSorted' /\ Uncrossed'
    BY <1>1, <2>1 DEF PriceTimeSorted, Sorted, Before, Uncrossed
  <2>4. OnBookExactlyWhileOpen'
    BY <1>1, <1>2, <1>6, <2>1 DEF OnBookExactlyWhileOpen, Resting, isMarket, BookTypeOK
  <2> QED BY <1>4, <1>5, <2>2, <2>3, <2>4
<1>7. CASE remaining[o] > 0 /\ ~isMarket(o)
  <2>1. PICK t \in Sorts(Append(SideOf(o), o)) :
            IF order[o].side = "BUY" THEN bids' = t /\ asks' = asks
                                     ELSE asks' = t /\ bids' = bids
    BY <1>7 DEF MatchReturn, insertResting
  <2>2. SideOf(o) \in Seq(Orders)
    BY DEF SideOf, BookTypeOK
  <2>3. /\ Append(SideOf(o), o) \in Seq(Orders)
        /\ Range(Append(SideOf(o), o)) = Range(SideOf(o)) \cup {o}
    BY <2>2, AppendProperties
  <2>4. /\ t \in Seq(Orders) /\ Range(t) = Range(SideOf(o)) \cup {o}
        /\ IsInjective(t) /\ Sorted(t)
    BY <2>3, SortsProperties
  <2>5. order[o].side \in {"BUY", "SELL"}
    BY OrderFieldsType
  <2>6. BookTypeOK'
    BY <1>1, <1>3, <2>1, <2>4 DEF BookTypeOK
  <2>7. PriceTimeSorted'
    <3>1. Sorted(bids') /\ Sorted(asks')
      BY <2>1, <2>4 DEF PriceTimeSorted
    <3>2. Sorted(bids)' /\ Sorted(asks)'
      BY <1>1, <3>1 DEF Sorted, Before
    <3>3. (\A x \in Range(bids') : order[x].side = "BUY")
          /\ (\A x \in Range(asks') : order[x].side = "SELL")
      BY <2>1, <2>4, <2>5 DEF PriceTimeSorted, SideOf
    <3> QED BY <1>1, <3>2, <3>3 DEF PriceTimeSorted
  <2>8. Uncrossed'
    <3>1. CASE order[o].side = "BUY"
      <4>1. \A a \in Range(asks) : order[o].price < order[a].price
        BY <1>1, <1>7, <3>1, RemainderDoesNotCross DEF Opposite
      <4> QED BY <1>1, <2>1, <2>4, <3>1, <4>1 DEF Uncrossed, SideOf
    <3>2. CASE order[o].side # "BUY"
      <4>1. \A b \in Range(bids) : order[b].price < order[o].price
        BY <1>1, <1>7, <3>2, RemainderDoesNotCross DEF Opposite
      <4> QED BY <1>1, <2>1, <2>4, <3>2, <4>1 DEF Uncrossed, SideOf
    <3> QED BY <3>1, <3>2
  <2>9. OnBookExactlyWhileOpen'
    <3>1. \A s \in {bids, asks}' : IsInjective(s)
      BY <2>1, <2>4 DEF OnBookExactlyWhileOpen
    <3>2. Resting' = Resting \cup {o}
      BY <2>1, <2>4 DEF Resting, SideOf
    <3>3. \A x \in Orders : isMarket(x)' <=> isMarket(x)
      BY <1>1 DEF isMarket
    <3>4. \A x \in Orders : x \in Resting' <=> /\ pc'[x] = "returned" /\ remaining'[x] > 0
                                              /\ ~isMarket(x)' /\ x \notin cancelled'
      BY <1>1, <1>2, <1>7, <3>2, <3>3 DEF OnBookExactlyWhileOpen, BookTypeOK
    <3> QED BY <3>1, <3>4 DEF OnBookExactlyWhileOpen
  <2> QED BY <1>4, <1>5, <2>6, <2>7, <2>8, <2>9
<1> QED BY <1>6, <1>7

\* Cancel takes one order off its side and leaves the rest in order.
LEMMA CancelPreservesBookInv ==
    ASSUME BookInv, NEW o \in Orders, Cancel(o)
    PROVE  BookInv'
<1> USE DEF BookInv
<1>1. /\ cancelled' = cancelled \cup {o}
      /\ order' = order /\ remaining' = remaining /\ trades' = trades /\ fills' = fills
      /\ mu' = mu /\ pc' = pc /\ tape' = tape /\ clock' = clock
  BY DEF Cancel
<1>2. bids \in Seq(Orders) /\ asks \in Seq(Orders) /\ IsInjective(bids) /\ IsInjective(asks)
      /\ Sorted(bids) /\ Sorted(asks)
  BY DEF BookTypeOK, OnBookExactlyWhileOpen, PriceTimeSorted
<1>3. /\ bids' \in Seq(Orders) /\ asks' \in Seq(Orders)
      /\ IsInjective(bids') /\ IsInjective(asks')
      /\ Sorted(bids') /\ Sorted(asks')
      /\ o \in Resting
      /\ Range(bids') = Range(bids) \ {o} /\ Range(asks') = Range(asks) \ {o}
  <2>0. Range(bids) \cap Range(asks) = {}
    BY DEF PriceTimeSorted
  <2>1. CASE \E i \in DOMAIN bids : bids[i] = o /\ bids' = DropAt(bids, i) /\ asks' = asks
    <3>1. PICK i \in DOMAIN bids : bids[i] = o /\ bids' = DropAt(bids, i) /\ asks' = asks
      BY <2>1
    <3>2. o \in Range(bids)
      BY <3>1 DEF Range
    <3>3. /\ DropAt(bids, i) \in Seq(Orders) /\ IsInjective(DropAt(bids, i))
          /\ Sorted(DropAt(bids, i)) /\ Range(DropAt(bids, i)) = Range(bids) \ {bids[i]}
      BY <1>2, DropAtType, DropAtProperties, SortedDropAt
    <3> QED BY <1>2, <2>0, <3>1, <3>2, <3>3 DEF Resting
  <2>2. CASE \E i \in DOMAIN asks : asks[i] = o /\ asks' = DropAt(asks, i) /\ bids' = bids
    <3>1. PICK i \in DOMAIN asks : asks[i] = o /\ asks' = DropAt(asks, i) /\ bids' = bids
      BY <2>2
    <3>2. o \in Range(asks)
      BY <3>1 DEF Range
    <3>3. /\ DropAt(asks, i) \in Seq(Orders) /\ IsInjective(DropAt(asks, i))
          /\ Sorted(DropAt(asks, i)) /\ Range(DropAt(asks, i)) = Range(asks) \ {asks[i]}
      BY <1>2, DropAtType, DropAtProperties, SortedDropAt
    <3> QED BY <1>2, <2>0, <3>1, <3>2, <3>3 DEF Resting
  <2> QED BY <2>1, <2>2 DEF Cancel
<1>4. BookTypeOK'
  BY <1>1, <1>3 DEF BookTypeOK
<1>5. Bookkeeping'
  BY <1>1, <1>3 DEF Bookkeeping, OnBookExactlyWhileOpen
<1>6. PriceTimeSorted'
  <2>1. Sorted(bids)' /\ Sorted(asks)'
    BY <1>1, <1>3 DEF Sorted, Before
  <2> QED BY <1>1, <1>3, <2>1 DEF PriceTimeSorted
<1>7. Uncrossed'
  BY <1>1, <1>3 DEF Uncrossed
<1>8. OnBookExactlyWhileOpen'
  <2>1. \A s \in {bids, asks}' : IsInjective(s)
    BY <1>3
  <2>2. Resting' = Resting \ {o}
    BY <1>3 DEF Resting
  <2>3. \A x \in Orders : isMarket(x)' <=> isMarket(x)
    BY <1>1 DEF isMarket
  <2> QED BY <1>1, <2>1, <2>2, <2>3 DEF OnBookExactlyWhileOpen
<1>9. TradesWithinLimits'
  BY <1>1 DEF TradesWithinLimits, isMarket
<1> QED BY <1>4, <1>5, <1>6, <1>7, <1>8, <1>9

\* No step of the handlers, of Match or of Cancel breaks the invariant.
LEMMA NextPreservesBookInv == BookInv /\ [BookNext]_bookVars => BookInv'
<1> SUFFICES ASSUME BookInv, [BookNext]_bookVars PROVE BookInv'
  OBVIOUS
<1>1. ASSUME NEW o \in Orders, NEW side \in Sides, NEW p \in Prices \cup {Market},
             NEW q \in Quantities, NEW now \in clock..MaxClock,
             Submit(o, side, p, q, now)
      PROVE  BookInv'
  BY <1>1, SubmitPreservesBookInv
<1>2. ASSUME NEW o \in Orders, MatchLock(o) PROVE BookInv'
  BY <1>2, MatchLockPreservesBookInv
<1>3. ASSUME NEW o \in Orders, MatchFill(o) PROVE BookInv'
  BY <1>3, MatchFillPreservesBookInv
<1>4. ASSUME NEW o \in Orders, MatchReturn(o) PROVE BookInv'
  BY <1>4, MatchReturnPreservesBookInv
<1>5. ASSUME NEW o \in Orders, Cancel(o) PROVE BookInv'
  BY <1>5, CancelPreservesBookInv
<1>6. CASE UNCHANGED bookVars
  BY <1>6 DEF bookVars, BookInv, BookTypeOK, Bookkeeping, PriceTimeSorted, Sorted, Before,
              Uncrossed, OnBookExactlyWhileOpen, Resting, isMarket, TradesWithinLimits
<1> QED BY <1>1, <1>2, <1>3, <1>4, <1>5, <1>6 DEF BookNext

-----------------------------------------------------------------------------
(* Theorems *)

\* The inductive invariant holds in every reachable state.
THEOREM BookInvariant == BookSpec => []BookInv
<1>1. BookInit => BookInv
  BY InitEstablishesBookInv
<1>2. BookInv /\ [BookNext]_bookVars => BookInv'
  BY NextPreservesBookInv
<1> QED BY <1>1, <1>2, PTL DEF BookSpec

\* Type correctness of the book.
THEOREM BookTypeCorrect == BookSpec => []BookTypeOK
<1>1. BookInv => BookTypeOK
  BY DEF BookInv
<1> QED BY <1>1, BookInvariant, PTL

\* Both sides are always in price-time order, whatever order the goroutines
\* stamped and locked in.
THEOREM BookIsSorted == BookSpec => []PriceTimeSorted
<1>1. BookInv => PriceTimeSorted
  BY DEF BookInv
<1> QED BY <1>1, BookInvariant, PTL

\* The book is never crossed.
THEOREM BookIsUncrossed == BookSpec => []Uncrossed
<1>1. BookInv => Uncrossed
  BY DEF BookInv
<1> QED BY <1>1, BookInvariant, PTL

\* No resting order is lost or duplicated, and no exhausted or cancelled
\* one stays.
THEOREM BookIsExact == BookSpec => []OnBookExactlyWhileOpen
<1>1. BookInv => OnBookExactlyWhileOpen
  BY DEF BookInv
<1> QED BY <1>1, BookInvariant, PTL

\* Every trade respects both limits.
THEOREM TradesRespectLimits == BookSpec => []TradesWithinLimits
<1>1. BookInv => TradesWithinLimits
  BY DEF BookInv
<1> QED BY <1>1, BookInvariant, PTL

\* A fill always goes to the order with the best claim on its side.
THEOREM FillsFollowPriceTime == BookSpec => PriceTimePriority
<1> DEFINE A == \A m, n \in Resting :
                  order[m].side = order[n].side /\ remaining'[m] < remaining[m]
                    => ~Before(n, m)
<1>1. BookInv /\ [BookNext]_bookVars => [A]_bookVars
  <2> SUFFICES ASSUME BookInv, BookNext,
                      NEW m \in Resting, NEW n \in Resting,
                      order[m].side = order[n].side, remaining'[m] < remaining[m]
               PROVE  ~Before(n, m)
    OBVIOUS
  <2>1. m \in Orders /\ n \in Orders
    BY DEF BookInv, BookTypeOK, Resting, Range
  <2>2. pc[m] = "returned" /\ remaining[m] \in Nat
    BY <2>1 DEF BookInv, OnBookExactlyWhileOpen, BookTypeOK
  <2>3. remaining' # remaining
    BY <2>2
  <2>4. ASSUME NEW o \in Orders, NEW side \in Sides, NEW p \in Prices \cup {Market},
               NEW q \in Quantities, NEW now \in clock..MaxClock,
               Submit(o, side, p, q, now)
        PROVE  FALSE
    BY <2>1, <2>2, <2>4 DEF Submit, BookInv, BookTypeOK
  <2>5. PICK o \in Orders : MatchFill(o)
    BY <2>3, <2>4 DEF BookNext, MatchLock, MatchReturn, Cancel
  <2>6. mu = o /\ CanFill(o)
    BY <2>5 DEF MatchFill
  <2> DEFINE opp == Opposite(o)
             best == Head(opp)
  <2>7. /\ opp \in Seq(Orders) /\ opp # <<>> /\ Sorted(opp) /\ best \in Orders
        /\ best \in Range(opp) /\ pc[o] = "matching" /\ best # o
    BY <2>6, FillFacts
  <2>8. m = best
    <3>1. m # o
      BY <2>2, <2>7
    <3>2. ASSUME m # best PROVE remaining'[m] = remaining[m]
      BY <2>1, <2>5, <3>1, <3>2 DEF MatchFill, BookInv, BookTypeOK
    <3> QED BY <2>2, <3>2
  <2>9. n \in Range(opp)
    <3>1. order[o].side \in {"BUY", "SELL"}
      BY OrderFieldsType DEF BookInv
    <3> QED BY <2>7, <2>8, <3>1 DEF Opposite, Resting, BookInv, PriceTimeSorted
  <2> HIDE DEF opp
  <2> QED BY <2>7, <2>8, <2>9, HeadIsBest DEF BookInv
<1> QED BY <1>1, BookInvariant, PTL DEF BookSpec, PriceTimePriority

\* A cancelled order never trades and never returns to the book.
THEOREM CancellationIsFinal == BookSpec => CancelIsFinal
<1>1. BookInv /\ BookInv' /\ [BookNext]_bookVars
        => [\A o \in cancelled : remaining'[o] = remaining[o] /\ o \notin Resting']_bookVars
  <2> SUFFICES ASSUME BookInv, BookInv', BookNext, NEW c \in cancelled
               PROVE  remaining'[c] = remaining[c] /\ c \notin Resting'
    OBVIOUS
  <2>1. c \in Orders /\ pc[c] = "returned" /\ c \notin Resting
    BY DEF BookInv, BookTypeOK, Bookkeeping, OnBookExactlyWhileOpen
  <2>2. c \in cancelled'
    BY DEF BookNext, Submit, MatchLock, MatchFill, MatchReturn, Cancel
  <2>3. c \notin Resting'
    BY <2>1, <2>2 DEF BookInv, OnBookExactlyWhileOpen
  <2>4. ASSUME NEW o \in Orders, NEW side \in Sides, NEW p \in Prices \cup {Market},
               NEW q \in Quantities, NEW now \in clock..MaxClock,
               Submit(o, side, p, q, now)
        PROVE  remaining'[c] = remaining[c]
    BY <2>1, <2>4 DEF Submit, BookInv, BookTypeOK
  <2>5. ASSUME NEW o \in Orders, MatchFill(o)
        PROVE  remaining'[c] = remaining[c]
    <3>1. /\ pc[o] = "matching" /\ Head(Opposite(o)) \notin cancelled
      BY <2>5, FillFacts DEF MatchFill
    <3> QED BY <2>1, <2>5, <3>1 DEF MatchFill, BookInv, BookTypeOK
  <2>6. remaining'[c] = remaining[c]
    BY <2>4, <2>5 DEF BookNext, MatchLock, MatchReturn, Cancel
  <2> QED BY <2>3, <2>6
<1> QED BY <1>1, BookInvariant, PTL DEF BookSpec, CancelIsFinal
-----------------------------------------------------------------------------
(* The tape accounts for every unit *)

\* What one trade took from an order.
TakenBy(t, o) == IF o \in {t.buy, t.sell} THEN t.quantity ELSE 0

\* One more trade on the tape adds what it took from each party.
LEMMA TradedAppend ==
    ASSUME tape \in Seq(Trade), NEW f \in Trade, tape' = Append(tape, f), NEW o \in Orders
    PROVE  /\ Traded(o) \in Int
           /\ Traded(o)' = Traded(o) + TakenBy(f, o)
<1> DEFINE n == Len(tape)
           old == [i \in DOMAIN tape |-> TakenBy(tape[i], o)]
           new == [i \in DOMAIN tape' |-> TakenBy(tape'[i], o)]
<1>1. n \in Nat /\ DOMAIN tape = 1..n /\ DOMAIN tape' = 1..n \cup {n + 1} /\ n + 1 \notin 1..n
  OBVIOUS
<1>2. \A i \in 1..n : new[i] = old[i] /\ old[i] \in Int
  <2> TAKE i \in 1..n
  <2>1. i \in DOMAIN tape /\ i \in DOMAIN tape' /\ tape'[i] = tape[i] /\ tape[i] \in Trade
    BY <1>1
  <2>2. TakenBy(tape[i], o) \in Int
    BY <2>1 DEF TakenBy, Trade
  <2> QED BY <2>1, <2>2
<1>3. new[n + 1] = TakenBy(f, o) /\ new[n + 1] \in Int
  BY DEF TakenBy, Trade
<1>4. /\ Traded(o) = SumFunctionOnSet(old, 1..n)
      /\ Traded(o)' = SumFunctionOnSet(new, 1..n \cup {n + 1})
  <2>1. DOMAIN old = DOMAIN tape /\ DOMAIN new = DOMAIN tape'
    OBVIOUS
  <2> QED BY <1>1, <2>1 DEF Traded, SumFunction, TakenBy
<1>5. IsFiniteSet(1..n)
  BY <1>1, FS_Interval
<1> HIDE DEF n, old, new
<1>6. SumFunctionOnSet(new, 1..n \cup {n + 1}) = SumFunctionOnSet(new, 1..n) + new[n + 1]
  <2> DEFINE T == 1..n
             m == n + 1
  <2>1. IsFiniteSet(T) /\ m \notin T /\ \A i \in T \cup {m} : new[i] \in Int
    BY <1>1, <1>2, <1>3, <1>5
  <2> HIDE DEF T, m
  <2>2. SumFunctionOnSet(new, T \cup {m}) = SumFunctionOnSet(new, T) + new[m]
    BY <2>1, SumAdd
  <2> QED BY <2>2 DEF T, m
<1>7. SumFunctionOnSet(new, 1..n) = SumFunctionOnSet(old, 1..n)
  BY <1>2, <1>5, SumEqual
<1>8. SumFunctionOnSet(old, 1..n) \in Int
  BY <1>2, <1>5, SumIsInt
<1> QED BY <1>3, <1>4, <1>6, <1>7, <1>8

\* An order that was never submitted has no trades.
LEMMA UnsubmittedHasNotTraded ==
    ASSUME BookInv, NEW o \in Orders, pc[o] = "idle"
    PROVE  Traded(o) = 0
<1> DEFINE f == [i \in DOMAIN tape |-> TakenBy(tape[i], o)]
<1>1. \A i \in DOMAIN tape : f[i] = 0
  BY DEF BookInv, Bookkeeping, TakenBy
<1>2. IsFiniteSet(DOMAIN tape)
  <2>1. DOMAIN tape = 1..Len(tape) /\ Len(tape) \in Nat
    BY DEF BookInv, BookTypeOK
  <2> QED BY <2>1, FS_Interval
<1>3. Traded(o) = SumFunctionOnSet(f, DOMAIN tape)
  BY DEF Traded, SumFunction, TakenBy
<1> HIDE DEF f
<1> QED BY <1>1, <1>2, <1>3, SumZero

\* What an order has lost is what its trades took, over any interleaving of
\* submissions, matches and cancellations.
THEOREM QuantityIsConserved == BookSpec => []QuantityConserved
<1>1. BookInit => QuantityConserved
  <2> SUFFICES ASSUME BookInit, NEW o \in Orders
               PROVE  Traded(o) + remaining[o] = order[o].quantity
    BY DEF QuantityConserved
  <2>1. Traded(o) = 0
    BY InitEstablishesBookInv, UnsubmittedHasNotTraded DEF BookInit
  <2> QED BY <2>1 DEF BookInit, Unsubmitted
<1>2. BookInv /\ QuantityConserved /\ [BookNext]_bookVars => QuantityConserved'
  <2> SUFFICES ASSUME BookInv, QuantityConserved, [BookNext]_bookVars, NEW x \in Orders
               PROVE  Traded(x)' + remaining'[x] = order'[x].quantity
    BY DEF QuantityConserved
  <2>0. Traded(x) + remaining[x] = order[x].quantity /\ remaining[x] \in Nat
    BY DEF QuantityConserved, BookInv, BookTypeOK
  <2>1. CASE UNCHANGED <<order, remaining, tape>>
    BY <2>0, <2>1 DEF Traded
  <2>2. ASSUME NEW o \in Orders, NEW side \in Sides, NEW p \in Prices \cup {Market},
               NEW q \in Quantities, NEW now \in clock..MaxClock,
               Submit(o, side, p, q, now)
        PROVE  Traded(x)' + remaining'[x] = order'[x].quantity
    <3>1. /\ pc[o] = "idle" /\ tape' = tape
          /\ remaining' = [remaining EXCEPT ![o] = q]
          /\ order' = [order EXCEPT ![o] = [side |-> side, price |-> p,
                                           quantity |-> q, createdAt |-> now]]
      BY <2>2 DEF Submit
    <3>2. Traded(x)' = Traded(x)
      BY <3>1 DEF Traded
    <3>3. CASE x = o
      <4>1. Traded(x) = 0
        BY <3>1, <3>3, UnsubmittedHasNotTraded
      <4>2. remaining'[x] = q /\ order'[x].quantity = q /\ q \in Int
        BY <3>1, <3>3, QuantitiesAssumption DEF BookInv, BookTypeOK
      <4> QED BY <3>2, <4>1, <4>2
    <3>4. CASE x # o
      BY <2>0, <3>1, <3>2, <3>4 DEF BookInv, BookTypeOK
    <3> QED BY <3>3, <3>4
  <2>3. ASSUME NEW o \in Orders, MatchFill(o)
        PROVE  Traded(x)' + remaining'[x] = order'[x].quantity
    <3> DEFINE best == Head(Opposite(o))
               f == Fill(o, best)
               q == f.quantity
    <3>1. /\ best \in Orders /\ best # o
          /\ remaining[best] \in Nat /\ remaining[o] \in Nat
          /\ q \in Nat /\ {f.buy, f.sell} = {o, best}
      BY <2>3, FillFacts DEF MatchFill, Fill
    <3>2. /\ remaining' = [remaining EXCEPT ![o] = @ - q, ![best] = @ - q]
          /\ tape' = Append(tape, f) /\ order' = order
      BY <2>3 DEF MatchFill
    <3>3. f \in Trade /\ tape \in Seq(Trade)
      <4>1. order[o].price \in Nat /\ order[best].price \in Nat
        BY <3>1, OrderFieldsType DEF BookInv
      <4> QED BY <3>1, <4>1 DEF Fill, Trade, TradePrice, BookInv, BookTypeOK
    <3> HIDE DEF f
    <3>4. Traded(x) \in Int /\ Traded(x)' = Traded(x) + TakenBy(f, x)
      BY <3>2, <3>3, TradedAppend
    <3>5. CASE x \in {o, best}
      <4>1. TakenBy(f, x) = q /\ remaining'[x] = remaining[x] - q
        BY <3>1, <3>2, <3>5 DEF TakenBy, BookInv, BookTypeOK
      <4> QED BY <2>0, <3>1, <3>2, <3>4, <4>1
    <3>6. CASE x \notin {o, best}
      <4>1. TakenBy(f, x) = 0 /\ remaining'[x] = remaining[x]
        BY <3>1, <3>2, <3>6 DEF TakenBy, BookInv, BookTypeOK
      <4> QED BY <2>0, <3>2, <3>4, <4>1
    <3> QED BY <3>5, <3>6
  <2>4. ASSUME NEW o \in Orders, MatchLock(o) \/ MatchReturn(o) \/ Cancel(o)
        PROVE  UNCHANGED <<order, remaining, tape>>
    BY <2>4 DEF MatchLock, MatchReturn, Cancel
  <2>5. UNCHANGED bookVars => UNCHANGED <<order, remaining, tape>>
    BY DEF bookVars
  <2> QED BY <2>1, <2>2, <2>3, <2>4, <2>5 DEF BookNext
<1> QED BY <1>1, <1>2, BookInvariant, PTL DEF BookSpec
=============================================================================
