-------------------------- MODULE OrderFlowProofs --------------------------
(***************************************************************************)
(* Proofs about OrderFlow and EngineLife, for any number of orders,        *)
(* requests in flight, cancellations, faults and stops of the engine: the  *)
(* store never shows more filled than the ledger has settled and the book  *)
(* has matched, an order shown as FILLED is exhausted, every trade row has *)
(* its settlement, and frozen funds are held by orders.  When requests     *)
(* come one at a time, none fails and the users are funded: every trade    *)
(* settles, resting orders are backed, and the store agrees with the book. *)
(***************************************************************************)
EXTENDS EngineLife, OrderBookProofs

-----------------------------------------------------------------------------
(* The invariant *)

Numbers == Orders \X (1..Cardinality(Orders))

\* The trades of each taker, by their number in its match: what the engine
\* has answered, and with it what the running Match has made.
Answers == [o \in Orders |-> resp[o].trades]
Matches == [o \in Orders |-> IF mu = o THEN fills ELSE resp[o].trades]

QtyAt(A) == [x \in Numbers |-> IF x[2] \in DOMAIN A[x[1]] THEN A[x[1]][x[2]].quantity ELSE 0]
Qty(A, S) == SumFunctionOnSet(QtyAt(A), S)

MakerIn(t, o) == IF t.buy = o THEN t.sell ELSE t.buy

\* The trades an order is a party of, and those in the ledger.
PartyOf(A, o) == {x \in Numbers : /\ x[2] \in DOMAIN A[x[1]]
                                  /\ o \in {A[x[1]][x[2]].buy, A[x[1]][x[2]].sell}}
Settled == {x \in Numbers : <<"trade", x>> \in DOMAIN entries}

\* A settled trade the taker's PlaceOrder has not yet written to the store.
Pending(pl, x) == pl[x[1]].at \in {"insert", "read", "update"} /\ pl[x[1]].k = x[2]

\* What the store may already show of an order, and what its own PlaceOrder
\* has added up.
Recorded(A, S, pl, o) == {x \in PartyOf(A, o) \cap S : ~Pending(pl, x)}
AddedUp(S, pl, o) == {x \in S : x[1] = o /\ ~(pl[o].at = "insert" /\ pl[o].k = x[2])}

\* An order that has reached the engine, which may have forgotten it since.
Submitted(ord, o) == ord[o].quantity > 0

\* The trades m of one match of taker o: every maker is met once.
MatchOK(m, o, ord) ==
    /\ m \in Seq(Trade)
    /\ \A k \in DOMAIN m : /\ o \in {m[k].buy, m[k].sell} /\ m[k].buy # m[k].sell
                           /\ Submitted(ord, m[k].buy) /\ Submitted(ord, m[k].sell)
    /\ \A j, k \in DOMAIN m : MakerIn(m[j], o) = MakerIn(m[k], o) => j = k

\* What the book keeps of its invariant although the engine may stop: only
\* the holder of the mutex is inside Match, and an order rests once, on its
\* own side, answered and with something left.
BookHolds ==
    /\ BookTypeOK
    /\ \A o \in Orders : pc[o] = "matching" <=> mu = o
    /\ IsInjective(bids) /\ \A o \in Range(bids) : order[o].side = "BUY"
    /\ IsInjective(asks) /\ \A o \in Range(asks) : order[o].side = "SELL"
    /\ \A o \in Resting : pc[o] = "returned" /\ remaining[o] > 0

\* PlaceOrder sends an order once: until then the engine does not know it,
\* unless it has placed it itself.
SentOnce ==
    \A o \in Orders : place[o].at \in {"idle", "create", "submit"} =>
        pc[o] = "returned" \/ (pc[o] = "idle" /\ ~Submitted(order, o))

\* The answers account for what the orders have lost on the book; what a
\* match has taken that died with the engine is in no answer.
AnswersFollowBook ==
    /\ \A o \in Orders : resp[o].trades # <<>> =>
          Submitted(order, o) /\ pc[o] \in {"returned", "idle"}
    /\ \A o \in Orders : MatchOK(Matches[o], o, order)
    /\ \A o \in Orders : mu = o /\ remaining[o] > 0 =>
          \A k \in DOMAIN fills : remaining[MakerIn(fills[k], o)] = 0
    /\ \A o \in Orders : Qty(Matches, PartyOf(Matches, o)) + remaining[o] <= order[o].quantity
    /\ \A o \in Orders : Submitted(order, o) => order[o].quantity = req[o].quantity

\* Only answered trades are settled; a request that works on a trade has it
\* settled first.
LedgerFollowsAnswers ==
    /\ \A x \in Settled : x[2] \in DOMAIN resp[x[1]].trades
    /\ \A o \in Orders :
          /\ place[o].at \in {"settle", "insert", "read", "update"} =>
                place[o].k \in DOMAIN resp[o].trades
          /\ place[o].at \in {"insert", "read", "update"} =>
                <<o, place[o].k>> \in Settled

\* The store, and what the requests have read of it and added up, stays
\* behind the ledger; the trade a request is about to add to a counterparty
\* is not among what the counterparty's row shows yet.
StoreFollowsLedger ==
    /\ \A o \in Orders : filledQty[o] <= Qty(Answers, Recorded(Answers, Settled, place, o))
    /\ \A o \in Orders : place[o].at = "update" =>
          place[o].seen <= Qty(Answers, Recorded(Answers, Settled, place, Maker(o)))
    /\ \A o \in Orders : place[o].filled <= Qty(Answers, AddedUp(Settled, place, o))
    /\ \A o \in Orders : status[o] = "FILLED" => Submitted(order, o) /\ remaining[o] = 0
    /\ tradeRows \subseteq Settled

FlowConsistent ==
    /\ FlowTypeOK
    /\ BookHolds
    /\ SentOnce
    /\ AnswersFollowBook
    /\ LedgerFollowsAnswers
    /\ StoreFollowsLedger
-----------------------------------------------------------------------------
(* Sums of trades *)

\* What a match produces, by taker.
TradesByTaker == [Orders -> Seq(Trade)]

\* There are finitely many numbers of trades.
LEMMA NumbersFinite ==
    /\ Cardinality(Orders) \in Nat
    /\ IsFiniteSet(Numbers)
    /\ \A S \in SUBSET Numbers : IsFiniteSet(S)
<1>1. IsFiniteSet(Orders) /\ Cardinality(Orders) \in Nat
  BY OrdersAssumption, FS_CardinalityType
<1>2. IsFiniteSet(1..Cardinality(Orders))
  <2>1. 1 \in Int /\ Cardinality(Orders) \in Int
    BY <1>1
  <2> QED BY <2>1, FS_Interval
<1>3. IsFiniteSet(Numbers)
  BY <1>1, <1>2, FS_Product DEF Numbers
<1>4. \A S \in SUBSET Numbers : IsFiniteSet(S)
  BY <1>3, FS_Subset
<1> QED BY <1>1, <1>3, <1>4

\* A quantity of trades is a natural number.
LEMMA QtyType ==
    ASSUME NEW A \in TradesByTaker
    PROVE  /\ QtyAt(A) \in [Numbers -> Nat]
           /\ \A S \in SUBSET Numbers : Qty(A, S) \in Nat
<1>1. ASSUME NEW x \in Numbers
      PROVE  (IF x[2] \in DOMAIN A[x[1]] THEN A[x[1]][x[2]].quantity ELSE 0) \in Nat
  <2>1. A[x[1]] \in Seq(Trade)
    BY DEF Numbers, TradesByTaker
  <2>2. x[2] \in DOMAIN A[x[1]] => A[x[1]][x[2]] \in Trade
    BY <2>1
  <2> QED BY <2>2 DEF Trade
<1>2. QtyAt(A) \in [Numbers -> Nat]
  BY <1>1 DEF QtyAt
<1>3. ASSUME NEW S \in SUBSET Numbers PROVE Qty(A, S) \in Nat
  <2>1. IsFiniteSet(S) /\ \A x \in S : QtyAt(A)[x] \in Nat
    BY <1>2, NumbersFinite
  <2> QED BY <2>1, SumIsNat DEF Qty
<1> QED BY <1>2, <1>3

\* The quantity of a set of trades depends on these trades only.
LEMMA QtySame ==
    ASSUME NEW A \in TradesByTaker, NEW B \in TradesByTaker, NEW S \in SUBSET Numbers,
           \A x \in S : A[x[1]] = B[x[1]]
    PROVE  Qty(A, S) = Qty(B, S)
<1>1. \A x \in S : QtyAt(A)[x] = QtyAt(B)[x]
  BY DEF QtyAt
<1>2. IsFiniteSet(S)
  BY NumbersFinite
<1> QED BY <1>1, <1>2, SumEqual DEF Qty

\* One trade more.
LEMMA QtyAdd ==
    ASSUME NEW A \in TradesByTaker, NEW S \in SUBSET Numbers, NEW x \in Numbers, x \notin S,
           x[2] \in DOMAIN A[x[1]]
    PROVE  Qty(A, S \cup {x}) = Qty(A, S) + A[x[1]][x[2]].quantity
<1>1. IsFiniteSet(S) /\ \A y \in S \cup {x} : QtyAt(A)[y] \in Int
  BY NumbersFinite, QtyType
<1>2. QtyAt(A)[x] = A[x[1]][x[2]].quantity
  BY DEF QtyAt
<1> QED BY <1>1, <1>2, SumAdd DEF Qty

\* More trades are not a smaller quantity.
LEMMA QtyGrows ==
    ASSUME NEW A \in TradesByTaker, NEW S \in SUBSET Numbers, NEW R \in SUBSET Numbers,
           S \subseteq R
    PROVE  Qty(A, S) <= Qty(A, R)
<1> DEFINE T == R \ S
<1>1. /\ IsFiniteSet(S) /\ IsFiniteSet(T) /\ S \cap T = {} /\ S \cup T = R
      /\ T \in SUBSET Numbers /\ \A x \in S \cup T : QtyAt(A)[x] \in Int
  BY NumbersFinite, QtyType
<1> HIDE DEF T
<1>2. Qty(A, R) = Qty(A, S) + Qty(A, T)
  BY <1>1, SumUnion DEF Qty
<1>3. Qty(A, S) \in Nat /\ Qty(A, T) \in Nat
  BY <1>1, QtyType
<1> QED BY <1>2, <1>3

\* The same of two functions that agree on the smaller set.
LEMMA QtyStays ==
    ASSUME NEW A \in TradesByTaker, NEW B \in TradesByTaker,
           NEW S \in SUBSET Numbers, NEW R \in SUBSET Numbers,
           S \subseteq R, \A x \in S : A[x[1]] = B[x[1]]
    PROVE  Qty(A, S) <= Qty(B, R)
  BY QtySame, QtyGrows
-----------------------------------------------------------------------------
(* The account service *)

\* A freeze or an unfreeze leaves the settled trades alone.
LEMMA CollateralMoves ==
    ASSUME LedgerTypeOK, NEW u \in Users, NEW a \in {Base, Quote}, NEW n \in Int, NEW o \in Orders,
           Freeze(u, a, n, o) \/ Unfreeze(u, a, n, o)
    PROVE  LedgerTypeOK' /\ Settled' = Settled
<1> DEFINE assets == {Base, Quote}
<1>1. \A i \in Int : /\ CollateralLegs(u, a, -i, i) \in Seq(Leg)
                     /\ CollateralLegs(u, a, i, -i) \in Seq(Leg)
  BY DEF CollateralLegs, Leg
<1>2. /\ available \in [Users -> [assets -> Nat]] /\ frozen \in [Users -> [assets -> Nat]]
      /\ available[u][a] \in Nat /\ frozen[u][a] \in Nat
  BY DEF LedgerTypeOK
<1>3. CASE Freeze(u, a, n, o)
  <2>1. /\ n > 0 /\ available[u][a] >= n
        /\ available' = [available EXCEPT ![u][a] = @ - n]
        /\ frozen' = [frozen EXCEPT ![u][a] = @ + n]
        /\ Post(<<"freeze", o>>, CollateralLegs(u, a, -n, n)) /\ users' = users
    BY <1>3 DEF Freeze, FreezeOK
  <2>2. available[u][a] - n \in Nat /\ frozen[u][a] + n \in Nat
    BY <1>2, <2>1
  <2>3. available' \in [Users -> [assets -> Nat]] /\ frozen' \in [Users -> [assets -> Nat]]
    BY <1>2, <2>1, <2>2
  <2>4. /\ DOMAIN entries' = DOMAIN entries \cup {<<"freeze", o>>}
        /\ \A r \in DOMAIN entries' : entries'[r] \in Seq(Leg)
    BY <1>1, <2>1 DEF Post, LedgerTypeOK
  <2>5. <<"freeze", o>> \in Refs
    BY DEF Refs
  <2>6. Settled' = Settled
    BY <2>4 DEF Settled
  <2> QED BY <2>1, <2>3, <2>4, <2>5, <2>6 DEF LedgerTypeOK
<1>4. CASE Unfreeze(u, a, n, o)
  <2>1. /\ n > 0 /\ frozen[u][a] >= n
        /\ available' = [available EXCEPT ![u][a] = @ + n]
        /\ frozen' = [frozen EXCEPT ![u][a] = @ - n]
        /\ Post(<<"unfreeze", o>>, CollateralLegs(u, a, n, -n)) /\ users' = users
    BY <1>4 DEF Unfreeze, UnfreezeOK
  <2>2. available[u][a] + n \in Nat /\ frozen[u][a] - n \in Nat
    BY <1>2, <2>1
  <2>3. available' \in [Users -> [assets -> Nat]] /\ frozen' \in [Users -> [assets -> Nat]]
    BY <1>2, <2>1, <2>2
  <2>4. /\ DOMAIN entries' = DOMAIN entries \cup {<<"unfreeze", o>>}
        /\ \A r \in DOMAIN entries' : entries'[r] \in Seq(Leg)
    BY <1>1, <2>1 DEF Post, LedgerTypeOK
  <2>5. <<"unfreeze", o>> \in Refs
    BY DEF Refs
  <2>6. Settled' = Settled
    BY <2>4 DEF Settled
  <2> QED BY <2>1, <2>3, <2>4, <2>5, <2>6 DEF LedgerTypeOK
<1> QED BY <1>3, <1>4

\* A settlement settles one trade that was not settled.
LEMMA SettlementMoves ==
    ASSUME LedgerTypeOK, NEW x \in Numbers, NEW legs \in Seq(Leg), NEW release \in Seq(Leg),
           SettleTrade(x, legs, release)
    PROVE  LedgerTypeOK' /\ Settled' = Settled \cup {x} /\ x \notin Settled
<1> DEFINE assets == {Base, Quote}
           av(u, a) == available[u][a] + RowSum(legs, Len(legs), u, a)
           fr(u, a) == frozen[u][a] - RowSum(release, Len(release), u, a)
<1>1. /\ <<"trade", x>> \notin DOMAIN entries
      /\ LegsApply(legs) /\ ReleasesApply(release)
      /\ available' = [u \in Users |-> [a \in assets |-> av(u, a)]]
      /\ frozen' = [u \in Users |-> [a \in assets |-> fr(u, a)]]
      /\ Post(<<"trade", x>>, legs) /\ users' = users
  BY DEF SettleTrade, SettleTradeOK
<1>2. Len(legs) \in 0..Len(legs) /\ Len(release) \in 0..Len(release)
  OBVIOUS
<1>3. \A u \in Users, a \in assets : av(u, a) \in Nat /\ fr(u, a) \in Nat
  BY <1>1, <1>2 DEF LegsApply, ReleasesApply
<1> HIDE DEF av, fr
<1>4. available' \in [Users -> [assets -> Nat]] /\ frozen' \in [Users -> [assets -> Nat]]
  BY <1>1, <1>3
<1>5. /\ DOMAIN entries' = DOMAIN entries \cup {<<"trade", x>>}
      /\ \A r \in DOMAIN entries' : entries'[r] \in Seq(Leg)
  BY <1>1 DEF Post, LedgerTypeOK
<1>6. <<"trade", x>> \in Refs
  BY DEF Refs, Numbers
<1>7. Settled' = Settled \cup {x} /\ x \notin Settled
  BY <1>1, <1>5 DEF Settled
<1> QED BY <1>1, <1>4, <1>5, <1>6, <1>7 DEF LedgerTypeOK
-----------------------------------------------------------------------------
(* The book of an engine that may stop *)

\* What rests is an order.
LEMMA RestingAreOrders ==
    ASSUME BookHolds
    PROVE  \A o \in Resting : o \in Orders
<1>1. bids \in Seq(Orders) /\ asks \in Seq(Orders)
  BY DEF BookHolds, BookTypeOK
<1> QED BY <1>1 DEF Resting, Range

\* The parties of a fill, as FillFacts of OrderBookProofs.
LEMMA FillHolds ==
    ASSUME BookHolds, NEW o \in Orders, mu = o, CanFill(o)
    PROVE  LET best == Head(Opposite(o))
               q    == MinOf(remaining[o], remaining[best])
           IN  /\ Opposite(o) \in Seq(Orders) /\ Opposite(o) # <<>> /\ IsInjective(Opposite(o))
               /\ best \in Range(Opposite(o)) /\ best \in Orders /\ best \in Resting
               /\ best # o /\ order[best].side # order[o].side
               /\ pc[best] = "returned" /\ pc[o] = "matching"
               /\ remaining[best] \in Nat /\ remaining[best] > 0
               /\ remaining[o] \in Nat /\ remaining[o] > 0
               /\ q \in Nat /\ q > 0 /\ q <= remaining[o] /\ q <= remaining[best]
               /\ q = remaining[o] \/ q = remaining[best]
<1> DEFINE best == Head(Opposite(o))
<1>1. Opposite(o) \in Seq(Orders) /\ Opposite(o) # <<>> /\ IsInjective(Opposite(o))
  BY DEF CanFill, Opposite, BookHolds, BookTypeOK
<1>2. best \in Range(Opposite(o)) /\ best \in Orders
  BY <1>1, TailProperties
<1>3. best \in Resting
  BY <1>2 DEF Opposite, Resting
<1>4. pc[best] = "returned" /\ remaining[best] > 0
  BY <1>3 DEF BookHolds
<1>5. pc[o] = "matching" /\ best # o
  BY <1>4 DEF BookHolds
<1>6. order[best].side # order[o].side
  <2>1. order[o].side \in {"BUY", "SELL"}
    BY OrderFieldsType DEF BookHolds
  <2> QED BY <1>2, <2>1 DEF Opposite, BookHolds
<1>7. /\ remaining[best] \in Nat /\ remaining[o] \in Nat /\ remaining[o] > 0
  BY <1>2 DEF BookHolds, BookTypeOK, CanFill
<1> QED BY <1>1, <1>2, <1>3, <1>4, <1>5, <1>6, <1>7 DEF MinOf

\* A fill takes from both parties, and the best order leaves exactly when it
\* is exhausted.
LEMMA FillKeepsBook ==
    ASSUME BookHolds, NEW o \in Orders, MatchFill(o)
    PROVE  BookHolds'
<1> DEFINE opp  == Opposite(o)
           best == Head(opp)
           q    == MinOf(remaining[o], remaining[best])
           f    == Fill(o, best)
           rest == IF remaining[best] = q THEN Tail(opp) ELSE opp
<1>1. mu = o /\ CanFill(o)
  BY DEF MatchFill
<1>2. /\ opp \in Seq(Orders) /\ opp # <<>> /\ IsInjective(opp)
      /\ best \in Range(opp) /\ best \in Orders /\ best \in Resting
      /\ best # o /\ order[best].side # order[o].side
      /\ pc[best] = "returned" /\ pc[o] = "matching"
      /\ remaining[best] \in Nat /\ remaining[best] > 0
      /\ remaining[o] \in Nat /\ remaining[o] > 0
      /\ q \in Nat /\ q > 0 /\ q <= remaining[o] /\ q <= remaining[best]
  BY <1>1, FillHolds
<1>3. f.quantity = q
  BY DEF Fill
<1>4. /\ remaining' = [remaining EXCEPT ![o] = @ - q, ![best] = @ - q]
      /\ IF order[o].side = "BUY" THEN asks' = rest /\ bids' = bids
                                  ELSE bids' = rest /\ asks' = asks
      /\ fills' = Append(fills, f) /\ tape' = Append(tape, f)
      /\ order' = order /\ trades' = trades /\ mu' = mu /\ pc' = pc
      /\ cancelled' = cancelled /\ clock' = clock
  BY <1>3 DEF MatchFill
<1>5. /\ rest \in Seq(Orders) /\ IsInjective(rest)
      /\ Range(rest) = IF remaining[best] = q THEN Range(opp) \ {best} ELSE Range(opp)
  BY <1>2, TailProperties
<1>6. f \in Trade
  <2>1. order[o].price \in Nat /\ order[best].price \in Nat
    BY <1>2, OrderFieldsType DEF BookHolds
  <2> QED BY <1>2, <2>1 DEF Fill, Trade, TradePrice
<1> HIDE DEF f, q, rest
<1>7. /\ remaining'[o] = remaining[o] - q /\ remaining'[best] = remaining[best] - q
      /\ \A x \in Orders \ {o, best} : remaining'[x] = remaining[x]
      /\ remaining' \in [Orders -> Nat]
  <2>1. remaining[o] - q \in Nat /\ remaining[best] - q \in Nat
    BY <1>2
  <2>2. remaining' = [remaining EXCEPT ![o] = remaining[o] - q,
                                       ![best] = remaining[best] - q]
    BY <1>2, <1>4 DEF BookHolds, BookTypeOK
  <2> QED BY <1>2, <2>1, <2>2 DEF BookHolds, BookTypeOK
<1>8. BookTypeOK'
  <2>1. bids' \in Seq(Orders) /\ asks' \in Seq(Orders)
    BY <1>4, <1>5 DEF BookHolds, BookTypeOK
  <2>2. fills' \in Seq(Trade) /\ tape' \in Seq(Trade)
    BY <1>4, <1>6 DEF BookHolds, BookTypeOK
  <2> QED BY <1>4, <1>7, <2>1, <2>2 DEF BookHolds, BookTypeOK
<1>9. /\ IsInjective(bids') /\ IsInjective(asks')
      /\ Range(bids') \subseteq Range(bids) /\ Range(asks') \subseteq Range(asks)
      /\ remaining[best] = q => best \notin Range(bids') /\ best \notin Range(asks')
  <2>1. order[o].side \in {"BUY", "SELL"} /\ order[best].side \in {"BUY", "SELL"}
    BY <1>2, OrderFieldsType DEF BookHolds
  <2>2. CASE order[o].side = "BUY"
    <3>1. best \notin Range(bids)
      BY <1>2, <2>2 DEF BookHolds
    <3> QED BY <1>4, <1>5, <2>2, <3>1 DEF BookHolds, Opposite
  <2>3. CASE order[o].side = "SELL"
    <3>1. best \notin Range(asks)
      BY <1>2, <2>3 DEF BookHolds
    <3> QED BY <1>4, <1>5, <2>3, <3>1 DEF BookHolds, Opposite
  <2> QED BY <2>1, <2>2, <2>3
<1>10. ASSUME NEW x \in Resting'
       PROVE  pc'[x] = "returned" /\ remaining'[x] > 0
  <2>1. x \in Resting /\ x \in Orders /\ (x = best => remaining[best] # q)
    BY <1>9, <1>10, RestingAreOrders DEF Resting
  <2>2. pc[x] = "returned" /\ remaining[x] > 0 /\ x # o
    BY <1>2, <2>1 DEF BookHolds
  <2>3. CASE x = best
    BY <1>2, <1>4, <1>7, <2>1, <2>2, <2>3
  <2>4. CASE x # best
    BY <1>4, <1>7, <2>1, <2>2, <2>4
  <2> QED BY <2>3, <2>4
<1>11. /\ \A x \in Range(bids') : order'[x].side = "BUY"
       /\ \A x \in Range(asks') : order'[x].side = "SELL"
  BY <1>4, <1>9 DEF BookHolds
<1>12. \A x \in Orders : pc'[x] = "matching" <=> mu' = x
  BY <1>4 DEF BookHolds
<1> QED BY <1>8, <1>9, <1>10, <1>11, <1>12 DEF BookHolds

\* The remainder of a limit order is rested on its own side.
LEMMA ReturnKeepsBook ==
    ASSUME BookHolds, NEW o \in Orders, MatchReturn(o)
    PROVE  BookHolds'
<1>1. /\ mu = o /\ mu' = None /\ pc' = [pc EXCEPT ![o] = "returned"]
      /\ order' = order /\ remaining' = remaining /\ fills' = fills
      /\ cancelled' = cancelled /\ tape' = tape /\ clock' = clock
  BY DEF MatchReturn
<1>2. pc[o] = "matching" /\ \A x \in Orders : pc'[x] = IF x = o THEN "returned" ELSE pc[x]
  BY <1>1 DEF BookHolds, BookTypeOK
<1>3. trades' \in Seq(Trade)
  <2>1. trades \o fills \in Seq(Trade)
    BY DEF BookHolds, BookTypeOK
  <2> QED BY <2>1, LastNType, TradeCapAssumption DEF MatchReturn
<1>4. \A x \in Orders : pc'[x] = "matching" <=> mu' = x
  BY <1>1, <1>2, NoneAssumption DEF BookHolds
<1>5. CASE ~(remaining[o] > 0 /\ ~isMarket(o))
  <2>1. bids' = bids /\ asks' = asks
    BY <1>5 DEF MatchReturn
  <2>2. BookTypeOK'
    BY <1>1, <1>3, <2>1 DEF BookHolds, BookTypeOK
  <2>3. \A x \in Resting : x \in Orders
    BY RestingAreOrders
  <2> QED BY <1>1, <1>2, <1>4, <2>1, <2>2, <2>3 DEF BookHolds, Resting
<1>6. CASE remaining[o] > 0 /\ ~isMarket(o)
  <2>1. PICK t \in Sorts(Append(SideOf(o), o)) :
            IF order[o].side = "BUY" THEN bids' = t /\ asks' = asks
                                     ELSE asks' = t /\ bids' = bids
    BY <1>6 DEF MatchReturn, insertResting
  <2>2. SideOf(o) \in Seq(Orders)
    BY DEF SideOf, BookHolds, BookTypeOK
  <2>3. /\ Append(SideOf(o), o) \in Seq(Orders)
        /\ Range(Append(SideOf(o), o)) = Range(SideOf(o)) \cup {o}
    BY <2>2, AppendProperties
  <2>4. t \in Seq(Orders) /\ Range(t) = Range(SideOf(o)) \cup {o} /\ IsInjective(t)
    BY <2>3, SortsProperties
  <2>5. order[o].side \in {"BUY", "SELL"}
    BY OrderFieldsType DEF BookHolds
  <2>6. BookTypeOK'
    BY <1>1, <1>3, <2>1, <2>4 DEF BookHolds, BookTypeOK
  <2>7. /\ IsInjective(bids') /\ \A x \in Range(bids') : order[x].side = "BUY"
        /\ IsInjective(asks') /\ \A x \in Range(asks') : order[x].side = "SELL"
    BY <2>1, <2>4, <2>5 DEF BookHolds, SideOf
  <2>8. Resting' = Resting \cup {o}
    BY <2>1, <2>4 DEF Resting, SideOf
  <2>9. \A x \in Resting : x \in Orders
    BY RestingAreOrders
  <2>10. \A x \in Resting' : pc'[x] = "returned" /\ remaining'[x] > 0
    BY <1>1, <1>2, <1>6, <2>8, <2>9 DEF BookHolds
  <2> QED BY <1>1, <1>4, <2>6, <2>7, <2>10 DEF BookHolds
<1> QED BY <1>5, <1>6

\* Cancel takes one order off its side.
LEMMA CancelKeepsBook ==
    ASSUME BookHolds, NEW o \in Orders, Cancel(o)
    PROVE  BookHolds'
<1>1. /\ cancelled' = cancelled \cup {o}
      /\ order' = order /\ remaining' = remaining /\ trades' = trades /\ fills' = fills
      /\ mu' = mu /\ pc' = pc /\ tape' = tape /\ clock' = clock
  BY DEF Cancel
<1>2. bids \in Seq(Orders) /\ asks \in Seq(Orders) /\ IsInjective(bids) /\ IsInjective(asks)
  BY DEF BookHolds, BookTypeOK
<1>3. /\ bids' \in Seq(Orders) /\ asks' \in Seq(Orders)
      /\ IsInjective(bids') /\ IsInjective(asks')
      /\ Range(bids') \subseteq Range(bids) /\ Range(asks') \subseteq Range(asks)
  <2>1. CASE \E i \in DOMAIN bids : bids[i] = o /\ bids' = DropAt(bids, i) /\ asks' = asks
    <3>1. PICK i \in DOMAIN bids : bids[i] = o /\ bids' = DropAt(bids, i) /\ asks' = asks
      BY <2>1
    <3>2. /\ DropAt(bids, i) \in Seq(Orders) /\ IsInjective(DropAt(bids, i))
          /\ Range(DropAt(bids, i)) = Range(bids) \ {bids[i]}
      BY <1>2, DropAtType, DropAtProperties
    <3> QED BY <1>2, <3>1, <3>2
  <2>2. CASE \E i \in DOMAIN asks : asks[i] = o /\ asks' = DropAt(asks, i) /\ bids' = bids
    <3>1. PICK i \in DOMAIN asks : asks[i] = o /\ asks' = DropAt(asks, i) /\ bids' = bids
      BY <2>2
    <3>2. /\ DropAt(asks, i) \in Seq(Orders) /\ IsInjective(DropAt(asks, i))
          /\ Range(DropAt(asks, i)) = Range(asks) \ {asks[i]}
      BY <1>2, DropAtType, DropAtProperties
    <3> QED BY <1>2, <3>1, <3>2
  <2> QED BY <2>1, <2>2 DEF Cancel
<1>4. BookTypeOK'
  BY <1>1, <1>3 DEF BookHolds, BookTypeOK
<1>5. Resting' \subseteq Resting
  BY <1>3 DEF Resting
<1> QED BY <1>1, <1>3, <1>4, <1>5 DEF BookHolds

\* An order the engine does not hold is submitted.
LEMMA SubmitKeepsBook ==
    ASSUME BookHolds,
           NEW o \in Orders, NEW side \in Sides, NEW p \in Prices \cup {Market},
           NEW q \in Quantities, NEW now \in clock..MaxClock, Submit(o, side, p, q, now)
    PROVE  BookHolds'
<1> DEFINE r == [side |-> side, price |-> p, quantity |-> q, createdAt |-> now]
<1>1. /\ pc[o] = "idle" /\ clock' = now /\ order' = [order EXCEPT ![o] = r]
      /\ remaining' = [remaining EXCEPT ![o] = q] /\ pc' = [pc EXCEPT ![o] = "stamped"]
      /\ bids' = bids /\ asks' = asks /\ trades' = trades /\ fills' = fills /\ mu' = mu
      /\ cancelled' = cancelled /\ tape' = tape
  BY DEF Submit
<1>2. now \in 0..MaxClock
  BY MaxClockAssumption DEF BookHolds, BookTypeOK
<1>3. r \in OrderFields
  BY <1>2 DEF OrderFields
<1> HIDE DEF r
<1>4. q \in Nat
  BY QuantitiesAssumption
<1>5. BookTypeOK'
  BY <1>1, <1>2, <1>3, <1>4 DEF BookHolds, BookTypeOK
<1>6. /\ o \notin Resting /\ mu # o
      /\ \A x \in Orders \ {o} : pc'[x] = pc[x] /\ remaining'[x] = remaining[x] /\ order'[x] = order[x]
      /\ pc'[o] = "stamped"
  BY <1>1 DEF BookHolds, BookTypeOK
<1>7. \A x \in Resting : x \in Orders \ {o}
  BY <1>6, RestingAreOrders
<1>8. Range(bids) \subseteq Resting /\ Range(asks) \subseteq Resting
  BY DEF Resting
<1>9. \A x \in Orders : pc'[x] = "matching" <=> mu' = x
  BY <1>1, <1>6 DEF BookHolds
<1>10. Resting' = Resting
  BY <1>1 DEF Resting
<1>11. \A x \in Resting' : pc'[x] = "returned" /\ remaining'[x] > 0
  BY <1>6, <1>7, <1>10 DEF BookHolds
<1> QED BY <1>1, <1>5, <1>6, <1>7, <1>8, <1>9, <1>11 DEF BookHolds

\* What the engine does to its book.
LEMMA BookNextKeepsBook ==
    ASSUME BookHolds, [BookNext]_bookVars
    PROVE  BookHolds'
<1>1. ASSUME NEW o \in Orders, NEW side \in Sides, NEW p \in Prices \cup {Market},
             NEW q \in Quantities, NEW now \in clock..MaxClock, Submit(o, side, p, q, now)
      PROVE  BookHolds'
  BY <1>1, SubmitKeepsBook
<1>2. ASSUME NEW o \in Orders, MatchLock(o) PROVE BookHolds'
  <2>1. /\ pc[o] = "stamped" /\ mu = None /\ mu' = o /\ fills' = <<>>
        /\ pc' = [pc EXCEPT ![o] = "matching"]
        /\ UNCHANGED <<order, remaining, bids, asks, trades, cancelled, tape, clock>>
    BY <1>2 DEF MatchLock
  <2>2. \A x \in Orders : pc'[x] = IF x = o THEN "matching" ELSE pc[x]
    BY <2>1 DEF BookHolds, BookTypeOK
  <2>3. BookTypeOK'
    BY <2>1 DEF BookHolds, BookTypeOK
  <2>4. \A x \in Orders : pc'[x] = "matching" <=> mu' = x
    BY <2>1, <2>2, NoneAssumption DEF BookHolds
  <2>5. \A x \in Resting : x \in Orders /\ pc'[x] = "returned"
    BY <2>1, <2>2, RestingAreOrders DEF BookHolds
  <2> QED BY <2>1, <2>3, <2>4, <2>5 DEF BookHolds, Resting
<1>3. ASSUME NEW o \in Orders, MatchFill(o) PROVE BookHolds'
  BY <1>3, FillKeepsBook
<1>4. ASSUME NEW o \in Orders, MatchReturn(o) PROVE BookHolds'
  BY <1>4, ReturnKeepsBook
<1>5. ASSUME NEW o \in Orders, Cancel(o) PROVE BookHolds'
  BY <1>5, CancelKeepsBook
<1>6. CASE UNCHANGED bookVars
  BY <1>6 DEF bookVars, BookHolds, BookTypeOK, Resting
<1> QED BY <1>1, <1>2, <1>3, <1>4, <1>5, <1>6 DEF BookNext
-----------------------------------------------------------------------------
(* The book and the answers *)

\* The quantity of no trades, and of the same trades.
LEMMA QtyEqual ==
    /\ \A A : Qty(A, {}) = 0
    /\ \A A, B : \A S \in SUBSET Numbers :
          (\A x \in S : QtyAt(A)[x] = QtyAt(B)[x]) => Qty(A, S) = Qty(B, S)
  BY SumEmpty, SumEqual, NumbersFinite DEF Qty

\* The trades say where everything is that the orders have lost.
NothingLost ==
    \A o \in Orders : Qty(Matches, PartyOf(Matches, o)) + remaining[o] = order[o].quantity

\* What a step on the book may not undo.
BookMoves ==
    /\ \A o \in Orders :
          /\ resp[o].trades # <<>> => resp'[o] = resp[o]
          /\ Submitted(order, o) => Submitted(order', o) /\ (remaining[o] = 0 => remaining'[o] = 0)
    /\ NothingLost => NothingLost'

\* The typed parts of the invariant that are about the book.
LEMMA BookFacts ==
    ASSUME FlowConsistent
    PROVE  /\ BookHolds /\ BookTypeOK /\ AnswersFollowBook
           /\ resp \in [Orders -> [trades : Seq(Trade), resting : BOOLEAN]]
           /\ req \in [Orders -> Requests] /\ fills \in Seq(Trade)
           /\ pc \in [Orders -> {"idle", "stamped", "matching", "returned"}]
           /\ remaining \in [Orders -> Nat] /\ mu \in Orders \cup {None}
           /\ order \in [Orders -> OrderFields]
           /\ \A o \in Orders : pc[o] = "matching" <=> mu = o
           /\ Answers \in TradesByTaker /\ Matches \in TradesByTaker
           /\ \A o \in Orders : mu # o => Matches[o] = Answers[o]
           /\ \A o \in Orders : resp[o].trades # <<>> => Matches[o] = Answers[o]
  BY DEF FlowConsistent, FlowTypeOK, BookHolds, BookTypeOK, Answers, Matches, TradesByTaker,
         AnswersFollowBook

\* The quantity of an order, and what is left of one that has lost something.
LEMMA QuantityFacts ==
    ASSUME FlowConsistent, NEW o \in Orders
    PROVE  /\ order[o].quantity \in Nat /\ remaining[o] \in Nat
           /\ remaining[o] > 0 => Submitted(order, o)
<1> DEFINE r == order[o]
           q == r.quantity
           n == Qty(Matches, PartyOf(Matches, o))
           left == remaining[o]
<1>1. r \in OrderFields /\ left \in Nat
  BY BookFacts
<1> HIDE DEF r
<1>2. q \in Quantities \cup {0}
  BY <1>1 DEF OrderFields
<1> HIDE DEF q
<1>3. q \in Nat
  BY <1>2, QuantitiesAssumption
<1>4. n \in Nat
  BY BookFacts, QtyType DEF PartyOf
<1>5. n + left <= q
  BY BookFacts DEF AnswersFollowBook, r, q
<1> HIDE DEF n, left
<1>6. left > 0 => q > 0
  BY <1>1, <1>3, <1>4, <1>5
<1> QED BY <1>1, <1>3, <1>6 DEF left, q, r, Submitted

\* The counterparty of a trade.
LEMMA MakerFacts ==
    ASSUME NEW m, NEW o \in Orders, NEW ord, MatchOK(m, o, ord), NEW k \in DOMAIN m
    PROVE  /\ m[k] \in Trade /\ MakerIn(m[k], o) \in Orders /\ MakerIn(m[k], o) # o
           /\ {m[k].buy, m[k].sell} = {o, MakerIn(m[k], o)} /\ Submitted(ord, MakerIn(m[k], o))
<1>1. m[k] \in Trade
  BY DEF MatchOK
<1> QED BY <1>1 DEF MatchOK, MakerIn, Trade

\* A match has at most as many trades as there are orders.
LEMMA MatchLength ==
    ASSUME NEW m, NEW o \in Orders, NEW ord, MatchOK(m, o, ord)
    PROVE  Len(m) <= Cardinality(Orders) /\ \A k \in DOMAIN m : <<o, k>> \in Numbers
<1> DEFINE f == [k \in 1..Len(m) |-> MakerIn(m[k], o)]
<1>1. m \in Seq(Trade) /\ DOMAIN m = 1..Len(m) /\ Len(m) \in Nat
  BY DEF MatchOK
<1>2. f \in [1..Len(m) -> Orders]
  BY <1>1, MakerFacts
<1>3. f \in Injection(1..Len(m), Orders)
  BY <1>1, <1>2 DEF MatchOK, Injection, IsInjective
<1>4. Cardinality(1..Len(m)) <= Cardinality(Orders)
  BY <1>3, OrdersAssumption, FS_Injection
<1>5. Cardinality(1..Len(m)) = Len(m)
  <2> DEFINE l == Len(m)
  <2>1. 1 \in Int /\ l \in Int /\ l \in Nat
    BY <1>1
  <2> HIDE DEF l
  <2>2. Cardinality(1..l) = l
    BY <2>1, FS_Interval
  <2> QED BY <2>2 DEF l
<1>6. Len(m) <= Cardinality(Orders)
  BY <1>4, <1>5
<1>7. \A k \in DOMAIN m : <<o, k>> \in Numbers
  BY <1>1, <1>6, NumbersFinite DEF Numbers
<1> QED BY <1>6, <1>7

\* A match stays one when more orders are submitted.
LEMMA MatchStays ==
    ASSUME NEW m, NEW o \in Orders, NEW ord, NEW ord2, MatchOK(m, o, ord),
           \A x \in Orders : Submitted(ord, x) => Submitted(ord2, x)
    PROVE  MatchOK(m, o, ord2)
<1>1. m \in Seq(Trade)
  BY DEF MatchOK
<1>2. \A k \in DOMAIN m : m[k].buy \in Orders /\ m[k].sell \in Orders
  <2> TAKE k \in DOMAIN m
  <2>1. m[k] \in Trade
    BY <1>1
  <2> QED BY <2>1 DEF Trade
<1> QED BY <1>2 DEF MatchOK

\* A step that makes no trade, and after which the orders have what they had.
LEMMA SameMatches ==
    ASSUME FlowConsistent, Matches' = Matches, order' = order, remaining' = remaining,
           req' = req,
           \A o \in Orders : resp'[o].trades # <<>> =>
              Submitted(order, o) /\ pc'[o] \in {"returned", "idle"},
           \A o \in Orders : mu' = o => (mu = o /\ fills' = fills) \/ fills' = <<>>
    PROVE  AnswersFollowBook' /\ (NothingLost => NothingLost')
<1>1. \A o \in Orders : MatchOK(Matches'[o], o, order')
  BY BookFacts DEF AnswersFollowBook
<1>2. \A o \in Orders : mu' = o /\ remaining'[o] > 0 =>
          \A k \in DOMAIN fills' : remaining'[MakerIn(fills'[k], o)] = 0
  BY BookFacts DEF AnswersFollowBook
<1>3. \A o \in Orders : Qty(Matches', PartyOf(Matches', o)) + remaining'[o] <= order'[o].quantity
  BY BookFacts DEF AnswersFollowBook
<1>4. \A o \in Orders : Submitted(order', o) => order'[o].quantity = req'[o].quantity
  BY BookFacts DEF AnswersFollowBook
<1> QED BY <1>1, <1>2, <1>3, <1>4 DEF AnswersFollowBook, NothingLost

\* The mutex is taken, or a resting order removed: no trade is made.
LEMMA LockAndCancelMove ==
    ASSUME FlowConsistent, NEW o \in Orders, MatchLock(o) \/ Cancel(o),
           resp' = resp, req' = req
    PROVE  AnswersFollowBook' /\ BookMoves
<1>1. CASE MatchLock(o)
  <2>1. /\ pc[o] = "stamped" /\ mu = None /\ mu' = o /\ fills' = <<>>
        /\ pc' = [pc EXCEPT ![o] = "matching"] /\ order' = order /\ remaining' = remaining
    BY <1>1 DEF MatchLock
  <2>2. \A x \in Orders : pc'[x] = IF x = o THEN "matching" ELSE pc[x]
    BY <2>1, BookFacts
  <2>3. \A x \in Orders : resp[x].trades # <<>> =>
          Submitted(order, x) /\ pc[x] \in {"returned", "idle"}
    BY BookFacts DEF AnswersFollowBook
  <2>4. resp[o].trades = <<>>
    BY <2>1, <2>3
  <2>5. Matches' = Matches
    BY <2>1, <2>4, NoneAssumption DEF Matches
  <2>6. AnswersFollowBook' /\ (NothingLost => NothingLost')
    BY <2>1, <2>2, <2>3, <2>4, <2>5, SameMatches
  <2> QED BY <2>1, <2>6 DEF BookMoves
<1>2. CASE Cancel(o)
  <2>1. /\ pc' = pc /\ mu' = mu /\ fills' = fills /\ order' = order /\ remaining' = remaining
    BY <1>2 DEF Cancel
  <2>2. Matches' = Matches
    BY <2>1 DEF Matches
  <2>3. \A x \in Orders : resp[x].trades # <<>> =>
          Submitted(order, x) /\ pc[x] \in {"returned", "idle"}
    BY BookFacts DEF AnswersFollowBook
  <2>4. AnswersFollowBook' /\ (NothingLost => NothingLost')
    BY <2>1, <2>2, <2>3, SameMatches
  <2> QED BY <2>1, <2>4 DEF BookMoves
<1> QED BY <1>1, <1>2

\* The answer carries the trades of the match.
LEMMA ReturnMoves ==
    ASSUME FlowConsistent, NEW o \in Orders, MatchReturn(o), req' = req,
           resp' = [resp EXCEPT ![o] = [trades |-> fills, resting |-> remaining[o] > 0 /\ ~isMarket(o)]]
    PROVE  AnswersFollowBook' /\ BookMoves
<1>1. /\ mu = o /\ mu' = None /\ fills' = fills /\ order' = order /\ remaining' = remaining
      /\ pc' = [pc EXCEPT ![o] = "returned"]
  BY DEF MatchReturn
<1>2. pc[o] = "matching" /\ resp[o].trades = <<>>
  BY <1>1, BookFacts DEF AnswersFollowBook
<1>3. \A x \in Orders : pc'[x] = IF x = o THEN "returned" ELSE pc[x]
  BY <1>1, BookFacts
<1>4. resp'[o].trades = fills /\ \A x \in Orders \ {o} : resp'[x] = resp[x]
  BY BookFacts
<1>5. Matches' = Matches
  BY <1>1, <1>4, NoneAssumption DEF Matches
<1>6. fills # <<>> => Submitted(order, o)
  <2>1. MatchOK(fills, o, order) /\ fills \in Seq(Trade)
    BY <1>1, BookFacts DEF AnswersFollowBook, Matches
  <2>2. fills # <<>> => 1 \in DOMAIN fills
    BY <2>1
  <2> QED BY <2>1, <2>2 DEF MatchOK
<1>7. \A x \in Orders : resp'[x].trades # <<>> =>
        Submitted(order, x) /\ pc'[x] \in {"returned", "idle"}
  BY <1>3, <1>4, <1>6, BookFacts DEF AnswersFollowBook
<1>8. \A x \in Orders : mu' # x
  BY <1>1, NoneAssumption
<1>9. AnswersFollowBook' /\ (NothingLost => NothingLost')
  BY <1>1, <1>5, <1>7, <1>8, SameMatches
<1> QED BY <1>1, <1>2, <1>4, <1>9 DEF BookMoves

\* An order nobody has submitted is party of no trade.
LEMMA UnsentHasNoTrades ==
    ASSUME FlowConsistent, NEW o \in Orders, ~Submitted(order, o)
    PROVE  PartyOf(Matches, o) = {}
<1> SUFFICES ASSUME NEW x \in PartyOf(Matches, o) PROVE FALSE
  OBVIOUS
<1>1. /\ x[1] \in Orders /\ x[2] \in DOMAIN Matches[x[1]]
      /\ o \in {Matches[x[1]][x[2]].buy, Matches[x[1]][x[2]].sell}
  BY DEF PartyOf, Numbers
<1>2. MatchOK(Matches[x[1]], x[1], order)
  BY <1>1, BookFacts DEF AnswersFollowBook
<1> QED BY <1>1, <1>2 DEF MatchOK

\* Orders that nobody had submitted reach the engine with their quantities.
LEMMA NewOrdersMove ==
    ASSUME FlowConsistent, NEW new \in SUBSET Orders,
           \A o \in new : ~Submitted(order, o) /\ mu # o,
           \A o \in new : order'[o].quantity = req[o].quantity /\ remaining'[o] = req[o].quantity,
           \A o \in Orders \ new : order'[o] = order[o] /\ remaining'[o] = remaining[o]
                                      /\ pc'[o] = pc[o],
           mu' = mu, fills' = fills, resp' = resp, req' = req
    PROVE  AnswersFollowBook' /\ BookMoves
<1>1. \A o \in Orders : req[o].quantity \in Nat /\ req[o].quantity > 0
  <2> TAKE o \in Orders
  <2> DEFINE r == req[o]
             q == r.quantity
  <2>1. r \in Requests
    BY BookFacts
  <2> HIDE DEF r
  <2>2. q \in Quantities
    BY <2>1, RequestsAssumption
  <2> HIDE DEF q
  <2>3. q \in Nat /\ q > 0
    BY <2>2, QuantitiesAssumption
  <2> QED BY <2>3 DEF q, r
<1>2. \A o \in Orders : Submitted(order, o) => o \notin new /\ Submitted(order', o)
  BY DEF Submitted
<1>3. Matches' = Matches
  BY DEF Matches
<1>4. \A x \in Orders : MatchOK(Matches'[x], x, order')
  BY <1>2, <1>3, BookFacts, MatchStays DEF AnswersFollowBook
<1>5. ASSUME NEW x \in Orders, mu' = x, remaining'[x] > 0, NEW k \in DOMAIN fills'
      PROVE  remaining'[MakerIn(fills'[k], x)] = 0
  <2>1. x \notin new /\ mu = x /\ fills' = fills /\ remaining[x] > 0 /\ k \in DOMAIN fills
    BY <1>5
  <2>2. MatchOK(fills, x, order) /\ remaining[MakerIn(fills[k], x)] = 0
    BY <2>1, BookFacts DEF AnswersFollowBook, Matches
  <2>3. MakerIn(fills[k], x) \in Orders /\ Submitted(order, MakerIn(fills[k], x))
    BY <2>1, <2>2, MakerFacts
  <2> QED BY <1>2, <2>1, <2>2, <2>3
<1>6. ASSUME NEW x \in Orders
      PROVE  /\ Qty(Matches', PartyOf(Matches', x)) + remaining'[x] <= order'[x].quantity
             /\ NothingLost => Qty(Matches', PartyOf(Matches', x)) + remaining'[x] = order'[x].quantity
  <2>1. CASE x \in new
    <3>1. Qty(Matches', PartyOf(Matches', x)) = 0
      BY <1>3, <2>1, UnsentHasNoTrades, QtyEqual
    <3> DEFINE q == req[x].quantity
    <3>2. q \in Nat /\ remaining'[x] = q /\ order'[x].quantity = q
      BY <1>1, <2>1
    <3> HIDE DEF q
    <3> QED BY <3>1, <3>2
  <2>2. CASE x \notin new
    BY <1>3, <2>2, BookFacts DEF AnswersFollowBook, NothingLost
  <2> QED BY <2>1, <2>2
<1>7. \A x \in Orders : resp'[x].trades # <<>> =>
        Submitted(order', x) /\ pc'[x] \in {"returned", "idle"}
  BY <1>2, BookFacts DEF AnswersFollowBook
<1>8. \A x \in Orders : Submitted(order', x) => order'[x].quantity = req'[x].quantity
  BY BookFacts DEF AnswersFollowBook, Submitted
<1>9. AnswersFollowBook'
  BY <1>4, <1>5, <1>6, <1>7, <1>8 DEF AnswersFollowBook
<1>10. NothingLost => NothingLost'
  BY <1>6 DEF NothingLost
<1> QED BY <1>2, <1>9, <1>10 DEF BookMoves

\* An order reaches the engine.
LEMMA SubmitMoves ==
    ASSUME FlowConsistent, NEW o \in Orders, NEW now, ~Submitted(order, o),
           Submit(o, req[o].side, req[o].price, req[o].quantity, now), resp' = resp, req' = req
    PROVE  AnswersFollowBook' /\ BookMoves
<1> DEFINE q == req[o].quantity
           new == {o}
<1>1. /\ pc[o] = "idle" /\ pc' = [pc EXCEPT ![o] = "stamped"]
      /\ remaining' = [remaining EXCEPT ![o] = q]
      /\ order' = [order EXCEPT ![o] = [side |-> req[o].side, price |-> req[o].price,
                                        quantity |-> q, createdAt |-> now]]
      /\ mu' = mu /\ fills' = fills
  BY DEF Submit
<1>2. mu # o
  BY <1>1, BookFacts
<1>3. /\ order'[o].quantity = q /\ remaining'[o] = q
      /\ \A x \in Orders \ {o} : order'[x] = order[x] /\ remaining'[x] = remaining[x]
                                   /\ pc'[x] = pc[x]
  BY <1>1, BookFacts
<1>4. /\ new \in SUBSET Orders /\ \A x \in new : ~Submitted(order, x) /\ mu # x
      /\ \A x \in new : order'[x].quantity = req[x].quantity /\ remaining'[x] = req[x].quantity
      /\ \A x \in Orders \ new : order'[x] = order[x] /\ remaining'[x] = remaining[x]
                                   /\ pc'[x] = pc[x]
  BY <1>2, <1>3
<1> HIDE DEF new
<1> QED BY <1>1, <1>4, NewOrdersMove

\* A trade is made.
LEMMA FillMoves ==
    ASSUME FlowConsistent, BookHolds', NEW o \in Orders, MatchFill(o), resp' = resp, req' = req
    PROVE  AnswersFollowBook' /\ BookMoves
<1> DEFINE best == Head(Opposite(o))
           f == Fill(o, best)
           q == f.quantity
           l == Len(fills)
           x0 == <<o, l + 1>>
           M == Matches
           M2 == Matches'
<1>1. /\ mu = o /\ fills' = Append(fills, f) /\ order' = order /\ mu' = mu /\ pc' = pc
      /\ remaining' = [remaining EXCEPT ![o] = @ - q, ![best] = @ - q]
  BY DEF MatchFill
<1>2. /\ best \in Orders /\ best # o /\ pc[best] = "returned" /\ pc[o] = "matching"
      /\ remaining[best] \in Nat /\ remaining[best] > 0 /\ remaining[o] \in Nat /\ remaining[o] > 0
      /\ q \in Nat /\ q > 0 /\ q <= remaining[o] /\ q <= remaining[best]
      /\ q = remaining[o] \/ q = remaining[best]
      /\ f.buy \in {o, best} /\ f.sell \in {o, best} /\ f.buy # f.sell
  BY <1>1, BookFacts, FillHolds DEF MatchFill, Fill
<1>3. /\ remaining'[o] = remaining[o] - q /\ remaining'[best] = remaining[best] - q
      /\ \A x \in Orders \ {o, best} : remaining'[x] = remaining[x]
  BY <1>1, <1>2, BookFacts
<1>4. l \in Nat /\ fills' \in Seq(Trade) /\ DOMAIN fills = 1..l /\ DOMAIN fills' = 1..(l + 1)
      /\ f \in Trade /\ fills'[l + 1] = f /\ \A k \in 1..l : fills'[k] = fills[k]
  <2>1. fills \in Seq(Trade) /\ fills' \in Seq(Trade)
    BY BookFacts DEF BookHolds, BookTypeOK
  <2>2. /\ Len(fills') = l + 1 /\ fills'[l + 1] = f /\ \A k \in 1..l : fills'[k] = fills[k]
        /\ l \in Nat
    BY <1>1, <2>1
  <2> QED BY <2>1, <2>2
<1> HIDE DEF f, q, best
<1>5. MatchOK(fills, o, order) /\ \A k \in 1..l : remaining[MakerIn(fills[k], o)] = 0
  BY <1>1, <1>2, <1>4, BookFacts DEF AnswersFollowBook, Matches
<1>6. MakerIn(f, o) = best
  BY <1>2 DEF MakerIn
<1>7. MatchOK(fills', o, order)
  <2>1. ASSUME NEW k \in DOMAIN fills'
        PROVE  /\ o \in {fills'[k].buy, fills'[k].sell} /\ fills'[k].buy # fills'[k].sell
               /\ Submitted(order, fills'[k].buy) /\ Submitted(order, fills'[k].sell)
    <3>1. CASE k \in 1..l
      BY <1>4, <1>5, <3>1 DEF MatchOK
    <3>2. CASE k = l + 1
      BY <1>2, <1>4, <3>2, QuantityFacts
    <3> QED BY <1>4, <3>1, <3>2
  <2>2. \A k \in 1..l : MakerIn(fills'[k], o) # best
    BY <1>2, <1>4, <1>5
  <2>3. ASSUME NEW j \in DOMAIN fills', NEW k \in DOMAIN fills',
               MakerIn(fills'[j], o) = MakerIn(fills'[k], o)
        PROVE  j = k
    <3>1. CASE j \in 1..l /\ k \in 1..l
      BY <1>4, <1>5, <2>3, <3>1 DEF MatchOK
    <3>2. CASE j = l + 1 /\ k = l + 1
      BY <3>2
    <3>3. CASE j \in 1..l /\ k = l + 1
      BY <1>4, <1>6, <2>2, <2>3, <3>3
    <3>4. CASE j = l + 1 /\ k \in 1..l
      BY <1>4, <1>6, <2>2, <2>3, <3>4
    <3> QED BY <1>4, <3>1, <3>2, <3>3, <3>4
  <2> QED BY <1>4, <2>1, <2>3 DEF MatchOK
<1>8. /\ M2[o] = fills' /\ M[o] = fills /\ \A x \in Orders \ {o} : M2[x] = M[x]
  BY <1>1 DEF Matches
<1>9. \A x \in Orders : MatchOK(M2[x], x, order')
  BY <1>1, <1>7, <1>8, BookFacts DEF AnswersFollowBook
<1>10. M \in TradesByTaker /\ M2 \in TradesByTaker
  <2>1. M2 = [x \in Orders |-> M2[x]] /\ \A x \in Orders : M2[x] \in Seq(Trade)
    BY <1>9 DEF MatchOK, Matches
  <2> HIDE DEF M2
  <2> QED BY <2>1, BookFacts DEF TradesByTaker
<1>11. x0 \in Numbers /\ x0[1] = o /\ x0[2] = l + 1
  BY <1>4, <1>7, MatchLength
<1> HIDE DEF M, M2, x0
<1>12. \A x \in Numbers : x = x0 \/ (QtyAt(M2)[x] = QtyAt(M)[x] /\ x # x0)
  <2> SUFFICES ASSUME NEW x \in Numbers, x # x0 PROVE QtyAt(M2)[x] = QtyAt(M)[x]
    OBVIOUS
  <2>1. x[1] \in Orders /\ x[2] \in Nat /\ (x[1] = o => x[2] # l + 1)
    BY <1>11, NumbersFinite DEF Numbers, x0
  <2>2. CASE x[1] = o
    <3>1. x[2] \in DOMAIN M2[o] <=> x[2] \in DOMAIN M[o]
      BY <1>4, <1>8, <2>1, <2>2
    <3>2. x[2] \in DOMAIN M[o] => M2[o][x[2]] = M[o][x[2]]
      BY <1>4, <1>8
    <3> QED BY <2>2, <3>1, <3>2 DEF QtyAt
  <2>3. CASE x[1] # o
    BY <1>8, <2>1, <2>3 DEF QtyAt
  <2> QED BY <2>2, <2>3
<1>13. ASSUME NEW p \in Orders
       PROVE  PartyOf(M2, p) = PartyOf(M, p) \cup (IF p \in {o, best} THEN {x0} ELSE {})
  <2>1. ASSUME NEW x \in Numbers
        PROVE  x \in PartyOf(M2, p) <=> x \in PartyOf(M, p) \/ (x = x0 /\ p \in {o, best})
    <3>1. x[1] \in Orders /\ x[2] \in Nat /\ (x[1] = o /\ x[2] = l + 1 => x = x0)
      BY <1>11, NumbersFinite DEF Numbers, x0
    <3>2. CASE x[1] # o
      BY <1>8, <1>11, <3>1, <3>2 DEF PartyOf
    <3>3. CASE x[1] = o /\ x[2] # l + 1
      BY <1>4, <1>8, <1>11, <3>1, <3>3 DEF PartyOf
    <3>4. CASE x = x0
      BY <1>2, <1>4, <1>8, <1>11, <3>4 DEF PartyOf
    <3> QED BY <3>1, <3>2, <3>3, <3>4
  <2>2. PartyOf(M2, p) \subseteq Numbers /\ PartyOf(M, p) \subseteq Numbers
    BY DEF PartyOf
  <2> QED BY <1>11, <2>1, <2>2
<1>14. ASSUME NEW p \in Orders
       PROVE  /\ Qty(M2, PartyOf(M2, p)) + remaining'[p] <= order'[p].quantity
              /\ NothingLost => Qty(M2, PartyOf(M2, p)) + remaining'[p] = order'[p].quantity
  <2> DEFINE old == PartyOf(M, p)
             n == Qty(M, old)
             n2 == Qty(M2, PartyOf(M2, p))
  <2> DEFINE all == order[p].quantity
  <2>1. n + remaining[p] <= all /\ all \in Nat /\ (NothingLost => n + remaining[p] = all)
    BY BookFacts, QuantityFacts DEF AnswersFollowBook, M, NothingLost
  <2>2. old \in SUBSET Numbers /\ x0 \notin old
    BY <1>4, <1>8, <1>11 DEF PartyOf
  <2>3. Qty(M2, old) = n
    BY <1>12, <2>2, QtyEqual
  <2>4. n \in Nat /\ remaining[p] \in Nat
    BY <1>10, <2>2, QtyType, BookFacts
  <2> HIDE DEF old, n, n2, all
  <2>5. CASE p \in {o, best}
    <3>1. PartyOf(M2, p) = old \cup {x0}
      BY <1>13, <2>5 DEF old
    <3>2. x0[2] \in DOMAIN M2[x0[1]] /\ M2[x0[1]][x0[2]].quantity = q
      BY <1>4, <1>8, <1>11 DEF q
    <3>3. Qty(M2, old \cup {x0}) = Qty(M2, old) + q
      BY <1>10, <1>11, <2>2, <3>2, QtyAdd
    <3>4. n2 = n + q
      BY <2>3, <3>1, <3>3 DEF n2
    <3>5. remaining'[p] = remaining[p] - q
      BY <1>3, <2>5
    <3>6. n2 + remaining'[p] <= all /\ (n + remaining[p] = all => n2 + remaining'[p] = all)
      BY <1>2, <2>1, <2>4, <3>4, <3>5
    <3> QED BY <1>1, <2>1, <3>6 DEF n2, all
  <2>6. CASE p \notin {o, best}
    <3>1. PartyOf(M2, p) = old
      BY <1>13, <2>6 DEF old
    <3>2. remaining'[p] = remaining[p]
      BY <1>3, <2>6
    <3> QED BY <1>1, <2>1, <2>3, <3>1, <3>2 DEF all
  <2> QED BY <2>5, <2>6
<1>15. ASSUME NEW x \in Orders, mu' = x, remaining'[x] > 0, NEW k \in DOMAIN fills'
       PROVE  remaining'[MakerIn(fills'[k], x)] = 0
  <2>1. x = o
    BY <1>1, <1>15
  <2>2. remaining'[best] = 0
    BY <1>2, <1>3, <1>15, <2>1
  <2>3. CASE k = l + 1
    BY <1>4, <1>6, <2>1, <2>2, <2>3
  <2>4. CASE k \in 1..l
    <3>1. /\ MakerIn(fills[k], o) \in Orders /\ MakerIn(fills[k], o) # o
          /\ remaining[MakerIn(fills[k], o)] = 0
      BY <1>4, <1>5, <2>4, MakerFacts
    <3>2. MakerIn(fills[k], o) # best
      BY <1>2, <3>1
    <3> QED BY <1>3, <1>4, <2>1, <2>4, <3>1, <3>2
  <2> QED BY <1>4, <2>3, <2>4
<1>16. \A x \in Orders : /\ resp'[x].trades # <<>> =>
                              Submitted(order', x) /\ pc'[x] \in {"returned", "idle"}
                         /\ Submitted(order', x) => order'[x].quantity = req'[x].quantity
  BY <1>1, BookFacts DEF AnswersFollowBook
<1>17. AnswersFollowBook'
  BY <1>9, <1>14, <1>15, <1>16 DEF AnswersFollowBook, M2
<1>18. \A x \in Orders : remaining[x] = 0 => remaining'[x] = 0
  BY <1>2, <1>3
<1>19. NothingLost => NothingLost'
  BY <1>14 DEF NothingLost, M2
<1> QED BY <1>1, <1>17, <1>18, <1>19 DEF BookMoves

\* No step on the book.
LEMMA NoBookStep ==
    ASSUME FlowConsistent, UNCHANGED <<bookVars, resp, req>>
    PROVE  BookHolds' /\ BookTypeOK' /\ AnswersFollowBook' /\ BookMoves
<1>1. BookHolds'
  BY BookFacts, BookNextKeepsBook
<1>2. BookTypeOK'
  BY <1>1 DEF BookHolds
<1>3. /\ pc' = pc /\ remaining' = remaining /\ order' = order /\ mu' = mu /\ fills' = fills
      /\ resp' = resp /\ req' = req
  BY DEF bookVars
<1>4. Matches' = Matches
  BY <1>3 DEF Matches
<1>5. \A x \in Orders : resp[x].trades # <<>> =>
        Submitted(order, x) /\ pc[x] \in {"returned", "idle"}
  BY BookFacts DEF AnswersFollowBook
<1>6. AnswersFollowBook' /\ (NothingLost => NothingLost')
  BY <1>3, <1>4, <1>5, SameMatches
<1> QED BY <1>1, <1>2, <1>3, <1>6 DEF BookMoves

\* A step of submitOrder in the matching engine.
LEMMA EngineStep ==
    ASSUME FlowConsistent, NEW o \in Orders, BookStep(o)
    PROVE  /\ BookHolds' /\ BookTypeOK' /\ SentOnce' /\ AnswersFollowBook' /\ BookMoves
           /\ resp' \in [Orders -> [trades : Seq(Trade), resting : BOOLEAN]]
<1>1. [BookNext]_bookVars
  BY DEF BookStep, BookNext
<1>2. BookHolds' /\ BookTypeOK'
  BY <1>1, BookFacts, BookNextKeepsBook DEF BookHolds
<1>3. req' = req /\ place' = place
  BY DEF BookStep
<1>4. SentOnce'
  <2>1. order' = order /\ \A x \in Orders : pc'[x] = pc[x] \/ (x = o /\ pc[x] \in {"stamped", "matching"})
    BY BookFacts DEF BookStep, MatchLock, MatchFill, MatchReturn
  <2> QED BY <1>3, <2>1 DEF SentOnce, FlowConsistent
<1>5. CASE MatchLock(o) /\ UNCHANGED resp
  BY <1>2, <1>3, <1>4, <1>5, BookFacts, LockAndCancelMove
<1>6. CASE MatchFill(o) /\ UNCHANGED resp
  BY <1>2, <1>3, <1>4, <1>6, BookFacts, FillMoves
<1>7. CASE /\ MatchReturn(o)
           /\ resp' = [resp EXCEPT ![o] =
                  [trades |-> fills, resting |-> remaining[o] > 0 /\ ~isMarket(o)]]
  <2>1. resp' \in [Orders -> [trades : Seq(Trade), resting : BOOLEAN]]
    BY <1>7, BookFacts
  <2> QED BY <1>2, <1>3, <1>4, <1>7, <2>1, ReturnMoves
<1> QED BY <1>5, <1>6, <1>7 DEF BookStep
-----------------------------------------------------------------------------
(* The store and the ledger *)

PlaceStages == {"idle", "done", "failed", "create", "undo", "submit", "await", "settle",
                "insert", "read", "update", "own", "release"}
PlaceRecord == [at : PlaceStages, k : Nat, filled : Nat, seen : Nat]
CancelRecord == [at : {"idle", "done", "failed", "book", "unfreeze", "mark"}, filled : Nat]
Statuses == {"NEW", "PARTIALLY_FILLED", "NOROW", "FILLED", "CANCELLED"}

\* FlowTypeOK with its parts named.
LEMMA FlowTyped ==
    FlowTypeOK <=>
        /\ BookTypeOK /\ LedgerTypeOK /\ req \in [Orders -> Requests]
        /\ status \in [Orders -> Statuses] /\ filledQty \in [Orders -> Nat]
        /\ tradeRows \subseteq Orders \X Nat
        /\ resp \in [Orders -> [trades : Seq(Trade), resting : BOOLEAN]]
        /\ place \in [Orders -> PlaceRecord] /\ cancel \in [Orders -> CancelRecord]
        /\ faults \in 0..MaxFaults
<1>1. PlaceStages = Ended \cup {"create", "undo", "submit", "await", "settle", "insert", "read",
                                "update", "own", "release"}
  BY DEF PlaceStages, Ended
<1>2. /\ Ended \cup {"book", "unfreeze", "mark"} = {"idle", "done", "failed", "book", "unfreeze", "mark"}
      /\ Open \cup {"NOROW", "FILLED", "CANCELLED"} = Statuses
  BY DEF Ended, Open, Statuses
<1> QED BY <1>1, <1>2 DEF FlowTypeOK, PlaceRecord, CancelRecord

\* What the invariant says of the store and of a request.
LEMMA StoreFacts ==
    ASSUME FlowConsistent
    PROVE  /\ LedgerTypeOK /\ status \in [Orders -> Statuses] /\ filledQty \in [Orders -> Nat]
           /\ tradeRows \subseteq Orders \X Nat /\ place \in [Orders -> PlaceRecord]
           /\ cancel \in [Orders -> CancelRecord] /\ faults \in 0..MaxFaults
           /\ SentOnce /\ LedgerFollowsAnswers /\ StoreFollowsLedger /\ Settled \subseteq Numbers
           /\ req \in [Orders -> Requests]
           /\ \A o \in Orders : req[o].user \in Users /\ req[o].price \in Nat /\ req[o].quantity \in Nat
                                /\ req[o].quantity > 0
           /\ \A o \in Orders : place[o] \in PlaceRecord /\ place[o].k \in Nat
                                /\ place[o].filled \in Nat /\ place[o].seen \in Nat
<1>1. /\ LedgerTypeOK /\ status \in [Orders -> Statuses] /\ filledQty \in [Orders -> Nat]
      /\ tradeRows \subseteq Orders \X Nat /\ place \in [Orders -> PlaceRecord]
      /\ cancel \in [Orders -> CancelRecord] /\ faults \in 0..MaxFaults
      /\ req \in [Orders -> Requests]
  BY FlowTyped DEF FlowConsistent
<1>2. ASSUME NEW o \in Orders
      PROVE  req[o].user \in Users /\ req[o].price \in Nat /\ req[o].quantity \in Nat
             /\ req[o].quantity > 0
  <2> DEFINE r == req[o]
             price == r.price
             qty == r.quantity
  <2>1. r \in [user : Users, side : Sides, price : Prices \cup {Market}, quantity : Quantities]
    BY <1>1, RequestsAssumption
  <2> HIDE DEF r
  <2>2. r.user \in Users /\ price \in Prices \cup {Market} /\ qty \in Quantities
    BY <2>1
  <2> HIDE DEF price, qty
  <2>3. price \in Nat
    BY <2>2, PricesAssumption DEF Market
  <2>4. qty \in Nat /\ qty > 0
    BY <2>2, QuantitiesAssumption
  <2> QED BY <2>2, <2>3, <2>4 DEF r, price, qty
<1>3. \A o \in Orders : place[o] \in PlaceRecord /\ place[o].k \in Nat
                        /\ place[o].filled \in Nat /\ place[o].seen \in Nat
  BY <1>1 DEF PlaceRecord
<1> QED BY <1>1, <1>2, <1>3 DEF FlowConsistent, Settled

\* The fields of a payload.
LEMMA RequestFields ==
    ASSUME FlowConsistent, NEW o \in Orders
    PROVE  req[o].side \in Sides /\ req[o].price \in Prices \cup {Market} /\ req[o].quantity \in Quantities
<1> DEFINE r == req[o]
<1>1. r \in Requests
  BY StoreFacts
<1> HIDE DEF r
<1>2. r \in [user : Users, side : Sides, price : Prices \cup {Market}, quantity : Quantities]
  BY <1>1, RequestsAssumption
<1>3. r.side \in Sides /\ r.price \in Prices \cup {Market} /\ r.quantity \in Quantities
  BY <1>2
<1> QED BY <1>3 DEF r

\* A settled trade has been answered, and its match is over.
LEMMA SettledFacts ==
    ASSUME FlowConsistent
    PROVE  \A x \in Settled : /\ x \in Numbers /\ x[1] \in Orders /\ x[2] \in DOMAIN resp[x[1]].trades
                              /\ resp[x[1]].trades # <<>> /\ Submitted(order, x[1])
                              /\ Matches[x[1]] = Answers[x[1]]
<1> TAKE x \in Settled
<1>1. x \in Numbers /\ x[1] \in Orders /\ x[2] \in DOMAIN resp[x[1]].trades
  BY StoreFacts DEF LedgerFollowsAnswers, Numbers
<1>2. resp[x[1]].trades # <<>>
  BY <1>1
<1> QED BY <1>1, <1>2, BookFacts DEF AnswersFollowBook

\* What was recorded stays recorded, whatever is answered and settled.
LEMMA RecordedStays ==
    ASSUME FlowConsistent, BookMoves, Settled \subseteq Settled',
           resp' \in [Orders -> [trades : Seq(Trade), resting : BOOLEAN]],
           \A x \in Settled : Pending(place', x) => Pending(place, x)
    PROVE  /\ Answers' \in TradesByTaker
           /\ \A p \in Orders :
                 /\ Recorded(Answers, Settled, place, p) \subseteq Recorded(Answers', Settled', place', p)
                 /\ Qty(Answers, Recorded(Answers, Settled, place, p))
                      <= Qty(Answers', Recorded(Answers', Settled', place', p))
<1> DEFINE A == Answers
           A2 == Answers'
           S == Settled
           S2 == Settled'
           pl == place
           pl2 == place'
<1>1. A \in TradesByTaker /\ A2 \in TradesByTaker
  BY BookFacts DEF Answers, TradesByTaker
<1>2. \A x \in S : x \in Numbers /\ A2[x[1]] = A[x[1]]
  <2> TAKE x \in S
  <2>1. x \in Numbers /\ x[1] \in Orders /\ resp[x[1]].trades # <<>>
    BY SettledFacts
  <2> QED BY <2>1 DEF BookMoves, Answers
<1>3. S2 \subseteq Numbers
  BY DEF Settled, Numbers
<1> HIDE DEF A, A2, S, S2, pl, pl2
<1>4. ASSUME NEW p \in Orders
      PROVE  /\ Recorded(A, S, pl, p) \subseteq Recorded(A2, S2, pl2, p)
             /\ Qty(A, Recorded(A, S, pl, p)) <= Qty(A2, Recorded(A2, S2, pl2, p))
  <2> DEFINE R == Recorded(A, S, pl, p)
             R2 == Recorded(A2, S2, pl2, p)
  <2>1. R \subseteq S /\ R \subseteq Numbers /\ R2 \subseteq Numbers
    BY <1>2, <1>3 DEF Recorded
  <2>2. R \subseteq R2
    <3> SUFFICES ASSUME NEW x \in R PROVE x \in R2
      OBVIOUS
    <3>1. x \in S /\ x \in PartyOf(A, p) /\ ~Pending(pl, x)
      BY DEF Recorded
    <3>2. x \in PartyOf(A2, p)
      BY <1>2, <3>1 DEF PartyOf
    <3>3. x \in S2 /\ ~Pending(pl2, x)
      BY <3>1 DEF S, S2, pl, pl2
    <3> QED BY <3>2, <3>3 DEF Recorded
  <2>3. \A x \in R : A[x[1]] = A2[x[1]]
    BY <1>2, <2>1
  <2> HIDE DEF R, R2
  <2>4. Qty(A, R) <= Qty(A2, R2)
    BY <1>1, <2>1, <2>2, <2>3, QtyStays
  <2> QED BY <2>2, <2>4 DEF R, R2
<1> QED BY <1>1, <1>4 DEF A, A2, S, S2, pl, pl2

\* A trade of an answer stays in it.
LEMMA AnswerStays ==
    ASSUME FlowConsistent, BookMoves
    PROVE  \A p \in Orders : \A k \in DOMAIN resp[p].trades : resp'[p] = resp[p]
<1> TAKE p \in Orders
<1> TAKE k \in DOMAIN resp[p].trades
<1>1. resp[p].trades # <<>>
  OBVIOUS
<1> QED BY <1>1 DEF BookMoves

\* What a request has added up stays added up.
LEMMA AddedUpStays ==
    ASSUME FlowConsistent, BookMoves, Settled \subseteq Settled', NEW p \in Orders,
           resp' \in [Orders -> [trades : Seq(Trade), resting : BOOLEAN]],
           place'[p].at = "insert" =>
              (place[p].at = "insert" /\ place'[p].k = place[p].k) \/ <<p, place'[p].k>> \notin Settled
    PROVE  /\ AddedUp(Settled, place, p) \subseteq AddedUp(Settled', place', p)
           /\ Qty(Answers, AddedUp(Settled, place, p)) <= Qty(Answers', AddedUp(Settled', place', p))
<1> DEFINE A == Answers
           A2 == Answers'
           R == AddedUp(Settled, place, p)
           R2 == AddedUp(Settled', place', p)
<1>1. A \in TradesByTaker /\ A2 \in TradesByTaker
  BY BookFacts DEF Answers, TradesByTaker
<1>2. R \subseteq Settled /\ R \subseteq Numbers /\ R2 \subseteq Numbers
  BY DEF AddedUp, Settled
<1>3. \A x \in R : A[x[1]] = A2[x[1]]
  <2> TAKE x \in R
  <2>1. x[1] \in Orders /\ resp[x[1]].trades # <<>>
    BY <1>2, SettledFacts
  <2> QED BY <2>1 DEF BookMoves, Answers
<1>4. R \subseteq R2
  <2> SUFFICES ASSUME NEW x \in R PROVE x \in R2
    OBVIOUS
  <2>1. x \in Settled /\ x[1] = p /\ ~(place[p].at = "insert" /\ place[p].k = x[2])
    BY DEF AddedUp
  <2>2. x = <<p, x[2]>>
    BY <2>1 DEF Settled, Numbers
  <2> QED BY <2>1, <2>2 DEF AddedUp
<1> HIDE DEF A, A2, R, R2
<1>5. Qty(A, R) <= Qty(A2, R2)
  BY <1>1, <1>2, <1>3, <1>4, QtyStays
<1> QED BY <1>4, <1>5 DEF A, A2, R, R2

\* The request's PlaceOrder makes a step and the invariant still holds if
\* what the step itself writes is right.
LEMMA FlowStep ==
    ASSUME FlowConsistent, FlowTypeOK', BookHolds', SentOnce', AnswersFollowBook', BookMoves,
           NEW o \in Orders, \A p \in Orders \ {o} : place'[p] = place[p],
           Settled \subseteq Settled',
           \A x \in Settled : x[1] = o /\ Pending(place', x) => Pending(place, x),
           \A x \in Settled' : x \in Settled \/ x[2] \in DOMAIN resp'[x[1]].trades,
           place'[o].at \in {"settle", "insert", "read", "update"} =>
              place'[o].k \in DOMAIN resp'[o].trades,
           place'[o].at \in {"insert", "read", "update"} => <<o, place'[o].k>> \in Settled',
           place'[o].at = "insert" =>
              (place[o].at = "insert" /\ place'[o].k = place[o].k) \/ <<o, place'[o].k>> \notin Settled,
           \A p \in Orders : \/ filledQty'[p] = filledQty[p]
                             \/ filledQty'[p] <= Qty(Answers', Recorded(Answers', Settled', place', p)),
           place'[o].at = "update" =>
              \/ place'[o] = place[o]
              \/ place'[o].seen <= Qty(Answers', Recorded(Answers', Settled', place', Maker(o)')),
           \/ place'[o].filled = place[o].filled
           \/ place'[o].filled <= Qty(Answers', AddedUp(Settled', place', o)),
           \A p \in Orders : status'[p] = "FILLED" =>
              status[p] = "FILLED" \/ (Submitted(order', p) /\ remaining'[p] = 0),
           tradeRows' \subseteq Settled'
    PROVE  FlowConsistent'
<1>1. /\ resp' \in [Orders -> [trades : Seq(Trade), resting : BOOLEAN]]
      /\ place' \in [Orders -> PlaceRecord] /\ filledQty' \in [Orders -> Nat]
      /\ Settled' \subseteq Numbers
  BY FlowTyped, StoreFacts DEF FlowTypeOK, PlaceRecord, PlaceStages, Ended, Settled, Numbers
<1>2. \A x \in Settled : Pending(place', x) => Pending(place, x)
  <2> TAKE x \in Settled
  <2>1. x[1] \in Orders
    BY DEF Settled, Numbers
  <2> QED BY <2>1 DEF Pending
<1>3. /\ Answers' \in TradesByTaker /\ Answers \in TradesByTaker
      /\ \A p \in Orders : Qty(Answers, Recorded(Answers, Settled, place, p))
                              <= Qty(Answers', Recorded(Answers', Settled', place', p))
  BY <1>1, <1>2, RecordedStays, BookFacts
<1>4. \A p \in Orders : Qty(Answers, AddedUp(Settled, place, p))
                           <= Qty(Answers', AddedUp(Settled', place', p))
  BY <1>1, AddedUpStays
<1>5. \A p \in Orders : /\ Qty(Answers, Recorded(Answers, Settled, place, p)) \in Nat
                        /\ Qty(Answers', Recorded(Answers', Settled', place', p)) \in Nat
                        /\ Qty(Answers, AddedUp(Settled, place, p)) \in Nat
                        /\ Qty(Answers', AddedUp(Settled', place', p)) \in Nat
  <2> TAKE p \in Orders
  <2>1. /\ Recorded(Answers, Settled, place, p) \in SUBSET Numbers
        /\ AddedUp(Settled, place, p) \in SUBSET Numbers
    BY StoreFacts DEF Recorded, AddedUp
  <2>2. /\ Recorded(Answers', Settled', place', p) \in SUBSET Numbers
        /\ AddedUp(Settled', place', p) \in SUBSET Numbers
    BY <1>1 DEF Recorded, AddedUp
  <2> QED BY <1>3, <2>1, <2>2, QtyType
<1>6. LedgerFollowsAnswers'
  <2>1. \A x \in Settled' : x[2] \in DOMAIN resp'[x[1]].trades
    <3> TAKE x \in Settled'
    <3>1. x[1] \in Orders
      BY <1>1 DEF Numbers
    <3>2. x \in Settled => resp[x[1]].trades # <<>> /\ x[2] \in DOMAIN resp[x[1]].trades
      BY SettledFacts
    <3> QED BY <3>1, <3>2 DEF BookMoves
  <2>2. ASSUME NEW p \in Orders
        PROVE  /\ place'[p].at \in {"settle", "insert", "read", "update"} =>
                     place'[p].k \in DOMAIN resp'[p].trades
               /\ place'[p].at \in {"insert", "read", "update"} => <<p, place'[p].k>> \in Settled'
    <3>1. CASE p = o
      BY <3>1
    <3>2. CASE p # o
      <4>1. place'[p] = place[p]
        BY <3>2
      <4>2. place[p].at \in {"settle", "insert", "read", "update"} => place[p].k \in DOMAIN resp'[p].trades
        BY StoreFacts, AnswerStays DEF LedgerFollowsAnswers
      <4> QED BY <4>1, <4>2, StoreFacts DEF LedgerFollowsAnswers
    <3> QED BY <3>1, <3>2
  <2> QED BY <2>1, <2>2 DEF LedgerFollowsAnswers
<1>7. ASSUME NEW p \in Orders
      PROVE  filledQty'[p] <= Qty(Answers', Recorded(Answers', Settled', place', p))
  <2> DEFINE n == Qty(Answers, Recorded(Answers, Settled, place, p))
             n2 == Qty(Answers', Recorded(Answers', Settled', place', p))
             fq == filledQty[p]
             fq2 == filledQty'[p]
  <2>1. fq <= n /\ n <= n2 /\ n \in Nat /\ n2 \in Nat /\ fq \in Nat /\ fq2 \in Nat
        /\ (fq2 = fq \/ fq2 <= n2)
    BY <1>1, <1>3, <1>5, StoreFacts DEF StoreFollowsLedger
  <2> HIDE DEF n, n2, fq, fq2
  <2>2. fq2 <= n2
    BY <2>1
  <2> QED BY <2>2 DEF fq2, n2
<1>8. ASSUME NEW p \in Orders, place'[p].at = "update"
      PROVE  place'[p].seen <= Qty(Answers', Recorded(Answers', Settled', place', Maker(p)'))
  <2>1. CASE place'[p] = place[p]
    <3>1. place[p].k \in DOMAIN resp[p].trades
      BY <1>8, <2>1, StoreFacts DEF LedgerFollowsAnswers
    <3>2. Maker(p)' = Maker(p)
      BY <2>1, <3>1, AnswerStays DEF Maker, TheTrade
    <3>3. Maker(p) \in Orders
      <4>1. resp[p].trades[place[p].k] \in Trade
        BY <3>1, BookFacts
      <4> QED BY <4>1 DEF Maker, TheTrade, Trade
    <3> DEFINE n == Qty(Answers, Recorded(Answers, Settled, place, Maker(p)))
               n2 == Qty(Answers', Recorded(Answers', Settled', place', Maker(p)))
               seen == place[p].seen
    <3>4. seen <= n /\ n <= n2 /\ n \in Nat /\ n2 \in Nat /\ seen \in Nat
      BY <1>3, <1>5, <1>8, <2>1, <3>3, StoreFacts DEF StoreFollowsLedger
    <3> HIDE DEF n, n2, seen
    <3>5. seen <= n2
      BY <3>4
    <3> QED BY <2>1, <3>2, <3>5 DEF seen, n2
  <2>2. CASE place'[p] # place[p]
    BY <1>8, <2>2
  <2> QED BY <2>1, <2>2
<1>9. ASSUME NEW p \in Orders
      PROVE  place'[p].filled <= Qty(Answers', AddedUp(Settled', place', p))
  <2> DEFINE n == Qty(Answers, AddedUp(Settled, place, p))
             n2 == Qty(Answers', AddedUp(Settled', place', p))
             g == place[p].filled
             g2 == place'[p].filled
  <2>1. g <= n /\ n <= n2 /\ n \in Nat /\ n2 \in Nat /\ g \in Nat /\ g2 \in Nat
    BY <1>1, <1>4, <1>5, StoreFacts DEF StoreFollowsLedger, PlaceRecord
  <2>2. g2 = g \/ g2 <= n2
    BY StoreFacts
  <2> HIDE DEF n, n2, g, g2
  <2>3. g2 <= n2
    BY <2>1, <2>2
  <2> QED BY <2>3 DEF g2, n2
<1>10. \A p \in Orders : status'[p] = "FILLED" => Submitted(order', p) /\ remaining'[p] = 0
  BY StoreFacts DEF StoreFollowsLedger, BookMoves
<1>11. StoreFollowsLedger'
  BY <1>7, <1>8, <1>9, <1>10 DEF StoreFollowsLedger
<1> QED BY <1>6, <1>11 DEF FlowConsistent

\* Nothing is written to the accounts.
LEMMA NoMoneyMoves ==
    ASSUME FlowConsistent, UNCHANGED accountVars
    PROVE  LedgerTypeOK' /\ Settled' = Settled
<1>1. users' = users /\ available' = available /\ frozen' = frozen /\ entries' = entries
  BY DEF accountVars
<1> QED BY <1>1, StoreFacts DEF LedgerTypeOK, Settled

\* FlowTypeOK of the next state, by its parts.
LEMMA NextTyped ==
    ASSUME BookTypeOK', LedgerTypeOK', req' \in [Orders -> Requests],
           status' \in [Orders -> Statuses], filledQty' \in [Orders -> Nat],
           tradeRows' \subseteq Orders \X Nat,
           resp' \in [Orders -> [trades : Seq(Trade), resting : BOOLEAN]],
           place' \in [Orders -> PlaceRecord], cancel' \in [Orders -> CancelRecord],
           faults' \in 0..MaxFaults
    PROVE  FlowTypeOK'
<1>1. PlaceStages = Ended \cup {"create", "undo", "submit", "await", "settle", "insert", "read",
                                "update", "own", "release"}
  BY DEF PlaceStages, Ended
<1>2. /\ Ended \cup {"book", "unfreeze", "mark"} = {"idle", "done", "failed", "book", "unfreeze", "mark"}
      /\ Open \cup {"NOROW", "FILLED", "CANCELLED"} = Statuses
  BY DEF Ended, Open, Statuses
<1> QED BY <1>1, <1>2 DEF FlowTypeOK, PlaceRecord, CancelRecord

\* A step after which no request writes a fill.
LEMMA PlainStep ==
    ASSUME FlowConsistent, FlowTypeOK', BookHolds', SentOnce', AnswersFollowBook', BookMoves,
           NEW o \in Orders, \A p \in Orders \ {o} : place'[p] = place[p],
           Settled' = Settled, filledQty' = filledQty, tradeRows' = tradeRows,
           \A p \in Orders : status'[p] = "FILLED" => status[p] = "FILLED",
           place'[o].filled = place[o].filled,
           \/ place'[o] = place[o]
           \/ place'[o].at \notin {"settle", "insert", "read", "update"}
           \/ place'[o].at = "settle" /\ place'[o].k \in DOMAIN resp'[o].trades
    PROVE  FlowConsistent'
<1>1. /\ place[o].at \in {"settle", "insert", "read", "update"} =>
            place[o].k \in DOMAIN resp[o].trades
      /\ place[o].at \in {"insert", "read", "update"} => <<o, place[o].k>> \in Settled
      /\ tradeRows \subseteq Settled
  BY StoreFacts DEF LedgerFollowsAnswers, StoreFollowsLedger
<1>2. \A k \in DOMAIN resp[o].trades : resp'[o] = resp[o]
  BY AnswerStays
<1>3. \A x \in Settled : x[1] = o /\ Pending(place', x) => Pending(place, x)
  BY DEF Pending
<1> QED BY <1>1, <1>2, <1>3, FlowStep

\* A request that sends nothing.
LEMMA SentStays ==
    ASSUME FlowConsistent, UNCHANGED bookVars, NEW o \in Orders,
           \A p \in Orders \ {o} : place'[p] = place[p],
           place'[o].at \in {"idle", "create", "submit"} => place[o].at \in {"idle", "create", "submit"}
    PROVE  SentOnce'
<1>1. pc' = pc /\ order' = order
  BY DEF bookVars
<1>2. \A p \in Orders : place'[p].at \in {"idle", "create", "submit"} =>
                            place[p].at \in {"idle", "create", "submit"}
  OBVIOUS
<1> QED BY <1>1, <1>2, StoreFacts DEF SentOnce

\* A step of one request that changes neither the book nor a fill.
LEMMA PlainPlace ==
    ASSUME FlowConsistent, NEW o \in Orders,
           UNCHANGED <<bookVars, resp, req, filledQty, tradeRows, cancel>>,
           LedgerTypeOK', Settled' = Settled, faults' \in 0..MaxFaults,
           status' \in [Orders -> Statuses],
           \A p \in Orders : status'[p] = "FILLED" => status[p] = "FILLED",
           NEW r \in PlaceRecord, place' = [place EXCEPT ![o] = r], r.filled = place[o].filled,
           r.at \in {"idle", "create", "submit"} => place[o].at \in {"idle", "create", "submit"},
           \/ r.at \notin {"settle", "insert", "read", "update"}
           \/ r.at = "settle" /\ r.k \in DOMAIN resp[o].trades
    PROVE  FlowConsistent'
<1>1. BookHolds' /\ BookTypeOK' /\ AnswersFollowBook' /\ BookMoves
  BY NoBookStep
<1>2. /\ place' \in [Orders -> PlaceRecord] /\ place'[o] = r
      /\ \A p \in Orders \ {o} : place'[p] = place[p]
  BY StoreFacts
<1>3. FlowTypeOK'
  BY <1>1, <1>2, StoreFacts, BookFacts, NextTyped
<1>4. resp' = resp
  OBVIOUS
<1>5. SentOnce'
  BY <1>2, SentStays
<1> QED BY <1>1, <1>2, <1>3, <1>4, <1>5, PlainStep

\* The next stage of a request.
LEMMA GotoFacts ==
    ASSUME FlowConsistent, NEW o \in Orders, NEW at \in PlaceStages, Goto(o, at)
    PROVE  \E r \in PlaceRecord : /\ place' = [place EXCEPT ![o] = r] /\ r.at = at
                                  /\ r.filled = place[o].filled
<1> DEFINE r == [place[o] EXCEPT !.at = at]
<1>1. place' = [place EXCEPT ![o] = r]
  BY StoreFacts DEF Goto
<1>2. r \in PlaceRecord /\ r.at = at /\ r.filled = place[o].filled
  BY StoreFacts DEF PlaceRecord
<1> QED BY <1>1, <1>2

\* The same for a request that goes on to a stage without a trade.
LEMMA PlainGoto ==
    ASSUME FlowConsistent, NEW o \in Orders, NEW at \in PlaceStages, Goto(o, at),
           UNCHANGED <<bookVars, resp, req, filledQty, tradeRows, cancel>>,
           LedgerTypeOK', Settled' = Settled, faults' \in 0..MaxFaults,
           status' \in [Orders -> Statuses],
           \A p \in Orders : status'[p] = "FILLED" => status[p] = "FILLED",
           at \in {"idle", "create", "submit"} => place[o].at \in {"idle", "create", "submit"},
           at \notin {"settle", "insert", "read", "update"}
    PROVE  FlowConsistent'
<1>1. PICK r \in PlaceRecord : /\ place' = [place EXCEPT ![o] = r] /\ r.at = at
                               /\ r.filled = place[o].filled
  BY GotoFacts
<1> QED BY <1>1, PlainPlace

\* The collateral of an order.
LEMMA CollateralType ==
    ASSUME FlowConsistent, NEW o \in Orders, NEW q \in Int
    PROVE  CollateralAsset(req[o]) \in {Base, Quote} /\ CollateralAmount(req[o], q) \in Int
<1> DEFINE p == req[o].price
<1>1. p \in Int
  BY StoreFacts
<1> HIDE DEF p
<1>2. q * p \in Int
  BY <1>1
<1> QED BY <1>2 DEF CollateralAsset, CollateralAmount, p

\* The faults are counted.
LEMMA FaultCounts ==
    ASSUME FlowConsistent, Fault \/ UNCHANGED faults
    PROVE  faults' \in 0..MaxFaults
  BY StoreFacts, MaxFaultsAssumption DEF Fault

\* The collateral is frozen, or there is not enough.
LEMMA PlaceFreezeKeeps ==
    ASSUME FlowConsistent, NEW o \in Orders, PlaceFreeze(o)
    PROVE  FlowConsistent'
<1> DEFINE asset == CollateralAsset(req[o])
           amount == CollateralAmount(req[o], req[o].quantity)
<1>1. asset \in {Base, Quote} /\ amount \in Int /\ req[o].user \in Users
  BY CollateralType, StoreFacts
<1>2. /\ UNCHANGED <<bookVars, resp, req, status, filledQty, tradeRows, cancel, faults>>
      /\ \/ Freeze(req[o].user, asset, amount, o) /\ Goto(o, "create")
         \/ Goto(o, "failed") /\ UNCHANGED accountVars
  BY DEF PlaceFreeze, storeVars
<1> HIDE DEF asset, amount
<1>3. LedgerTypeOK' /\ Settled' = Settled
  BY <1>1, <1>2, StoreFacts, CollateralMoves, NoMoneyMoves
<1>4. Goto(o, "create") \/ Goto(o, "failed")
  BY <1>2
<1>5. "create" \in PlaceStages /\ "failed" \in PlaceStages
  BY DEF PlaceStages
<1>6. faults' \in 0..MaxFaults
  BY <1>2, FaultCounts
<1>7. status' \in [Orders -> Statuses]
  BY <1>2, StoreFacts
<1>8. CASE Goto(o, "create")
  <2>1. place[o].at = "idle"
    BY DEF PlaceFreeze
  <2> QED BY <1>2, <1>3, <1>5, <1>6, <1>7, <1>8, <2>1, PlainGoto
<1>9. CASE Goto(o, "failed")
  BY <1>2, <1>3, <1>5, <1>6, <1>7, <1>9, PlainGoto
<1> QED BY <1>4, <1>8, <1>9

\* The row is created, or not.
LEMMA CreateOrderKeeps ==
    ASSUME FlowConsistent, NEW o \in Orders, CreateOrder(o)
    PROVE  FlowConsistent'
<1>1. /\ UNCHANGED <<bookVars, resp, req, filledQty, tradeRows, cancel>>
      /\ LedgerTypeOK' /\ Settled' = Settled /\ place[o].at = "create"
  BY NoMoneyMoves DEF CreateOrder
<1>2. "submit" \in PlaceStages /\ "undo" \in PlaceStages
  BY DEF PlaceStages
<1>3. faults' \in 0..MaxFaults
  BY FaultCounts DEF CreateOrder
<1>4. CASE status' = [status EXCEPT ![o] = "NEW"] /\ Goto(o, "submit")
  <2>1. /\ status' \in [Orders -> Statuses]
        /\ \A p \in Orders : status'[p] = "FILLED" => status[p] = "FILLED"
    BY <1>4, StoreFacts DEF Statuses
  <2> QED BY <1>1, <1>2, <1>3, <1>4, <2>1, PlainGoto
<1>5. CASE UNCHANGED status /\ Goto(o, "undo")
  <2>1. status' \in [Orders -> Statuses]
    BY <1>5, StoreFacts
  <2> QED BY <1>1, <1>2, <1>3, <1>5, <2>1, PlainGoto
<1> QED BY <1>4, <1>5 DEF CreateOrder

\* The compensation of a placement.
LEMMA PlaceUndoKeeps ==
    ASSUME FlowConsistent, NEW o \in Orders, PlaceUndo(o)
    PROVE  FlowConsistent'
<1> DEFINE asset == CollateralAsset(req[o])
           amount == CollateralAmount(req[o], req[o].quantity)
<1>1. asset \in {Base, Quote} /\ amount \in Int /\ req[o].user \in Users
  BY CollateralType, StoreFacts
<1>2. /\ UNCHANGED <<bookVars, resp, req, status, filledQty, tradeRows, cancel, faults>>
      /\ Goto(o, "failed")
      /\ Unfreeze(req[o].user, asset, amount, o) \/ UNCHANGED accountVars
  BY DEF PlaceUndo, storeVars, UnfreezeIfPossible
<1> HIDE DEF asset, amount
<1>3. LedgerTypeOK' /\ Settled' = Settled
  BY <1>1, <1>2, StoreFacts, CollateralMoves, NoMoneyMoves
<1>4. "failed" \in PlaceStages /\ faults' \in 0..MaxFaults /\ status' \in [Orders -> Statuses]
  BY <1>2, FaultCounts, StoreFacts DEF PlaceStages
<1> QED BY <1>2, <1>3, <1>4, PlainGoto

\* The order is sent to the engine, or the call fails.
LEMMA SubmitOrderKeeps ==
    ASSUME FlowConsistent, NEW o \in Orders, SubmitOrder(o)
    PROVE  FlowConsistent'
<1>1. /\ UNCHANGED <<resp, req, status, filledQty, tradeRows, cancel>>
      /\ LedgerTypeOK' /\ Settled' = Settled
  BY NoMoneyMoves DEF SubmitOrder, storeVars
<1>2. "await" \in PlaceStages /\ "undo" \in PlaceStages /\ status' \in [Orders -> Statuses]
  BY <1>1, StoreFacts DEF PlaceStages
<1>3. faults' \in 0..MaxFaults
  BY FaultCounts DEF SubmitOrder
<1>4. CASE Goto(o, "undo") /\ UNCHANGED bookVars
  BY <1>1, <1>2, <1>3, <1>4, PlainGoto
<1>5. ASSUME NEW now \in clock..MaxClock, Goto(o, "await"),
             Submit(o, req[o].side, req[o].price, req[o].quantity, now)
      PROVE  FlowConsistent'
  <2>1. req[o].side \in Sides /\ req[o].price \in Prices \cup {Market} /\ req[o].quantity \in Quantities
    BY RequestFields
  <2>2. BookNext
    BY <1>5, <2>1 DEF BookNext
  <2>3. BookHolds' /\ BookTypeOK'
    BY <2>2, BookFacts, BookNextKeepsBook DEF BookHolds
  <2>4. AnswersFollowBook' /\ BookMoves
    <3>1. place[o].at = "submit" /\ pc[o] = "idle"
      BY <1>5 DEF SubmitOrder, Submit
    <3>2. ~Submitted(order, o)
      BY <3>1, StoreFacts DEF SentOnce
    <3> QED BY <1>1, <1>5, <3>2, SubmitMoves
  <2>5. PICK r \in PlaceRecord : /\ place' = [place EXCEPT ![o] = r] /\ r.at = "await"
                                 /\ r.filled = place[o].filled
    BY <1>2, <1>5, GotoFacts
  <2>6. /\ place' \in [Orders -> PlaceRecord] /\ place'[o] = r
        /\ \A p \in Orders \ {o} : place'[p] = place[p]
    BY <2>5, StoreFacts
  <2>7. FlowTypeOK'
    BY <1>1, <1>2, <1>3, <2>3, <2>6, StoreFacts, BookFacts, NextTyped
  <2>8. SentOnce'
    <3>1. \A p \in Orders \ {o} : pc'[p] = pc[p] /\ order'[p] = order[p]
      BY <1>5, BookFacts DEF Submit
    <3> QED BY <2>5, <2>6, <3>1, StoreFacts DEF SentOnce, Submitted
  <2> QED BY <1>1, <2>3, <2>4, <2>5, <2>6, <2>7, <2>8, PlainStep
<1> QED BY <1>4, <1>5 DEF SubmitOrder

\* The client gives up, or the request stops.
LEMMA StopKeeps ==
    ASSUME FlowConsistent, NEW o \in Orders, SubmitTimeout(o) \/ PlaceAbandoned(o)
    PROVE  FlowConsistent'
<1>1. /\ UNCHANGED <<bookVars, resp, req, status, filledQty, tradeRows, cancel, accountVars>> /\ Fault
      /\ Goto(o, "undo") \/ Goto(o, "failed")
  BY DEF SubmitTimeout, PlaceAbandoned, storeVars
<1>2. /\ "undo" \in PlaceStages /\ "failed" \in PlaceStages /\ faults' \in 0..MaxFaults
      /\ status' \in [Orders -> Statuses] /\ LedgerTypeOK' /\ Settled' = Settled
  BY <1>1, FaultCounts, NoMoneyMoves, StoreFacts DEF PlaceStages
<1>3. CASE Goto(o, "undo")
  BY <1>1, <1>2, <1>3, PlainGoto
<1>4. CASE Goto(o, "failed")
  BY <1>1, <1>2, <1>4, PlainGoto
<1> QED BY <1>1, <1>3, <1>4

\* The answer arrives.
LEMMA SubmitAnsweredKeeps ==
    ASSUME FlowConsistent, NEW o \in Orders, SubmitAnswered(o)
    PROVE  FlowConsistent'
<1> DEFINE at == IF resp[o].trades = <<>> THEN "own" ELSE "settle"
           r == [place[o] EXCEPT !.at = at, !.k = 1]
<1>1. /\ UNCHANGED <<bookVars, resp, req, status, filledQty, tradeRows, cancel, accountVars, faults>>
      /\ place' = [place EXCEPT ![o] = r]
  BY StoreFacts DEF SubmitAnswered, storeVars
<1>2. faults' \in 0..MaxFaults /\ status' \in [Orders -> Statuses] /\ LedgerTypeOK' /\ Settled' = Settled
  BY <1>1, FaultCounts, NoMoneyMoves, StoreFacts
<1>3. at \in PlaceStages
  BY DEF PlaceStages
<1>4. at = "settle" => 1 \in DOMAIN resp[o].trades
  <2>1. resp[o].trades \in Seq(Trade)
    BY BookFacts
  <2> QED BY <2>1
<1>5. at = "own" \/ at = "settle"
  OBVIOUS
<1> HIDE DEF at
<1>6. r \in PlaceRecord /\ r.at = at /\ r.k = 1 /\ r.filled = place[o].filled
  BY <1>3, StoreFacts DEF PlaceRecord
<1> HIDE DEF r
<1>7. CASE at = "own"
  BY <1>1, <1>2, <1>6, <1>7, PlainPlace
<1>8. CASE at = "settle"
  BY <1>1, <1>2, <1>4, <1>6, <1>8, PlainPlace
<1> QED BY <1>5, <1>7, <1>8

\* What was not filled is released.
LEMMA ReleaseRemainingKeeps ==
    ASSUME FlowConsistent, NEW o \in Orders, ReleaseRemaining(o)
    PROVE  FlowConsistent'
<1> DEFINE left == req[o].quantity - place[o].filled
           asset == CollateralAsset(req[o])
           amount == CollateralAmount(req[o], left)
<1>1. left \in Int
  BY StoreFacts
<1>2. /\ UNCHANGED <<bookVars, resp, req, status, filledQty, tradeRows, cancel, faults>>
      /\ \/ Unfreeze(req[o].user, asset, amount, o) /\ Goto(o, "done")
         \/ Goto(o, "failed") /\ UNCHANGED accountVars
  BY DEF ReleaseRemaining, storeVars
<1> HIDE DEF left
<1>3. asset \in {Base, Quote} /\ amount \in Int /\ req[o].user \in Users
  BY <1>1, CollateralType, StoreFacts
<1> HIDE DEF asset, amount
<1>4. LedgerTypeOK' /\ Settled' = Settled
  BY <1>2, <1>3, StoreFacts, CollateralMoves, NoMoneyMoves
<1>5. "done" \in PlaceStages /\ "failed" \in PlaceStages
  BY DEF PlaceStages
<1>6. faults' \in 0..MaxFaults /\ status' \in [Orders -> Statuses]
  BY <1>2, FaultCounts, StoreFacts
<1>7. CASE Goto(o, "done")
  BY <1>2, <1>4, <1>5, <1>6, <1>7, PlainGoto
<1>8. CASE Goto(o, "failed")
  BY <1>2, <1>4, <1>5, <1>6, <1>8, PlainGoto
<1> QED BY <1>2, <1>7, <1>8

\* The trade a request works on.
LEMMA TradeFacts ==
    ASSUME FlowConsistent, NEW o \in Orders,
           place[o].at \in {"settle", "insert", "read", "update"}
    PROVE  /\ TheTrade(o) \in Trade /\ TheTrade(o).quantity \in Nat
           /\ Maker(o) \in Orders /\ Maker(o) # o /\ Submitted(order, Maker(o))
           /\ {TheTrade(o).buy, TheTrade(o).sell} = {o, Maker(o)}
           /\ <<o, place[o].k>> \in Numbers /\ place[o].k \in DOMAIN resp[o].trades
           /\ Answers[o] = resp[o].trades /\ Answers[o][place[o].k] = TheTrade(o)
           /\ place[o].at # "settle" => <<o, place[o].k>> \in Settled
<1> DEFINE m == Answers[o]
           k == place[o].k
<1>1. k \in DOMAIN resp[o].trades
      /\ (place[o].at # "settle" => <<o, k>> \in Settled)
  BY StoreFacts DEF LedgerFollowsAnswers
<1>2. m = resp[o].trades /\ m[k] = TheTrade(o) /\ MakerIn(TheTrade(o), o) = Maker(o)
  BY DEF Answers, TheTrade, Maker, MakerIn
<1>3. resp[o].trades # <<>>
  BY <1>1
<1>4. MatchOK(m, o, order)
  <2>1. Matches[o] = m
    BY <1>3, BookFacts
  <2> QED BY <2>1, BookFacts DEF AnswersFollowBook
<1>5. /\ m[k] \in Trade /\ MakerIn(m[k], o) \in Orders /\ MakerIn(m[k], o) # o
      /\ {m[k].buy, m[k].sell} = {o, MakerIn(m[k], o)} /\ Submitted(order, MakerIn(m[k], o))
  <2> HIDE DEF m, k
  <2>1. k \in DOMAIN m
    BY <1>1, <1>2
  <2> QED BY <1>4, <2>1, MakerFacts
<1>6. <<o, k>> \in Numbers
  BY <1>1, <1>2, <1>4, MatchLength
<1>7. TheTrade(o).quantity \in Nat
  BY <1>2, <1>5 DEF Trade
<1> QED BY <1>1, <1>2, <1>5, <1>6, <1>7

\* The legs of a settlement.
LEMMA SettlementLegs ==
    ASSUME FlowConsistent, NEW o \in Orders, place[o].at = "settle"
    PROVE  LET t == TheTrade(o)
               buyer == req[t.buy].user
               seller == req[t.sell].user
               n == t.price * t.quantity
           IN  /\ TradeLegs(buyer, seller, Base, Quote, t.quantity, n) \in Seq(Leg)
               /\ TradeRelease(buyer, seller, Base, Quote, t.quantity, n) \in Seq(Leg)
<1> DEFINE t == TheTrade(o)
           buyer == req[t.buy].user
           seller == req[t.sell].user
           p == t.price
           q == t.quantity
           n == p * q
<1>1. t \in Trade
  BY TradeFacts
<1>2. t.buy \in Orders /\ t.sell \in Orders /\ p \in Nat /\ q \in Nat
  BY <1>1 DEF Trade
<1>3. buyer \in Users /\ seller \in Users
  BY <1>2, StoreFacts
<1> HIDE DEF t, p, q, buyer, seller
<1>4. q \in Int /\ n \in Int /\ -q \in Int /\ -n \in Int
  BY <1>2
<1> HIDE DEF n
<1>5. /\ TradeLegs(buyer, seller, Base, Quote, q, n) \in Seq(Leg)
      /\ TradeRelease(buyer, seller, Base, Quote, q, n) \in Seq(Leg)
  BY <1>3, <1>4 DEF TradeLegs, TradeRelease, Leg
<1> QED BY <1>5 DEF t, p, q, n, buyer, seller

\* The trade is settled, or the request ends.
LEMMA SettleMatchKeeps ==
    ASSUME FlowConsistent, NEW o \in Orders, SettleMatch(o)
    PROVE  FlowConsistent'
<1> DEFINE t == TheTrade(o)
           buyer == req[t.buy].user
           seller == req[t.sell].user
           n == t.price * t.quantity
           legs == TradeLegs(buyer, seller, Base, Quote, t.quantity, n)
           release == TradeRelease(buyer, seller, Base, Quote, t.quantity, n)
           x == <<o, place[o].k>>
<1>1. /\ UNCHANGED <<bookVars, resp, req, status, filledQty, tradeRows, cancel, faults>>
      /\ place[o].at = "settle"
      /\ \/ SettleTrade(x, legs, release) /\ Goto(o, "insert")
         \/ Goto(o, "failed") /\ UNCHANGED accountVars
  BY DEF SettleMatch, storeVars
<1>2. legs \in Seq(Leg) /\ release \in Seq(Leg)
  BY <1>1, SettlementLegs
<1> HIDE DEF legs, release
<1>3. "insert" \in PlaceStages /\ "failed" \in PlaceStages /\ faults' \in 0..MaxFaults
      /\ status' \in [Orders -> Statuses]
  BY <1>1, FaultCounts, StoreFacts DEF PlaceStages
<1>4. CASE Goto(o, "failed") /\ UNCHANGED accountVars
  <2>1. LedgerTypeOK' /\ Settled' = Settled
    BY <1>4, NoMoneyMoves
  <2> QED BY <1>1, <1>3, <1>4, <2>1, PlainGoto
<1>5. CASE SettleTrade(x, legs, release) /\ Goto(o, "insert")
  <2>1. x \in Numbers /\ place[o].k \in DOMAIN resp[o].trades
    BY <1>1, TradeFacts
  <2>2. LedgerTypeOK' /\ Settled' = Settled \cup {x} /\ x \notin Settled
    BY <1>2, <1>5, <2>1, StoreFacts, SettlementMoves
  <2>3. BookHolds' /\ BookTypeOK' /\ AnswersFollowBook' /\ BookMoves
    BY <1>1, NoBookStep
  <2>4. place' = [place EXCEPT ![o].at = "insert"]
    BY <1>5 DEF Goto
  <2>5. /\ place' \in [Orders -> PlaceRecord] /\ \A p \in Orders \ {o} : place'[p] = place[p]
        /\ place'[o].at = "insert" /\ place'[o].k = place[o].k /\ place'[o].filled = place[o].filled
    BY <1>3, <2>4, StoreFacts DEF PlaceRecord
  <2>6. FlowTypeOK'
    BY <1>1, <1>3, <2>2, <2>3, <2>5, StoreFacts, BookFacts, NextTyped
  <2>7. resp' = resp /\ filledQty' = filledQty /\ tradeRows' = tradeRows /\ status' = status
    BY <1>1
  <2>8. \A y \in Settled : ~(y[1] = o /\ Pending(place', y))
    <3> SUFFICES ASSUME NEW y \in Settled, y[1] = o, y[2] = place[o].k PROVE FALSE
      BY <2>5 DEF Pending
    <3>1. y = x
      BY DEF Settled, Numbers
    <3> QED BY <2>2, <3>1
  <2>9. tradeRows \subseteq Settled
    BY StoreFacts DEF StoreFollowsLedger
  <2>10. \A y \in Settled' : y \in Settled \/ y[2] \in DOMAIN resp'[y[1]].trades
    BY <2>1, <2>2, <2>7
  <2> HIDE DEF x
  <2>11. <<o, place'[o].k>> \in Settled' /\ <<o, place'[o].k>> \notin Settled /\ Settled \subseteq Settled'
    BY <2>2, <2>5 DEF x
  <2>12. place'[o].k \in DOMAIN resp'[o].trades
    BY <2>1, <2>5, <2>7
  <2>13. SentOnce'
    BY <1>1, <2>5, SentStays
  <2> QED BY <2>3, <2>5, <2>6, <2>7, <2>8, <2>9, <2>10, <2>11, <2>12, <2>13, FlowStep
<1> QED BY <1>1, <1>4, <1>5

\* The quantities the invariant compares are those of sets of answered trades.
LEMMA QtyIsNat ==
    ASSUME FlowConsistent, NEW p \in Orders, NEW pl
    PROVE  /\ Recorded(Answers, Settled, pl, p) \in SUBSET Numbers
           /\ AddedUp(Settled, pl, p) \in SUBSET Numbers
           /\ Qty(Answers, Recorded(Answers, Settled, pl, p)) \in Nat
           /\ Qty(Answers, AddedUp(Settled, pl, p)) \in Nat
<1>1. /\ Recorded(Answers, Settled, pl, p) \in SUBSET Numbers
      /\ AddedUp(Settled, pl, p) \in SUBSET Numbers
  BY StoreFacts DEF Recorded, AddedUp
<1> QED BY <1>1, BookFacts, QtyType

\* A request has a step of its own: nothing else moves, and no trade is
\* answered or settled.
LEMMA OwnStep ==
    ASSUME FlowConsistent, UNCHANGED <<bookVars, accountVars, req, resp, cancel>>,
           NEW o \in Orders, NEW r \in PlaceRecord, place' = [place EXCEPT ![o] = r],
           tradeRows' \subseteq Settled, filledQty' \in [Orders -> Nat],
           status' \in [Orders -> Statuses], faults' \in 0..MaxFaults,
           r.at \in {"insert", "read", "update"} => place[o].at \in {"insert", "read", "update"}
                                                     /\ r.k = place[o].k,
           r.at = "insert" => place[o].at = "insert",
           r.at = "settle" => r.k \in DOMAIN resp[o].trades,
           r.at \in {"idle", "create", "submit"} => place[o].at \in {"idle", "create", "submit"},
           \A p \in Orders : \/ filledQty'[p] = filledQty[p]
                             \/ filledQty'[p] <= Qty(Answers, Recorded(Answers, Settled, place', p)),
           r.at = "update" =>
              r.seen <= Qty(Answers, Recorded(Answers, Settled, place', Maker(o))),
           r.filled = place[o].filled \/ r.filled <= Qty(Answers, AddedUp(Settled, place', o)),
           \A p \in Orders : status'[p] = "FILLED" =>
              status[p] = "FILLED" \/ (Submitted(order, p) /\ remaining[p] = 0)
    PROVE  FlowConsistent'
<1>1. BookHolds' /\ BookTypeOK' /\ AnswersFollowBook' /\ BookMoves
  BY NoBookStep
<1>2. LedgerTypeOK' /\ Settled' = Settled
  BY NoMoneyMoves
<1>3. /\ place' \in [Orders -> PlaceRecord] /\ place'[o] = r
      /\ \A p \in Orders \ {o} : place'[p] = place[p]
  BY StoreFacts
<1>4. tradeRows' \subseteq Orders \X Nat
  <2>1. Settled \subseteq Orders \X Nat
    BY NumbersFinite DEF Settled, Numbers
  <2> QED BY <2>1
<1>5. FlowTypeOK'
  BY <1>1, <1>2, <1>3, <1>4, BookFacts, StoreFacts, NextTyped
<1>6. order' = order /\ resp' = resp /\ remaining' = remaining /\ Answers' = Answers
  BY DEF bookVars, Answers
<1>7. Settled \subseteq Settled' /\ tradeRows' \subseteq Settled'
      /\ \A x \in Settled' : x \in Settled
  BY <1>2
<1>8. \A x \in Settled : x[1] = o /\ Pending(place', x) => Pending(place, x)
  BY <1>3 DEF Pending
<1>9. /\ r.at \in {"insert", "read", "update"} =>
           place[o].at \in {"insert", "read", "update"} /\ <<o, r.k>> \in Settled
           /\ r.k \in DOMAIN resp[o].trades
      /\ r.at = "settle" => r.k \in DOMAIN resp[o].trades
  BY StoreFacts DEF LedgerFollowsAnswers
<1>10. r.at = "update" => Maker(o)' = Maker(o)
  BY <1>3, <1>6 DEF Maker, TheTrade
<1>11. /\ place'[o].at \in {"settle", "insert", "read", "update"} =>
             place'[o].k \in DOMAIN resp'[o].trades
       /\ place'[o].at \in {"insert", "read", "update"} => <<o, place'[o].k>> \in Settled'
       /\ place'[o].at = "insert" => place[o].at = "insert" /\ place'[o].k = place[o].k
  BY <1>2, <1>3, <1>6, <1>9
<1>12. \A p \in Orders : \/ filledQty'[p] = filledQty[p]
                         \/ filledQty'[p] <= Qty(Answers', Recorded(Answers', Settled', place', p))
  BY <1>2, <1>6
<1>13. place'[o].at = "update" =>
         place'[o].seen <= Qty(Answers', Recorded(Answers', Settled', place', Maker(o)'))
  BY <1>2, <1>3, <1>6, <1>10
<1>14. \/ place'[o].filled = place[o].filled
       \/ place'[o].filled <= Qty(Answers', AddedUp(Settled', place', o))
  BY <1>2, <1>3, <1>6
<1>15. \A p \in Orders : status'[p] = "FILLED" =>
          status[p] = "FILLED" \/ (Submitted(order', p) /\ remaining'[p] = 0)
  BY <1>6
<1>16. SentOnce'
  BY <1>3, SentStays
<1> QED BY <1>1, <1>3, <1>5, <1>7, <1>8, <1>11, <1>12, <1>13, <1>14, <1>15, <1>16, FlowStep

\* The trade is recorded, and its quantity added to the own fills.
LEMMA InsertTradeKeeps ==
    ASSUME FlowConsistent, NEW o \in Orders, InsertTrade(o)
    PROVE  FlowConsistent'
<1> DEFINE k == place[o].k
           x == <<o, k>>
           g == place[o].filled
           q == TheTrade(o).quantity
           r == [place[o] EXCEPT !.at = "read", !.filled = g + q]
           S == AddedUp(Settled, place, o)
<1>1. /\ UNCHANGED <<bookVars, accountVars, status, filledQty, req, resp, cancel, faults>>
      /\ place[o].at = "insert" /\ tradeRows' = tradeRows \cup {x}
      /\ place' = [place EXCEPT ![o] = r]
  BY StoreFacts DEF InsertTrade
<1>2. /\ x \in Numbers /\ x \in Settled /\ q \in Nat /\ g \in Nat /\ k \in DOMAIN Answers[o]
      /\ Answers[o][k].quantity = q
  BY <1>1, TradeFacts, StoreFacts
<1>3. g + q \in Nat /\ "read" \in PlaceStages
  BY <1>2 DEF PlaceStages
<1>4. r \in PlaceRecord /\ r.at = "read" /\ r.k = k /\ r.filled = g + q
  BY <1>3, StoreFacts DEF PlaceRecord
<1> HIDE DEF r
<1>5. place'[o] = r
  BY <1>1, StoreFacts
<1>6. AddedUp(Settled, place', o) = S \cup {x} /\ x \notin S
  <2>1. \A y \in Settled : y[1] = o /\ y[2] = k => y = x
    BY DEF Settled, Numbers
  <2>2. x[1] = o /\ x[2] = k
    OBVIOUS
  <2> HIDE DEF x
  <2> QED BY <1>1, <1>2, <1>4, <1>5, <2>1, <2>2 DEF AddedUp
<1> HIDE DEF g, q
<1>7. S \in SUBSET Numbers /\ Qty(Answers, S) \in Nat /\ g <= Qty(Answers, S)
  BY StoreFacts, QtyIsNat DEF StoreFollowsLedger, g
<1> HIDE DEF S
<1>8. Qty(Answers, S \cup {x}) = Qty(Answers, S) + q
  BY <1>2, <1>6, <1>7, BookFacts, QtyAdd
<1>9. r.filled <= Qty(Answers, AddedUp(Settled, place', o))
  BY <1>2, <1>4, <1>6, <1>7, <1>8
<1>10. tradeRows' \subseteq Settled
  BY <1>1, <1>2, StoreFacts DEF StoreFollowsLedger
<1>11. faults' \in 0..MaxFaults /\ filledQty' \in [Orders -> Nat] /\ status' \in [Orders -> Statuses]
  BY <1>1, StoreFacts
<1> QED BY <1>1, <1>4, <1>9, <1>10, <1>11, OwnStep DEF k

\* The counterparty's row is read.
LEMMA ReadMakerKeeps ==
    ASSUME FlowConsistent, NEW o \in Orders, ReadMaker(o)
    PROVE  FlowConsistent'
<1> DEFINE m == Maker(o)
           k == place[o].k
           seen == filledQty[m]
           r == [place[o] EXCEPT !.at = "update", !.seen = seen]
<1>1. /\ UNCHANGED <<bookVars, accountVars, status, filledQty, tradeRows, req, resp, cancel, faults>>
      /\ place[o].at = "read" /\ place' = [place EXCEPT ![o] = r]
  BY StoreFacts DEF ReadMaker, storeVars
<1>2. m \in Orders /\ seen \in Nat /\ "update" \in PlaceStages
  BY <1>1, TradeFacts, StoreFacts DEF PlaceStages
<1>3. seen <= Qty(Answers, Recorded(Answers, Settled, place, m))
  BY <1>2, StoreFacts DEF StoreFollowsLedger
<1> HIDE DEF m, seen
<1>4. r \in PlaceRecord /\ r.at = "update" /\ r.k = k /\ r.seen = seen /\ r.filled = place[o].filled
  BY <1>2, StoreFacts DEF PlaceRecord
<1> HIDE DEF r
<1>5. place'[o] = r /\ \A p \in Orders \ {o} : place'[p] = place[p]
  BY <1>1, StoreFacts
<1>6. \A x \in Settled : Pending(place', x) <=> Pending(place, x)
  <2> TAKE x \in Settled
  <2>1. x[1] \in Orders
    BY DEF Settled, Numbers
  <2> QED BY <1>1, <1>4, <1>5, <2>1 DEF Pending
<1>7. Recorded(Answers, Settled, place', m) = Recorded(Answers, Settled, place, m)
  BY <1>6 DEF Recorded
<1>8. r.seen <= Qty(Answers, Recorded(Answers, Settled, place', Maker(o)))
  BY <1>3, <1>4, <1>7 DEF m
<1>9. faults' \in 0..MaxFaults /\ filledQty' \in [Orders -> Nat] /\ status' \in [Orders -> Statuses]
      /\ tradeRows' \subseteq Settled
  BY <1>1, StoreFacts DEF StoreFollowsLedger
<1> QED BY <1>1, <1>4, <1>8, <1>9, OwnStep DEF k

\* An order whose settled trades amount to its quantity is exhausted.
LEMMA FilledIsExhausted ==
    ASSUME FlowConsistent, NEW p \in Orders, Submitted(order, p), NEW pl, NEW f \in Nat,
           f <= Qty(Answers, Recorded(Answers, Settled, pl, p)), f >= req[p].quantity
    PROVE  remaining[p] = 0
<1> DEFINE R == Recorded(Answers, Settled, pl, p)
           P == PartyOf(Matches, p)
           left == remaining[p]
           q == req[p].quantity
<1>1. \A x \in Settled : x \in Numbers /\ Matches[x[1]] = Answers[x[1]]
  BY SettledFacts
<1>2. R \subseteq Settled /\ R \subseteq PartyOf(Answers, p)
  BY DEF Recorded
<1>3. R \subseteq P
  BY <1>1, <1>2 DEF PartyOf
<1>4. P \subseteq Numbers /\ R \subseteq Numbers
  BY <1>1, <1>2 DEF PartyOf
<1>5. \A x \in R : Answers[x[1]] = Matches[x[1]]
  BY <1>1, <1>2
<1>6. Qty(Matches, P) + left <= order[p].quantity /\ order[p].quantity = q
  BY BookFacts DEF AnswersFollowBook
<1>7. f <= Qty(Answers, R) /\ f >= q /\ left \in Nat /\ q \in Nat
  BY BookFacts, StoreFacts
<1> HIDE DEF R, P, left, q
<1>8. Qty(Answers, R) <= Qty(Matches, P)
  BY <1>3, <1>4, <1>5, BookFacts, QtyStays
<1>9. Qty(Answers, R) \in Nat /\ Qty(Matches, P) \in Nat
  BY <1>4, BookFacts, QtyType
<1>10. left = 0
  BY <1>6, <1>7, <1>8, <1>9
<1> QED BY <1>10 DEF left

\* The counterparty's row is written from what was read, or the write is
\* lost: the trade that is added is not among what the row showed.
LEMMA UpdateMakerKeeps ==
    ASSUME FlowConsistent, NEW o \in Orders, UpdateMaker(o)
    PROVE  FlowConsistent'
<1> DEFINE m == Maker(o)
           k == place[o].k
           x == <<o, k>>
           seen == place[o].seen
           q == TheTrade(o).quantity
           f == seen + q
           l == Len(resp[o].trades)
           at == IF k = l THEN "own" ELSE "settle"
           r == [place[o] EXCEPT !.at = at, !.k = k + 1, !.seen = 0]
           S == Recorded(Answers, Settled, place, m)
           S2 == Recorded(Answers, Settled, place', m)
<1>1. /\ UNCHANGED <<bookVars, accountVars, tradeRows, req, resp, cancel>>
      /\ place[o].at = "update" /\ place' = [place EXCEPT ![o] = r]
      /\ \/ /\ filledQty' = [filledQty EXCEPT ![m] = f]
            /\ status' = [status EXCEPT ![m] = FillStatus(f, req[m].quantity)]
            /\ UNCHANGED faults
         \/ UNCHANGED <<filledQty, status>> /\ Fault
  BY StoreFacts DEF UpdateMaker, Try
<1>2. /\ m \in Orders /\ m # o /\ Submitted(order, m)
      /\ x \in Numbers /\ x \in Settled /\ q \in Nat /\ k \in DOMAIN Answers[o]
      /\ k \in DOMAIN resp[o].trades /\ Answers[o][k].quantity = q
      /\ m \in {Answers[o][k].buy, Answers[o][k].sell}
  BY <1>1, TradeFacts
<1>3. k \in Nat /\ seen \in Nat /\ k + 1 \in Nat /\ f \in Nat
  BY <1>2, StoreFacts
<1>4. at \in PlaceStages /\ (at = "own" \/ (at = "settle" /\ k # l))
  BY DEF PlaceStages
<1>5. k # l => k + 1 \in DOMAIN resp[o].trades
  <2> DEFINE s == resp[o].trades
  <2>1. s \in Seq(Trade)
    BY BookFacts
  <2>2. DOMAIN s = 1..l /\ l \in Nat /\ k \in DOMAIN s
    BY <1>2, <2>1
  <2> HIDE DEF s, l
  <2>3. k # l => k + 1 \in DOMAIN s
    BY <1>3, <2>2
  <2> QED BY <2>3 DEF s
<1> HIDE DEF l, at
<1>6. r \in PlaceRecord /\ r.at = at /\ r.k = k + 1 /\ r.filled = place[o].filled
  BY <1>3, <1>4, StoreFacts DEF PlaceRecord
<1> HIDE DEF r
<1>7. place'[o] = r /\ \A p \in Orders \ {o} : place'[p] = place[p]
  BY <1>1, StoreFacts
<1>8. faults' \in 0..MaxFaults
  BY <1>1, FaultCounts
<1>9. at = "settle" => r.k \in DOMAIN resp[o].trades
  BY <1>4, <1>5, <1>6
<1>10. tradeRows' \subseteq Settled
  BY <1>1, StoreFacts DEF StoreFollowsLedger
<1>11. CASE UNCHANGED <<filledQty, status>>
  <2>1. status' \in [Orders -> Statuses] /\ filledQty' \in [Orders -> Nat]
    BY <1>11, StoreFacts
  <2> QED BY <1>1, <1>2, <1>4, <1>6, <1>8, <1>9, <1>10, <1>11, <2>1, OwnStep
<1>12. CASE /\ filledQty' = [filledQty EXCEPT ![m] = f]
            /\ status' = [status EXCEPT ![m] = FillStatus(f, req[m].quantity)]
  <2>1. seen <= Qty(Answers, S)
    BY <1>1, StoreFacts DEF StoreFollowsLedger
  <2>2. x \notin S /\ S \cup {x} \subseteq S2
    <3>1. x[1] = o /\ x[2] = k
      OBVIOUS
    <3> HIDE DEF x
    <3>2. Pending(place, x)
      BY <1>1, <3>1 DEF Pending, k
    <3>3. ~Pending(place', x)
      BY <1>4, <1>6, <1>7, <3>1 DEF Pending
    <3>4. x \in PartyOf(Answers, m)
      BY <1>2, <3>1 DEF PartyOf
    <3>5. \A y \in Settled : Pending(place', y) => Pending(place, y)
      <4> TAKE y \in Settled
      <4>1. y[1] \in Orders
        BY DEF Settled, Numbers
      <4> QED BY <1>4, <1>6, <1>7, <4>1 DEF Pending
    <3> QED BY <1>2, <3>2, <3>3, <3>4, <3>5 DEF Recorded
  <2>3. /\ S \in SUBSET Numbers /\ S2 \in SUBSET Numbers /\ Qty(Answers, S) \in Nat
        /\ Qty(Answers, S2) \in Nat
    BY <1>2, QtyIsNat
  <2> DEFINE n == Qty(Answers, S)
             n2 == Qty(Answers, S2)
             t == Qty(Answers, S \cup {x})
  <2> HIDE DEF S, S2
  <2>4. t = n + q
    <3>1. x[1] = o /\ x[2] = k
      OBVIOUS
    <3>2. x \in Numbers /\ x \notin S /\ S \in SUBSET Numbers /\ x[2] \in DOMAIN Answers[x[1]]
      BY <1>2, <2>2, <2>3, <3>1
    <3>3. Answers[x[1]][x[2]].quantity = q
      BY <1>2, <3>1
    <3>4. Answers \in TradesByTaker
      BY <1>2, BookFacts
    <3> HIDE DEF x
    <3> QED BY <3>2, <3>3, <3>4, QtyAdd
  <2>5. t <= n2
    BY <1>2, <2>2, <2>3, BookFacts, QtyGrows
  <2> HIDE DEF n, n2, t, seen, q
  <2>6. f <= n2
    BY <1>2, <1>3, <2>1, <2>3, <2>4, <2>5 DEF n, n2
  <2>7. f \in Nat
    BY <1>3
  <2> HIDE DEF f
  <2>8. f >= req[m].quantity => remaining[m] = 0
    BY <1>2, <2>6, <2>7, FilledIsExhausted DEF n2, S2
  <2> HIDE DEF m
  <2>9. filledQty' \in [Orders -> Nat] /\ status' \in [Orders -> Statuses]
    BY <1>2, <1>12, <2>7, StoreFacts DEF FillStatus, Statuses
  <2>10. \A p \in Orders : \/ filledQty'[p] = filledQty[p]
                           \/ filledQty'[p] <= Qty(Answers, Recorded(Answers, Settled, place', p))
    BY <1>2, <1>12, <2>6, StoreFacts DEF n2, S2
  <2>11. \A p \in Orders : status'[p] = "FILLED" =>
            status[p] = "FILLED" \/ (Submitted(order, p) /\ remaining[p] = 0)
    BY <1>2, <1>12, <2>8, StoreFacts DEF FillStatus
  <2> QED BY <1>1, <1>2, <1>4, <1>6, <1>8, <1>9, <1>10, <2>9, <2>10, <2>11, OwnStep
<1> QED BY <1>1, <1>11, <1>12

\* The own row is written from the running total, or the write is lost.
LEMMA UpdateOwnKeeps ==
    ASSUME FlowConsistent, NEW o \in Orders, UpdateOwn(o)
    PROVE  FlowConsistent'
<1> DEFINE f == place[o].filled
           q == req[o].quantity
           at == IF resp[o].resting \/ f >= q THEN "done" ELSE "release"
           r == [place[o] EXCEPT !.at = at]
           st == IF f > 0 THEN FillStatus(f, q) ELSE IF resp[o].resting THEN "NEW" ELSE "CANCELLED"
           S == AddedUp(Settled, place, o)
           S2 == Recorded(Answers, Settled, place', o)
<1>1. /\ UNCHANGED <<bookVars, accountVars, tradeRows, req, resp, cancel>>
      /\ place[o].at = "own" /\ place' = [place EXCEPT ![o] = r]
      /\ \/ /\ filledQty' = [filledQty EXCEPT ![o] = f]
            /\ status' = [status EXCEPT ![o] = st]
            /\ UNCHANGED faults
         \/ UNCHANGED <<filledQty, status>> /\ Fault
  BY StoreFacts DEF UpdateOwn, Try, Goto
<1>2. f \in Nat /\ q \in Nat /\ q > 0
  BY StoreFacts
<1>3. at \in PlaceStages /\ (at = "done" \/ at = "release")
  BY DEF PlaceStages
<1> HIDE DEF at
<1>4. r \in PlaceRecord /\ r.at = at /\ r.k = place[o].k /\ r.filled = f
  BY <1>3, StoreFacts DEF PlaceRecord
<1> HIDE DEF r
<1>5. place'[o] = r /\ \A p \in Orders \ {o} : place'[p] = place[p]
  BY <1>1, StoreFacts
<1>6. faults' \in 0..MaxFaults
  BY <1>1, FaultCounts
<1>7. tradeRows' \subseteq Settled
  BY <1>1, StoreFacts DEF StoreFollowsLedger
<1>8. r.filled = place[o].filled
  BY <1>4
<1>9. CASE UNCHANGED <<filledQty, status>>
  <2>1. status' \in [Orders -> Statuses] /\ filledQty' \in [Orders -> Nat]
    BY <1>9, StoreFacts
  <2> QED BY <1>1, <1>3, <1>4, <1>6, <1>7, <1>8, <1>9, <2>1, OwnStep
<1>10. CASE filledQty' = [filledQty EXCEPT ![o] = f] /\ status' = [status EXCEPT ![o] = st]
  <2>1. S \subseteq S2
    <3> SUFFICES ASSUME NEW x \in S PROVE x \in S2
      OBVIOUS
    <3>1. x \in Settled /\ x \in Numbers /\ x[1] = o
      BY DEF AddedUp, Settled
    <3>2. x[2] \in DOMAIN resp[o].trades /\ Matches[o] = Answers[o]
      BY <3>1, SettledFacts
    <3>3. MatchOK(Answers[o], o, order) /\ Answers[o] = resp[o].trades
      BY <3>2, BookFacts DEF AnswersFollowBook, Answers
    <3>4. o \in {Answers[o][x[2]].buy, Answers[o][x[2]].sell}
      BY <3>2, <3>3 DEF MatchOK
    <3>5. x \in PartyOf(Answers, o)
      BY <3>1, <3>2, <3>3, <3>4 DEF PartyOf
    <3>6. ~Pending(place', x)
      BY <1>3, <1>4, <1>5, <3>1 DEF Pending
    <3> QED BY <3>1, <3>5, <3>6 DEF Recorded
  <2>2. /\ S \in SUBSET Numbers /\ S2 \in SUBSET Numbers /\ Qty(Answers, S) \in Nat
        /\ Qty(Answers, S2) \in Nat /\ f <= Qty(Answers, S)
    BY QtyIsNat, StoreFacts DEF StoreFollowsLedger
  <2>3. f > 0 => Submitted(order, o)
    <3> SUFFICES ASSUME f > 0 PROVE Submitted(order, o)
      OBVIOUS
    <3>1. S # {}
      BY <1>2, <2>2, QtyEqual
    <3>2. PICK x \in Settled : x[1] = o
      BY <3>1 DEF AddedUp
    <3> QED BY <3>2, SettledFacts
  <2>4. f <= Qty(Answers, S2)
    <3> DEFINE n == Qty(Answers, S)
               n2 == Qty(Answers, S2)
    <3> HIDE DEF f, S, S2
    <3>1. n <= n2
      BY <2>1, <2>2, BookFacts, QtyGrows
    <3> HIDE DEF n, n2
    <3>2. f <= n2
      BY <1>2, <2>2, <3>1 DEF n, n2
    <3> QED BY <3>2 DEF n2
  <2> HIDE DEF f
  <2>5. st = "FILLED" => Submitted(order, o) /\ f >= q
    BY <2>3 DEF FillStatus
  <2>6. st = "FILLED" => remaining[o] = 0
    BY <1>2, <2>4, <2>5, FilledIsExhausted
  <2>7. st \in Statuses
    BY DEF Statuses, FillStatus
  <2> HIDE DEF st, q
  <2>8. filledQty' \in [Orders -> Nat] /\ status' \in [Orders -> Statuses]
    BY <1>2, <1>10, <2>7, StoreFacts
  <2>9. \A p \in Orders : \/ filledQty'[p] = filledQty[p]
                          \/ filledQty'[p] <= Qty(Answers, Recorded(Answers, Settled, place', p))
    BY <1>10, <2>4, StoreFacts
  <2>10. \A p \in Orders : status'[p] = "FILLED" =>
            status[p] = "FILLED" \/ (Submitted(order, p) /\ remaining[p] = 0)
    BY <1>10, <2>5, <2>6, StoreFacts
  <2> QED BY <1>1, <1>3, <1>4, <1>6, <1>7, <1>8, <2>8, <2>9, <2>10, OwnStep
<1> QED BY <1>1, <1>9, <1>10
-----------------------------------------------------------------------------
(* The cancellations and the engine *)

\* A step of another actor than PlaceOrder.
LEMMA OtherStep ==
    ASSUME FlowConsistent, NEW o \in Orders, UNCHANGED <<req, place, filledQty, tradeRows>>,
           BookHolds', SentOnce', AnswersFollowBook', BookMoves, LedgerTypeOK', Settled' = Settled,
           resp' \in [Orders -> [trades : Seq(Trade), resting : BOOLEAN]],
           status' \in [Orders -> Statuses], cancel' \in [Orders -> CancelRecord],
           faults' \in 0..MaxFaults,
           \A p \in Orders : status'[p] = "FILLED" => status[p] = "FILLED"
    PROVE  FlowConsistent'
<1>1. FlowTypeOK'
  BY StoreFacts, NextTyped DEF BookHolds
<1>2. place'[o] = place[o] /\ \A p \in Orders \ {o} : place'[p] = place[p]
  OBVIOUS
<1> QED BY <1>1, <1>2, PlainStep

\* The local state of a cancellation.
LEMMA CancelGotoFacts ==
    ASSUME FlowConsistent, NEW o \in Orders,
           NEW at \in {"idle", "done", "failed", "book", "unfreeze", "mark"}, CancelGoto(o, at)
    PROVE  cancel' \in [Orders -> CancelRecord]
<1> DEFINE r == [cancel[o] EXCEPT !.at = at]
<1>1. cancel' = [cancel EXCEPT ![o] = r]
  BY StoreFacts DEF CancelGoto
<1>2. r \in CancelRecord
  BY StoreFacts DEF CancelRecord
<1> QED BY <1>1, <1>2, StoreFacts

\* A cancellation that leaves the book alone.
LEMMA OtherQuietStep ==
    ASSUME FlowConsistent, NEW o \in Orders,
           UNCHANGED <<bookVars, req, resp, place, filledQty, tradeRows>>,
           LedgerTypeOK', Settled' = Settled, status' \in [Orders -> Statuses],
           cancel' \in [Orders -> CancelRecord], faults' \in 0..MaxFaults,
           \A p \in Orders : status'[p] = "FILLED" => status[p] = "FILLED"
    PROVE  FlowConsistent'
<1>1. BookHolds' /\ SentOnce' /\ AnswersFollowBook' /\ BookMoves
  BY NoBookStep, SentStays
<1>2. resp' \in [Orders -> [trades : Seq(Trade), resting : BOOLEAN]]
  BY BookFacts
<1> QED BY <1>1, <1>2, OtherStep

\* The order is looked up.
LEMMA CancelLookupKeeps ==
    ASSUME FlowConsistent, NEW o \in Orders, CancelLookup(o)
    PROVE  FlowConsistent'
<1> DEFINE r == [at |-> "book", filled |-> filledQty[o]]
<1>1. /\ UNCHANGED <<bookVars, accountVars, status, filledQty, tradeRows, req, resp, place, faults>>
      /\ cancel' = [cancel EXCEPT ![o] = r]
  BY DEF CancelLookup, storeVars
<1>2. r \in CancelRecord
  BY StoreFacts DEF CancelRecord
<1> HIDE DEF r
<1>3. cancel' \in [Orders -> CancelRecord] /\ LedgerTypeOK' /\ Settled' = Settled
      /\ status' \in [Orders -> Statuses] /\ faults' \in 0..MaxFaults
  BY <1>1, <1>2, StoreFacts, NoMoneyMoves
<1> QED BY <1>1, <1>3, OtherQuietStep

\* The order leaves the book, or is not on it, or the call fails.
LEMMA CancelOnBookKeeps ==
    ASSUME FlowConsistent, NEW o \in Orders, CancelOnBook(o)
    PROVE  FlowConsistent'
<1>1. /\ UNCHANGED <<accountVars, status, filledQty, tradeRows, req, resp, place>>
      /\ CancelGoto(o, "unfreeze") /\ (Fault \/ UNCHANGED faults)
      /\ Cancel(o) \/ UNCHANGED bookVars
  BY DEF CancelOnBook, Try, storeVars
<1>2. /\ cancel' \in [Orders -> CancelRecord] /\ LedgerTypeOK' /\ Settled' = Settled
      /\ status' \in [Orders -> Statuses] /\ faults' \in 0..MaxFaults
      /\ resp' \in [Orders -> [trades : Seq(Trade), resting : BOOLEAN]]
  BY <1>1, CancelGotoFacts, StoreFacts, BookFacts, NoMoneyMoves, FaultCounts
<1>3. CASE UNCHANGED bookVars
  BY <1>1, <1>2, <1>3, OtherQuietStep
<1>4. CASE Cancel(o)
  <2>1. BookNext
    BY <1>4 DEF BookNext
  <2>2. BookHolds' /\ BookTypeOK'
    BY <2>1, BookFacts, BookNextKeepsBook DEF BookHolds
  <2>3. AnswersFollowBook' /\ BookMoves /\ SentOnce'
    <3>1. AnswersFollowBook' /\ BookMoves
      BY <1>1, <1>4, LockAndCancelMove
    <3>2. pc' = pc /\ order' = order
      BY <1>4 DEF Cancel
    <3> QED BY <1>1, <3>1, <3>2, StoreFacts DEF SentOnce
  <2> QED BY <1>1, <1>2, <2>2, <2>3, OtherStep
<1> QED BY <1>1, <1>3, <1>4

\* The remainder is released, or not.
LEMMA CancelUnfreezeKeeps ==
    ASSUME FlowConsistent, NEW o \in Orders, CancelUnfreeze(o)
    PROVE  FlowConsistent'
<1> DEFINE left == req[o].quantity - cancel[o].filled
           asset == CollateralAsset(req[o])
           amount == CollateralAmount(req[o], left)
<1>1. left \in Int
  <2> DEFINE c == cancel[o]
             n == c.filled
             q == req[o].quantity
  <2>1. c \in CancelRecord /\ q \in Nat
    BY StoreFacts
  <2> HIDE DEF c
  <2>2. n \in Nat
    BY <2>1 DEF CancelRecord
  <2> HIDE DEF n, q
  <2>3. q - n \in Int
    BY <2>1, <2>2
  <2> QED BY <2>3 DEF q, n, c
<1>2. /\ UNCHANGED <<bookVars, status, filledQty, tradeRows, req, resp, place>>
      /\ CancelGoto(o, "mark") /\ (Fault \/ UNCHANGED faults)
      /\ Unfreeze(req[o].user, asset, amount, o) \/ UNCHANGED accountVars
  BY DEF CancelUnfreeze, Try, UnfreezeIfPossible, storeVars
<1> HIDE DEF left
<1>3. asset \in {Base, Quote} /\ amount \in Int /\ req[o].user \in Users
  BY <1>1, CollateralType, StoreFacts
<1> HIDE DEF asset, amount
<1>4. LedgerTypeOK' /\ Settled' = Settled
  BY <1>2, <1>3, StoreFacts, CollateralMoves, NoMoneyMoves
<1>5. /\ cancel' \in [Orders -> CancelRecord] /\ status' \in [Orders -> Statuses]
      /\ faults' \in 0..MaxFaults
  BY <1>2, CancelGotoFacts, StoreFacts, FaultCounts
<1> QED BY <1>2, <1>4, <1>5, OtherQuietStep

\* The row is marked, unless the order is no longer open; or the request stops.
LEMMA CancelEndKeeps ==
    ASSUME FlowConsistent, NEW o \in Orders, CancelMark(o) \/ CancelAbandoned(o)
    PROVE  FlowConsistent'
<1>1. /\ UNCHANGED <<bookVars, accountVars, filledQty, tradeRows, req, resp, place>>
      /\ CancelGoto(o, "done") \/ CancelGoto(o, "failed")
      /\ Fault \/ UNCHANGED faults
      /\ status' = [status EXCEPT ![o] = "CANCELLED"] \/ UNCHANGED status
  BY DEF CancelMark, CancelAbandoned, storeVars
<1>2. cancel' \in [Orders -> CancelRecord]
  BY <1>1, CancelGotoFacts
<1>3. /\ status' \in [Orders -> Statuses]
      /\ \A p \in Orders : status'[p] = "FILLED" => status[p] = "FILLED"
  BY <1>1, StoreFacts DEF Statuses
<1>4. LedgerTypeOK' /\ Settled' = Settled /\ faults' \in 0..MaxFaults
  BY <1>1, NoMoneyMoves, FaultCounts
<1> QED BY <1>1, <1>2, <1>3, <1>4, OtherQuietStep

\* A step of the matching engine.
LEMMA BookStepKeeps ==
    ASSUME FlowConsistent, NEW o \in Orders, BookStep(o)
    PROVE  FlowConsistent'
<1>1. UNCHANGED <<accountVars, status, filledQty, tradeRows, req, place, cancel, faults>>
  BY DEF BookStep, storeVars
<1>2. /\ LedgerTypeOK' /\ Settled' = Settled /\ status' \in [Orders -> Statuses]
      /\ cancel' \in [Orders -> CancelRecord] /\ faults' \in 0..MaxFaults
  BY <1>1, NoMoneyMoves, StoreFacts
<1> QED BY <1>1, <1>2, EngineStep, OtherStep

\* Every step keeps the invariant.
LEMMA StepIsConsistent ==
    ASSUME FlowConsistent, [FlowNext]_flowVars
    PROVE  FlowConsistent'
<1>1. CASE UNCHANGED flowVars
  <2>1. UNCHANGED <<bookVars, accountVars, status, filledQty, tradeRows, req, resp, place, cancel, faults>>
    BY <1>1 DEF flowVars, storeVars
  <2>2. /\ LedgerTypeOK' /\ Settled' = Settled /\ status' \in [Orders -> Statuses]
        /\ cancel' \in [Orders -> CancelRecord] /\ faults' \in 0..MaxFaults
    BY <2>1, NoMoneyMoves, StoreFacts
  <2>3. CASE Orders # {}
    BY <2>1, <2>2, <2>3, OtherQuietStep
  <2>4. CASE Orders = {}
    <3>1. BookHolds' /\ SentOnce' /\ AnswersFollowBook'
      BY <2>1, <2>4, NoBookStep DEF SentOnce
    <3>2. FlowTypeOK'
      BY <2>1, <2>2, <3>1, StoreFacts, BookFacts, NextTyped DEF BookHolds
    <3>3. Settled = {}
      BY <2>4 DEF Settled, Numbers
    <3>4. tradeRows' \subseteq Settled'
      BY <2>1, <2>2, StoreFacts DEF StoreFollowsLedger
    <3> QED BY <2>2, <2>4, <3>1, <3>2, <3>3, <3>4
            DEF FlowConsistent, LedgerFollowsAnswers, StoreFollowsLedger
  <2> QED BY <2>3, <2>4
<1>2. ASSUME NEW o \in Orders, PlaceStep(o) PROVE FlowConsistent'
  BY <1>2, PlaceFreezeKeeps, CreateOrderKeeps, PlaceUndoKeeps, SubmitOrderKeeps, StopKeeps,
     SubmitAnsweredKeeps, SettleMatchKeeps, InsertTradeKeeps, ReadMakerKeeps, UpdateMakerKeeps,
     UpdateOwnKeeps, ReleaseRemainingKeeps DEF PlaceStep
<1>3. ASSUME NEW o \in Orders, CancelStep(o) PROVE FlowConsistent'
  BY <1>3, CancelLookupKeeps, CancelOnBookKeeps, CancelUnfreezeKeeps, CancelEndKeeps DEF CancelStep
<1> QED BY <1>1, <1>2, <1>3, BookStepKeeps DEF FlowNext
-----------------------------------------------------------------------------
(* The theorems *)

\* The accounts start funded, with nothing settled.
LEMMA AccountsStart ==
    ASSUME LedgerInit
    PROVE  LedgerTypeOK /\ Settled = {}
<1> DEFINE assets == {Base, Quote}
<1>1. /\ users = Seeded /\ entries = [r \in {} |-> <<>>]
      /\ available = [u \in Users |-> [a \in assets |-> IF u \in Seeded THEN Funding[a] ELSE 0]]
      /\ frozen = [u \in Users |-> [a \in assets |-> 0]]
  BY DEF LedgerInit
<1>2. \A a \in assets : Funding[a] \in Nat
  BY AccountsAssumption
<1>3. available \in [Users -> [assets -> Nat]] /\ frozen \in [Users -> [assets -> Nat]]
  BY <1>1, <1>2
<1>4. DOMAIN entries = {}
  BY <1>1
<1> QED BY <1>1, <1>3, <1>4, AccountsAssumption DEF LedgerTypeOK, Settled

\* The invariant holds at the start.
LEMMA FlowStartsConsistent == FlowInit => FlowConsistent
<1> SUFFICES ASSUME FlowInit PROVE FlowConsistent
  OBVIOUS
<1>1. /\ BookTypeOK /\ LedgerTypeOK /\ Settled = {}
  BY InitEstablishesBookInv, AccountsStart DEF FlowInit, BookInv
<1>2. /\ mu = None /\ fills = <<>> /\ bids = <<>> /\ asks = <<>> /\ pc = [o \in Orders |-> "idle"]
      /\ remaining = [o \in Orders |-> 0] /\ order = [o \in Orders |-> Unsubmitted]
  BY DEF FlowInit, BookInit
<1>3. /\ req \in [Orders -> Requests] /\ tradeRows = {} /\ faults = 0
      /\ status = [o \in Orders |-> "NOROW"] /\ filledQty = [o \in Orders |-> 0]
      /\ resp = [o \in Orders |-> [trades |-> <<>>, resting |-> FALSE]]
      /\ place = [o \in Orders |-> [at |-> "idle", k |-> 0, filled |-> 0, seen |-> 0]]
      /\ cancel = [o \in Orders |-> [at |-> "idle", filled |-> 0]]
  BY DEF FlowInit
<1>4. FlowTypeOK
  <2>1. resp \in [Orders -> [trades : Seq(Trade), resting : BOOLEAN]]
    BY <1>3
  <2>2. place \in [Orders -> PlaceRecord] /\ cancel \in [Orders -> CancelRecord]
    BY <1>3 DEF PlaceRecord, CancelRecord, PlaceStages
  <2>3. status \in [Orders -> Statuses] /\ filledQty \in [Orders -> Nat] /\ faults \in 0..MaxFaults
    BY <1>3, MaxFaultsAssumption DEF Statuses
  <2> QED BY <1>1, <1>3, <2>1, <2>2, <2>3, FlowTyped
<1>5. /\ Matches = [o \in Orders |-> <<>>] /\ Answers = [o \in Orders |-> <<>>]
      /\ Matches \in TradesByTaker /\ Answers \in TradesByTaker
  BY <1>2, <1>3 DEF Matches, Answers, TradesByTaker
<1>6. \A o \in Orders : PartyOf(Matches, o) = {}
  BY <1>5 DEF PartyOf, Numbers
<1>7. \A o \in Orders : Qty(Matches, PartyOf(Matches, o)) = 0
  BY <1>6, QtyEqual
<1>8. AnswersFollowBook
  <2>1. \A o \in Orders : MatchOK(Matches[o], o, order)
    BY <1>5 DEF MatchOK
  <2>2. \A o \in Orders : mu # o
    BY <1>2, NoneAssumption
  <2>3. \A o \in Orders : Qty(Matches, PartyOf(Matches, o)) + remaining[o] <= order[o].quantity
    BY <1>2, <1>7 DEF Unsubmitted
  <2>4. \A o \in Orders : resp[o].trades = <<>> /\ ~Submitted(order, o)
    BY <1>2, <1>3 DEF Submitted, Unsubmitted
  <2> QED BY <2>1, <2>2, <2>3, <2>4 DEF AnswersFollowBook
<1>9. LedgerFollowsAnswers
  BY <1>1, <1>3 DEF LedgerFollowsAnswers
<1>10. StoreFollowsLedger
  <2>1. \A o \in Orders : AddedUp(Settled, place, o) = {} /\ Recorded(Answers, Settled, place, o) = {}
    BY <1>1 DEF AddedUp, Recorded
  <2>2. \A o \in Orders : /\ Qty(Answers, AddedUp(Settled, place, o)) = 0
                          /\ Qty(Answers, Recorded(Answers, Settled, place, o)) = 0
    BY <2>1, QtyEqual
  <2>3. \A o \in Orders : /\ filledQty[o] = 0 /\ place[o].filled = 0
                          /\ place[o].at = "idle" /\ status[o] = "NOROW"
    BY <1>3
  <2>4. tradeRows \subseteq Settled
    BY <1>3
  <2> QED BY <2>2, <2>3, <2>4 DEF StoreFollowsLedger
<1>11. BookHolds
  BY <1>1, <1>2, NoneAssumption DEF BookHolds, Resting, IsInjective, Range
<1>12. SentOnce
  BY <1>2 DEF SentOnce, Submitted, Unsubmitted
<1> QED BY <1>4, <1>8, <1>9, <1>10, <1>11, <1>12 DEF FlowConsistent

\* The engine's answers, the ledger and the store keep step, however the
\* requests, the cancellations and the matches interleave and wherever a
\* request stops: what has been settled was matched, and what the store shows
\* or is about to be told was settled.
THEOREM FlowIsConsistent == FlowSpec => []FlowConsistent
<1>1. FlowInit => FlowConsistent
  BY FlowStartsConsistent
<1>2. FlowConsistent /\ [FlowNext]_flowVars => FlowConsistent'
  BY StepIsConsistent
<1> QED BY <1>1, <1>2, PTL DEF FlowSpec

\* Types: of the book, of the accounts and of every request's local state.
THEOREM FlowIsTyped == FlowSpec => []FlowTypeOK
<1>1. FlowConsistent => FlowTypeOK
  BY DEF FlowConsistent
<1> QED BY <1>1, FlowIsConsistent, PTL

\* A trade row exists only for a settled trade: settleMatch comes before
\* InsertTrade, and an error of it ends PlaceOrder.
THEOREM TradeRowsFollowSettlements == FlowSpec => []TradeRowsAreSettled
<1>1. FlowConsistent => TradeRowsAreSettled
  BY DEF FlowConsistent, StoreFollowsLedger, TradeRowsAreSettled, Settled
<1> QED BY <1>1, FlowIsConsistent, PTL

\* The trades SettledQty sums are those of the invariant.
LEMMA SettledQtyIsQty ==
    ASSUME FlowConsistent, NEW o \in Orders
    PROVE  /\ SettledTrades(o) = PartyOf(Answers, o) \cap Settled
           /\ SettledQty(o) = Qty(Answers, SettledTrades(o))
<1> DEFINE S == SettledTrades(o)
           f == [x \in S |-> resp[x[1]].trades[x[2]].quantity]
<1>1. \A x \in Settled : x[1] \in Orders /\ x[2] \in DOMAIN Answers[x[1]]
                         /\ Answers[x[1]] = resp[x[1]].trades
  BY StoreFacts DEF LedgerFollowsAnswers, Answers, Settled, Numbers
<1>2. S = PartyOf(Answers, o) \cap Settled
  <2>1. \A x \in Numbers : x[1] \in Orders /\ Answers[x[1]] = resp[x[1]].trades
    BY DEF Answers, Numbers
  <2>2. \A x \in Numbers : x \in S <=>
           x \in Settled /\ o \in {Answers[x[1]][x[2]].buy, Answers[x[1]][x[2]].sell}
    BY <2>1 DEF SettledTrades, Settled, Numbers
  <2>3. S \subseteq Numbers
    BY DEF SettledTrades, Numbers
  <2> QED BY <1>1, <2>2, <2>3 DEF PartyOf
<1>3. IsFiniteSet(S) /\ S \subseteq Numbers
  BY <1>2, NumbersFinite DEF PartyOf
<1>4. \A x \in S : f[x] = QtyAt(Answers)[x]
  BY <1>1, <1>2, <1>3 DEF QtyAt
<1>5. SettledQty(o) = SumFunctionOnSet(f, S)
  BY DEF SettledQty, SumFunction, SumFunctionOnSet, FoldFunction
<1> HIDE DEF f, S
<1>6. SumFunctionOnSet(f, S) = SumFunctionOnSet(QtyAt(Answers), S)
  BY <1>3, <1>4, SumEqual
<1> QED BY <1>2, <1>5, <1>6 DEF Qty, S

\* What the invariant says of an order's row, its settlements and its match.
LEMMA ConsistentIsSafe ==
    ASSUME FlowConsistent
    PROVE  FilledIsSettledAndMatched
<1> SUFFICES ASSUME NEW o \in Orders
             PROVE  /\ filledQty[o] <= SettledQty(o)
                    /\ SettledQty(o) + remaining[o] <= order[o].quantity
                    /\ status[o] = "FILLED" => o \notin Resting /\ remaining[o] = 0
  BY DEF FilledIsSettledAndMatched
<1> DEFINE R == Recorded(Answers, Settled, place, o)
           S == PartyOf(Answers, o) \cap Settled
           P == PartyOf(Matches, o)
           fq == filledQty[o]
           left == remaining[o]
           all == order[o].quantity
<1>1. SettledQty(o) = Qty(Answers, S)
  BY SettledQtyIsQty
<1>2. \A x \in Settled : x \in Numbers /\ Answers[x[1]] = Matches[x[1]]
  BY SettledFacts
<1>3. R \subseteq S /\ S \subseteq P /\ S \subseteq Numbers /\ R \subseteq Numbers /\ P \subseteq Numbers
      /\ \A x \in S : Answers[x[1]] = Matches[x[1]]
  BY <1>2 DEF Recorded, PartyOf
<1>4. /\ fq <= Qty(Answers, R) /\ Qty(Matches, P) + left <= all
      /\ fq \in Nat /\ left \in Nat /\ all \in Nat
  BY StoreFacts, BookFacts, QuantityFacts DEF StoreFollowsLedger, AnswersFollowBook
<1>5. status[o] = "FILLED" => left = 0
  BY StoreFacts DEF StoreFollowsLedger
<1>6. o \in Resting => left > 0
  BY BookFacts DEF BookHolds
<1> HIDE DEF R, S, P, fq, left, all
<1>7. Qty(Answers, R) <= Qty(Answers, S) /\ Qty(Answers, S) <= Qty(Matches, P)
  BY <1>3, BookFacts, QtyGrows, QtyStays
<1>8. Qty(Answers, R) \in Nat /\ Qty(Answers, S) \in Nat /\ Qty(Matches, P) \in Nat
  BY <1>3, BookFacts, QtyType
<1>9. fq <= Qty(Answers, S) /\ Qty(Answers, S) + left <= all
  BY <1>4, <1>7, <1>8
<1>10. status[o] = "FILLED" => o \notin Resting /\ left = 0
  BY <1>4, <1>5, <1>6
<1> QED BY <1>1, <1>9, <1>10 DEF fq, left, all

\* The store never shows more filled than the ledger has settled, the ledger
\* never settles more than the book has matched, and an order shown as FILLED
\* is exhausted and off the book.  The read-add-write update of a counterparty
\* cannot count a trade twice: the trade a request is about to add is pending,
\* and what the store shows is bounded by the trades that are not.
THEOREM FillsAreSettledAndMatched == FlowSpec => []FilledIsSettledAndMatched
  BY ConsistentIsSafe, FlowIsConsistent, PTL

\* The requests reach the engine by its API only, so that its book keeps its
\* whole invariant under the order flow.
THEOREM FlowKeepsTheBook == FlowSpec => []BookInv
<1>1. FlowInit => BookInv
  BY InitEstablishesBookInv DEF FlowInit
<1>2. ASSUME BookInv, (FlowConsistent), (FlowConsistent)', [FlowNext]_flowVars PROVE BookInv'
  <2>1. [BookNext]_bookVars
    <3>1. CASE UNCHANGED flowVars
      BY <3>1 DEF flowVars
    <3>2. ASSUME NEW o \in Orders, BookStep(o) PROVE [BookNext]_bookVars
      BY <3>2 DEF BookStep, BookNext
    <3>3. ASSUME NEW o \in Orders, PlaceStep(o) PROVE [BookNext]_bookVars
      <4>1. CASE SubmitOrder(o)
        <5>1. /\ req[o].side \in Sides /\ req[o].price \in Prices \cup {Market}
              /\ req[o].quantity \in Quantities
          BY <1>2, RequestFields
        <5> QED BY <4>1, <5>1 DEF SubmitOrder, BookNext
      <4>2. CASE ~SubmitOrder(o)
        BY <3>3, <4>2 DEF PlaceStep, PlaceFreeze, CreateOrder, PlaceUndo, SubmitTimeout, SubmitAnswered,
           SettleMatch, InsertTrade, ReadMaker, UpdateMaker, UpdateOwn, ReleaseRemaining, PlaceAbandoned
      <4> QED BY <4>1, <4>2
    <3>4. ASSUME NEW o \in Orders, CancelStep(o) PROVE [BookNext]_bookVars
      BY <3>4 DEF CancelStep, CancelLookup, CancelOnBook, Try, CancelUnfreeze, CancelMark,
         CancelAbandoned, BookNext
    <3> QED BY <1>2, <3>1, <3>2, <3>3, <3>4 DEF FlowNext
  <2> QED BY <1>2, <2>1, NextPreservesBookInv
<1> QED BY <1>1, <1>2, FlowIsConsistent, PTL DEF FlowSpec
-----------------------------------------------------------------------------
(* An engine that stops and starts *)

\* The engine's own quotes: no PlaceOrder sends them.
SeedFor(o) == IF o \in BidQuotes THEN SeedOrder("BUY", SeedBid) ELSE SeedOrder("SELL", SeedAsk)

LifeConsistent ==
    /\ FlowConsistent
    /\ LifeTypeOK
    /\ \A o \in Quotes : place[o].at = "idle" /\ req[o] = SeedFor(o)

\* The order flow works on one request at a time.
LEMMA OthersWait ==
    ASSUME FlowConsistent, NEW o \in Orders, BookStep(o) \/ PlaceStep(o) \/ CancelStep(o)
    PROVE  req' = req /\ \A p \in Orders \ {o} : place'[p] = place[p]
<1>1. CASE BookStep(o)
  BY <1>1 DEF BookStep
<1>2. CASE PlaceStep(o)
  <2>1. req' = req
    BY <1>2 DEF PlaceStep, PlaceFreeze, CreateOrder, PlaceUndo, SubmitOrder, SubmitTimeout, SubmitAnswered,
       SettleMatch, InsertTrade, ReadMaker, UpdateMaker, UpdateOwn, ReleaseRemaining, PlaceAbandoned
  <2>2. \A p \in Orders \ {o} : place'[p] = place[p]
    <3>1. \A at : Goto(o, at) => \A p \in Orders \ {o} : place'[p] = place[p]
      BY StoreFacts DEF Goto
    <3>2. CASE SubmitAnswered(o) \/ InsertTrade(o) \/ ReadMaker(o) \/ UpdateMaker(o)
      BY <3>2, StoreFacts DEF SubmitAnswered, InsertTrade, ReadMaker, UpdateMaker
    <3>3. CASE ~(SubmitAnswered(o) \/ InsertTrade(o) \/ ReadMaker(o) \/ UpdateMaker(o))
      BY <1>2, <3>1, <3>3 DEF PlaceStep, PlaceFreeze, CreateOrder, PlaceUndo, SubmitOrder, SubmitTimeout,
         SettleMatch, UpdateOwn, ReleaseRemaining, PlaceAbandoned
    <3> QED BY <3>2, <3>3
  <2> QED BY <2>1, <2>2
<1>3. CASE CancelStep(o)
  BY <1>3 DEF CancelStep, CancelLookup, CancelOnBook, CancelUnfreeze, CancelMark, CancelAbandoned
<1> QED BY <1>1, <1>2, <1>3

\* Nothing happens to the book of a stopped engine.
LEMMA StoppedBookStays ==
    ASSUME LifeConsistent, ~up, NEW o \in Orders,
           BookStep(o) \/ (PlaceStep(o) /\ ~SubmitOrder(o)) \/ CancelStep(o)
    PROVE  UNCHANGED bookVars
<1>1. /\ Resting = {} /\ mu = None /\ pc[o] \notin {"stamped", "matching"}
      /\ \A x \in Orders : mu # x
  BY NoneAssumption DEF LifeConsistent, LifeTypeOK, InEngine
<1>2. ~BookStep(o)
  BY <1>1 DEF BookStep, MatchLock, MatchFill, MatchReturn
<1>3. ~Cancel(o)
  BY <1>1 DEF Cancel, Resting, Range
<1>4. CASE PlaceStep(o) /\ ~SubmitOrder(o)
  BY <1>4 DEF PlaceStep, PlaceFreeze, CreateOrder, PlaceUndo, SubmitTimeout, SubmitAnswered,
     SettleMatch, InsertTrade, ReadMaker, UpdateMaker, UpdateOwn, ReleaseRemaining, PlaceAbandoned
<1>5. CASE CancelStep(o)
  BY <1>3, <1>5 DEF CancelStep, CancelLookup, CancelOnBook, Try, CancelUnfreeze, CancelMark, CancelAbandoned
<1> QED BY <1>2, <1>4, <1>5

\* A request or the engine goes on.
LEMMA LifeFlowKeeps ==
    ASSUME LifeConsistent, NEW o \in Orders \ Quotes, UNCHANGED <<up, restarts>>,
           \/ BookStep(o) \/ CancelStep(o)
           \/ (place[o].at = "submit" => up) /\ PlaceStep(o)
    PROVE  LifeConsistent'
<1>1. FlowConsistent'
  BY StepIsConsistent DEF LifeConsistent, FlowNext
<1>2. \A p \in Quotes : place'[p].at = "idle" /\ req'[p] = SeedFor(p)
  <2>1. req' = req /\ \A p \in Orders \ {o} : place'[p] = place[p]
    BY OthersWait DEF LifeConsistent
  <2> QED BY <2>1, EngineLifeAssumption DEF LifeConsistent
<1>3. ~up' => Resting' = {} /\ InEngine' = {} /\ mu' = None
  <2>1. ~up => UNCHANGED bookVars
    BY StoppedBookStays DEF SubmitOrder
  <2> QED BY <2>1 DEF LifeConsistent, LifeTypeOK, bookVars, Resting, InEngine
<1> QED BY <1>1, <1>2, <1>3 DEF LifeConsistent, LifeTypeOK, FlowConsistent

\* The client is refused, or its connection breaks.
LEMMA LifeErrorKeeps ==
    ASSUME LifeConsistent, NEW o \in Orders \ Quotes, UNCHANGED <<up, restarts>>,
           SubmitRefused(o) \/ SubmitReset(o)
    PROVE  LifeConsistent'
<1>1. /\ UNCHANGED <<bookVars, resp, req, status, filledQty, tradeRows, cancel, accountVars, faults>>
      /\ Goto(o, "undo")
  BY DEF SubmitRefused, SubmitReset, storeVars
<1>2. FlowConsistent
  BY DEF LifeConsistent
<1>3. /\ "undo" \in PlaceStages /\ faults' \in 0..MaxFaults
      /\ status' \in [Orders -> Statuses] /\ LedgerTypeOK' /\ Settled' = Settled
  BY <1>1, <1>2, FaultCounts, NoMoneyMoves, StoreFacts DEF PlaceStages
<1>4. FlowConsistent'
  BY <1>1, <1>2, <1>3, PlainGoto
<1>5. req' = req /\ \A p \in Orders \ {o} : place'[p] = place[p]
  BY <1>1, <1>2, StoreFacts DEF Goto
<1>6. \A p \in Quotes : place'[p].at = "idle" /\ req'[p] = SeedFor(p)
  BY <1>5, EngineLifeAssumption DEF LifeConsistent
<1>7. ~up' => Resting' = {} /\ InEngine' = {} /\ mu' = None
  BY <1>1 DEF LifeConsistent, LifeTypeOK, bookVars, Resting, InEngine
<1> QED BY <1>4, <1>6, <1>7 DEF LifeConsistent, LifeTypeOK, FlowConsistent

\* The engine forgets its book and its handlers.
LEMMA StopKeepsLife ==
    ASSUME LifeConsistent, StopEngine
    PROVE  LifeConsistent'
<1>1. FlowConsistent
  BY DEF LifeConsistent
<1>2. PICK unsent \in SUBSET {o \in Orders : pc[o] = "returned" /\ place[o].at = "await"} :
          pc' = [o \in Orders |-> IF o \in InEngine \cup unsent THEN "idle" ELSE pc[o]]
  BY DEF StopEngine
<1>3. /\ up' = FALSE /\ restarts' = restarts + 1 /\ restarts < MaxRestarts
      /\ bids' = <<>> /\ asks' = <<>> /\ trades' = <<>> /\ fills' = <<>> /\ mu' = None
      /\ order' = order /\ remaining' = remaining /\ cancelled' = cancelled /\ tape' = tape /\ clock' = clock
      /\ UNCHANGED <<accountVars, status, filledQty, tradeRows, req, resp, place, cancel, faults>>
  BY DEF StopEngine, storeVars
<1>4. /\ pc' \in [Orders -> {"idle", "stamped", "matching", "returned"}]
      /\ \A o \in Orders : /\ pc'[o] \in {"idle", "returned"}
                           /\ pc[o] \in {"idle", "returned"} =>
                                 pc'[o] = pc[o] \/ (pc'[o] = "idle" /\ place[o].at = "await")
  BY <1>1, <1>2, BookFacts DEF InEngine
<1>5. BookTypeOK'
  BY <1>1, <1>3, <1>4, BookFacts DEF BookTypeOK
<1>6. Resting' = {} /\ InEngine' = {} /\ \A o \in Orders : mu' # o
  BY <1>3, <1>4, NoneAssumption DEF Resting, Range, InEngine
<1>7. BookHolds'
  BY <1>3, <1>4, <1>5, <1>6 DEF BookHolds, IsInjective, Range
<1>8. SentOnce'
  BY <1>1, <1>3, <1>4, StoreFacts DEF SentOnce
<1>9. AnswersFollowBook'
  <2>1. Matches' = Answers
    BY <1>3, <1>6 DEF Matches, Answers
  <2>2. ASSUME NEW o \in Orders PROVE MatchOK(Answers[o], o, order)
    <3>1. CASE resp[o].trades # <<>>
      BY <1>1, <3>1, BookFacts DEF AnswersFollowBook
    <3>2. CASE resp[o].trades = <<>>
      <4>1. Answers[o] = <<>>
        BY <3>2 DEF Answers
      <4>2. MatchOK(<<>>, o, order)
        BY DEF MatchOK
      <4> QED BY <4>1, <4>2
    <3> QED BY <3>1, <3>2
  <2>3. ASSUME NEW o \in Orders
        PROVE  Qty(Answers, PartyOf(Answers, o)) + remaining[o] <= order[o].quantity
    <3> DEFINE P == PartyOf(Answers, o)
               Q == PartyOf(Matches, o)
               n == Qty(Answers, P)
               n2 == Qty(Matches, Q)
               left == remaining[o]
               all == order[o].quantity
    <3>1. P \subseteq Q /\ P \in SUBSET Numbers /\ Q \in SUBSET Numbers
          /\ \A x \in P : Answers[x[1]] = Matches[x[1]]
      <4>1. ASSUME NEW x \in P PROVE x \in Q /\ Answers[x[1]] = Matches[x[1]]
        <5>1. x \in Numbers /\ x[1] \in Orders /\ x[2] \in DOMAIN Answers[x[1]]
          BY DEF PartyOf, Numbers
        <5>2. resp[x[1]].trades # <<>>
          BY <5>1 DEF Answers
        <5>3. Answers[x[1]] = Matches[x[1]]
          BY <1>1, <5>1, <5>2, BookFacts
        <5> QED BY <5>3 DEF PartyOf
      <4> QED BY <4>1 DEF PartyOf
    <3>2. n2 + left <= all /\ left \in Nat /\ all \in Nat
      BY <1>1, BookFacts, QuantityFacts DEF AnswersFollowBook
    <3> HIDE DEF P, Q, left, all
    <3>3. n <= n2 /\ n \in Nat /\ n2 \in Nat
      BY <1>1, <3>1, BookFacts, QtyStays, QtyType
    <3> HIDE DEF n, n2
    <3>4. n + left <= all
      BY <3>2, <3>3
    <3> QED BY <3>4 DEF n, P, left, all
  <2>4. \A o \in Orders : resp'[o].trades # <<>> =>
          Submitted(order', o) /\ pc'[o] \in {"returned", "idle"}
    BY <1>1, <1>3, <1>4, BookFacts DEF AnswersFollowBook
  <2> QED BY <1>1, <1>3, <1>6, <2>1, <2>2, <2>3, <2>4, BookFacts DEF AnswersFollowBook
<1>10. /\ Settled' = Settled /\ Answers' = Answers /\ LedgerTypeOK'
  BY <1>1, <1>3, NoMoneyMoves DEF Answers
<1>11. LedgerFollowsAnswers'
  BY <1>1, <1>3, <1>10, StoreFacts DEF LedgerFollowsAnswers
<1>12. StoreFollowsLedger'
  BY <1>1, <1>3, <1>10, StoreFacts DEF StoreFollowsLedger, Maker, TheTrade
<1>13. FlowTypeOK'
  BY <1>1, <1>3, <1>5, <1>10, StoreFacts, BookFacts, NextTyped
<1>14. restarts' \in 0..MaxRestarts
  BY <1>3, EngineLifeAssumption DEF LifeConsistent, LifeTypeOK
<1>15. \A p \in Quotes : place'[p].at = "idle" /\ req'[p] = SeedFor(p)
  BY <1>3 DEF LifeConsistent
<1> QED BY <1>3, <1>6, <1>7, <1>8, <1>9, <1>11, <1>12, <1>13, <1>14, <1>15
        DEF LifeConsistent, LifeTypeOK, FlowConsistent

\* A quote that is placed had never been at the engine.
LEMMA QuoteFacts ==
    ASSUME LifeConsistent, NEW o \in Quotes
    PROVE  /\ o \in Orders /\ req[o] \in Requests /\ req[o].quantity = SeedQty
           /\ o \in BidQuotes => req[o].side = "BUY"
           /\ o \in AskQuotes => req[o].side = "SELL"
           /\ pc[o] = "idle" => ~Submitted(order, o)
<1>1. FlowConsistent /\ place[o].at = "idle" /\ req[o] = SeedFor(o) /\ o \in Orders
  BY EngineLifeAssumption DEF LifeConsistent
<1>2. pc[o] = "idle" => ~Submitted(order, o)
  BY <1>1, StoreFacts DEF SentOnce
<1> QED BY <1>1, <1>2, StoreFacts, EngineLifeAssumption DEF SeedFor, SeedOrder, Quotes

\* A side with one order.
LEMMA LoneOrder ==
    ASSUME NEW o
    PROVE  Range(<<o>>) = {o} /\ IsInjective(<<o>>)
<1> DEFINE s == <<o>>
<1>1. DOMAIN s = {1} /\ s[1] = o
  OBVIOUS
<1> HIDE DEF s
<1>2. Range(s) = {o} /\ IsInjective(s)
  BY <1>1 DEF Range, IsInjective
<1> QED BY <1>2 DEF s

\* The quotes rest on empty books.
LEMMA LiquidityKeeps ==
    ASSUME LifeConsistent, ~up, Liquidity,
           UNCHANGED <<accountVars, storeVars, req, resp, place, cancel, faults>>
    PROVE  FlowConsistent'
<1>1. FlowConsistent
  BY DEF LifeConsistent
<1>2. PICK b \in Fresh(BidQuotes), a \in Fresh(AskQuotes) :
          /\ order' = [order EXCEPT
                ![b] = [side |-> req[b].side, price |-> req[b].price,
                        quantity |-> req[b].quantity, createdAt |-> clock],
                ![a] = [side |-> req[a].side, price |-> req[a].price,
                        quantity |-> req[a].quantity, createdAt |-> clock]]
          /\ remaining' = [remaining EXCEPT ![b] = SeedQty, ![a] = SeedQty]
          /\ pc' = [pc EXCEPT ![b] = "returned", ![a] = "returned"]
          /\ bids' = <<b>> /\ asks' = <<a>>
          /\ UNCHANGED <<trades, fills, mu, cancelled, tape, clock>>
  BY DEF Liquidity
<1> DEFINE ob == [side |-> req[b].side, price |-> req[b].price,
                  quantity |-> req[b].quantity, createdAt |-> clock]
           oa == [side |-> req[a].side, price |-> req[a].price,
                  quantity |-> req[a].quantity, createdAt |-> clock]
           new == {b, a}
<1>3. /\ b \in BidQuotes /\ a \in AskQuotes /\ pc[b] = "idle" /\ pc[a] = "idle"
      /\ b \in Quotes /\ a \in Quotes /\ a # b
  BY EngineLifeAssumption DEF Fresh, Quotes
<1>4. /\ b \in Orders /\ a \in Orders /\ ~Submitted(order, b) /\ ~Submitted(order, a)
      /\ req[b].side = "BUY" /\ req[b].quantity = SeedQty
      /\ req[a].side = "SELL" /\ req[a].quantity = SeedQty
  BY <1>3, QuoteFacts
<1>5. /\ req[b].side \in Sides /\ req[b].price \in Prices \cup {Market} /\ req[b].quantity \in Quantities
      /\ req[a].side \in Sides /\ req[a].price \in Prices \cup {Market} /\ req[a].quantity \in Quantities
  BY <1>1, <1>4, RequestFields
<1>6. clock \in 0..MaxClock
  BY <1>1, BookFacts DEF BookTypeOK
<1>7. ob \in OrderFields /\ oa \in OrderFields
  BY <1>5, <1>6 DEF OrderFields
<1>8. SeedQty \in Nat /\ SeedQty > 0
  BY <1>1, <1>4, StoreFacts
<1>9. /\ ob.side = "BUY" /\ oa.side = "SELL" /\ ob.quantity = SeedQty /\ oa.quantity = SeedQty
      /\ order' = [order EXCEPT ![b] = ob, ![a] = oa]
  BY <1>2, <1>4
<1> HIDE DEF ob, oa
<1>10. /\ order' \in [Orders -> OrderFields] /\ order'[b] = ob /\ order'[a] = oa
       /\ remaining' \in [Orders -> Nat] /\ remaining'[b] = SeedQty /\ remaining'[a] = SeedQty
       /\ pc' \in [Orders -> {"idle", "stamped", "matching", "returned"}]
       /\ pc'[b] = "returned" /\ pc'[a] = "returned"
       /\ \A o \in Orders \ {b, a} : /\ order'[o] = order[o] /\ remaining'[o] = remaining[o]
                                     /\ pc'[o] = pc[o]
  <2>1. /\ order \in [Orders -> OrderFields] /\ remaining \in [Orders -> Nat]
        /\ pc \in [Orders -> {"idle", "stamped", "matching", "returned"}]
    BY <1>1, BookFacts
  <2>2. /\ order' \in [Orders -> OrderFields] /\ order'[b] = ob /\ order'[a] = oa
        /\ \A o \in Orders \ {b, a} : order'[o] = order[o]
    BY <1>3, <1>4, <1>7, <1>9, <2>1
  <2>3. /\ remaining' \in [Orders -> Nat] /\ remaining'[b] = SeedQty /\ remaining'[a] = SeedQty
        /\ \A o \in Orders \ {b, a} : remaining'[o] = remaining[o]
    BY <1>2, <1>3, <1>4, <1>8, <2>1
  <2>4. /\ pc' \in [Orders -> {"idle", "stamped", "matching", "returned"}]
        /\ pc'[b] = "returned" /\ pc'[a] = "returned"
        /\ \A o \in Orders \ {b, a} : pc'[o] = pc[o]
    BY <1>2, <1>3, <1>4, <2>1
  <2> QED BY <2>2, <2>3, <2>4
<1>11. BookTypeOK'
  <2>1. bids' \in Seq(Orders) /\ asks' \in Seq(Orders)
    BY <1>2, <1>4
  <2> QED BY <1>1, <1>2, <1>10, <2>1, BookFacts DEF BookTypeOK
<1>12. mu = None /\ mu' = None /\ \A o \in Orders : pc[o] # "matching" /\ mu # o
  BY <1>2, NoneAssumption DEF LifeConsistent, LifeTypeOK, InEngine
<1>13. Range(bids') = {b} /\ Range(asks') = {a} /\ IsInjective(bids') /\ IsInjective(asks')
  BY <1>2, LoneOrder
<1>14. BookHolds'
  <2>1. Resting' = {b, a}
    BY <1>13 DEF Resting
  <2>2. \A o \in Orders : pc'[o] # "matching" /\ mu' # o
    BY <1>10, <1>12
  <2> QED BY <1>8, <1>9, <1>10, <1>11, <1>13, <2>1, <2>2 DEF BookHolds
<1>15. SentOnce'
  <2>1. place' = place
    OBVIOUS
  <2> QED BY <1>1, <1>10, <2>1, StoreFacts DEF SentOnce, Submitted
<1>16. AnswersFollowBook' /\ BookMoves
  <2>1. /\ new \in SUBSET Orders /\ \A o \in new : ~Submitted(order, o) /\ mu # o
        /\ \A o \in new : order'[o].quantity = req[o].quantity /\ remaining'[o] = req[o].quantity
        /\ \A o \in Orders \ new : /\ order'[o] = order[o] /\ remaining'[o] = remaining[o]
                                   /\ pc'[o] = pc[o]
    BY <1>4, <1>9, <1>10, <1>12
  <2> HIDE DEF new
  <2> QED BY <1>1, <1>2, <2>1, NewOrdersMove
<1>17. /\ UNCHANGED <<req, place, filledQty, tradeRows>> /\ LedgerTypeOK' /\ Settled' = Settled
       /\ resp' \in [Orders -> [trades : Seq(Trade), resting : BOOLEAN]]
       /\ status' \in [Orders -> Statuses] /\ cancel' \in [Orders -> CancelRecord]
       /\ faults' \in 0..MaxFaults /\ status' = status
  BY <1>1, NoMoneyMoves, StoreFacts, BookFacts DEF storeVars
<1> QED BY <1>1, <1>4, <1>14, <1>15, <1>16, <1>17, OtherStep

\* The engine starts, with or without its quotes.
LEMMA StartKeepsLife ==
    ASSUME LifeConsistent, StartEngine
    PROVE  LifeConsistent'
<1>1. /\ ~up /\ up' = TRUE /\ restarts' = restarts
      /\ UNCHANGED <<accountVars, storeVars, req, resp, place, cancel, faults>>
      /\ UNCHANGED bookVars \/ Liquidity
  BY DEF StartEngine
<1>2. FlowConsistent'
  <2>1. CASE Liquidity
    BY <1>1, <2>1, LiquidityKeeps
  <2>2. CASE UNCHANGED bookVars
    <3>1. UNCHANGED flowVars
      BY <1>1, <2>2 DEF flowVars
    <3> QED BY <3>1, StepIsConsistent DEF LifeConsistent
  <2> QED BY <1>1, <2>1, <2>2
<1>3. \A p \in Quotes : place'[p].at = "idle" /\ req'[p] = SeedFor(p)
  BY <1>1 DEF LifeConsistent
<1> QED BY <1>1, <1>2, <1>3 DEF LifeConsistent, LifeTypeOK, FlowConsistent

\* The invariant of the order flow holds over an engine that stops and starts
\* at any moment, forgets its book and its handlers, and places its own quotes
\* as it starts: what an order has been answered stays matched, whatever
\* became of its rest.
THEOREM LifeIsConsistent == LifeSpec => []LifeConsistent
<1>1. LifeInit => LifeConsistent
  <2> SUFFICES ASSUME LifeInit PROVE LifeConsistent
    OBVIOUS
  <2>1. FlowConsistent
    BY FlowStartsConsistent DEF LifeInit
  <2>2. /\ mu = None /\ bids = <<>> /\ asks = <<>> /\ pc = [o \in Orders |-> "idle"]
        /\ place = [o \in Orders |-> [at |-> "idle", k |-> 0, filled |-> 0, seen |-> 0]]
    BY DEF LifeInit, FlowInit, BookInit
  <2>3. Resting = {} /\ InEngine = {} /\ \A o \in Orders : place[o].at = "idle"
    BY <2>2 DEF Resting, Range, InEngine
  <2>4. \A o \in Quotes : o \in Orders /\ req[o] = SeedFor(o)
    BY EngineLifeAssumption DEF LifeInit, SeedFor, Quotes
  <2>5. up = FALSE /\ restarts \in 0..MaxRestarts
    BY EngineLifeAssumption DEF LifeInit
  <2> QED BY <2>1, <2>2, <2>3, <2>4, <2>5 DEF LifeConsistent, LifeTypeOK, FlowConsistent
<1>2. LifeConsistent /\ [LifeNext]_lifeVars => LifeConsistent'
  <2> SUFFICES ASSUME LifeConsistent, [LifeNext]_lifeVars PROVE LifeConsistent'
    OBVIOUS
  <2>1. CASE UNCHANGED lifeVars
    <3>1. UNCHANGED flowVars /\ UNCHANGED <<up, restarts>>
      BY <2>1 DEF lifeVars
    <3>2. FlowConsistent'
      BY <3>1, StepIsConsistent DEF LifeConsistent
    <3> QED BY <3>1, <3>2 DEF flowVars, bookVars, LifeConsistent, LifeTypeOK, Resting, InEngine, FlowConsistent
  <2>2. ASSUME NEW o \in Orders \ Quotes, BookStep(o) \/ LifePlace(o) \/ CancelStep(o),
               UNCHANGED <<up, restarts>>
        PROVE  LifeConsistent'
    BY <2>2, LifeFlowKeeps, LifeErrorKeeps DEF LifePlace
  <2> QED BY <2>1, <2>2, StopKeepsLife, StartKeepsLife DEF LifeNext
<1> QED BY <1>1, <1>2, PTL DEF LifeSpec

\* The tables and what they say of matched and settled trades, with trades
\* that cannot be settled (the quotes belong to nobody) and a book that is
\* lost while the requests that read its answers go on.
THEOREM LifeIsSafe == LifeSpec => []LifeInv
<1>1. LifeConsistent => LifeInv
  BY ConsistentIsSafe DEF LifeConsistent, LifeInv
<1> QED BY <1>1, LifeIsConsistent, PTL
-----------------------------------------------------------------------------
(* The collateral of the orders *)

\* The orders with a freeze, and with an unfreeze, in the ledger.
Backed == {o \in Orders : <<"freeze", o>> \in DOMAIN entries}
Freed == {o \in Orders : <<"unfreeze", o>> \in DOMAIN entries}

\* What an order has frozen, what of it was unfrozen, what its settled trades
\* sold or bought and released, and what it still holds.
Locked == [o \in Orders |-> IF o \in Backed THEN entries[<<"freeze", o>>][2].amount ELSE 0]
Returned == [o \in Orders |-> Unfrozen(o)]
Sold == [o \in Orders |-> SettledQty(o)]
Spent == [o \in Orders |-> Consumed(o)]
Held == [o \in Orders |-> Locked[o] - Returned[o] - Spent[o]]

OrdersOf(u, a) == {o \in Orders : req[o].user = u /\ CollateralAsset(req[o]) = a}

\* All that is frozen is held by an order.
FrozenIsHeld ==
    \A u \in Users, a \in {Base, Quote} :
        frozen[u][a] = SumFunctionOnSet(Held, OrdersOf(u, a))

\* What trade t takes from the collateral of a party.
Use(t, o) == IF o = t.buy THEN t.price * t.quantity ELSE t.quantity
UseAt(A, o) == [x \in Numbers |-> IF x[2] \in DOMAIN A[x[1]] THEN Use(A[x[1]][x[2]], o) ELSE 0]

\* What a trade takes is a natural number.
LEMMA UseType ==
    ASSUME NEW o
    PROVE  /\ \A t \in Trade : Use(t, o) \in Nat
           /\ \A A \in TradesByTaker : UseAt(A, o) \in [Numbers -> Nat]
<1>1. ASSUME NEW t \in Trade PROVE Use(t, o) \in Nat
  <2>1. t.price \in Nat /\ t.quantity \in Nat
    BY DEF Trade
  <2>2. t.price * t.quantity \in Nat
    BY <2>1, MulNat
  <2> QED BY <2>1, <2>2 DEF Use
<1>2. ASSUME NEW A \in TradesByTaker, NEW x \in Numbers
      PROVE  (IF x[2] \in DOMAIN A[x[1]] THEN Use(A[x[1]][x[2]], o) ELSE 0) \in Nat
  <2>1. A[x[1]] \in Seq(Trade)
    BY DEF Numbers, TradesByTaker
  <2>2. x[2] \in DOMAIN A[x[1]] => A[x[1]][x[2]] \in Trade
    BY <2>1
  <2> QED BY <1>1, <2>2
<1> QED BY <1>1, <1>2 DEF UseAt

\* What the settled trades took from an order, as sums over trade numbers.
SumsOf(o) ==
    /\ SettledTrades(o) \in SUBSET Numbers /\ IsFiniteSet(SettledTrades(o))
    /\ SettledTrades(o) = {x \in Settled : o \in {Answers[x[1]][x[2]].buy, Answers[x[1]][x[2]].sell}}
    /\ Consumed(o) = SumFunctionOnSet(UseAt(Answers, o), SettledTrades(o))
    /\ SettledQty(o) = SumFunctionOnSet(QtyAt(Answers), SettledTrades(o))
    /\ Consumed(o) \in Nat /\ SettledQty(o) \in Nat

LEMMA ConsumedIsUse == FlowConsistent => \A o \in Orders : SumsOf(o)
<1> SUFFICES ASSUME FlowConsistent, NEW o \in Orders PROVE SumsOf(o)
  OBVIOUS
<1> DEFINE S == SettledTrades(o)
           f == [x \in S |-> LET t == resp[x[1]].trades[x[2]] IN
                             IF o = t.buy THEN t.price * t.quantity ELSE t.quantity]
<1>1. \A x \in Settled : x[1] \in Orders /\ x[2] \in DOMAIN Answers[x[1]]
                         /\ Answers[x[1]] = resp[x[1]].trades
  BY StoreFacts DEF LedgerFollowsAnswers, Answers, Settled, Numbers
<1>2. S = PartyOf(Answers, o) \cap Settled /\ SettledQty(o) = SumFunctionOnSet(QtyAt(Answers), S)
  BY SettledQtyIsQty DEF Qty
<1>3. IsFiniteSet(S) /\ S \in SUBSET Numbers
  BY <1>2, NumbersFinite DEF PartyOf
<1>4. S = {x \in Settled : o \in {Answers[x[1]][x[2]].buy, Answers[x[1]][x[2]].sell}}
  BY <1>1, <1>2 DEF PartyOf, Settled
<1>5. \A x \in S : f[x] = UseAt(Answers, o)[x]
  BY <1>1, <1>2, <1>3 DEF UseAt, Use
<1>6. Consumed(o) = SumFunctionOnSet(f, S)
  BY DEF Consumed, SumFunction, SumFunctionOnSet, FoldFunction
<1>7. Answers \in TradesByTaker
  BY BookFacts
<1>8. \A x \in S : UseAt(Answers, o)[x] \in Nat /\ QtyAt(Answers)[x] \in Nat
  BY <1>3, <1>7, UseType, QtyType
<1> HIDE DEF f, S
<1>9. SumFunctionOnSet(f, S) = SumFunctionOnSet(UseAt(Answers, o), S)
  BY <1>3, <1>5, SumEqual
<1>10. SumFunctionOnSet(UseAt(Answers, o), S) \in Nat /\ SumFunctionOnSet(QtyAt(Answers), S) \in Nat
  BY <1>3, <1>8, SumIsNat
<1> QED BY <1>2, <1>3, <1>4, <1>6, <1>9, <1>10 DEF S, SumsOf

\* The same after a step.
LEMMA ConsumedIsUseNext == FlowConsistent' => \A o \in Orders : SumsOf(o)'
<1>1. (FlowConsistent => \A o \in Orders : SumsOf(o))'
  BY ConsumedIsUse, PTL
<1> QED BY <1>1

\* A step that settles nothing and keeps the answers that were settled leaves
\* these sums alone.
LEMMA SettledSumsStay ==
    ASSUME FlowConsistent, FlowConsistent', Settled' = Settled,
           \A x \in Settled : resp'[x[1]] = resp[x[1]]
    PROVE  Sold' = Sold /\ Spent' = Spent
<1>1. ASSUME NEW o \in Orders PROVE SettledQty(o)' = SettledQty(o) /\ Consumed(o)' = Consumed(o)
  <2>1. \A x \in Settled : x[1] \in Orders /\ x \in Numbers /\ Answers'[x[1]] = Answers[x[1]]
    BY SettledFacts DEF Answers
  <2>2. SettledTrades(o)' = SettledTrades(o)
    <3>1. SettledTrades(o)' = {x \in Settled' : o \in {Answers'[x[1]][x[2]].buy, Answers'[x[1]][x[2]].sell}}
      BY ConsumedIsUseNext DEF SumsOf
    <3> QED BY <2>1, <3>1, ConsumedIsUse DEF SumsOf
  <2> DEFINE S == SettledTrades(o)
             g == UseAt(Answers, o)
             h == UseAt(Answers', o)
             q == QtyAt(Answers)
             r == QtyAt(Answers')
  <2>3. \A x \in S : g[x] = h[x] /\ q[x] = r[x]
    BY <2>1, ConsumedIsUse DEF UseAt, QtyAt, SumsOf
  <2>4. /\ IsFiniteSet(S) /\ Consumed(o) = SumFunctionOnSet(g, S) /\ SettledQty(o) = SumFunctionOnSet(q, S)
        /\ Consumed(o)' = SumFunctionOnSet(h, S) /\ SettledQty(o)' = SumFunctionOnSet(r, S)
    BY <2>2, ConsumedIsUse, ConsumedIsUseNext DEF SumsOf
  <2> HIDE DEF S, g, h, q, r
  <2> QED BY <2>3, <2>4, SumEqual
<1> QED BY <1>1 DEF Sold, Spent

\* A settlement adds its trade to the sums of the two parties.
LEMMA SettledSumsGrow ==
    ASSUME FlowConsistent, FlowConsistent', resp' = resp, NEW x \in Numbers, x \notin Settled,
           Settled' = Settled \cup {x}, NEW t, t = resp[x[1]].trades[x[2]], NEW o \in Orders
    PROVE  IF o \in {t.buy, t.sell}
             THEN Sold'[o] = Sold[o] + t.quantity /\ Spent'[o] = Spent[o] + Use(t, o)
             ELSE Sold'[o] = Sold[o] /\ Spent'[o] = Spent[o]
<1> DEFINE S == SettledTrades(o)
           g == UseAt(Answers, o)
           q == QtyAt(Answers)
<1>1. Answers' = Answers /\ x[1] \in Orders /\ Answers[x[1]][x[2]] = t
  BY DEF Answers, Numbers
<1>2. x[2] \in DOMAIN Answers[x[1]]
  BY <1>1 DEF FlowConsistent, LedgerFollowsAnswers, Answers
<1>3. SettledTrades(o)' = {y \in Settled' : o \in {Answers[y[1]][y[2]].buy, Answers[y[1]][y[2]].sell}}
  BY <1>1, ConsumedIsUseNext DEF SumsOf
<1>4. SettledTrades(o)' = IF o \in {t.buy, t.sell} THEN S \cup {x} ELSE S
  BY <1>1, <1>3, ConsumedIsUse DEF SumsOf
<1>5. /\ IsFiniteSet(S) /\ S \in SUBSET Numbers /\ x \notin S
      /\ Consumed(o) = SumFunctionOnSet(g, S) /\ SettledQty(o) = SumFunctionOnSet(q, S)
      /\ Consumed(o)' = SumFunctionOnSet(g, SettledTrades(o)')
      /\ SettledQty(o)' = SumFunctionOnSet(q, SettledTrades(o)')
  BY <1>1, ConsumedIsUse, ConsumedIsUseNext DEF SumsOf
<1>6. Answers \in TradesByTaker
  BY BookFacts
<1>7. \A y \in S \cup {x} : g[y] \in Int /\ q[y] \in Int
  BY <1>5, <1>6, UseType, QtyType
<1>8. g[x] = Use(t, o) /\ q[x] = t.quantity
  BY <1>1, <1>2 DEF UseAt, QtyAt
<1>9. Sold'[o] = SettledQty(o)' /\ Spent'[o] = Consumed(o)' /\ Sold[o] = SettledQty(o) /\ Spent[o] = Consumed(o)
  BY DEF Sold, Spent
<1> HIDE DEF S, g, q
<1>10. /\ SumFunctionOnSet(g, S \cup {x}) = SumFunctionOnSet(g, S) + g[x]
       /\ SumFunctionOnSet(q, S \cup {x}) = SumFunctionOnSet(q, S) + q[x]
  <2>1. SumFunctionOnSet(g, S \cup {x}) = SumFunctionOnSet(g, S) + g[x]
    <3>1. IsFiniteSet(S) /\ x \notin S /\ \A y \in S \cup {x} : g[y] \in Int
      BY <1>5, <1>7
    <3> QED BY <3>1, SumAdd
  <2>2. SumFunctionOnSet(q, S \cup {x}) = SumFunctionOnSet(q, S) + q[x]
    <3>1. IsFiniteSet(S) /\ x \notin S /\ \A y \in S \cup {x} : q[y] \in Int
      BY <1>5, <1>7
    <3> QED BY <3>1, SumAdd
  <2> QED BY <2>1, <2>2
<1>11. CASE o \in {t.buy, t.sell}
  <2>1. SettledTrades(o)' = S \cup {x}
    BY <1>4, <1>11
  <2>2. Consumed(o)' = SumFunctionOnSet(g, S) + g[x] /\ SettledQty(o)' = SumFunctionOnSet(q, S) + q[x]
    BY <1>5, <1>10, <2>1
  <2>3. Sold'[o] = Sold[o] + t.quantity /\ Spent'[o] = Spent[o] + Use(t, o)
    BY <1>5, <1>8, <1>9, <2>2
  <2> QED BY <1>11, <2>3
<1>12. CASE o \notin {t.buy, t.sell}
  BY <1>4, <1>5, <1>9, <1>12
<1> QED BY <1>11, <1>12
-----------------------------------------------------------------------------
(* What the ledger operations do to the collateral *)

\* What a settlement releases from one balance.
LEMMA ReleaseRow ==
    ASSUME NEW buyer, NEW seller, NEW q \in Int, NEW n \in Int, NEW w, NEW b
    PROVE  LET release == TradeRelease(buyer, seller, Base, Quote, q, n)
           IN  RowSum(release, Len(release), w, b)
                 = (IF w = buyer /\ b = Quote THEN n ELSE 0) + (IF w = seller /\ b = Base THEN q ELSE 0)
<1> DEFINE release == TradeRelease(buyer, seller, Base, Quote, q, n)
           f == [i \in 1..2 |-> release[i].amount]
           S == {i \in 1..2 : release[i].user = w /\ release[i].asset = b}
<1>1. /\ Len(release) = 2
      /\ release[1] = [user |-> buyer, asset |-> Quote, amount |-> n]
      /\ release[2] = [user |-> seller, asset |-> Base, amount |-> q]
  BY DEF TradeRelease
<1>2. f[1] = n /\ f[2] = q
  BY <1>1
<1>3. RowSum(release, Len(release), w, b) = SumFunctionOnSet(f, S)
  BY <1>1 DEF RowSum
<1>4. 1 \in S <=> (w = buyer /\ b = Quote)
  BY <1>1
<1>5. 2 \in S <=> (w = seller /\ b = Base)
  BY <1>1
<1>6. S \subseteq {1, 2}
  OBVIOUS
<1> HIDE DEF release, f, S
<1> DEFINE x == 1
           y == 2
<1>7. x # y /\ f[x] \in Int /\ f[y] \in Int
  BY <1>2
<1>8. SumFunctionOnSet(f, {}) = 0
  BY SumEmpty
<1> HIDE DEF x, y
<1>9. SumFunctionOnSet(f, {x}) = f[x] /\ SumFunctionOnSet(f, {y}) = f[y]
  BY <1>7, SumOne
<1>10. SumFunctionOnSet(f, {x, y}) = f[x] + f[y]
  BY <1>7, SumTwo
<1>11. S = IF 1 \in S THEN (IF 2 \in S THEN {x, y} ELSE {x}) ELSE (IF 2 \in S THEN {y} ELSE {})
  BY <1>6 DEF x, y
<1>12. SumFunctionOnSet(f, S) = (IF 1 \in S THEN n ELSE 0) + (IF 2 \in S THEN q ELSE 0)
  <2>1. CASE 1 \in S /\ 2 \in S
    BY <1>2, <1>10, <1>11, <2>1 DEF x, y
  <2>2. CASE 1 \in S /\ 2 \notin S
    BY <1>2, <1>9, <1>11, <2>2 DEF x, y
  <2>3. CASE 1 \notin S /\ 2 \in S
    BY <1>2, <1>9, <1>11, <2>3 DEF x, y
  <2>4. CASE 1 \notin S /\ 2 \notin S
    BY <1>8, <1>11, <2>4
  <2> QED BY <2>1, <2>2, <2>3, <2>4
<1>13. (IF 1 \in S THEN n ELSE 0) = (IF w = buyer /\ b = Quote THEN n ELSE 0)
  BY <1>4
<1>14. (IF 2 \in S THEN q ELSE 0) = (IF w = seller /\ b = Base THEN q ELSE 0)
  BY <1>5
<1> QED BY <1>3, <1>12, <1>13, <1>14 DEF release

\* A freeze locks the collateral of its order.
LEMMA FreezeLocks ==
    ASSUME LedgerTypeOK, NEW u \in Users, NEW a \in {Base, Quote}, NEW n \in Int, NEW o \in Orders,
           Freeze(u, a, n, o)
    PROVE  /\ n > 0 /\ u \in users /\ users' = users /\ o \notin Backed
           /\ Backed' = Backed \cup {o} /\ Freed' = Freed
           /\ Locked[o] = 0 /\ Locked' = [Locked EXCEPT ![o] = n] /\ Returned' = Returned
           /\ \A w \in Users, b \in {Base, Quote} :
                 frozen'[w][b] = frozen[w][b] + (IF w = u /\ b = a THEN n ELSE 0)
<1> DEFINE assets == {Base, Quote}
           legs == CollateralLegs(u, a, -n, n)
<1>1. /\ n > 0 /\ u \in users /\ users' = users /\ <<"freeze", o>> \notin DOMAIN entries
      /\ frozen' = [frozen EXCEPT ![u][a] = @ + n]
      /\ Post(<<"freeze", o>>, legs)
  BY DEF Freeze, FreezeOK
<1>2. legs[2].amount = n
  BY DEF CollateralLegs
<1> HIDE DEF legs
<1>3. /\ DOMAIN entries' = DOMAIN entries \cup {<<"freeze", o>>}
      /\ entries'[<<"freeze", o>>] = legs
      /\ \A r \in DOMAIN entries : entries'[r] = entries[r]
  BY <1>1 DEF Post
<1>4. o \notin Backed /\ Backed' = Backed \cup {o} /\ Freed' = Freed
  BY <1>1, <1>3 DEF Backed, Freed
<1>5. Locked[o] = 0
  BY <1>4 DEF Locked
<1>6. Locked' = [Locked EXCEPT ![o] = n]
  <2>1. Locked' = [p \in Orders |-> IF p \in Backed' THEN entries'[<<"freeze", p>>][2].amount ELSE 0]
    BY DEF Locked
  <2>2. \A p \in Orders : Locked'[p] = IF p = o THEN n ELSE Locked[p]
    BY <1>2, <1>3, <1>4, <2>1 DEF Locked, Backed
  <2> QED BY <2>1, <2>2 DEF Locked
<1>7. Returned' = Returned
  BY <1>3 DEF Returned, Unfrozen
<1>8. \A w \in Users, b \in assets : frozen'[w][b] = frozen[w][b] + (IF w = u /\ b = a THEN n ELSE 0)
  <2>1. frozen \in [Users -> [assets -> Nat]]
    BY DEF LedgerTypeOK
  <2> HIDE DEF assets
  <2> SUFFICES ASSUME NEW w \in Users, NEW b \in assets
               PROVE  frozen'[w][b] = frozen[w][b] + (IF w = u /\ b = a THEN n ELSE 0)
    OBVIOUS
  <2>2. frozen[w][b] \in Nat
    BY <2>1
  <2>3. CASE w = u /\ b = a
    BY <1>1, <2>1, <2>2, <2>3
  <2>4. CASE ~(w = u /\ b = a)
    <3>1. frozen'[w][b] = frozen[w][b]
      BY <1>1, <2>1, <2>4
    <3> QED BY <2>2, <2>4, <3>1
  <2> QED BY <2>3, <2>4
<1> QED BY <1>1, <1>4, <1>5, <1>6, <1>7, <1>8

\* An unfreeze returns some of it.
LEMMA UnfreezeReturns ==
    ASSUME LedgerTypeOK, NEW u \in Users, NEW a \in {Base, Quote}, NEW n \in Int, NEW o \in Orders,
           Unfreeze(u, a, n, o)
    PROVE  /\ n > 0 /\ u \in users /\ users' = users /\ o \notin Freed
           /\ Freed' = Freed \cup {o} /\ Backed' = Backed
           /\ Returned[o] = 0 /\ Returned' = [Returned EXCEPT ![o] = n] /\ Locked' = Locked
           /\ \A w \in Users, b \in {Base, Quote} :
                 frozen'[w][b] = frozen[w][b] - (IF w = u /\ b = a THEN n ELSE 0)
<1> DEFINE assets == {Base, Quote}
           legs == CollateralLegs(u, a, n, -n)
<1>1. /\ n > 0 /\ u \in users /\ users' = users /\ <<"unfreeze", o>> \notin DOMAIN entries
      /\ frozen' = [frozen EXCEPT ![u][a] = @ - n]
      /\ Post(<<"unfreeze", o>>, legs)
  BY DEF Unfreeze, UnfreezeOK
<1>2. legs[1].amount = n
  BY DEF CollateralLegs
<1> HIDE DEF legs
<1>3. /\ DOMAIN entries' = DOMAIN entries \cup {<<"unfreeze", o>>}
      /\ entries'[<<"unfreeze", o>>] = legs
      /\ \A r \in DOMAIN entries : entries'[r] = entries[r]
  BY <1>1 DEF Post
<1>4. o \notin Freed /\ Freed' = Freed \cup {o} /\ Backed' = Backed
  BY <1>1, <1>3 DEF Backed, Freed
<1>5. Returned[o] = 0
  BY <1>1 DEF Returned, Unfrozen
<1>6. Returned' = [Returned EXCEPT ![o] = n]
  <2>1. Returned' = [p \in Orders |-> IF <<"unfreeze", p>> \in DOMAIN entries'
                                        THEN entries'[<<"unfreeze", p>>][1].amount ELSE 0]
    BY DEF Returned, Unfrozen
  <2>2. \A p \in Orders : Returned'[p] = IF p = o THEN n ELSE Returned[p]
    BY <1>2, <1>3, <2>1 DEF Returned, Unfrozen
  <2> QED BY <2>1, <2>2 DEF Returned
<1>7. Locked' = Locked
  BY <1>3, <1>4 DEF Locked, Backed
<1>8. \A w \in Users, b \in assets : frozen'[w][b] = frozen[w][b] - (IF w = u /\ b = a THEN n ELSE 0)
  <2>1. frozen \in [Users -> [assets -> Nat]]
    BY DEF LedgerTypeOK
  <2> HIDE DEF assets
  <2> SUFFICES ASSUME NEW w \in Users, NEW b \in assets
               PROVE  frozen'[w][b] = frozen[w][b] - (IF w = u /\ b = a THEN n ELSE 0)
    OBVIOUS
  <2>2. frozen[w][b] \in Nat
    BY <2>1
  <2>3. CASE w = u /\ b = a
    BY <1>1, <2>1, <2>2, <2>3
  <2>4. CASE ~(w = u /\ b = a)
    <3>1. frozen'[w][b] = frozen[w][b]
      BY <1>1, <2>1, <2>4
    <3> QED BY <2>2, <2>4, <3>1
  <2> QED BY <2>3, <2>4
<1> QED BY <1>1, <1>4, <1>5, <1>6, <1>7, <1>8

\* A settlement releases what its trade takes from the buyer and the seller.
LEMMA SettlementReleases ==
    ASSUME LedgerTypeOK, NEW x \in Numbers, NEW legs, NEW buyer \in Users, NEW seller \in Users,
           NEW q \in Int, NEW n \in Int,
           SettleTrade(x, legs, TradeRelease(buyer, seller, Base, Quote, q, n))
    PROVE  /\ users' = users /\ Backed' = Backed /\ Freed' = Freed
           /\ Locked' = Locked /\ Returned' = Returned
           /\ \A w \in Users, b \in {Base, Quote} :
                 frozen'[w][b] = frozen[w][b] - ((IF w = buyer /\ b = Quote THEN n ELSE 0)
                                                  + (IF w = seller /\ b = Base THEN q ELSE 0))
<1> DEFINE release == TradeRelease(buyer, seller, Base, Quote, q, n)
           fr(u, a) == frozen[u][a] - RowSum(release, Len(release), u, a)
<1>1. /\ frozen' = [u \in Users |-> [a \in {Base, Quote} |-> fr(u, a)]]
      /\ Post(<<"trade", x>>, legs) /\ users' = users
  BY DEF SettleTrade
<1>2. /\ DOMAIN entries' = DOMAIN entries \cup {<<"trade", x>>}
      /\ \A r \in DOMAIN entries : r # <<"trade", x>> => entries'[r] = entries[r]
  BY <1>1 DEF Post
<1>3. Backed' = Backed /\ Freed' = Freed
  BY <1>2 DEF Backed, Freed
<1>4. Locked' = Locked
  BY <1>2, <1>3 DEF Locked, Backed
<1>5. Returned' = Returned
  BY <1>2 DEF Returned, Unfrozen
<1>6. \A w, b : RowSum(release, Len(release), w, b)
                 = (IF w = buyer /\ b = Quote THEN n ELSE 0) + (IF w = seller /\ b = Base THEN q ELSE 0)
  BY ReleaseRow
<1> QED BY <1>1, <1>3, <1>4, <1>5, <1>6
-----------------------------------------------------------------------------
(* All that is frozen is held by an order *)

\* Functions on a finite set that differ at one or two places only.
DifferAt(T, f, g, x) ==
    /\ IsFiniteSet(T) /\ x \in T
    /\ \A y \in T : f[y] \in Int /\ g[y] \in Int
    /\ \A y \in T \ {x} : g[y] = f[y]
DifferAtTwo(T, f, g, x, y) ==
    /\ IsFiniteSet(T) /\ x \in T /\ y \in T /\ x # y
    /\ f \in [T -> Int] /\ g \in [T -> Int]
    /\ \A z \in T \ {x, y} : g[z] = f[z]

\* A sum over a part of T after one summand of T has changed, and after two.
LEMMA SumMoves ==
    ASSUME NEW T, NEW f, NEW g, NEW x, DifferAt(T, f, g, x), NEW S \in SUBSET T
    PROVE  SumFunctionOnSet(g, S) = SumFunctionOnSet(f, S) + (IF x \in S THEN g[x] - f[x] ELSE 0)
<1> USE DEF DifferAt
<1>1. IsFiniteSet(S)
  BY FS_Subset
<1>2. CASE x \in S
  <2>1. /\ \A y \in S : f[y] \in Int /\ g[y] \in Int
        /\ \A y \in S \ {x} : g[y] = f[y]
    OBVIOUS
  <2>2. SumFunctionOnSet(g, S) = SumFunctionOnSet(f, S) + (g[x] - f[x])
    BY <1>1, <1>2, <2>1, SumChange
  <2> QED BY <1>2, <2>2
<1>3. CASE x \notin S
  <2>1. \A y \in S : f[y] = g[y] /\ f[y] \in Int
    BY <1>3
  <2>2. SumFunctionOnSet(g, S) = SumFunctionOnSet(f, S) /\ SumFunctionOnSet(f, S) \in Int
    BY <1>1, <2>1, SumEqual, SumIsInt
  <2> QED BY <1>3, <2>2
<1> QED BY <1>2, <1>3

LEMMA SumMovesTwice ==
    ASSUME NEW T, NEW f, NEW g, NEW x, NEW y, DifferAtTwo(T, f, g, x, y), NEW S \in SUBSET T
    PROVE  SumFunctionOnSet(g, S) = SumFunctionOnSet(f, S)
             + ((IF x \in S THEN g[x] - f[x] ELSE 0) + (IF y \in S THEN g[y] - f[y] ELSE 0))
<1> DEFINE h == [f EXCEPT ![x] = g[x]]
<1>1. /\ h[x] = g[x] /\ h[y] = f[y]
      /\ \A z \in T : f[z] \in Int /\ g[z] \in Int /\ h[z] \in Int
      /\ \A z \in T \ {x} : h[z] = f[z]
      /\ \A z \in T \ {y} : g[z] = h[z]
      /\ IsFiniteSet(T) /\ x \in T /\ y \in T
  BY DEF DifferAtTwo
<1> HIDE DEF h
<1>0. DifferAt(T, f, h, x) /\ DifferAt(T, h, g, y)
  BY <1>1 DEF DifferAt
<1>2. SumFunctionOnSet(h, S) = SumFunctionOnSet(f, S) + (IF x \in S THEN h[x] - f[x] ELSE 0)
  BY <1>0, SumMoves
<1>3. SumFunctionOnSet(g, S) = SumFunctionOnSet(h, S) + (IF y \in S THEN g[y] - h[y] ELSE 0)
  BY <1>0, SumMoves
<1>4. SumFunctionOnSet(f, S) \in Int
  BY <1>1, FS_Subset, SumIsInt
<1> DEFINE a == IF x \in S THEN g[x] - f[x] ELSE 0
           b == IF y \in S THEN g[y] - f[y] ELSE 0
           old == SumFunctionOnSet(f, S)
           mid == SumFunctionOnSet(h, S)
           new == SumFunctionOnSet(g, S)
<1>5. a \in Int /\ b \in Int /\ old \in Int
  BY <1>1, <1>4
<1>6. mid = old + a /\ new = mid + b
  BY <1>1, <1>2, <1>3
<1>7. new = old + (a + b)
  <2> HIDE DEF a, b, old, mid, new
  <2> QED BY <1>5, <1>6
<1> QED BY <1>7

\* The amounts of the freezes and unfreezes.
CollateralTyped == Locked \in [Orders -> Nat] /\ Returned \in [Orders -> Nat]

\* A trade has a buyer and a seller by the requests, too.
HasSides(t, rq) == rq[t.buy].side = "BUY" /\ rq[t.sell].side = "SELL"

TradesHaveSides ==
    /\ \A o \in Orders : Submitted(order, o) => order[o].side = req[o].side
    /\ \A o \in Orders : \A k \in DOMAIN Matches[o] : HasSides(Matches[o][k], req)

HeldConsistent == TradesHaveSides /\ CollateralTyped /\ FrozenIsHeld

\* The types of these sums.
HeldTyped ==
    /\ \A o \in Orders : /\ Locked[o] \in Nat /\ Returned[o] \in Nat /\ Sold[o] \in Nat
                         /\ Spent[o] \in Nat /\ Held[o] \in Int
                         /\ Held[o] = Locked[o] - Returned[o] - Spent[o]
                         /\ Sold[o] = SettledQty(o) /\ Spent[o] = Consumed(o)
                         /\ Returned[o] = Unfrozen(o)
    /\ Held \in [Orders -> Int] /\ Sold \in [Orders -> Nat] /\ Spent \in [Orders -> Nat]

LEMMA HeldFacts == FlowConsistent /\ CollateralTyped => HeldTyped
<1> SUFFICES ASSUME FlowConsistent, CollateralTyped PROVE HeldTyped
  OBVIOUS
<1>1. \A o \in Orders : Locked[o] \in Nat /\ Returned[o] \in Nat /\ Returned[o] = Unfrozen(o)
  BY DEF CollateralTyped, Returned
<1>2. \A o \in Orders : SettledQty(o) \in Nat /\ Consumed(o) \in Nat
  BY ConsumedIsUse DEF SumsOf
<1>3. \A o \in Orders : Sold[o] = SettledQty(o) /\ Spent[o] = Consumed(o)
  BY DEF Sold, Spent
<1>4. \A o \in Orders : Held[o] = Locked[o] - Returned[o] - Spent[o]
  BY DEF Held
<1>5. \A o \in Orders : Locked[o] - Returned[o] - Spent[o] \in Int
  BY <1>1, <1>2, <1>3
<1>6. Held \in [Orders -> Int] /\ Sold \in [Orders -> Nat] /\ Spent \in [Orders -> Nat]
  BY <1>2, <1>5 DEF Held, Sold, Spent
<1> QED BY <1>1, <1>2, <1>3, <1>4, <1>5, <1>6 DEF HeldTyped

LEMMA HeldFactsNext == FlowConsistent' /\ CollateralTyped' => HeldTyped'
<1>1. (FlowConsistent /\ CollateralTyped => HeldTyped)'
  BY HeldFacts, PTL
<1> QED BY <1>1

\* The collateral of an order is of its user, in one of the two assets.
LEMMA OrdersOfFacts ==
    ASSUME FlowConsistent
    PROVE  /\ \A o \in Orders : req[o].user \in Users /\ CollateralAsset(req[o]) \in {Base, Quote}
           /\ \A o \in Orders, u \in Users, a \in {Base, Quote} :
                 o \in OrdersOf(u, a) <=> (u = req[o].user /\ a = CollateralAsset(req[o]))
           /\ \A u, a : OrdersOf(u, a) \in SUBSET Orders
           /\ IsFiniteSet(Orders)
  BY StoreFacts, OrdersAssumption DEF OrdersOf, CollateralAsset

\* What an order holds and what is frozen change together.
LEMMA HeldMoves ==
    ASSUME FlowConsistent, FrozenIsHeld, req' = req, NEW o \in Orders, NEW d \in Int,
           Held \in [Orders -> Int], Held' \in [Orders -> Int], Held'[o] = Held[o] + d,
           \A p \in Orders \ {o} : Held'[p] = Held[p],
           \A w \in Users, b \in {Base, Quote} :
              frozen'[w][b] = frozen[w][b]
                 + (IF w = req[o].user /\ b = CollateralAsset(req[o]) THEN d ELSE 0)
    PROVE  FrozenIsHeld'
<1> SUFFICES ASSUME NEW w \in Users, NEW b \in {Base, Quote}
             PROVE  frozen'[w][b] = SumFunctionOnSet(Held', OrdersOf(w, b)')
  BY DEF FrozenIsHeld
<1> DEFINE S == OrdersOf(w, b)
           f == Held
           g == Held'
<1>1. OrdersOf(w, b)' = S
  BY DEF OrdersOf
<1>2. frozen[w][b] = SumFunctionOnSet(f, S)
  BY DEF FrozenIsHeld
<1>3. IsFiniteSet(Orders) /\ S \in SUBSET Orders
      /\ (o \in S <=> (w = req[o].user /\ b = CollateralAsset(req[o])))
  BY OrdersOfFacts
<1>4. /\ \A p \in Orders : f[p] \in Int /\ g[p] \in Int
      /\ \A p \in Orders \ {o} : g[p] = f[p]
  OBVIOUS
<1>5. frozen'[w][b] = frozen[w][b] + (IF o \in S THEN d ELSE 0)
  BY <1>3
<1> HIDE DEF f, g, S
<1>6. SumFunctionOnSet(g, S) = SumFunctionOnSet(f, S) + (IF o \in S THEN g[o] - f[o] ELSE 0)
  <2>1. DifferAt(Orders, f, g, o)
    BY <1>3, <1>4 DEF DifferAt
  <2> QED BY <1>3, <2>1, SumMoves
<1>7. g[o] - f[o] = d
  <2>1. g[o] = f[o] + d /\ f[o] \in Int
    BY <1>4 DEF f, g
  <2> QED BY <2>1
<1> QED BY <1>1, <1>2, <1>5, <1>6, <1>7 DEF g

LEMMA HeldMovesTwice ==
    ASSUME FlowConsistent, FrozenIsHeld, req' = req, NEW o \in Orders, NEW p \in Orders, o # p,
           NEW d \in Int, NEW e \in Int,
           Held \in [Orders -> Int], Held' \in [Orders -> Int],
           Held'[o] = Held[o] - d, Held'[p] = Held[p] - e,
           \A x \in Orders \ {o, p} : Held'[x] = Held[x],
           \A w \in Users, b \in {Base, Quote} :
              frozen'[w][b] = frozen[w][b]
                 - ((IF w = req[o].user /\ b = CollateralAsset(req[o]) THEN d ELSE 0)
                    + (IF w = req[p].user /\ b = CollateralAsset(req[p]) THEN e ELSE 0))
    PROVE  FrozenIsHeld'
<1> SUFFICES ASSUME NEW w \in Users, NEW b \in {Base, Quote}
             PROVE  frozen'[w][b] = SumFunctionOnSet(Held', OrdersOf(w, b)')
  BY DEF FrozenIsHeld
<1> DEFINE S == OrdersOf(w, b)
           f == Held
           g == Held'
<1>1. OrdersOf(w, b)' = S
  BY DEF OrdersOf
<1>2. frozen[w][b] = SumFunctionOnSet(f, S)
  BY DEF FrozenIsHeld
<1>3. IsFiniteSet(Orders) /\ S \in SUBSET Orders
      /\ (o \in S <=> (w = req[o].user /\ b = CollateralAsset(req[o])))
      /\ (p \in S <=> (w = req[p].user /\ b = CollateralAsset(req[p])))
  BY OrdersOfFacts
<1>4. /\ f \in [Orders -> Int] /\ g \in [Orders -> Int]
      /\ \A x \in Orders \ {o, p} : g[x] = f[x]
      /\ \A x \in Orders : f[x] \in Int
  OBVIOUS
<1>5. frozen'[w][b] = frozen[w][b] - ((IF o \in S THEN d ELSE 0) + (IF p \in S THEN e ELSE 0))
  BY <1>3
<1>6. g[o] = f[o] - d /\ g[p] = f[p] - e /\ f[o] \in Int /\ f[p] \in Int
  BY <1>4
<1> HIDE DEF f, g, S
<1>7. SumFunctionOnSet(g, S) = SumFunctionOnSet(f, S)
        + ((IF o \in S THEN g[o] - f[o] ELSE 0) + (IF p \in S THEN g[p] - f[p] ELSE 0))
  <2>1. DifferAtTwo(Orders, f, g, o, p)
    BY <1>3, <1>4 DEF DifferAtTwo
  <2> QED BY <1>3, <2>1, SumMovesTwice
<1>8. SumFunctionOnSet(f, S) \in Int
  BY <1>3, <1>4, FS_Subset, SumIsInt
<1> DEFINE x == IF o \in S THEN d ELSE 0
           y == IF p \in S THEN e ELSE 0
           xx == IF o \in S THEN g[o] - f[o] ELSE 0
           yy == IF p \in S THEN g[p] - f[p] ELSE 0
<1>9. x \in Int /\ y \in Int /\ xx = -x /\ yy = -y
  BY <1>6
<1>10. SumFunctionOnSet(f, S) + (xx + yy) = SumFunctionOnSet(f, S) - (x + y)
  <2> HIDE DEF x, y, xx, yy
  <2> QED BY <1>8, <1>9
<1>11. SumFunctionOnSet(g, S) = SumFunctionOnSet(f, S) - (x + y)
  BY <1>7, <1>10
<1> QED BY <1>1, <1>2, <1>5, <1>11 DEF g
\* What a step does to the collateral of the orders: nothing, a freeze or an
\* unfreeze of n for order o, or the settlement of trade t.
MoneyStays ==
    /\ Backed' = Backed /\ Freed' = Freed /\ Locked' = Locked /\ Returned' = Returned
    /\ Sold' = Sold /\ Spent' = Spent /\ Held' = Held /\ frozen' = frozen /\ users' = users

Froze(o, n) ==
    /\ n > 0 /\ req[o].user \in users /\ o \notin Backed /\ Locked[o] = 0
    /\ Backed' = Backed \cup {o} /\ Freed' = Freed
    /\ Locked' = [Locked EXCEPT ![o] = n] /\ Returned' = Returned
    /\ Sold' = Sold /\ Spent' = Spent /\ users' = users

Unfroze(o, n) ==
    /\ n > 0 /\ req[o].user \in users /\ o \notin Freed /\ Returned[o] = 0
    /\ Freed' = Freed \cup {o} /\ Backed' = Backed
    /\ Returned' = [Returned EXCEPT ![o] = n] /\ Locked' = Locked
    /\ Sold' = Sold /\ Spent' = Spent /\ users' = users

Settles(t) ==
    /\ Backed' = Backed /\ Freed' = Freed /\ Locked' = Locked /\ Returned' = Returned
    /\ users' = users
    /\ \A p \in Orders :
          IF p \in {t.buy, t.sell}
            THEN Sold'[p] = Sold[p] + t.quantity /\ Spent'[p] = Spent[p] + Use(t, p)
            ELSE Sold'[p] = Sold[p] /\ Spent'[p] = Spent[p]

\* The accounts and the settled answers stay.
LEMMA QuietMoney ==
    ASSUME FlowConsistent, FlowConsistent', UNCHANGED accountVars,
           \A x \in Settled : resp'[x[1]] = resp[x[1]]
    PROVE  MoneyStays
<1>1. Settled' = Settled
  BY NoMoneyMoves
<1>2. Sold' = Sold /\ Spent' = Spent
  BY <1>1, SettledSumsStay
<1>3. entries' = entries /\ frozen' = frozen /\ users' = users
  BY DEF accountVars
<1>4. Backed' = Backed /\ Freed' = Freed
  BY <1>3 DEF Backed, Freed
<1>5. Locked' = Locked /\ Returned' = Returned
  BY <1>3, <1>4 DEF Locked, Returned, Unfrozen
<1>6. Held' = Held
  BY <1>2, <1>5 DEF Held
<1> QED BY <1>2, <1>3, <1>4, <1>5, <1>6 DEF MoneyStays

LEMMA QuietHeld ==
    ASSUME FlowConsistent, CollateralTyped, FrozenIsHeld, req' = req, MoneyStays
    PROVE  CollateralTyped' /\ FrozenIsHeld'
<1>1. CollateralTyped'
  BY DEF MoneyStays, CollateralTyped
<1>2. \A u, a : OrdersOf(u, a)' = OrdersOf(u, a)
  BY DEF OrdersOf
<1>3. FrozenIsHeld'
  BY <1>2 DEF MoneyStays, FrozenIsHeld
<1> QED BY <1>1, <1>3

\* The collateral of an order is frozen.
LEMMA FreezeMoney ==
    ASSUME FlowConsistent, FlowConsistent', CollateralTyped, FrozenIsHeld, req' = req, resp' = resp,
           NEW o \in Orders, NEW n \in Int, Freeze(req[o].user, CollateralAsset(req[o]), n, o)
    PROVE  Froze(o, n) /\ CollateralTyped' /\ FrozenIsHeld'
<1> DEFINE u == req[o].user
           a == CollateralAsset(req[o])
<1>1. u \in Users /\ a \in {Base, Quote} /\ LedgerTypeOK
  BY OrdersOfFacts, StoreFacts
<1>2. Settled' = Settled
  BY <1>1, CollateralMoves
<1>3. Sold' = Sold /\ Spent' = Spent
  BY <1>2, SettledSumsStay
<1> HIDE DEF u, a
<1>4. Freeze(u, a, n, o)
  BY DEF u, a
<1>5. /\ n > 0 /\ u \in users /\ users' = users /\ o \notin Backed
      /\ Backed' = Backed \cup {o} /\ Freed' = Freed
      /\ Locked[o] = 0 /\ Locked' = [Locked EXCEPT ![o] = n] /\ Returned' = Returned
      /\ \A w \in Users, b \in {Base, Quote} :
            frozen'[w][b] = frozen[w][b] + (IF w = u /\ b = a THEN n ELSE 0)
  BY <1>1, <1>4, FreezeLocks
<1>6. Froze(o, n)
  BY <1>3, <1>5 DEF Froze, u
<1>7. CollateralTyped'
  <2>1. n \in Nat
    BY <1>5
  <2> QED BY <1>5, <2>1 DEF CollateralTyped
<1>8. HeldTyped /\ HeldTyped'
  BY <1>7, HeldFacts, HeldFactsNext
<1>9. \A p \in Orders : /\ Held[p] = Locked[p] - Returned[p] - Spent[p]
                        /\ Held'[p] = Locked'[p] - Returned'[p] - Spent'[p]
                        /\ Locked[p] \in Nat /\ Returned[p] \in Nat /\ Spent[p] \in Nat
  BY <1>8 DEF HeldTyped
<1>10. Locked'[o] = n /\ \A p \in Orders \ {o} : Locked'[p] = Locked[p]
  BY <1>5 DEF CollateralTyped
<1>11. Held'[o] = Held[o] + n
  BY <1>3, <1>5, <1>9, <1>10
<1>12. \A p \in Orders \ {o} : Held'[p] = Held[p]
  BY <1>3, <1>5, <1>9, <1>10
<1>13. Held \in [Orders -> Int] /\ Held' \in [Orders -> Int]
  BY <1>8 DEF HeldTyped
<1>14. FrozenIsHeld'
  BY <1>5, <1>11, <1>12, <1>13, HeldMoves DEF u, a
<1> QED BY <1>6, <1>7, <1>14

\* It is unfrozen.
LEMMA UnfreezeMoney ==
    ASSUME FlowConsistent, FlowConsistent', CollateralTyped, FrozenIsHeld, req' = req, resp' = resp,
           NEW o \in Orders, NEW n \in Int, Unfreeze(req[o].user, CollateralAsset(req[o]), n, o)
    PROVE  Unfroze(o, n) /\ CollateralTyped' /\ FrozenIsHeld'
<1> DEFINE u == req[o].user
           a == CollateralAsset(req[o])
           d == -n
<1>1. u \in Users /\ a \in {Base, Quote} /\ LedgerTypeOK
  BY OrdersOfFacts, StoreFacts
<1>2. Settled' = Settled
  BY <1>1, CollateralMoves
<1>3. Sold' = Sold /\ Spent' = Spent
  BY <1>2, SettledSumsStay
<1> HIDE DEF u, a
<1>4. Unfreeze(u, a, n, o)
  BY DEF u, a
<1>5. /\ n > 0 /\ u \in users /\ users' = users /\ o \notin Freed
      /\ Freed' = Freed \cup {o} /\ Backed' = Backed
      /\ Returned[o] = 0 /\ Returned' = [Returned EXCEPT ![o] = n] /\ Locked' = Locked
      /\ \A w \in Users, b \in {Base, Quote} :
            frozen'[w][b] = frozen[w][b] - (IF w = u /\ b = a THEN n ELSE 0)
  BY <1>1, <1>4, UnfreezeReturns
<1>6. Unfroze(o, n)
  BY <1>3, <1>5 DEF Unfroze, u
<1>7. CollateralTyped'
  <2>1. n \in Nat
    BY <1>5
  <2> QED BY <1>5, <2>1 DEF CollateralTyped
<1>8. HeldTyped /\ HeldTyped'
  BY <1>7, HeldFacts, HeldFactsNext
<1>9. \A p \in Orders : /\ Held[p] = Locked[p] - Returned[p] - Spent[p]
                        /\ Held'[p] = Locked'[p] - Returned'[p] - Spent'[p]
                        /\ Locked[p] \in Nat /\ Returned[p] \in Nat /\ Spent[p] \in Nat
  BY <1>8 DEF HeldTyped
<1>10. Returned'[o] = n /\ \A p \in Orders \ {o} : Returned'[p] = Returned[p]
  BY <1>5 DEF CollateralTyped
<1>11. d \in Int /\ Held'[o] = Held[o] + d
  BY <1>3, <1>5, <1>9, <1>10
<1>12. \A p \in Orders \ {o} : Held'[p] = Held[p]
  BY <1>3, <1>5, <1>9, <1>10
<1>13. Held \in [Orders -> Int] /\ Held' \in [Orders -> Int]
  BY <1>8 DEF HeldTyped
<1>14. \A w \in Users, b \in {Base, Quote} :
          frozen'[w][b] = frozen[w][b] + (IF w = u /\ b = a THEN d ELSE 0)
  <2> SUFFICES ASSUME NEW w \in Users, NEW b \in {Base, Quote}
               PROVE  frozen'[w][b] = frozen[w][b] + (IF w = u /\ b = a THEN d ELSE 0)
    OBVIOUS
  <2>1. frozen[w][b] \in Nat
    BY <1>1 DEF LedgerTypeOK
  <2>2. frozen'[w][b] = frozen[w][b] - (IF w = u /\ b = a THEN n ELSE 0)
    BY <1>5
  <2>3. CASE w = u /\ b = a
    BY <2>1, <2>2, <2>3
  <2>4. CASE ~(w = u /\ b = a)
    BY <2>1, <2>2, <2>4
  <2> QED BY <2>3, <2>4
<1> HIDE DEF d
<1>15. FrozenIsHeld'
  BY <1>11, <1>12, <1>13, <1>14, HeldMoves DEF u, a
<1> QED BY <1>6, <1>7, <1>15

\* The settlement of the next trade of o.
SettleNext(o) ==
    LET t == TheTrade(o)
        buyer == req[t.buy].user
        seller == req[t.sell].user
        n == t.price * t.quantity
    IN  SettleTrade(<<o, place[o].k>>, TradeLegs(buyer, seller, Base, Quote, t.quantity, n),
                    TradeRelease(buyer, seller, Base, Quote, t.quantity, n))

LEMMA SettleMoney ==
    ASSUME FlowConsistent, FlowConsistent', TradesHaveSides, CollateralTyped, FrozenIsHeld,
           req' = req, resp' = resp, NEW o \in Orders, place[o].at = "settle", SettleNext(o)
    PROVE  Settles(TheTrade(o)) /\ CollateralTyped' /\ FrozenIsHeld'
<1> DEFINE t == TheTrade(o)
           b == t.buy
           s == t.sell
           buyer == req[b].user
           seller == req[s].user
           q == t.quantity
           n == t.price * q
           x == <<o, place[o].k>>
           legs == TradeLegs(buyer, seller, Base, Quote, q, n)
           release == TradeRelease(buyer, seller, Base, Quote, q, n)
<1>1. /\ t \in Trade /\ x \in Numbers /\ t = resp[x[1]].trades[x[2]]
      /\ {b, s} = {o, Maker(o)} /\ Maker(o) # o /\ x[1] \in Orders /\ x[2] \in DOMAIN Answers[x[1]]
      /\ Answers[o][place[o].k] = t
  BY TradeFacts DEF TheTrade, Answers
<1>2. b \in Orders /\ s \in Orders /\ b # s /\ q \in Nat /\ t.price \in Nat
  BY <1>1 DEF Trade
<1>3. n \in Nat
  BY <1>2, MulNat
<1>4. SettleTrade(x, legs, release)
  BY DEF SettleNext
<1>5. legs \in Seq(Leg) /\ release \in Seq(Leg) /\ LedgerTypeOK
  BY SettlementLegs, StoreFacts
<1>6. HasSides(t, req)
  <2>1. Matches[o] = Answers[o]
    <3>1. resp[o].trades # <<>>
      BY <1>1 DEF Answers
    <3> QED BY <3>1, BookFacts
  <2>2. place[o].k \in DOMAIN Matches[o] /\ Matches[o][place[o].k] = t
    BY <1>1, <2>1
  <2> QED BY <2>2 DEF TradesHaveSides
<1>7. CollateralAsset(req[b]) = Quote /\ CollateralAsset(req[s]) = Base
  BY <1>6 DEF HasSides, CollateralAsset
<1>8. buyer \in Users /\ seller \in Users
  BY <1>2, OrdersOfFacts
<1>9. Use(t, b) = n /\ Use(t, s) = q
  BY <1>2 DEF Use
<1> HIDE DEF legs, t, n, q, x
<1>10. Settled' = Settled \cup {x} /\ x \notin Settled
  BY <1>1, <1>4, <1>5, SettlementMoves
<1> HIDE DEF b, s, buyer, seller
<1>11. /\ users' = users /\ Backed' = Backed /\ Freed' = Freed
       /\ Locked' = Locked /\ Returned' = Returned
       /\ \A w \in Users, a \in {Base, Quote} :
             frozen'[w][a] = frozen[w][a] - ((IF w = buyer /\ a = Quote THEN n ELSE 0)
                                             + (IF w = seller /\ a = Base THEN q ELSE 0))
  <2>1. n \in Int /\ q \in Int
    BY <1>2, <1>3
  <2> QED BY <1>1, <1>4, <1>5, <1>8, <2>1, SettlementReleases
<1>12. \A p \in Orders :
          IF p \in {t.buy, t.sell}
            THEN Sold'[p] = Sold[p] + t.quantity /\ Spent'[p] = Spent[p] + Use(t, p)
            ELSE Sold'[p] = Sold[p] /\ Spent'[p] = Spent[p]
  BY <1>1, <1>10, SettledSumsGrow
<1>13. Settles(t)
  BY <1>11, <1>12 DEF Settles
<1>14. CollateralTyped'
  BY <1>11 DEF CollateralTyped
<1>15. HeldTyped /\ HeldTyped'
  BY <1>14, HeldFacts, HeldFactsNext
<1>16. \A p \in Orders : /\ Held[p] = Locked[p] - Returned[p] - Spent[p]
                         /\ Held'[p] = Locked'[p] - Returned'[p] - Spent'[p]
                         /\ Locked[p] \in Nat /\ Returned[p] \in Nat /\ Spent[p] \in Nat
  BY <1>15 DEF HeldTyped
<1>17. /\ Spent'[b] = Spent[b] + n /\ Spent'[s] = Spent[s] + q
       /\ \A p \in Orders \ {b, s} : Spent'[p] = Spent[p]
  BY <1>2, <1>9, <1>12 DEF b, s
<1>18. Held'[b] = Held[b] - n
  BY <1>2, <1>3, <1>11, <1>16, <1>17
<1>19. Held'[s] = Held[s] - q
  BY <1>2, <1>11, <1>16, <1>17
<1>20. \A p \in Orders \ {b, s} : Held'[p] = Held[p]
  BY <1>11, <1>16, <1>17
<1>21. Held \in [Orders -> Int] /\ Held' \in [Orders -> Int]
  BY <1>15 DEF HeldTyped
<1>22. FrozenIsHeld'
  <2>1. n \in Int /\ q \in Int
    BY <1>2, <1>3
  <2>2. \A w \in Users, a \in {Base, Quote} :
           frozen'[w][a] = frozen[w][a]
              - ((IF w = req[b].user /\ a = CollateralAsset(req[b]) THEN n ELSE 0)
                 + (IF w = req[s].user /\ a = CollateralAsset(req[s]) THEN q ELSE 0))
    BY <1>7, <1>11 DEF buyer, seller
  <2> QED BY <1>2, <1>18, <1>19, <1>20, <1>21, <2>1, <2>2, HeldMovesTwice
<1> QED BY <1>13, <1>14, <1>22 DEF t
-----------------------------------------------------------------------------
(* The steps, as the collateral sees them *)

\* A request moves money by one ledger operation, or not at all.
LEMMA RequestMoney ==
    ASSUME FlowConsistent, NEW o \in Orders, PlaceStep(o) \/ CancelStep(o)
    PROVE  \/ UNCHANGED accountVars
           \/ \E n \in Int : Freeze(req[o].user, CollateralAsset(req[o]), n, o)
           \/ \E n \in Int : Unfreeze(req[o].user, CollateralAsset(req[o]), n, o)
           \/ place[o].at = "settle" /\ SettleNext(o)
<1> DEFINE r == req[o]
           u == r.user
           a == CollateralAsset(r)
           Moved(n) == Freeze(u, a, n, o) \/ Unfreeze(u, a, n, o)
<1>1. \A q \in Int : CollateralAmount(r, q) \in Int
  BY CollateralType
<1>2. r.quantity \in Int /\ r.quantity - place[o].filled \in Int /\ r.quantity - cancel[o].filled \in Int
  BY StoreFacts DEF CancelRecord
<1>3. CASE PlaceFreeze(o)
  <2>1. Freeze(u, a, CollateralAmount(r, r.quantity), o) \/ UNCHANGED accountVars
    BY <1>3 DEF PlaceFreeze
  <2> QED BY <1>1, <1>2, <2>1
<1>4. CASE PlaceUndo(o)
  <2>1. Unfreeze(u, a, CollateralAmount(r, r.quantity), o) \/ UNCHANGED accountVars
    BY <1>4 DEF PlaceUndo, UnfreezeIfPossible
  <2> QED BY <1>1, <1>2, <2>1
<1>5. CASE ReleaseRemaining(o)
  <2>1. Unfreeze(u, a, CollateralAmount(r, r.quantity - place[o].filled), o) \/ UNCHANGED accountVars
    BY <1>5 DEF ReleaseRemaining
  <2> QED BY <1>1, <1>2, <2>1
<1>6. CASE CancelUnfreeze(o)
  <2>1. Unfreeze(u, a, CollateralAmount(r, r.quantity - cancel[o].filled), o) \/ UNCHANGED accountVars
    BY <1>6 DEF CancelUnfreeze, UnfreezeIfPossible, Try
  <2> QED BY <1>1, <1>2, <2>1
<1>7. CASE SettleMatch(o)
  BY <1>7 DEF SettleMatch, SettleNext
<1>8. CASE PlaceStep(o) /\ ~(PlaceFreeze(o) \/ PlaceUndo(o) \/ ReleaseRemaining(o) \/ SettleMatch(o))
  BY <1>8 DEF PlaceStep, CreateOrder, SubmitOrder, SubmitTimeout, SubmitAnswered,
     InsertTrade, ReadMaker, UpdateMaker, UpdateOwn, PlaceAbandoned
<1>9. CASE CancelStep(o) /\ ~CancelUnfreeze(o)
  BY <1>9 DEF CancelStep, CancelLookup, CancelOnBook, CancelMark, CancelAbandoned
<1> QED BY <1>3, <1>4, <1>5, <1>6, <1>7, <1>8, <1>9

\* It reaches the book by Submit and Cancel only.
LEMMA RequestBook ==
    ASSUME NEW o \in Orders, PlaceStep(o) \/ CancelStep(o)
    PROVE  /\ resp' = resp /\ req' = req /\ mu' = mu /\ fills' = fills
           /\ \/ UNCHANGED bookVars
              \/ SubmitOrder(o) /\ \E now \in clock..MaxClock :
                    Submit(o, req[o].side, req[o].price, req[o].quantity, now)
              \/ CancelOnBook(o) /\ Cancel(o)
<1>1. CASE SubmitOrder(o)
  <2>1. resp' = resp /\ req' = req
    BY <1>1 DEF SubmitOrder
  <2>2. \/ UNCHANGED bookVars
        \/ \E now \in clock..MaxClock :
              Submit(o, req[o].side, req[o].price, req[o].quantity, now)
    BY <1>1 DEF SubmitOrder
  <2> QED BY <1>1, <2>1, <2>2 DEF Submit, bookVars
<1>2. CASE PlaceStep(o) /\ ~SubmitOrder(o)
  <2>1. resp' = resp /\ req' = req /\ UNCHANGED bookVars
    BY <1>2 DEF PlaceStep, PlaceFreeze, CreateOrder, PlaceUndo, SubmitTimeout, SubmitAnswered,
       SettleMatch, InsertTrade, ReadMaker, UpdateMaker, UpdateOwn, ReleaseRemaining, PlaceAbandoned
  <2> QED BY <2>1 DEF bookVars
<1>3. CASE CancelOnBook(o)
  <2>1. resp' = resp /\ req' = req /\ (Cancel(o) \/ UNCHANGED bookVars)
    BY <1>3 DEF CancelOnBook, Try
  <2> QED BY <1>3, <2>1 DEF Cancel, bookVars
<1>4. CASE CancelStep(o) /\ ~CancelOnBook(o)
  <2>1. resp' = resp /\ req' = req /\ UNCHANGED bookVars
    BY <1>4 DEF CancelStep, CancelLookup, CancelUnfreeze, CancelMark, CancelAbandoned
  <2> QED BY <2>1 DEF bookVars
<1> QED BY <1>1, <1>2, <1>3, <1>4

\* No trade is made.
TradesKept ==
    \A o \in Orders : \A k \in DOMAIN Matches'[o] :
        k \in DOMAIN Matches[o] /\ Matches'[o][k] = Matches[o][k]

\* The trade a fill makes.
FillOf(o) == Fill(o, Head(Opposite(o)))

LEMMA TradesStay ==
    ASSUME FlowConsistent, mu' = mu, fills' = fills, resp' = resp
    PROVE  Matches' = Matches /\ TradesKept
<1>1. Matches' = Matches
  BY DEF Matches
<1> QED BY <1>1 DEF TradesKept

LEMMA LockTrades ==
    ASSUME FlowConsistent, NEW o \in Orders, MatchLock(o), resp' = resp
    PROVE  TradesKept
<1>1. mu = None /\ mu' = o /\ fills' = <<>>
  BY DEF MatchLock
<1>2. Matches'[o] = <<>> /\ \A p \in Orders \ {o} : Matches'[p] = Matches[p]
  BY <1>1, NoneAssumption DEF Matches
<1> QED BY <1>2 DEF TradesKept

LEMMA ReturnTrades ==
    ASSUME FlowConsistent, NEW o \in Orders, MatchReturn(o),
           resp' = [resp EXCEPT ![o] = [trades |-> fills, resting |-> remaining[o] > 0 /\ ~isMarket(o)]]
    PROVE  Matches' = Matches /\ TradesKept
<1>1. mu = o /\ mu' = None /\ fills' = fills
  BY DEF MatchReturn
<1>2. resp'[o].trades = fills /\ \A x \in Orders \ {o} : resp'[x] = resp[x]
  BY BookFacts
<1>3. Matches' = Matches
  BY <1>1, <1>2, NoneAssumption DEF Matches
<1> QED BY <1>3 DEF TradesKept

LEMMA StopTrades ==
    ASSUME FlowConsistent, StopEngine
    PROVE  TradesKept
<1>1. mu' = None /\ resp' = resp
  BY DEF StopEngine
<1>2. \A p \in Orders : Matches'[p] = resp[p].trades
  BY <1>1, NoneAssumption DEF Matches
<1>3. \A p \in Orders : resp[p].trades # <<>> => Matches[p] = resp[p].trades
  BY BookFacts DEF Answers
<1>4. \A p \in Orders : Matches'[p] = <<>> \/ Matches'[p] = Matches[p]
  BY <1>2, <1>3
<1> QED BY <1>4 DEF TradesKept

LEMMA FillTrades ==
    ASSUME FlowConsistent, NEW o \in Orders, MatchFill(o), resp' = resp
    PROVE  /\ mu = o /\ CanFill(o)
           /\ \A p \in Orders : \A k \in DOMAIN Matches'[p] :
                 \/ k \in DOMAIN Matches[p] /\ Matches'[p][k] = Matches[p][k]
                 \/ p = o /\ Matches'[p][k] = FillOf(o)
<1>1. mu = o /\ mu' = o /\ CanFill(o) /\ fills' = Append(fills, FillOf(o))
  BY DEF MatchFill, FillOf
<1>2. fills \in Seq(Trade)
  BY BookFacts
<1>3. /\ Matches'[o] = Append(fills, FillOf(o)) /\ Matches[o] = fills
      /\ \A p \in Orders \ {o} : Matches'[p] = Matches[p]
  BY <1>1 DEF Matches
<1> DEFINE f == FillOf(o)
<1> HIDE DEF f
<1>4. \A k \in DOMAIN Append(fills, f) :
         (k \in DOMAIN fills /\ Append(fills, f)[k] = fills[k]) \/ Append(fills, f)[k] = f
  BY <1>2
<1> QED BY <1>1, <1>3, <1>4 DEF f

\* The two orders of a fill, and what it takes.
LEMMA FillSides ==
    ASSUME FlowConsistent, NEW o \in Orders, mu = o, CanFill(o)
    PROVE  LET best == Head(Opposite(o))
               f == FillOf(o)
           IN  /\ best \in Orders /\ best \in Resting /\ best # o
               /\ {f.buy, f.sell} = {o, best} /\ f.buy \in Orders /\ f.sell \in Orders
               /\ order[f.buy].side = "BUY" /\ order[f.sell].side = "SELL"
               /\ Submitted(order, f.buy) /\ Submitted(order, f.sell)
               /\ f.price = TradePrice(f.buy, f.sell) /\ f.quantity \in Nat /\ f.quantity > 0
               /\ f.buy = (IF order[o].side = "BUY" THEN o ELSE best)
<1> DEFINE best == Head(Opposite(o))
           f == FillOf(o)
           q == MinOf(remaining[o], remaining[best])
<1>1. /\ best \in Range(Opposite(o)) /\ best \in Orders /\ best \in Resting
      /\ best # o /\ order[best].side # order[o].side
      /\ remaining[best] > 0 /\ remaining[o] > 0 /\ q \in Nat /\ q > 0
  BY BookFacts, FillHolds
<1>2. order[o].side \in {"BUY", "SELL"} /\ order[best].side \in {"BUY", "SELL"}
  BY <1>1, BookFacts DEF OrderFields, Sides
<1>3. Submitted(order, o) /\ Submitted(order, best)
  BY <1>1, QuantityFacts
<1>4. /\ f.buy = (IF order[o].side = "BUY" THEN o ELSE best)
      /\ f.sell = (IF order[o].side = "BUY" THEN best ELSE o)
      /\ f.price = TradePrice(f.buy, f.sell) /\ f.quantity = q
  BY DEF Fill, FillOf
<1> HIDE DEF f, best, q
<1>5. \/ f.buy = o /\ f.sell = best /\ order[o].side = "BUY" /\ order[best].side = "SELL"
      \/ f.buy = best /\ f.sell = o /\ order[best].side = "BUY" /\ order[o].side = "SELL"
  BY <1>1, <1>2, <1>4
<1>6. /\ {f.buy, f.sell} = {o, best} /\ f.buy \in Orders /\ f.sell \in Orders
      /\ order[f.buy].side = "BUY" /\ order[f.sell].side = "SELL"
      /\ Submitted(order, f.buy) /\ Submitted(order, f.sell)
  <2>1. CASE f.buy = o /\ f.sell = best /\ order[o].side = "BUY" /\ order[best].side = "SELL"
    BY <1>1, <1>3, <2>1
  <2>2. CASE f.buy = best /\ f.sell = o /\ order[best].side = "BUY" /\ order[o].side = "SELL"
    BY <1>1, <1>3, <2>2
  <2> QED BY <1>5, <2>1, <2>2
<1> QED BY <1>1, <1>4, <1>6 DEF f, best

\* Trades that are kept keep their sides.
LEMMA SidesKept ==
    ASSUME TradesHaveSides, req' = req, TradesKept,
           \A o \in Orders : Submitted(order', o) =>
              order'[o].side = req[o].side \/ (order'[o] = order[o])
    PROVE  TradesHaveSides'
<1>1. \A o \in Orders : Submitted(order', o) => order'[o].side = req'[o].side
  BY DEF TradesHaveSides, Submitted
<1>2. \A o \in Orders : \A k \in DOMAIN Matches'[o] : HasSides(Matches'[o][k], req')
  BY DEF TradesHaveSides, TradesKept
<1> QED BY <1>1, <1>2 DEF TradesHaveSides

LEMMA EngineSides ==
    ASSUME FlowConsistent, TradesHaveSides, NEW o \in Orders, BookStep(o)
    PROVE  TradesHaveSides'
<1>1. req' = req /\ order' = order
  BY DEF BookStep, MatchLock, MatchFill, MatchReturn
<1>2. CASE MatchLock(o) /\ UNCHANGED resp
  BY <1>1, <1>2, LockTrades, SidesKept
<1>3. CASE MatchFill(o) /\ UNCHANGED resp
  <2>1. /\ mu = o /\ CanFill(o)
        /\ \A p \in Orders : \A k \in DOMAIN Matches'[p] :
              \/ k \in DOMAIN Matches[p] /\ Matches'[p][k] = Matches[p][k]
              \/ p = o /\ Matches'[p][k] = FillOf(o)
    BY <1>3, FillTrades
  <2>2. HasSides(FillOf(o), req)
    BY <2>1, FillSides DEF TradesHaveSides, HasSides
  <2>3. \A p \in Orders : \A k \in DOMAIN Matches'[p] : HasSides(Matches'[p][k], req)
    BY <2>1, <2>2 DEF TradesHaveSides
  <2> QED BY <1>1, <2>3 DEF TradesHaveSides
<1>4. CASE /\ MatchReturn(o)
           /\ resp' = [resp EXCEPT ![o] =
                  [trades |-> fills, resting |-> remaining[o] > 0 /\ ~isMarket(o)]]
  BY <1>1, <1>4, ReturnTrades, SidesKept
<1> QED BY <1>2, <1>3, <1>4 DEF BookStep

\* A request or the engine goes on.
LEMMA HeldFlow ==
    ASSUME FlowConsistent, FlowConsistent', HeldConsistent, NEW o \in Orders,
           BookStep(o) \/ PlaceStep(o) \/ CancelStep(o)
    PROVE  HeldConsistent'
<1> USE DEF HeldConsistent
<1>1. CASE BookStep(o)
  <2>1. \A x \in Settled : resp'[x[1]] = resp[x[1]]
    BY <1>1, EngineStep, SettledFacts DEF BookMoves
  <2>2. UNCHANGED accountVars /\ req' = req
    BY <1>1 DEF BookStep
  <2>3. CollateralTyped' /\ FrozenIsHeld'
    BY <2>1, <2>2, QuietMoney, QuietHeld
  <2> QED BY <1>1, <2>3, EngineSides
<1>2. CASE PlaceStep(o) \/ CancelStep(o)
  <2>1. /\ resp' = resp /\ req' = req /\ mu' = mu /\ fills' = fills
        /\ \/ UNCHANGED bookVars
           \/ \E now \in clock..MaxClock : Submit(o, req[o].side, req[o].price, req[o].quantity, now)
           \/ Cancel(o)
    BY <1>2, RequestBook
  <2>2. \A p \in Orders : Submitted(order', p) =>
              order'[p].side = req[p].side \/ (order'[p] = order[p])
    <3>1. order \in [Orders -> OrderFields]
      BY BookFacts
    <3>2. CASE order' = order
      BY <3>2
    <3>3. ASSUME NEW now \in clock..MaxClock, Submit(o, req[o].side, req[o].price, req[o].quantity, now)
          PROVE  \A p \in Orders : order'[p].side = req[p].side \/ (order'[p] = order[p])
      <4>1. order' = [order EXCEPT ![o] = [side |-> req[o].side, price |-> req[o].price,
                                           quantity |-> req[o].quantity, createdAt |-> now]]
        BY <3>3 DEF Submit
      <4> QED BY <3>1, <4>1
    <3> QED BY <2>1, <3>2, <3>3 DEF bookVars, Cancel
  <2>3. TradesHaveSides'
    BY <2>1, <2>2, TradesStay, SidesKept
  <2>4. CollateralTyped' /\ FrozenIsHeld'
    <3>1. CASE UNCHANGED accountVars
      BY <2>1, <3>1, QuietMoney, QuietHeld
    <3>2. ASSUME NEW n \in Int, Freeze(req[o].user, CollateralAsset(req[o]), n, o)
          PROVE  CollateralTyped' /\ FrozenIsHeld'
      BY <2>1, <3>2, FreezeMoney
    <3>3. ASSUME NEW n \in Int, Unfreeze(req[o].user, CollateralAsset(req[o]), n, o)
          PROVE  CollateralTyped' /\ FrozenIsHeld'
      BY <2>1, <3>3, UnfreezeMoney
    <3>4. CASE place[o].at = "settle" /\ SettleNext(o)
      BY <2>1, <3>4, SettleMoney
    <3> QED BY <1>2, <3>1, <3>2, <3>3, <3>4, RequestMoney
  <2> QED BY <2>3, <2>4
<1> QED BY <1>1, <1>2
\* A step that touches neither the accounts nor the answers.
LEMMA HeldQuiet ==
    ASSUME FlowConsistent, FlowConsistent', HeldConsistent, TradesKept,
           UNCHANGED <<accountVars, req, resp>>,
           \A o \in Orders : Submitted(order', o) =>
              order'[o].side = req[o].side \/ (order'[o] = order[o])
    PROVE  HeldConsistent'
<1>1. req' = req /\ resp' = resp /\ UNCHANGED accountVars
  OBVIOUS
<1>2. CollateralTyped' /\ FrozenIsHeld'
  BY <1>1, QuietMoney, QuietHeld DEF HeldConsistent
<1>3. TradesHaveSides'
  BY <1>1, SidesKept DEF HeldConsistent
<1> QED BY <1>2, <1>3 DEF HeldConsistent

\* The engine stops, or starts with or without its quotes.
LEMMA HeldEngine ==
    ASSUME LifeConsistent, FlowConsistent', HeldConsistent, StopEngine \/ StartEngine
    PROVE  HeldConsistent'
<1>1. FlowConsistent
  BY DEF LifeConsistent
<1>2. CASE StopEngine
  <2>1. UNCHANGED <<accountVars, req, resp>> /\ order' = order
    BY <1>2 DEF StopEngine
  <2> QED BY <1>1, <1>2, <2>1, StopTrades, HeldQuiet
<1>3. CASE StartEngine
  <2>1. UNCHANGED <<accountVars, req, resp>> /\ (UNCHANGED bookVars \/ Liquidity)
    BY <1>3 DEF StartEngine
  <2>2. (order' = order /\ mu' = mu /\ fills' = fills) \/ Liquidity
    BY <2>1 DEF bookVars
  <2>3. mu' = mu /\ fills' = fills
    BY <2>2 DEF Liquidity
  <2>4. ASSUME NEW o \in Orders
        PROVE  order'[o].side = req[o].side \/ (order'[o] = order[o])
    <3>1. CASE order' = order
      BY <3>1
    <3>2. CASE Liquidity
      <4>1. PICK b, a : order' = [order EXCEPT
                ![b] = [side |-> req[b].side, price |-> req[b].price,
                        quantity |-> req[b].quantity, createdAt |-> clock],
                ![a] = [side |-> req[a].side, price |-> req[a].price,
                        quantity |-> req[a].quantity, createdAt |-> clock]]
        BY <3>2 DEF Liquidity
      <4>2. order \in [Orders -> OrderFields]
        BY <1>1, BookFacts
      <4>3. CASE o = a
        BY <4>1, <4>2, <4>3
      <4>4. CASE o # a /\ o = b
        BY <4>1, <4>2, <4>4
      <4>5. CASE o # a /\ o # b
        BY <4>1, <4>2, <4>5
      <4> QED BY <4>3, <4>4, <4>5
    <3> QED BY <2>2, <3>1, <3>2
  <2>5. TradesKept
    BY <1>1, <2>1, <2>3, TradesStay
  <2> QED BY <1>1, <2>1, <2>4, <2>5, HeldQuiet
<1> QED BY <1>2, <1>3

\* Nothing is frozen at first.
LEMMA HeldStarts ==
    ASSUME FlowInit, FlowConsistent
    PROVE  /\ HeldConsistent /\ Backed = {} /\ Freed = {}
           /\ \A o \in Orders : Sold[o] = 0 /\ Spent[o] = 0
           /\ \A o \in Orders : ~Submitted(order, o) /\ Matches[o] = <<>>
<1>1. /\ entries = [r \in {} |-> <<>>] /\ DOMAIN entries = {}
      /\ frozen = [u \in Users |-> [a \in {Base, Quote} |-> 0]]
  BY DEF FlowInit, LedgerInit
<1>2. Backed = {} /\ Freed = {} /\ Settled = {}
  BY <1>1 DEF Backed, Freed, Settled
<1>3. CollateralTyped /\ \A o \in Orders : Locked[o] = 0 /\ Returned[o] = 0
  BY <1>1, <1>2 DEF CollateralTyped, Locked, Returned, Unfrozen
<1>4. \A o \in Orders : SettledQty(o) = 0 /\ Consumed(o) = 0
  <2>1. \A o \in Orders : SettledTrades(o) = {}
    BY <1>2, ConsumedIsUse DEF SumsOf
  <2> QED BY <2>1, ConsumedIsUse, SumEmpty DEF SumsOf
<1>5. \A o \in Orders : Sold[o] = 0 /\ Spent[o] = 0 /\ Held[o] = 0
  BY <1>3, <1>4 DEF Sold, Spent, Held
<1>6. FrozenIsHeld
  <2> SUFFICES ASSUME NEW u \in Users, NEW a \in {Base, Quote}
               PROVE  frozen[u][a] = SumFunctionOnSet(Held, OrdersOf(u, a))
    BY DEF FrozenIsHeld
  <2> DEFINE S == OrdersOf(u, a)
             f == Held
  <2>1. IsFiniteSet(S) /\ S \in SUBSET Orders
    BY OrdersOfFacts, FS_Subset
  <2>2. \A o \in S : f[o] = 0
    BY <1>5, <2>1
  <2> HIDE DEF S, f
  <2>3. SumFunctionOnSet(f, S) = 0
    BY <2>1, <2>2, SumZero
  <2> QED BY <1>1, <2>3 DEF S, f
<1>7. \A o \in Orders : ~Submitted(order, o) /\ Matches[o] = <<>>
  BY NoneAssumption DEF FlowInit, BookInit, Submitted, Unsubmitted, Matches
<1>8. TradesHaveSides
  BY <1>7 DEF TradesHaveSides
<1> QED BY <1>2, <1>3, <1>5, <1>6, <1>7, <1>8 DEF HeldConsistent

\* Every step of the system keeps the collateral of the orders in step with
\* the frozen funds.
LEMMA HeldStep ==
    ASSUME LifeConsistent, LifeConsistent', HeldConsistent, [LifeNext]_lifeVars
    PROVE  HeldConsistent'
<1>1. FlowConsistent /\ FlowConsistent'
  BY DEF LifeConsistent
<1>2. ASSUME UNCHANGED <<bookVars, accountVars, req, resp>> PROVE HeldConsistent'
  <2>1. order' = order /\ mu' = mu /\ fills' = fills /\ resp' = resp
    BY <1>2 DEF bookVars
  <2>2. TradesKept
    BY <1>1, <2>1, TradesStay
  <2> QED BY <1>1, <1>2, <2>1, <2>2, HeldQuiet
<1>3. CASE UNCHANGED lifeVars
  <2>1. UNCHANGED <<bookVars, accountVars, req, resp>>
    BY <1>3 DEF lifeVars, flowVars
  <2> QED BY <1>2, <2>1
<1>4. CASE StopEngine \/ StartEngine
  BY <1>1, <1>4, HeldEngine
<1>5. ASSUME NEW o \in Orders, BookStep(o) \/ LifePlace(o) \/ CancelStep(o)
      PROVE  HeldConsistent'
  <2>1. CASE SubmitRefused(o) \/ SubmitReset(o)
    <3>1. UNCHANGED <<bookVars, accountVars, req, resp>>
      BY <2>1 DEF SubmitRefused, SubmitReset
    <3> QED BY <1>2, <3>1
  <2>2. CASE BookStep(o) \/ PlaceStep(o) \/ CancelStep(o)
    BY <1>1, <2>2, HeldFlow
  <2> QED BY <1>5, <2>1, <2>2 DEF LifePlace
<1> QED BY <1>3, <1>4, <1>5 DEF LifeNext

\* With the stops of the engine and every failure of a request: the trades have
\* a buyer and a seller by the requests, each order has frozen and unfrozen at
\* most once, and all that is frozen is held by an order.
THEOREM FundsAreHeld == LifeSpec => []HeldConsistent
<1>1. LifeInit /\ LifeConsistent => HeldConsistent
  <2> SUFFICES ASSUME LifeInit, LifeConsistent PROVE HeldConsistent
    OBVIOUS
  <2>1. FlowInit /\ FlowConsistent
    BY DEF LifeInit, LifeConsistent
  <2> QED BY <2>1, HeldStarts
<1>2. LifeConsistent /\ LifeConsistent' /\ HeldConsistent /\ [LifeNext]_lifeVars => HeldConsistent'
  BY HeldStep
<1> QED BY <1>1, <1>2, LifeIsConsistent, PTL DEF LifeSpec

\* Whatever the requests, faults, cancellations and stops of the engine: all
\* that a user has frozen of an asset is what his orders still hold of it,
\* their freezes less their unfreezes less what their settled trades released.
THEOREM FrozenFundsAreHeld == LifeSpec => []FrozenIsHeld
<1>1. HeldConsistent => FrozenIsHeld
  BY DEF HeldConsistent
<1> QED BY <1>1, FundsAreHeld, PTL
-----------------------------------------------------------------------------
(* Requests one at a time *)

Busy(requests, o) == requests[o].at \notin Ended
Writing == {"insert", "read", "update"}
Working == Writing \cup {"settle"}

OneByOne ==
    /\ \A o, p \in Orders : Busy(place, o) /\ Busy(place, p) => o = p
    /\ \A o, p \in Orders : Busy(cancel, o) /\ Busy(cancel, p) => o = p
    /\ \A o, p \in Orders : ~(Busy(place, o) /\ Busy(cancel, p))

\* What the stage of an order's requests says of its row and of the book.
StageOK(o) ==
    /\ place[o].at \in {"idle", "create", "submit"} => pc[o] = "idle" /\ ~Submitted(order, o)
    /\ pc[o] \in {"stamped", "matching"} => place[o].at = "await"
    /\ pc[o] # "idle" => Submitted(order, o)
    /\ place[o].at # "idle" => Accepted(req[o])
    /\ place[o].at \in {"idle", "create"} => status[o] = "NOROW"
    /\ place[o].at \notin {"done", "failed"} => cancel[o].at = "idle"
    /\ Submitted(order, o) => order[o].price = req[o].price
    /\ o \in Resting => /\ place[o].at \in {"await", "own", "done"} \cup Working
                        /\ cancel[o].at \notin {"unfreeze", "mark", "done"}
                        /\ resp[o].resting

\* The freeze and the unfreeze of an order.
PostedOK(o) ==
    /\ o \in Backed => Locked[o] = CollateralAmount(req[o], req[o].quantity) /\ req[o].user \in users
    /\ (place[o].at \notin {"idle", "failed"} \/ status[o] # "NOROW" \/ Submitted(order, o) \/ o \in Freed)
          => o \in Backed
    /\ place[o].at = "idle" => o \notin Backed
    /\ o \in Freed => /\ ~Busy(place, o) /\ o \notin Resting
                      /\ Returned[o] = CollateralAmount(req[o], req[o].quantity - Sold[o])
    /\ cancel[o].at \in {"mark", "done"} => o \in Freed \/ Sold[o] = req[o].quantity
    /\ Spent[o] <= CollateralAmount(req[o], Sold[o])

\* The status of an order, and what its cancellation has read.
StatusOK(o) ==
    /\ Busy(cancel, o) => cancel[o].filled = filledQty[o] /\ status[o] \in Open
    /\ cancel[o].at = "done" => status[o] = "CANCELLED"
    /\ place[o].at \in {"done", "release"} /\ cancel[o].at # "done" =>
          status[o] = IF filledQty[o] > 0 THEN FillStatus(filledQty[o], req[o].quantity)
                      ELSE IF resp[o].resting THEN "NEW" ELSE "CANCELLED"

\* A taker's own row is written at the end, with what was settled.
TakerOK(o) ==
    /\ Busy(place, o) =>
          /\ filledQty[o] = IF place[o].at = "release" THEN place[o].filled ELSE 0
          /\ Sold[o] = place[o].filled + (IF place[o].at = "insert" THEN TheTrade(o).quantity ELSE 0)
    /\ place[o].at \in {"idle", "create", "submit", "await", "undo"} => place[o].filled = 0
    /\ place[o].at \in Working =>
          \A j \in DOMAIN resp[o].trades : j < place[o].k => <<o, j>> \in Settled
    /\ place[o].at \in {"own", "release", "done"} =>
          \A j \in DOMAIN resp[o].trades : <<o, j>> \in Settled

\* A maker's row lacks the trade its taker works on, and no other.
MakersFollow ==
    /\ \A o \in Orders : place[o].at \in Writing =>
          Sold[Maker(o)] = filledQty[Maker(o)] + TheTrade(o).quantity
    /\ \A o \in Orders : place[o].at = "update" => place[o].seen = filledQty[Maker(o)]
    /\ \A o \in Orders :
          ~Busy(place, o) /\ (\A p \in Orders : place[p].at \in Writing => Maker(p) # o)
            => filledQty[o] = Sold[o]

\* The trades of a match are within the buyer's limit, and their makers are
\* placed; while the taker is busy, none is cancelled or released.
TradesAreFair ==
    \A o \in Orders : \A k \in DOMAIN Matches[o] :
        LET t == Matches[o][k]
            m == MakerIn(t, o)
        IN  /\ t.quantity > 0 /\ t.price <= req[t.buy].price
            /\ place[m].at = "done"
            /\ Busy(place, o) => m \notin Freed /\ cancel[m].at # "done"

OrderOK(o) == StageOK(o) /\ PostedOK(o) /\ StatusOK(o) /\ TakerOK(o)

SerialConsistent ==
    /\ OneByOne
    /\ TradesAreFair
    /\ MakersFollow
    /\ \A o \in Orders : OrderOK(o)

\* One request at a time, nothing fails and no quotes of the engine's own.
Serial == MaxInFlight = 1 /\ MaxFaults = 0 /\ Quotes = {}

\* No settlement is refused for want of funds.
SettlementsGoThrough ==
    \A o \in Orders : place[o].at = "settle" =>
        LET t == TheTrade(o)
            buyer == req[t.buy].user
            seller == req[t.sell].user
            n == t.price * t.quantity
        IN  SettleTradeOK(TradeLegs(buyer, seller, Base, Quote, t.quantity, n),
                          TradeRelease(buyer, seller, Base, Quote, t.quantity, n))
-----------------------------------------------------------------------------
(* What a step leaves alone *)

\* A step that does not concern order p.
SameAt(p) ==
    /\ place'[p] = place[p] /\ cancel'[p] = cancel[p]
    /\ status'[p] = status[p] /\ filledQty'[p] = filledQty[p]
    /\ req'[p] = req[p] /\ resp'[p] = resp[p] /\ pc'[p] = pc[p] /\ order'[p] = order[p]
    /\ p \in Resting' => p \in Resting
    /\ (p \in Backed' <=> p \in Backed) /\ (p \in Freed' <=> p \in Freed)
    /\ Locked'[p] = Locked[p] /\ Returned'[p] = Returned[p]
    /\ Sold'[p] = Sold[p] /\ Spent'[p] = Spent[p]

LEMMA OthersStayOK ==
    ASSUME NEW p \in Orders, OrderOK(p), SameAt(p), users' = users, Settled \subseteq Settled'
    PROVE  OrderOK(p)'
<1>1. StageOK(p)'
  BY DEF OrderOK, StageOK, SameAt, Submitted
<1>2. PostedOK(p)'
  BY DEF OrderOK, PostedOK, SameAt, Submitted, Busy
<1>3. StatusOK(p)'
  BY DEF OrderOK, StatusOK, SameAt, Busy
<1>4. TakerOK(p)'
  BY DEF OrderOK, TakerOK, SameAt, Busy, TheTrade
<1> QED BY <1>1, <1>2, <1>3, <1>4 DEF OrderOK

\* Trades that were fair stay so.
LEMMA FairStays ==
    ASSUME TradesAreFair, TradesKept, req' = req,
           \A p \in Orders : place[p].at = "done" => place'[p].at = "done",
           \A p \in Orders : \A k \in DOMAIN Matches'[p] :
              Busy(place', p) => Busy(place, p) /\ Freed' = Freed /\ cancel' = cancel,
           \A o \in Orders : \A k \in DOMAIN Matches[o] : MakerIn(Matches[o][k], o) \in Orders
    PROVE  TradesAreFair'
<1> SUFFICES ASSUME NEW o \in Orders, NEW k \in DOMAIN Matches'[o]
             PROVE  LET t == Matches'[o][k]
                        m == MakerIn(t, o)
                    IN  /\ t.quantity > 0 /\ t.price <= req[t.buy].price
                        /\ place'[m].at = "done"
                        /\ Busy(place', o) => m \notin Freed' /\ cancel'[m].at # "done"
  BY DEF TradesAreFair, Busy, Matches
<1>1. k \in DOMAIN Matches[o] /\ Matches'[o][k] = Matches[o][k]
  BY DEF TradesKept
<1> DEFINE t == Matches[o][k]
           m == MakerIn(t, o)
<1>2. /\ t.quantity > 0 /\ t.price <= req[t.buy].price
      /\ place[m].at = "done" /\ m \in Orders
      /\ Busy(place, o) => m \notin Freed /\ cancel[m].at # "done"
  BY <1>1 DEF TradesAreFair
<1> HIDE DEF t, m
<1>3. place'[m].at = "done"
  BY <1>2
<1>4. Busy(place', o) => m \notin Freed' /\ cancel'[m].at # "done"
  BY <1>2
<1> QED BY <1>1, <1>2, <1>3, <1>4 DEF t, m

\* A step that concerns one order, and its trades.
LEMMA OneOrderMoves ==
    ASSUME SerialConsistent, NEW o \in Orders, \A p \in Orders \ {o} : SameAt(p),
           users' = users, Settled \subseteq Settled',
           OneByOne', TradesAreFair', MakersFollow', OrderOK(o)'
    PROVE  SerialConsistent'
<1>1. ASSUME NEW p \in Orders PROVE OrderOK(p)'
  <2>1. CASE p = o
    BY <2>1
  <2>2. CASE p # o
    BY <2>2, OthersStayOK DEF SerialConsistent
  <2> QED BY <2>1, <2>2
<1> QED BY <1>1 DEF SerialConsistent

\* Nothing fails.
LEMMA NothingFails ==
    ASSUME Serial, FlowConsistent
    PROVE  ~Fault
BY MaxFaultsAssumption DEF Serial, FlowConsistent, FlowTypeOK, Fault

\* A request begins when there is no other.
LEMMA Alone ==
    ASSUME InFlight < 1
    PROVE  \A o \in Orders : ~Busy(place, o) /\ ~Busy(cancel, o)
<1> DEFINE A == {o \in Orders : place[o].at \notin Ended}
           B == {o \in Orders : cancel[o].at \notin Ended}
<1>1. IsFiniteSet(A) /\ IsFiniteSet(B)
  BY OrdersAssumption, FS_Subset
<1>2. Cardinality(A) \in Nat /\ Cardinality(B) \in Nat
  BY <1>1, FS_CardinalityType
<1>3. InFlight = Cardinality(A) + Cardinality(B)
  BY DEF InFlight
<1>4. Cardinality(A) = 0 /\ Cardinality(B) = 0
  <2> HIDE DEF A, B
  <2> QED BY <1>2, <1>3
<1>5. A = {} /\ B = {}
  <2> HIDE DEF A, B
  <2> QED BY <1>1, <1>4, FS_EmptySet
<1> QED BY <1>5 DEF Busy

\* Whoever is busy is so alone.
LEMMA OneIsBusy ==
    ASSUME OneByOne, NEW o \in Orders, Busy(place, o) \/ Busy(cancel, o)
    PROVE  /\ \A p \in Orders \ {o} : ~Busy(place, p) /\ ~Busy(cancel, p)
           /\ Busy(place, o) => ~Busy(cancel, o)
BY DEF OneByOne

LEMMA BusyStays ==
    ASSUME OneByOne,
           \A p \in Orders : Busy(place', p) => Busy(place, p),
           \A p \in Orders : Busy(cancel', p) => Busy(cancel, p)
    PROVE  OneByOne'
BY DEF OneByOne, Busy

LEMMA BusyStarts ==
    ASSUME \A p \in Orders : ~Busy(place, p) /\ ~Busy(cancel, p), NEW o \in Orders,
           \A p \in Orders \ {o} : place'[p] = place[p] /\ cancel'[p] = cancel[p],
           place'[o] = place[o] \/ cancel'[o] = cancel[o]
    PROVE  OneByOne'
BY DEF OneByOne, Busy

\* As long as no taker writes, the rows show what was settled.
NobodyWrites == \A p \in Orders : place[p].at \notin Writing

LEMMA NothingOwed ==
    ASSUME MakersFollow, NobodyWrites
    PROVE  \A p \in Orders : ~Busy(place, p) => filledQty[p] = Sold[p]
BY DEF MakersFollow, NobodyWrites

LEMMA NothingOwedNext ==
    ASSUME NobodyWrites', \A p \in Orders : ~Busy(place', p) => filledQty'[p] = Sold'[p]
    PROVE  MakersFollow'
<1>1. \A p \in Orders : ~Busy(place, p)' => filledQty'[p] = Sold'[p]
  BY DEF Busy
<1>2. \A p \in Orders : place'[p].at \notin Writing
  BY DEF NobodyWrites
<1>3. \A p \in Orders : place'[p].at # "update"
  BY <1>2 DEF Writing
<1> QED BY <1>1, <1>2, <1>3 DEF MakersFollow

\* The requests of order p go on elsewhere.
Waits(p) == place'[p] = place[p] /\ cancel'[p] = cancel[p]
            /\ status'[p] = status[p] /\ filledQty'[p] = filledQty[p]

BookStays == UNCHANGED <<bookVars, req, resp>>

LEMMA BookStaysFacts ==
    ASSUME FlowConsistent, BookStays
    PROVE  /\ Matches' = Matches /\ TradesKept /\ Resting' = Resting
           /\ pc' = pc /\ order' = order /\ req' = req /\ resp' = resp /\ remaining' = remaining
           /\ mu' = mu
<1>1. mu' = mu /\ fills' = fills /\ resp' = resp
  BY DEF BookStays, bookVars
<1>2. Matches' = Matches /\ TradesKept
  BY <1>1, TradesStay
<1> QED BY <1>2 DEF BookStays, bookVars, Resting

LEMMA QuietMakesNoMove ==
    ASSUME FlowConsistent, FlowConsistent', UNCHANGED accountVars, BookStays
    PROVE  MoneyStays /\ Settled' = Settled
<1>1. resp' = resp
  BY DEF BookStays
<1>2. MoneyStays
  BY <1>1, QuietMoney
<1> QED BY <1>2 DEF Settled, accountVars

\* What a call to the account service for order o does to the others.
LEMMA MoneyElsewhere ==
    ASSUME FlowConsistent, CollateralTyped, BookStays, NEW o \in Orders,
           MoneyStays \/ (\E n \in Int : Froze(o, n) \/ Unfroze(o, n)),
           \A p \in Orders \ {o} : Waits(p)
    PROVE  users' = users /\ \A p \in Orders \ {o} : SameAt(p)
<1>1. /\ Resting' = Resting /\ pc' = pc /\ order' = order /\ req' = req /\ resp' = resp
  BY BookStaysFacts
<1>2. Locked \in [Orders -> Nat] /\ Returned \in [Orders -> Nat]
  BY DEF CollateralTyped
<1>3. CASE MoneyStays
  BY <1>1, <1>3 DEF MoneyStays, SameAt, Waits
<1>4. ASSUME NEW n \in Int, Froze(o, n)
      PROVE  users' = users /\ \A p \in Orders \ {o} : SameAt(p)
  <2>1. /\ \A p \in Orders \ {o} : Locked'[p] = Locked[p] /\ (p \in Backed' <=> p \in Backed)
        /\ Returned' = Returned /\ Freed' = Freed /\ Sold' = Sold /\ Spent' = Spent /\ users' = users
    BY <1>2, <1>4 DEF Froze
  <2> QED BY <1>1, <2>1 DEF SameAt, Waits
<1>5. ASSUME NEW n \in Int, Unfroze(o, n)
      PROVE  users' = users /\ \A p \in Orders \ {o} : SameAt(p)
  <2>1. /\ \A p \in Orders \ {o} : Returned'[p] = Returned[p] /\ (p \in Freed' <=> p \in Freed)
        /\ Locked' = Locked /\ Backed' = Backed /\ Sold' = Sold /\ Spent' = Spent /\ users' = users
    BY <1>2, <1>5 DEF Unfroze
  <2> QED BY <1>1, <2>1 DEF SameAt, Waits
<1> QED BY <1>3, <1>4, <1>5

\* What Goto changes.
LEMMA GotoAt ==
    ASSUME FlowConsistent, NEW o \in Orders, NEW at, Goto(o, at)
    PROVE  /\ place'[o].at = at /\ place'[o].filled = place[o].filled
           /\ place'[o].k = place[o].k /\ place'[o].seen = place[o].seen
           /\ \A p \in Orders \ {o} : place'[p] = place[p]
<1>1. place \in [Orders -> PlaceRecord] /\ place[o] \in PlaceRecord
  BY StoreFacts
<1> QED BY <1>1 DEF Goto, PlaceRecord

LEMMA CancelGotoAt ==
    ASSUME FlowConsistent, NEW o \in Orders, NEW at, CancelGoto(o, at)
    PROVE  /\ cancel'[o].at = at /\ cancel'[o].filled = cancel[o].filled
           /\ \A p \in Orders \ {o} : cancel'[p] = cancel[p]
<1>1. cancel \in [Orders -> CancelRecord] /\ cancel[o] \in CancelRecord
  BY StoreFacts
<1> QED BY <1>1 DEF CancelGoto, CancelRecord

\* The maker of a match is an order.
LEMMA MakersAreOrders ==
    ASSUME FlowConsistent
    PROVE  \A o \in Orders : \A k \in DOMAIN Matches[o] : MakerIn(Matches[o][k], o) \in Orders
<1> SUFFICES ASSUME NEW o \in Orders, NEW k \in DOMAIN Matches[o]
             PROVE  MakerIn(Matches[o][k], o) \in Orders
  OBVIOUS
<1>1. MatchOK(Matches[o], o, order)
  BY BookFacts DEF AnswersFollowBook
<1> QED BY <1>1, MakerFacts
-----------------------------------------------------------------------------
(* The steps of PlaceOrder *)

\* The state the steps start from.
SerialState == FlowConsistent /\ HeldConsistent /\ SerialConsistent

LEMMA SerialFacts ==
    ASSUME SerialState
    PROVE  /\ FlowConsistent /\ HeldConsistent /\ SerialConsistent
           /\ OneByOne /\ TradesAreFair /\ MakersFollow
           /\ TradesHaveSides /\ CollateralTyped /\ FrozenIsHeld
           /\ Locked \in [Orders -> Nat] /\ Returned \in [Orders -> Nat]
           /\ \A o \in Orders :
                 /\ OrderOK(o) /\ StageOK(o) /\ PostedOK(o) /\ StatusOK(o) /\ TakerOK(o)
                 /\ place[o] \in PlaceRecord /\ place[o].k \in Nat /\ place[o].filled \in Nat
                 /\ cancel[o] \in CancelRecord /\ filledQty[o] \in Nat
                 /\ Sold[o] \in Nat /\ Spent[o] \in Nat
                 /\ req[o].quantity \in Nat /\ req[o].quantity > 0 /\ req[o].price \in Nat
                 /\ req[o].user \in Users
           /\ cancel \in [Orders -> CancelRecord] /\ place \in [Orders -> PlaceRecord]
           /\ status \in [Orders -> Statuses] /\ filledQty \in [Orders -> Nat]
<1>1. FlowConsistent /\ HeldConsistent /\ SerialConsistent
  BY DEF SerialState
<1>2. CollateralTyped /\ HeldTyped
  BY <1>1, HeldFacts DEF HeldConsistent
<1>3. \A o \in Orders : OrderOK(o) /\ StageOK(o) /\ PostedOK(o) /\ StatusOK(o) /\ TakerOK(o)
  BY <1>1 DEF SerialConsistent, OrderOK
<1>4. \A o \in Orders : Sold[o] \in Nat /\ Spent[o] \in Nat
  BY <1>2 DEF HeldTyped
<1>5. /\ cancel \in [Orders -> CancelRecord] /\ place \in [Orders -> PlaceRecord]
      /\ status \in [Orders -> Statuses] /\ filledQty \in [Orders -> Nat]
  BY <1>1, StoreFacts
<1>6. \A o \in Orders : /\ place[o] \in PlaceRecord /\ place[o].k \in Nat /\ place[o].filled \in Nat
                        /\ req[o].quantity \in Nat /\ req[o].quantity > 0 /\ req[o].price \in Nat
                        /\ req[o].user \in Users
  BY <1>1, StoreFacts
<1>7. Locked \in [Orders -> Nat] /\ Returned \in [Orders -> Nat]
  BY <1>2 DEF CollateralTyped
<1> QED BY <1>1, <1>2, <1>3, <1>4, <1>5, <1>6, <1>7 DEF SerialConsistent, HeldConsistent

\* An order that was not sent has met nobody.
LEMMA UnsentFacts ==
    ASSUME SerialState, NEW o \in Orders, place[o].at \in {"idle", "create", "submit"}
    PROVE  /\ pc[o] = "idle" /\ ~Submitted(order, o) /\ o \notin Resting /\ cancel[o].at = "idle"
           /\ Sold[o] = 0 /\ Matches[o] = <<>> /\ place[o].filled = 0
<1>1. StageOK(o) /\ TakerOK(o) /\ FlowConsistent /\ CollateralTyped
  BY SerialFacts
<1>2. pc[o] = "idle" /\ ~Submitted(order, o) /\ cancel[o].at = "idle" /\ o \notin Resting
  BY <1>1 DEF StageOK, Working, Writing
<1>3. place[o].filled = 0
  BY <1>1 DEF TakerOK
<1>4. Sold[o] = 0
  <2>1. Sold[o] = SettledQty(o) /\ Sold[o] \in Nat
    BY <1>1, HeldFacts DEF HeldTyped
  <2>2. SettledQty(o) + remaining[o] <= order[o].quantity
    BY <1>1, ConsistentIsSafe DEF FilledIsSettledAndMatched
  <2>3. order[o].quantity = 0 /\ remaining[o] \in Nat
    BY <1>1, <1>2, QuantityFacts DEF Submitted
  <2> QED BY <2>1, <2>2, <2>3
<1>5. Matches[o] = <<>>
  <2>1. mu # o
    BY <1>1, <1>2, BookFacts
  <2>2. resp[o].trades = <<>>
    BY <1>1, <1>2, BookFacts DEF AnswersFollowBook
  <2> QED BY <2>1, <2>2 DEF Matches
<1> QED BY <1>2, <1>3, <1>4, <1>5

\* The order's freeze, or an error that ends the request.
LEMMA PlaceFreezeIsSerial ==
    ASSUME SerialState, FlowConsistent', MaxInFlight = 1, NEW o \in Orders, PlaceFreeze(o)
    PROVE  SerialConsistent'
<1> DEFINE amount == CollateralAmount(req[o], req[o].quantity)
<1>1. /\ place[o].at = "idle" /\ Accepted(req[o]) /\ InFlight < 1
      /\ BookStays /\ cancel' = cancel /\ status' = status /\ filledQty' = filledQty
      /\ \/ Freeze(req[o].user, CollateralAsset(req[o]), amount, o) /\ Goto(o, "create")
         \/ Goto(o, "failed") /\ UNCHANGED accountVars
  BY DEF PlaceFreeze, BookStays, storeVars
<1>2. \A p \in Orders : ~Busy(place, p) /\ ~Busy(cancel, p)
  BY <1>1, Alone
<1>3. NobodyWrites /\ \A p \in Orders : filledQty[p] = Sold[p]
  <2>1. NobodyWrites
    BY <1>2 DEF NobodyWrites, Busy, Writing, Ended
  <2> QED BY <1>2, <2>1, NothingOwed, SerialFacts
<1>4. /\ pc[o] = "idle" /\ ~Submitted(order, o) /\ o \notin Resting /\ cancel[o].at = "idle"
      /\ Sold[o] = 0 /\ Matches[o] = <<>> /\ place[o].filled = 0
  BY <1>1, UnsentFacts
<1>5. /\ Matches' = Matches /\ TradesKept /\ Resting' = Resting
      /\ pc' = pc /\ order' = order /\ req' = req /\ resp' = resp
  BY <1>1, BookStaysFacts, SerialFacts
<1>6. amount \in Int
  BY CollateralType, SerialFacts
<1>7. \/ Froze(o, amount) /\ Goto(o, "create") /\ Settled' = Settled
      \/ MoneyStays /\ Goto(o, "failed") /\ Settled' = Settled
  <2>1. CASE Freeze(req[o].user, CollateralAsset(req[o]), amount, o) /\ Goto(o, "create")
    <3>1. Froze(o, amount)
      BY <1>5, <1>6, <2>1, FreezeMoney, SerialFacts
    <3>2. Settled' = Settled
      <4> HIDE DEF amount
      <4>1. req[o].user \in Users /\ CollateralAsset(req[o]) \in {Base, Quote} /\ LedgerTypeOK
        BY OrdersOfFacts, StoreFacts, SerialFacts
      <4> QED BY <1>6, <2>1, <4>1, CollateralMoves
    <3> QED BY <2>1, <3>1, <3>2
  <2>2. CASE Goto(o, "failed") /\ UNCHANGED accountVars
    BY <1>1, <2>2, QuietMakesNoMove, SerialFacts
  <2> QED BY <1>1, <2>1, <2>2
<1>8. place'[o].at \in {"create", "failed"} /\ place'[o].filled = 0 /\ \A p \in Orders \ {o} : place'[p] = place[p]
  BY <1>4, <1>7, GotoAt, SerialFacts
<1>9. users' = users /\ \A p \in Orders \ {o} : SameAt(p)
  <2>1. \A p \in Orders \ {o} : Waits(p)
    BY <1>1, <1>8 DEF Waits
  <2> QED BY <1>1, <1>6, <1>7, <2>1, MoneyElsewhere, SerialFacts
<1>10. OneByOne'
  BY <1>1, <1>2, <1>8, BusyStarts
<1>11. Sold' = Sold /\ Spent' = Spent /\ Freed' = Freed /\ Settled' = Settled
  BY <1>7 DEF Froze, MoneyStays
<1>12. MakersFollow'
  <2>1. NobodyWrites'
    BY <1>3, <1>8 DEF NobodyWrites, Writing
  <2> QED BY <1>1, <1>3, <1>11, <2>1, NothingOwedNext
<1>13. TradesAreFair'
  <2>1. \A p \in Orders : place[p].at = "done" => place'[p].at = "done"
    BY <1>1, <1>8
  <2>2. ASSUME NEW p \in Orders, NEW k \in DOMAIN Matches'[p]
        PROVE  ~Busy(place', p)
    <3>1. p # o
      BY <1>4, <1>5
    <3> QED BY <1>2, <1>8, <3>1 DEF Busy
  <2>3. \A x \in Orders : \A k \in DOMAIN Matches[x] : MakerIn(Matches[x][k], x) \in Orders
    BY MakersAreOrders, SerialFacts
  <2> QED BY <1>5, <2>1, <2>2, <2>3, FairStays, SerialFacts
<1>14. OrderOK(o)'
  <2>1. StageOK(o)'
    BY <1>1, <1>4, <1>5, <1>8, SerialFacts DEF StageOK, Submitted
  <2>2. StatusOK(o)'
    BY <1>1, <1>4, <1>8 DEF StatusOK, Busy, Ended
  <2>3. TakerOK(o)'
    BY <1>1, <1>3, <1>4, <1>8, <1>11 DEF TakerOK, Busy, Ended, Working, Writing
  <2>4. PostedOK(o)'
    <3>1. status[o] = "NOROW" /\ o \notin Backed /\ o \notin Freed /\ Spent[o] <= CollateralAmount(req[o], Sold[o])
      BY <1>1, SerialFacts DEF StageOK, PostedOK
    <3>2. CASE Froze(o, amount) /\ Goto(o, "create")
      <4>1. /\ o \in Backed' /\ Locked'[o] = amount /\ req[o].user \in users /\ users' = users
        BY <3>2, SerialFacts DEF Froze
      <4> QED BY <1>1, <1>4, <1>5, <1>8, <1>11, <3>1, <4>1 DEF PostedOK, Submitted
    <3>3. CASE MoneyStays /\ Goto(o, "failed")
      <4>1. place'[o].at = "failed" /\ Backed' = Backed
        BY <3>3, GotoAt, SerialFacts DEF MoneyStays
      <4> QED BY <1>1, <1>4, <1>5, <1>11, <3>1, <4>1 DEF PostedOK, Submitted
    <3> QED BY <1>7, <3>2, <3>3
  <2> QED BY <2>1, <2>2, <2>3, <2>4 DEF OrderOK
<1> QED BY <1>9, <1>10, <1>11, <1>12, <1>13, <1>14, OneOrderMoves, SerialFacts

\* A step of the one busy placement.
LEMMA TakerMoves ==
    ASSUME SerialState, NEW o \in Orders, Busy(place, o),
           \A p \in Orders \ {o} : SameAt(p), users' = users, Settled \subseteq Settled',
           TradesKept, req' = req, cancel' = cancel, Freed' = Freed \/ ~Busy(place', o),
           MakersFollow', OrderOK(o)'
    PROVE  SerialConsistent'
<1>1. \A p \in Orders \ {o} : ~Busy(place, p) /\ ~Busy(cancel, p) /\ place'[p] = place[p]
  BY OneIsBusy, SerialFacts DEF SameAt
<1>2. OneByOne'
  <2>1. \A p \in Orders : Busy(place', p) => Busy(place, p)
    BY <1>1 DEF Busy
  <2> QED BY <2>1, BusyStays, SerialFacts DEF Busy
<1>3. TradesAreFair'
  <2>1. \A p \in Orders : place[p].at = "done" => place'[p].at = "done"
    BY <1>1 DEF Busy, Ended
  <2>2. \A p \in Orders : Busy(place', p) => p = o
    BY <1>1 DEF Busy
  <2>3. \A p \in Orders : \A k \in DOMAIN Matches'[p] :
          Busy(place', p) => Busy(place, p) /\ Freed' = Freed /\ cancel' = cancel
    BY <2>2
  <2> QED BY <2>1, <2>3, FairStays, MakersAreOrders, SerialFacts
<1> QED BY <1>2, <1>3, OneOrderMoves, SerialFacts

\* A call to the account service or the store for the one busy placement.
LEMMA RequestMoves ==
    ASSUME SerialState, FlowConsistent', BookStays, NEW o \in Orders, Busy(place, o), cancel' = cancel,
           \A p \in Orders \ {o} : Waits(p),
           MoneyStays \/ (\E n \in Int : Froze(o, n) \/ Unfroze(o, n)),
           Freed' = Freed \/ ~Busy(place', o), Settled' = Settled,
           MakersFollow', OrderOK(o)'
    PROVE  SerialConsistent'
<1>1. TradesKept /\ req' = req
  BY BookStaysFacts, SerialFacts
<1>2. users' = users /\ \A p \in Orders \ {o} : SameAt(p)
  BY MoneyElsewhere, SerialFacts
<1> QED BY <1>1, <1>2, TakerMoves

\* Nobody owes a maker before and after a step that does not write.
LEMMA QuietMakers ==
    ASSUME SerialState, NEW o \in Orders, Busy(place, o),
           place[o].at \notin Writing, place'[o].at \notin Writing,
           \A p \in Orders \ {o} : place'[p] = place[p] /\ filledQty'[p] = filledQty[p] /\ Sold'[p] = Sold[p],
           ~Busy(place', o) => filledQty'[o] = Sold'[o]
    PROVE  MakersFollow'
<1>1. \A p \in Orders \ {o} : ~Busy(place, p) /\ ~Busy(cancel, p)
  BY OneIsBusy, SerialFacts
<1>2. NobodyWrites /\ NobodyWrites'
  BY <1>1 DEF NobodyWrites, Busy, Ended, Writing
<1>3. \A p \in Orders \ {o} : filledQty[p] = Sold[p]
  BY <1>1, <1>2, NothingOwed, SerialFacts
<1>4. \A p \in Orders : ~Busy(place', p) => filledQty'[p] = Sold'[p]
  BY <1>3
<1> QED BY <1>2, <1>4, NothingOwedNext

\* A step that neither calls the account service nor the engine.
LEMMA QuietMoves ==
    ASSUME SerialState, FlowConsistent', UNCHANGED accountVars, BookStays, NEW o \in Orders,
           Busy(place, o), cancel' = cancel, \A p \in Orders \ {o} : Waits(p),
           MakersFollow', OrderOK(o)'
    PROVE  SerialConsistent'
<1>1. MoneyStays /\ Settled' = Settled /\ Freed' = Freed
  BY QuietMakesNoMove, SerialFacts DEF MoneyStays
<1> QED BY <1>1, RequestMoves

\* What such a step leaves, in the terms of OrderOK.
QuietAt(o) ==
    /\ cancel'[o] = cancel[o] /\ req'[o] = req[o] /\ resp'[o] = resp[o]
    /\ pc'[o] = pc[o] /\ order'[o] = order[o] /\ Resting' = Resting
    /\ Backed' = Backed /\ Freed' = Freed /\ Locked' = Locked /\ Returned' = Returned
    /\ Sold' = Sold /\ Spent' = Spent /\ users' = users /\ Settled' = Settled

LEMMA QuietFacts ==
    ASSUME SerialState, FlowConsistent', UNCHANGED accountVars, BookStays, cancel' = cancel
    PROVE  \A o \in Orders : QuietAt(o)
<1>1. MoneyStays /\ Settled' = Settled
  BY QuietMakesNoMove, SerialFacts
<1>2. Resting' = Resting /\ pc' = pc /\ order' = order /\ req' = req /\ resp' = resp
  BY BookStaysFacts, SerialFacts
<1> QED BY <1>1, <1>2 DEF QuietAt, MoneyStays

\* The row of the order.
LEMMA CreateOrderIsSerial ==
    ASSUME SerialState, FlowConsistent', ~Fault, NEW o \in Orders, CreateOrder(o)
    PROVE  SerialConsistent'
<1>1. /\ place[o].at = "create" /\ Busy(place, o) /\ UNCHANGED accountVars /\ BookStays /\ cancel' = cancel
      /\ filledQty' = filledQty /\ status' = [status EXCEPT ![o] = "NEW"] /\ Goto(o, "submit")
  BY DEF CreateOrder, BookStays, Busy, Ended
<1>2. /\ place'[o].at = "submit" /\ place'[o].filled = place[o].filled
      /\ status'[o] = "NEW" /\ \A p \in Orders \ {o} : Waits(p)
  BY <1>1, GotoAt, SerialFacts DEF Waits
<1>3. QuietAt(o) /\ MoneyStays
  BY <1>1, QuietFacts, QuietMakesNoMove, SerialFacts
<1>4. StageOK(o) /\ PostedOK(o) /\ StatusOK(o) /\ TakerOK(o)
  BY SerialFacts
<1>5. StageOK(o)'
  BY <1>1, <1>2, <1>3, <1>4 DEF StageOK, QuietAt, Submitted, Working, Writing
<1>6. PostedOK(o)'
  BY <1>1, <1>2, <1>3, <1>4 DEF PostedOK, QuietAt, Submitted, Busy, Ended
<1>7. StatusOK(o)'
  BY <1>1, <1>2, <1>3, <1>4 DEF StatusOK, StageOK, QuietAt, Busy, Ended
<1>8. TakerOK(o)'
  BY <1>1, <1>2, <1>3, <1>4 DEF TakerOK, QuietAt, Busy, Ended, Working, Writing
<1>9. MakersFollow'
  <2>1. place[o].at \notin Writing /\ place'[o].at \notin Writing /\ Busy(place', o)
    BY <1>1, <1>2 DEF Writing, Busy, Ended
  <2>2. \A p \in Orders \ {o} : place'[p] = place[p] /\ filledQty'[p] = filledQty[p] /\ Sold'[p] = Sold[p]
    BY <1>2, <1>3 DEF Waits, MoneyStays
  <2> QED BY <1>1, <2>1, <2>2, QuietMakers
<1> QED BY <1>1, <1>2, <1>5, <1>6, <1>7, <1>8, <1>9, QuietMoves DEF OrderOK

\* The client is refused, or its connection breaks.
LEMMA SubmitErrorIsSerial ==
    ASSUME SerialState, FlowConsistent', NEW o \in Orders, SubmitRefused(o) \/ SubmitReset(o)
    PROVE  SerialConsistent'
<1>1. /\ place[o].at \in {"submit", "await"} /\ Busy(place, o) /\ UNCHANGED accountVars /\ BookStays
      /\ cancel' = cancel /\ filledQty' = filledQty /\ status' = status /\ Goto(o, "undo")
      /\ place[o].at = "await" => pc[o] = "idle"
  BY DEF SubmitRefused, SubmitReset, BookStays, storeVars, Busy, Ended
<1>2. /\ place'[o].at = "undo" /\ place'[o].filled = place[o].filled
      /\ \A p \in Orders \ {o} : Waits(p)
  BY <1>1, GotoAt, SerialFacts DEF Waits
<1>3. QuietAt(o) /\ MoneyStays
  BY <1>1, QuietFacts, QuietMakesNoMove, SerialFacts
<1>4. StageOK(o) /\ PostedOK(o) /\ StatusOK(o) /\ TakerOK(o)
  BY SerialFacts
<1>5. pc[o] = "idle" /\ o \notin Resting
  <2>1. pc[o] = "idle"
    BY <1>1, <1>4 DEF StageOK
  <2>2. o \in Resting => pc[o] = "returned"
    BY SerialFacts DEF FlowConsistent, BookHolds
  <2> QED BY <2>1, <2>2
<1>6. StageOK(o)'
  BY <1>1, <1>2, <1>3, <1>4, <1>5 DEF StageOK, QuietAt, Submitted, Working, Writing
<1>7. PostedOK(o)'
  BY <1>1, <1>2, <1>3, <1>4 DEF PostedOK, QuietAt, Submitted, Busy, Ended
<1>8. StatusOK(o)'
  BY <1>1, <1>2, <1>3, <1>4 DEF StatusOK, StageOK, QuietAt, Busy, Ended
<1>9. TakerOK(o)'
  BY <1>1, <1>2, <1>3, <1>4 DEF TakerOK, QuietAt, Busy, Ended, Working, Writing
<1>10. MakersFollow'
  <2>1. place[o].at \notin Writing /\ place'[o].at \notin Writing /\ Busy(place', o)
    BY <1>1, <1>2 DEF Writing, Busy, Ended
  <2>2. \A p \in Orders \ {o} : place'[p] = place[p] /\ filledQty'[p] = filledQty[p] /\ Sold'[p] = Sold[p]
    BY <1>2, <1>3 DEF Waits, MoneyStays
  <2> QED BY <1>1, <2>1, <2>2, QuietMakers
<1> QED BY <1>1, <1>2, <1>6, <1>7, <1>8, <1>9, <1>10, QuietMoves DEF OrderOK

\* The answer arrives.
LEMMA SubmitAnsweredIsSerial ==
    ASSUME SerialState, FlowConsistent', NEW o \in Orders, SubmitAnswered(o)
    PROVE  SerialConsistent'
<1>1. /\ place[o].at = "await" /\ pc[o] = "returned" /\ Busy(place, o) /\ UNCHANGED accountVars /\ BookStays
      /\ cancel' = cancel /\ filledQty' = filledQty /\ status' = status
  BY DEF SubmitAnswered, BookStays, storeVars, Busy, Ended
<1>2. /\ place'[o].at = (IF resp[o].trades = <<>> THEN "own" ELSE "settle")
      /\ place'[o].filled = place[o].filled /\ place'[o].k = 1
      /\ \A p \in Orders \ {o} : Waits(p)
  <2>1. place \in [Orders -> PlaceRecord] /\ place[o] \in PlaceRecord
    BY SerialFacts
  <2> QED BY <1>1, <2>1 DEF SubmitAnswered, PlaceRecord, Waits
<1>3. QuietAt(o) /\ MoneyStays
  BY <1>1, QuietFacts, QuietMakesNoMove, SerialFacts
<1>4. StageOK(o) /\ PostedOK(o) /\ StatusOK(o) /\ TakerOK(o)
  BY SerialFacts
<1>5. place'[o].at \in {"own", "settle"}
  BY <1>2
<1>6. StageOK(o)'
  BY <1>1, <1>3, <1>4, <1>5 DEF StageOK, QuietAt, Submitted, Working, Writing
<1>7. PostedOK(o)'
  BY <1>1, <1>3, <1>4, <1>5 DEF PostedOK, QuietAt, Submitted, Busy, Ended
<1>8. StatusOK(o)'
  BY <1>1, <1>3, <1>4, <1>5 DEF StatusOK, StageOK, QuietAt, Busy, Ended
<1>9. TakerOK(o)'
  <2>1. \A j \in DOMAIN resp[o].trades : j \in Nat /\ ~(j < 1)
    BY BookFacts, SerialFacts
  <2>2. place'[o].at = "own" => \A j \in DOMAIN resp[o].trades : FALSE
    BY <1>2
  <2>3. /\ filledQty[o] = 0 /\ Sold[o] = place[o].filled + 0 /\ place[o].filled = 0
    BY <1>1, <1>4 DEF TakerOK
  <2>4. place'[o].at \notin {"insert", "release", "done", "idle", "create", "submit", "await", "undo"}
    BY <1>5
  <2> QED BY <1>1, <1>2, <1>3, <2>1, <2>2, <2>3, <2>4 DEF TakerOK, QuietAt
<1>10. MakersFollow'
  <2>1. place[o].at \notin Writing /\ place'[o].at \notin Writing /\ Busy(place', o)
    BY <1>1, <1>5 DEF Writing, Busy, Ended
  <2>2. \A p \in Orders \ {o} : place'[p] = place[p] /\ filledQty'[p] = filledQty[p] /\ Sold'[p] = Sold[p]
    BY <1>2, <1>3 DEF Waits, MoneyStays
  <2> QED BY <1>1, <2>1, <2>2, QuietMakers
<1> QED BY <1>1, <1>2, <1>6, <1>7, <1>8, <1>9, <1>10, QuietMoves DEF OrderOK

\* What a taker that works on a trade knows of its maker.
LEMMA MakerIsFair ==
    ASSUME SerialState, NEW o \in Orders, place[o].at \in Working
    PROVE  /\ Busy(place, o) /\ Maker(o) \in Orders /\ Maker(o) # o
           /\ {TheTrade(o).buy, TheTrade(o).sell} = {o, Maker(o)}
           /\ TheTrade(o) \in Trade /\ TheTrade(o).quantity \in Nat /\ TheTrade(o).quantity > 0
           /\ TheTrade(o).price <= req[TheTrade(o).buy].price
           /\ HasSides(TheTrade(o), req)
           /\ place[Maker(o)].at = "done" /\ Maker(o) \notin Freed
           /\ cancel[Maker(o)].at # "done" /\ ~Busy(cancel, Maker(o))
<1>1. Busy(place, o) /\ place[o].at \in {"settle", "insert", "read", "update"}
  BY DEF Working, Writing, Busy, Ended
<1>2. /\ TheTrade(o) \in Trade /\ TheTrade(o).quantity \in Nat
      /\ Maker(o) \in Orders /\ Maker(o) # o
      /\ {TheTrade(o).buy, TheTrade(o).sell} = {o, Maker(o)}
      /\ place[o].k \in DOMAIN resp[o].trades /\ Answers[o][place[o].k] = TheTrade(o)
      /\ Answers[o] = resp[o].trades
  BY <1>1, TradeFacts, SerialFacts
<1>3. Matches[o] = Answers[o]
  BY <1>2, BookFacts, SerialFacts
<1>4. place[o].k \in DOMAIN Matches[o] /\ Matches[o][place[o].k] = TheTrade(o)
  BY <1>2, <1>3
<1>5. MakerIn(TheTrade(o), o) = Maker(o)
  BY DEF MakerIn, Maker
<1>6. HasSides(TheTrade(o), req)
  BY <1>4, SerialFacts DEF TradesHaveSides
<1>7. /\ TheTrade(o).quantity > 0 /\ TheTrade(o).price <= req[TheTrade(o).buy].price
      /\ place[Maker(o)].at = "done" /\ Maker(o) \notin Freed /\ cancel[Maker(o)].at # "done"
  BY <1>1, <1>4, <1>5, SerialFacts DEF TradesAreFair
<1>8. ~Busy(cancel, Maker(o))
  BY <1>1, <1>2, OneIsBusy, SerialFacts
<1> QED BY <1>1, <1>2, <1>6, <1>7, <1>8

\* A taker that goes on writing the same trade.
LEMMA SameTrade ==
    ASSUME SerialState, NEW o \in Orders, place[o].at \in Writing, place'[o].at \in Writing,
           place'[o].k = place[o].k, resp' = resp, filledQty' = filledQty, Sold' = Sold,
           \A p \in Orders \ {o} : place'[p] = place[p],
           place'[o].at = "update" => place'[o].seen = filledQty[Maker(o)]
    PROVE  MakersFollow'
<1>1. Maker(o)' = Maker(o) /\ TheTrade(o)' = TheTrade(o)
  BY DEF Maker, TheTrade
<1>2. Busy(place, o) /\ Busy(place', o)
  BY DEF Busy, Writing, Ended
<1>3. \A p \in Orders \ {o} : ~Busy(place, p) /\ place[p].at \notin Writing
  <2>1. \A p \in Orders \ {o} : ~Busy(place, p)
    BY <1>2, OneIsBusy, SerialFacts
  <2> QED BY <2>1 DEF Busy, Writing, Ended
<1>4. \A p \in Orders : place'[p].at \in Writing => p = o
  BY <1>3
<1>5. ASSUME NEW p \in Orders, place'[p].at \in Writing
      PROVE  Sold'[Maker(p)'] = filledQty'[Maker(p)'] + TheTrade(p)'.quantity
  <2>1. p = o
    BY <1>4, <1>5
  <2>2. Sold[Maker(o)] = filledQty[Maker(o)] + TheTrade(o).quantity
    BY SerialFacts DEF MakersFollow
  <2> QED BY <1>1, <2>1, <2>2
<1>6. ASSUME NEW p \in Orders, place'[p].at = "update"
      PROVE  place'[p].seen = filledQty'[Maker(p)']
  <2>1. p = o
    BY <1>4, <1>6 DEF Writing
  <2> QED BY <1>1, <1>6, <2>1
<1>7. ASSUME NEW p \in Orders, ~Busy(place', p),
             \A x \in Orders : place'[x].at \in Writing => Maker(x)' # p
      PROVE  filledQty'[p] = Sold'[p]
  <2>1. p # o /\ ~Busy(place, p)
    BY <1>2, <1>3, <1>7
  <2>2. Maker(o) # p
    BY <1>1, <1>7
  <2>3. \A x \in Orders : place[x].at \in Writing => Maker(x) # p
    BY <1>3, <2>2
  <2> QED BY <2>1, <2>3, SerialFacts DEF MakersFollow
<1> QED BY <1>5, <1>6, <1>7 DEF MakersFollow, Busy

\* The row of the trade.
LEMMA InsertTradeIsSerial ==
    ASSUME SerialState, FlowConsistent', NEW o \in Orders, InsertTrade(o)
    PROVE  SerialConsistent'
<1>1. /\ place[o].at = "insert" /\ Busy(place, o) /\ UNCHANGED accountVars /\ BookStays
      /\ cancel' = cancel /\ filledQty' = filledQty /\ status' = status
  BY DEF InsertTrade, BookStays, Busy, Ended
<1>2. /\ place'[o].at = "read" /\ place'[o].k = place[o].k
      /\ place'[o].filled = place[o].filled + TheTrade(o).quantity
      /\ \A p \in Orders \ {o} : Waits(p)
  <2>1. place \in [Orders -> PlaceRecord] /\ place[o] \in PlaceRecord
    BY SerialFacts
  <2> QED BY <1>1, <2>1 DEF InsertTrade, PlaceRecord, Waits
<1>3. QuietAt(o) /\ MoneyStays
  BY <1>1, QuietFacts, QuietMakesNoMove, SerialFacts
<1>4. StageOK(o) /\ PostedOK(o) /\ StatusOK(o) /\ TakerOK(o)
  BY SerialFacts
<1>5. StageOK(o)'
  BY <1>1, <1>2, <1>3, <1>4 DEF StageOK, QuietAt, Submitted, Working, Writing
<1>6. PostedOK(o)'
  BY <1>1, <1>2, <1>3, <1>4 DEF PostedOK, QuietAt, Submitted, Busy, Ended
<1>7. StatusOK(o)'
  BY <1>1, <1>2, <1>3, <1>4 DEF StatusOK, StageOK, QuietAt, Busy, Ended
<1>8. TakerOK(o)'
  <2>1. filledQty[o] = 0 /\ Sold[o] = place[o].filled + TheTrade(o).quantity
    BY <1>1, <1>4 DEF TakerOK
  <2>2. Sold'[o] = place'[o].filled /\ place'[o].filled \in Int
    BY <1>2, <1>3, <2>1, SerialFacts DEF QuietAt
  <2>3. \A j \in DOMAIN resp[o].trades : j < place[o].k => <<o, j>> \in Settled
    BY <1>1, <1>4 DEF TakerOK, Working, Writing
  <2> QED BY <1>1, <1>2, <1>3, <2>1, <2>2, <2>3 DEF TakerOK, QuietAt, Busy
<1>9. MakersFollow'
  <2>1. place[o].at \in Writing /\ place'[o].at \in Writing /\ place'[o].at # "update"
    BY <1>1, <1>2 DEF Writing
  <2>2. resp' = resp /\ Sold' = Sold /\ \A p \in Orders \ {o} : place'[p] = place[p]
    BY <1>1, <1>2, <1>3 DEF BookStays, Waits, MoneyStays
  <2> QED BY <1>1, <1>2, <2>1, <2>2, SameTrade
<1> QED BY <1>1, <1>2, <1>5, <1>6, <1>7, <1>8, <1>9, QuietMoves DEF OrderOK

\* The read of the maker's row.
LEMMA ReadMakerIsSerial ==
    ASSUME SerialState, FlowConsistent', NEW o \in Orders, ReadMaker(o)
    PROVE  SerialConsistent'
<1>1. /\ place[o].at = "read" /\ Busy(place, o) /\ UNCHANGED accountVars /\ BookStays
      /\ cancel' = cancel /\ filledQty' = filledQty /\ status' = status
  BY DEF ReadMaker, BookStays, storeVars, Busy, Ended
<1>2. /\ place'[o].at = "update" /\ place'[o].k = place[o].k /\ place'[o].filled = place[o].filled
      /\ place'[o].seen = filledQty[Maker(o)]
      /\ \A p \in Orders \ {o} : Waits(p)
  <2>1. place \in [Orders -> PlaceRecord] /\ place[o] \in PlaceRecord
    BY SerialFacts
  <2> QED BY <1>1, <2>1 DEF ReadMaker, PlaceRecord, Waits
<1>3. QuietAt(o) /\ MoneyStays
  BY <1>1, QuietFacts, QuietMakesNoMove, SerialFacts
<1>4. StageOK(o) /\ PostedOK(o) /\ StatusOK(o) /\ TakerOK(o)
  BY SerialFacts
<1>5. StageOK(o)'
  BY <1>1, <1>2, <1>3, <1>4 DEF StageOK, QuietAt, Submitted, Working, Writing
<1>6. PostedOK(o)'
  BY <1>1, <1>2, <1>3, <1>4 DEF PostedOK, QuietAt, Submitted, Busy, Ended
<1>7. StatusOK(o)'
  BY <1>1, <1>2, <1>3, <1>4 DEF StatusOK, StageOK, QuietAt, Busy, Ended
<1>8. TakerOK(o)'
  BY <1>1, <1>2, <1>3, <1>4 DEF TakerOK, QuietAt, Busy, Ended, Working, Writing
<1>9. MakersFollow'
  <2>1. place[o].at \in Writing /\ place'[o].at \in Writing
    BY <1>1, <1>2 DEF Writing
  <2>2. resp' = resp /\ Sold' = Sold /\ \A p \in Orders \ {o} : place'[p] = place[p]
    BY <1>1, <1>2, <1>3 DEF BookStays, Waits, MoneyStays
  <2> QED BY <1>1, <1>2, <2>1, <2>2, SameTrade
<1> QED BY <1>1, <1>2, <1>5, <1>6, <1>7, <1>8, <1>9, QuietMoves DEF OrderOK

\* The own row.
LEMMA UpdateOwnIsSerial ==
    ASSUME SerialState, FlowConsistent', ~Fault, NEW o \in Orders, UpdateOwn(o)
    PROVE  SerialConsistent'
<1> DEFINE filled == place[o].filled
           row == IF filled > 0 THEN FillStatus(filled, req[o].quantity)
                  ELSE IF resp[o].resting THEN "NEW" ELSE "CANCELLED"
           next == IF resp[o].resting \/ filled >= req[o].quantity THEN "done" ELSE "release"
<1>1. /\ place[o].at = "own" /\ Busy(place, o) /\ UNCHANGED accountVars /\ BookStays
      /\ cancel' = cancel /\ Goto(o, next)
      /\ filledQty' = [filledQty EXCEPT ![o] = filled] /\ status' = [status EXCEPT ![o] = row]
  BY DEF UpdateOwn, Try, BookStays, Busy, Ended
<1>2. /\ place'[o].at = next /\ place'[o].filled = filled /\ filledQty'[o] = filled /\ status'[o] = row
      /\ \A p \in Orders \ {o} : Waits(p)
  <2> HIDE DEF row, next, filled
  <2>1. status \in [Orders -> Statuses] /\ filledQty \in [Orders -> Nat]
    BY SerialFacts
  <2>2. place'[o].at = next /\ place'[o].filled = place[o].filled /\ \A p \in Orders \ {o} : place'[p] = place[p]
    BY <1>1, GotoAt, SerialFacts
  <2>3. filledQty'[o] = filled /\ status'[o] = row
    BY <1>1, <2>1
  <2>4. \A p \in Orders \ {o} : filledQty'[p] = filledQty[p] /\ status'[p] = status[p]
    BY <1>1, <2>1
  <2> QED BY <1>1, <2>2, <2>3, <2>4 DEF Waits, filled
<1>3. QuietAt(o) /\ MoneyStays
  BY <1>1, QuietFacts, QuietMakesNoMove, SerialFacts
<1>4. StageOK(o) /\ PostedOK(o) /\ StatusOK(o) /\ TakerOK(o)
  BY SerialFacts
<1>5. /\ place'[o].at \in {"done", "release"}
      /\ resp[o].resting => place'[o].at = "done"
      /\ place'[o].filled = filled /\ filledQty'[o] = filled
      /\ place[o].at = "own" /\ cancel[o].at = "idle" /\ Sold[o] = filled
  <2>1. cancel[o].at = "idle"
    BY <1>1, <1>4 DEF StageOK
  <2>2. Sold[o] = filled + 0 /\ filled \in Nat
    BY <1>1, <1>4, SerialFacts DEF TakerOK
  <2> QED BY <1>1, <1>2, <2>1, <2>2
<1>6. status'[o] # "NOROW"
  BY <1>2 DEF FillStatus
<1>7. \A j \in DOMAIN resp[o].trades : <<o, j>> \in Settled
  BY <1>1, <1>4 DEF TakerOK
<1>8. StageOK(o)'
  <2> HIDE DEF row, filled, next
  <2> QED BY <1>3, <1>4, <1>5 DEF StageOK, QuietAt, Submitted, Working, Writing
<1>9. PostedOK(o)'
  <2> HIDE DEF row, filled, next
  <2>1. o \in Backed /\ o \notin Freed
    BY <1>4, <1>5 DEF PostedOK, Busy, Ended
  <2> QED BY <1>3, <1>4, <1>5, <2>1 DEF PostedOK, QuietAt, Submitted, Busy, Ended
<1>10. StatusOK(o)'
  BY <1>2, <1>3, <1>5 DEF StatusOK, QuietAt, Busy, Ended
<1>11. TakerOK(o)'
  <2> HIDE DEF row, filled, next
  <2>1. Sold'[o] = filled + 0 /\ Sold'[o] = filled
    BY <1>3, <1>5, SerialFacts DEF QuietAt
  <2> QED BY <1>3, <1>5, <1>7, <2>1 DEF TakerOK, QuietAt, Busy, Ended, Working, Writing
<1>12. MakersFollow'
  <2> HIDE DEF row, filled, next
  <2>1. place[o].at \notin Writing /\ place'[o].at \notin Writing /\ filledQty'[o] = Sold'[o]
    BY <1>3, <1>5 DEF Writing, QuietAt
  <2>2. \A p \in Orders \ {o} : place'[p] = place[p] /\ filledQty'[p] = filledQty[p] /\ Sold'[p] = Sold[p]
    BY <1>2, <1>3 DEF Waits, MoneyStays
  <2> QED BY <1>1, <2>1, <2>2, QuietMakers
<1> HIDE DEF row, filled, next
<1> QED BY <1>1, <1>2, <1>8, <1>9, <1>10, <1>11, <1>12, QuietMoves DEF OrderOK

\* An unfreeze for the one busy placement, after which it ends.
LEMMA UnfreezeFacts ==
    ASSUME SerialState, FlowConsistent', BookStays, NEW o \in Orders, NEW n \in Int,
           Unfreeze(req[o].user, CollateralAsset(req[o]), n, o)
    PROVE  Unfroze(o, n) /\ Settled' = Settled
<1>1. req' = req /\ resp' = resp
  BY BookStaysFacts, SerialFacts
<1>2. Unfroze(o, n)
  BY <1>1, UnfreezeMoney, SerialFacts
<1>3. req[o].user \in Users /\ CollateralAsset(req[o]) \in {Base, Quote} /\ LedgerTypeOK
  BY OrdersOfFacts, StoreFacts, SerialFacts
<1>4. Settled' = Settled
  BY <1>3, CollateralMoves
<1> QED BY <1>2, <1>4

\* What a placement that ends leaves, with or without an unfreeze: n is what
\* is unfrozen.
EndsAt(o, n) ==
    /\ cancel'[o] = cancel[o] /\ req'[o] = req[o] /\ resp'[o] = resp[o]
    /\ pc'[o] = pc[o] /\ order'[o] = order[o] /\ Resting' = Resting
    /\ status'[o] = status[o] /\ filledQty'[o] = filledQty[o] /\ place'[o].filled = place[o].filled
    /\ Backed' = Backed /\ Locked' = Locked
    /\ Sold' = Sold /\ Spent' = Spent /\ users' = users /\ Settled' = Settled
    /\ o \in Freed' => o \in Freed \/ Returned'[o] = n
    /\ o \notin Freed' => Returned'[o] = Returned[o]
    /\ \A p \in Orders \ {o} : place'[p] = place[p] /\ filledQty'[p] = filledQty[p]

\* A placement that ends in `at', perhaps with an unfreeze of n.
Ends(o, n, at) ==
    /\ Busy(place, o) /\ BookStays /\ UNCHANGED storeVars /\ cancel' = cancel /\ Goto(o, at)
    /\ Unfreeze(req[o].user, CollateralAsset(req[o]), n, o) \/ UNCHANGED accountVars

LEMMA EndFacts ==
    ASSUME SerialState, FlowConsistent', NEW o \in Orders, NEW n \in Int, NEW at, Ends(o, n, at)
    PROVE  /\ EndsAt(o, n) /\ place'[o].at = at
           /\ \A p \in Orders \ {o} : Waits(p)
           /\ MoneyStays \/ \E k \in Int : Froze(o, k) \/ Unfroze(o, k)
<1>1. /\ BookStays /\ status' = status /\ filledQty' = filledQty /\ cancel' = cancel /\ Goto(o, at)
      /\ Unfreeze(req[o].user, CollateralAsset(req[o]), n, o) \/ UNCHANGED accountVars
  BY DEF Ends, storeVars
<1>2. /\ Resting' = Resting /\ pc' = pc /\ order' = order /\ req' = req /\ resp' = resp
  BY <1>1, BookStaysFacts, SerialFacts
<1>3. /\ place'[o].at = at /\ place'[o].filled = place[o].filled
      /\ \A p \in Orders \ {o} : place'[p] = place[p]
  BY <1>1, GotoAt, SerialFacts
<1>4. \A p \in Orders \ {o} : Waits(p)
  BY <1>1, <1>3 DEF Waits
<1>5. CASE UNCHANGED accountVars
  <2>1. MoneyStays /\ Settled' = Settled
    BY <1>1, <1>5, QuietMakesNoMove, SerialFacts
  <2>2. EndsAt(o, n)
    BY <1>1, <1>2, <1>3, <2>1 DEF EndsAt, MoneyStays
  <2> QED BY <1>3, <1>4, <2>1, <2>2
<1>6. CASE Unfreeze(req[o].user, CollateralAsset(req[o]), n, o)
  <2>1. Unfroze(o, n) /\ Settled' = Settled
    BY <1>1, <1>6, UnfreezeFacts
  <2>2. Returned'[o] = n
    BY <2>1, SerialFacts DEF Unfroze
  <2>3. o \in Freed'
    BY <2>1 DEF Unfroze
  <2>4. EndsAt(o, n)
    BY <1>1, <1>2, <1>3, <2>1, <2>2, <2>3 DEF EndsAt, Unfroze
  <2> QED BY <1>3, <1>4, <2>1, <2>4
<1> QED BY <1>1, <1>5, <1>6

LEMMA EndIsSerial ==
    ASSUME SerialState, FlowConsistent', NEW o \in Orders, NEW n \in Int, NEW at \in {"failed", "done"},
           Ends(o, n, at), place[o].at \notin Writing, filledQty[o] = Sold[o], OrderOK(o)'
    PROVE  SerialConsistent'
<1>1. /\ EndsAt(o, n) /\ place'[o].at = at /\ Busy(place, o) /\ BookStays /\ cancel' = cancel
      /\ \A p \in Orders \ {o} : Waits(p)
      /\ MoneyStays \/ \E k \in Int : Froze(o, k) \/ Unfroze(o, k)
  BY EndFacts DEF Ends
<1>2. Settled' = Settled /\ Sold' = Sold /\ filledQty'[o] = filledQty[o]
      /\ \A p \in Orders \ {o} : place'[p] = place[p] /\ filledQty'[p] = filledQty[p]
  BY <1>1 DEF EndsAt
<1>3. MakersFollow'
  <2>1. place'[o].at \notin Writing
    BY <1>1 DEF Writing
  <2> QED BY <1>1, <1>2, <2>1, QuietMakers
<1>4. ~Busy(place', o)
  BY <1>1 DEF Busy, Ended
<1> QED BY <1>1, <1>2, <1>3, <1>4, RequestMoves

\* The collateral comes back after a placement that reached nobody.
LEMMA PlaceUndoIsSerial ==
    ASSUME SerialState, FlowConsistent', NEW o \in Orders, PlaceUndo(o)
    PROVE  SerialConsistent'
<1> DEFINE n == CollateralAmount(req[o], req[o].quantity)
<1>1. place[o].at = "undo" /\ Ends(o, n, "failed")
  BY DEF PlaceUndo, UnfreezeIfPossible, Unfreeze, Ends, BookStays, Busy, Ended
<1>2. n \in Int
  BY CollateralType, SerialFacts
<1>3. StageOK(o) /\ PostedOK(o) /\ StatusOK(o) /\ TakerOK(o)
  BY SerialFacts
<1>4. EndsAt(o, n) /\ place'[o].at = "failed" /\ Busy(place, o)
  BY <1>1, <1>2, EndFacts DEF Ends
<1>5. /\ place[o].filled = 0 /\ Sold[o] = 0 /\ filledQty[o] = 0 /\ o \in Backed /\ o \notin Freed
      /\ o \notin Resting /\ cancel[o].at = "idle"
  <2>1. place[o].filled = 0 /\ Sold[o] = place[o].filled + 0 /\ filledQty[o] = 0
    BY <1>1, <1>3, <1>4 DEF TakerOK
  <2>2. o \in Backed /\ o \notin Freed
    BY <1>1, <1>3, <1>4 DEF PostedOK
  <2>3. o \notin Resting /\ cancel[o].at = "idle"
    BY <1>1, <1>3 DEF StageOK, Working, Writing
  <2> QED BY <2>1, <2>2, <2>3
<1>6. n = CollateralAmount(req[o], req[o].quantity - Sold[o])
  <2>1. req[o].quantity - Sold[o] = req[o].quantity
    BY <1>5, SerialFacts
  <2> QED BY <2>1
<1> HIDE DEF n
<1>7. StageOK(o)'
  BY <1>1, <1>3, <1>4, <1>5 DEF StageOK, EndsAt, Submitted
<1>8. PostedOK(o)'
  BY <1>3, <1>4, <1>5, <1>6 DEF PostedOK, EndsAt, Submitted, Busy, Ended
<1>9. StatusOK(o)'
  BY <1>4, <1>5 DEF StatusOK, EndsAt, Busy, Ended
<1>10. TakerOK(o)'
  BY <1>4 DEF TakerOK, EndsAt, Busy, Ended, Working, Writing
<1>11. place[o].at \notin Writing /\ filledQty[o] = Sold[o]
  BY <1>1, <1>5 DEF Writing
<1> QED BY <1>1, <1>2, <1>7, <1>8, <1>9, <1>10, <1>11, EndIsSerial DEF OrderOK

\* The collateral that a market sell has not used comes back.
LEMMA ReleaseRemainingIsSerial ==
    ASSUME SerialState, FlowConsistent', NEW o \in Orders, ReleaseRemaining(o)
    PROVE  SerialConsistent'
<1> DEFINE n == CollateralAmount(req[o], req[o].quantity - place[o].filled)
<1>1. place[o].at = "release" /\ \E at \in {"failed", "done"} : Ends(o, n, at)
  BY DEF ReleaseRemaining, Ends, BookStays, Busy, Ended
<1>2. PICK at \in {"failed", "done"} : Ends(o, n, at)
  BY <1>1
<1>3. n \in Int
  <2>1. req[o].quantity - place[o].filled \in Int
    BY SerialFacts
  <2> QED BY <2>1, CollateralType, SerialFacts
<1>4. StageOK(o) /\ PostedOK(o) /\ StatusOK(o) /\ TakerOK(o)
  BY SerialFacts
<1>5. EndsAt(o, n) /\ place'[o].at = at /\ Busy(place, o)
  BY <1>2, <1>3, EndFacts DEF Ends
<1>6. /\ Sold[o] = place[o].filled /\ filledQty[o] = place[o].filled /\ o \in Backed /\ o \notin Freed
      /\ o \notin Resting /\ cancel[o].at = "idle"
      /\ \A j \in DOMAIN resp[o].trades : <<o, j>> \in Settled
  <2>1. Sold[o] = place[o].filled + 0 /\ filledQty[o] = place[o].filled
    BY <1>1, <1>4, <1>5 DEF TakerOK
  <2>2. o \in Backed /\ o \notin Freed
    BY <1>1, <1>4, <1>5 DEF PostedOK
  <2>3. o \notin Resting /\ cancel[o].at = "idle"
    BY <1>1, <1>4 DEF StageOK, Working, Writing
  <2>4. \A j \in DOMAIN resp[o].trades : <<o, j>> \in Settled
    BY <1>1, <1>4 DEF TakerOK
  <2> QED BY <2>1, <2>2, <2>3, <2>4, SerialFacts
<1>7. n = CollateralAmount(req[o], req[o].quantity - Sold[o])
  BY <1>6
<1> HIDE DEF n
<1>8. StageOK(o)'
  BY <1>1, <1>4, <1>5, <1>6 DEF StageOK, EndsAt, Submitted
<1>9. PostedOK(o)'
  BY <1>4, <1>5, <1>6, <1>7 DEF PostedOK, EndsAt, Submitted, Busy, Ended
<1>10. StatusOK(o)'
  BY <1>1, <1>4, <1>5, <1>6 DEF StatusOK, EndsAt, Busy, Ended
<1>11. TakerOK(o)'
  BY <1>5, <1>6 DEF TakerOK, EndsAt, Busy, Ended, Working, Writing
<1>12. place[o].at \notin Writing /\ filledQty[o] = Sold[o]
  BY <1>1, <1>6 DEF Writing
<1> QED BY <1>2, <1>3, <1>8, <1>9, <1>10, <1>11, <1>12, EndIsSerial DEF OrderOK

\* A step of the one busy placement, on its own order and on the maker's.
LEMMA PairMoves ==
    ASSUME SerialState, NEW o \in Orders, NEW m \in Orders, Busy(place, o), m # o,
           \A p \in Orders \ {o} : place'[p] = place[p], \A p \in Orders \ {o, m} : SameAt(p),
           users' = users, Settled \subseteq Settled',
           TradesKept, req' = req, cancel' = cancel, Freed' = Freed,
           MakersFollow', OrderOK(o)', OrderOK(m)'
    PROVE  SerialConsistent'
<1>1. \A p \in Orders \ {o} : ~Busy(place, p) /\ ~Busy(cancel, p)
  BY OneIsBusy, SerialFacts
<1>2. OneByOne'
  <2>1. \A p \in Orders : Busy(place', p) => Busy(place, p)
    BY DEF Busy
  <2> QED BY <2>1, BusyStays, SerialFacts DEF Busy
<1>3. TradesAreFair'
  <2>1. \A p \in Orders : place[p].at = "done" => place'[p].at = "done"
    BY DEF Busy, Ended
  <2>2. \A p \in Orders : \A k \in DOMAIN Matches'[p] :
          Busy(place', p) => Busy(place, p) /\ Freed' = Freed /\ cancel' = cancel
    BY <1>1 DEF Busy
  <2> QED BY <2>1, <2>2, FairStays, MakersAreOrders, SerialFacts
<1>4. ASSUME NEW p \in Orders PROVE OrderOK(p)'
  <2>1. CASE p = o
    BY <2>1
  <2>2. CASE p = m
    BY <2>2
  <2>3. CASE p \notin {o, m}
    BY <2>3, OthersStayOK, SerialFacts
  <2> QED BY <2>1, <2>2, <2>3
<1> QED BY <1>2, <1>3, <1>4 DEF SerialConsistent

\* The maker's row, as it is with the trade.
LEMMA UpdateMakerIsSerial ==
    ASSUME SerialState, FlowConsistent', ~Fault, NEW o \in Orders, UpdateMaker(o)
    PROVE  SerialConsistent'
<1>0. PICK m \in Orders : m = Maker(o)
  BY MakerIsFair DEF UpdateMaker, Working, Writing
<1> DEFINE filled == place[o].seen + TheTrade(o).quantity
           row == FillStatus(filled, req[m].quantity)
           next == IF place[o].k = Len(resp[o].trades) THEN "own" ELSE "settle"
<1>1. /\ place[o].at = "update" /\ UNCHANGED accountVars /\ BookStays /\ cancel' = cancel
      /\ filledQty' = [filledQty EXCEPT ![m] = filled] /\ status' = [status EXCEPT ![m] = row]
  BY <1>0 DEF UpdateMaker, Try, BookStays
<1>2. /\ Busy(place, o) /\ m \in Orders /\ m # o /\ TheTrade(o).quantity \in Nat /\ TheTrade(o).quantity > 0
      /\ place[m].at = "done" /\ m \notin Freed /\ cancel[m].at # "done" /\ ~Busy(cancel, m)
  BY <1>0, <1>1, MakerIsFair DEF Working, Writing
<1>3. /\ place'[o].at = next /\ place'[o].filled = place[o].filled /\ place'[o].k = place[o].k + 1
      /\ \A p \in Orders \ {o} : place'[p] = place[p]
  <2>1. place \in [Orders -> PlaceRecord] /\ place[o] \in PlaceRecord
    BY SerialFacts
  <2> QED BY <1>1, <2>1 DEF UpdateMaker, PlaceRecord
<1>4. /\ filledQty'[m] = filled /\ status'[m] = row
      /\ \A p \in Orders \ {m} : filledQty'[p] = filledQty[p] /\ status'[p] = status[p]
  <2> HIDE DEF filled, row
  <2>1. status \in [Orders -> Statuses] /\ filledQty \in [Orders -> Nat]
    BY SerialFacts
  <2> QED BY <1>1, <1>2, <2>1
<1>5. filled = Sold[m] /\ filled > 0 /\ row \in {"FILLED", "PARTIALLY_FILLED"}
  <2>1. Sold[m] = filledQty[m] + TheTrade(o).quantity /\ place[o].seen = filledQty[m]
    BY <1>0, <1>1, SerialFacts DEF MakersFollow, Writing
  <2>2. filledQty[m] \in Nat
    BY <1>2, SerialFacts
  <2> QED BY <1>2, <2>1, <2>2 DEF FillStatus
<1>6. row = FillStatus(filled, req[m].quantity)
  OBVIOUS
<1>7. place'[o].at \in {"own", "settle"}
  BY <1>3
<1>8. next = "own" => place[o].k = Len(resp[o].trades)
  OBVIOUS
<1>9. /\ \A p \in Orders : QuietAt(p) /\ StageOK(p) /\ PostedOK(p) /\ StatusOK(p) /\ TakerOK(p)
      /\ MoneyStays /\ TradesKept /\ req' = req /\ resp' = resp
  <2>1. \A p \in Orders : QuietAt(p)
    BY <1>1, QuietFacts
  <2>2. MoneyStays
    BY <1>1, QuietMakesNoMove, SerialFacts
  <2>3. TradesKept /\ req' = req /\ resp' = resp
    BY <1>1, BookStaysFacts, SerialFacts
  <2> QED BY <2>1, <2>2, <2>3, SerialFacts
<1> HIDE DEF filled, row, next
<1>10. /\ place'[m] = place[m] /\ status'[o] = status[o] /\ filledQty'[o] = filledQty[o]
       /\ QuietAt(m) /\ QuietAt(o)
  BY <1>2, <1>3, <1>4, <1>9
<1>11. \A p \in Orders \ {o, m} : SameAt(p)
  BY <1>3, <1>4, <1>9 DEF QuietAt, SameAt
<1>12. OrderOK(m)'
  <2>1. StageOK(m)'
    BY <1>2, <1>9, <1>10 DEF StageOK, QuietAt, Submitted
  <2>2. PostedOK(m)'
    <3>1. m \in Backed
      BY <1>2, <1>9 DEF PostedOK
    <3> QED BY <1>2, <1>9, <1>10, <3>1 DEF PostedOK, QuietAt, Submitted, Busy
  <2>3. StatusOK(m)'
    BY <1>2, <1>4, <1>5, <1>6, <1>10 DEF StatusOK, QuietAt, Busy
  <2>4. TakerOK(m)'
    BY <1>2, <1>9, <1>10 DEF TakerOK, QuietAt, Busy, Ended, Working, Writing
  <2> QED BY <2>1, <2>2, <2>3, <2>4 DEF OrderOK
<1>13. OrderOK(o)'
  <2>1. StageOK(o)'
    BY <1>1, <1>7, <1>9, <1>10 DEF StageOK, QuietAt, Submitted, Working, Writing
  <2>2. PostedOK(o)'
    <3>1. o \in Backed /\ o \notin Freed
      BY <1>1, <1>2, <1>9 DEF PostedOK
    <3>2. cancel[o].at = "idle"
      BY <1>1, <1>9 DEF StageOK
    <3> QED BY <1>7, <1>9, <1>10, <3>1, <3>2 DEF PostedOK, QuietAt, Submitted
  <2>3. StatusOK(o)'
    <3>1. cancel[o].at = "idle"
      BY <1>1, <1>9 DEF StageOK
    <3> QED BY <1>7, <1>10, <3>1 DEF StatusOK, QuietAt, Busy, Ended
  <2>4. TakerOK(o)'
    <3>1. place[o].k \in DOMAIN resp[o].trades /\ <<o, place[o].k>> \in Settled /\ place[o].k \in Nat
      BY <1>1, TradeFacts, SerialFacts
    <3>2. \A j \in DOMAIN resp[o].trades : j \in Nat /\ (j < place[o].k => <<o, j>> \in Settled)
      <4>1. FlowConsistent
        BY SerialFacts
      <4>2. resp[o].trades \in Seq(Trade)
        BY <4>1, BookFacts
      <4>3. \A j \in DOMAIN resp[o].trades : j \in Nat
        BY <4>2
      <4> QED BY <1>1, <1>9, <4>3 DEF TakerOK, Working, Writing
    <3>3. \A j \in DOMAIN resp[o].trades : j < place[o].k + 1 => <<o, j>> \in Settled
      <4>1. \A j \in DOMAIN resp[o].trades : j < place[o].k + 1 => j < place[o].k \/ j = place[o].k
        <5>1. \A j, k \in Nat : j < k + 1 => j < k \/ j = k
          OBVIOUS
        <5> QED BY <3>1, <3>2, <5>1
      <4> QED BY <3>1, <3>2, <4>1
    <3>4. place'[o].at = "own" => \A j \in DOMAIN resp[o].trades : <<o, j>> \in Settled
      <4>1. resp[o].trades \in Seq(Trade)
        BY BookFacts, SerialFacts
      <4>2. \A j \in DOMAIN resp[o].trades : j <= Len(resp[o].trades)
        BY <4>1
      <4>3. \A j \in DOMAIN resp[o].trades : place[o].k = Len(resp[o].trades) => j < place[o].k + 1
        BY <3>1, <3>2, <4>2
      <4> QED BY <1>3, <1>8, <3>3, <4>3
    <3>5. filledQty[o] = 0 /\ Sold[o] = place[o].filled + 0
      BY <1>1, <1>2, <1>9 DEF TakerOK
    <3> QED BY <1>3, <1>7, <1>10, <3>3, <3>4, <3>5 DEF TakerOK, QuietAt, Writing, Working
  <2> QED BY <2>1, <2>2, <2>3, <2>4 DEF OrderOK
<1>14. MakersFollow'
  <2>1. \A p \in Orders \ {o} : ~Busy(place, p)
    BY <1>2, OneIsBusy, SerialFacts
  <2>2. NobodyWrites'
    BY <1>3, <1>7, <2>1 DEF NobodyWrites, Busy, Writing, Ended
  <2>3. Busy(place', o) /\ Sold' = Sold
    BY <1>7, <1>9 DEF Busy, Ended, MoneyStays
  <2>4. \A p \in Orders \ {o, m} : filledQty[p] = Sold[p]
    <3>1. \A p \in Orders \ {o} : place[p].at \notin Writing
      BY <2>1 DEF Busy, Writing, Ended
    <3> QED BY <1>0, <2>1, <3>1, SerialFacts DEF MakersFollow
  <2>5. \A p \in Orders : ~Busy(place', p) => filledQty'[p] = Sold'[p]
    BY <1>4, <1>5, <2>3, <2>4
  <2> QED BY <2>2, <2>5, NothingOwedNext
<1>15. cancel' = cancel /\ users' = users /\ Freed' = Freed /\ Settled \subseteq Settled'
  BY <1>1, <1>10 DEF QuietAt
<1> QED BY <1>2, <1>3, <1>9, <1>11, <1>12, <1>13, <1>14, <1>15, PairMoves

\* A trade within the buyer's limit takes no more than its share.
LEMMA UseWithinLimit ==
    ASSUME NEW t \in Trade, t.buy # t.sell, NEW o \in {t.buy, t.sell}, HasSides(t, req),
           req[o].price \in Nat, t.price <= req[t.buy].price,
           NEW s \in Nat, NEW e \in Nat, e <= CollateralAmount(req[o], s)
    PROVE  e + Use(t, o) <= CollateralAmount(req[o], s + t.quantity)
<1> DEFINE q == t.quantity
           p == t.price
           limit == req[o].price
<1>1. q \in Nat /\ p \in Nat /\ limit \in Nat
  BY DEF Trade
<1>2. CASE o = t.buy
  <2>1. Use(t, o) = p * q /\ p <= limit
    BY <1>2 DEF Use
  <2>2. e <= s * limit /\ CollateralAmount(req[o], s + t.quantity) = (s + q) * limit
    BY <1>2 DEF HasSides, CollateralAmount
  <2> HIDE DEF q, p, limit
  <2>3. p * q <= limit * q /\ p * q \in Nat /\ limit * q \in Nat
    BY <1>1, <2>1, MulMono, MulNat
  <2>4. (s + q) * limit = s * limit + limit * q /\ s * limit \in Nat
    BY <1>1, MulNat
  <2>5. e + p * q <= s * limit + limit * q
    BY <2>2, <2>3, <2>4
  <2> QED BY <2>1, <2>2, <2>4, <2>5
<1>3. CASE o = t.sell
  <2>1. Use(t, o) = q
    BY <1>3 DEF Use
  <2>2. e <= s /\ CollateralAmount(req[o], s + t.quantity) = s + q
    BY <1>3 DEF HasSides, CollateralAmount
  <2> HIDE DEF q
  <2> QED BY <1>1, <2>1, <2>2
<1> QED BY <1>2, <1>3

\* The settlement of the next trade.
LEMMA SettleMatchIsSerial ==
    ASSUME SerialState, FlowConsistent', SettlementsGoThrough, NEW o \in Orders, SettleMatch(o)
    PROVE  SerialConsistent'
<1>0. PICK m \in Orders : m = Maker(o)
  BY MakerIsFair DEF SettleMatch, Working, Writing
<1>1. PICK t : t = TheTrade(o)
  OBVIOUS
<1>2. /\ place[o].at = "settle" /\ SettleNext(o) /\ Goto(o, "insert")
      /\ BookStays /\ UNCHANGED storeVars /\ cancel' = cancel
  BY DEF SettleMatch, SettleNext, SettlementsGoThrough, BookStays
<1>3. /\ Busy(place, o) /\ m # o /\ {t.buy, t.sell} = {o, m} /\ t \in Trade
      /\ t.quantity \in Nat /\ t.quantity > 0 /\ t.price <= req[t.buy].price /\ HasSides(t, req)
      /\ place[m].at = "done" /\ m \notin Freed /\ cancel[m].at # "done" /\ ~Busy(cancel, m)
  BY <1>0, <1>1, <1>2, MakerIsFair DEF Working
<1>4. /\ Resting' = Resting /\ pc' = pc /\ order' = order /\ req' = req /\ resp' = resp /\ TradesKept
  BY <1>2, BookStaysFacts, SerialFacts
<1>5. Settles(t)
  BY <1>1, <1>2, <1>4, SettleMoney, SerialFacts
<1>6. Settled \subseteq Settled'
  <2>1. <<o, place[o].k>> \in Numbers
    BY <1>2, TradeFacts, SerialFacts
  <2>2. LET buyer == req[t.buy].user
            seller == req[t.sell].user
            n == t.price * t.quantity
        IN  /\ TradeLegs(buyer, seller, Base, Quote, t.quantity, n) \in Seq(Leg)
            /\ TradeRelease(buyer, seller, Base, Quote, t.quantity, n) \in Seq(Leg)
            /\ SettleTrade(<<o, place[o].k>>, TradeLegs(buyer, seller, Base, Quote, t.quantity, n),
                           TradeRelease(buyer, seller, Base, Quote, t.quantity, n))
    BY <1>1, <1>2, SettlementLegs, SerialFacts DEF SettleNext
  <2> QED BY <2>1, <2>2, SettlementMoves, StoreFacts, SerialFacts
<1>7. /\ place'[o].at = "insert" /\ place'[o].filled = place[o].filled /\ place'[o].k = place[o].k
      /\ \A p \in Orders \ {o} : place'[p] = place[p]
  BY <1>2, GotoAt, SerialFacts
<1>8. TheTrade(o)' = t /\ Maker(o)' = m
  BY <1>0, <1>1, <1>4, <1>7 DEF TheTrade, Maker
<1>9. \A p \in Orders : StageOK(p) /\ PostedOK(p) /\ StatusOK(p) /\ TakerOK(p) /\ Sold[p] \in Nat
                        /\ Spent[p] \in Nat /\ req[p].price \in Nat
  BY SerialFacts
<1>10. /\ Backed' = Backed /\ Freed' = Freed /\ Locked' = Locked /\ Returned' = Returned
       /\ users' = users /\ status' = status /\ filledQty' = filledQty
  BY <1>2, <1>5 DEF Settles, storeVars
<1>11. /\ \A p \in {o, m} : Sold'[p] = Sold[p] + t.quantity /\ Spent'[p] = Spent[p] + Use(t, p)
       /\ \A p \in Orders \ {o, m} : Sold'[p] = Sold[p] /\ Spent'[p] = Spent[p]
  BY <1>3, <1>5 DEF Settles
<1>12. \A p \in {o, m} : Spent'[p] <= CollateralAmount(req[p], Sold'[p])
  <2> SUFFICES ASSUME NEW p \in {o, m} PROVE Spent'[p] <= CollateralAmount(req[p], Sold'[p])
    OBVIOUS
  <2>1. /\ Spent[p] <= CollateralAmount(req[p], Sold[p]) /\ Sold[p] \in Nat /\ Spent[p] \in Nat
        /\ req[p].price \in Nat
    BY <1>9 DEF PostedOK
  <2>2. t.buy # t.sell /\ p \in {t.buy, t.sell}
    BY <1>3
  <2>3. Spent[p] + Use(t, p) <= CollateralAmount(req[p], Sold[p] + t.quantity)
    BY <1>3, <2>1, <2>2, UseWithinLimit
  <2> QED BY <1>11, <2>3
<1>13. \A p \in Orders \ {o, m} : SameAt(p)
  BY <1>2, <1>4, <1>7, <1>10, <1>11 DEF SameAt
<1>14. OrderOK(m)'
  <2>1. StageOK(m)'
    BY <1>2, <1>3, <1>4, <1>7, <1>9, <1>10 DEF StageOK, Submitted
  <2>2. PostedOK(m)'
    BY <1>2, <1>3, <1>4, <1>7, <1>9, <1>10, <1>12 DEF PostedOK, Submitted, Busy, Ended
  <2>3. StatusOK(m)'
    BY <1>2, <1>3, <1>4, <1>7, <1>9, <1>10 DEF StatusOK, Busy
  <2>4. TakerOK(m)'
    BY <1>3, <1>4, <1>6, <1>7, <1>9 DEF TakerOK, Busy, Ended, Working, Writing
  <2> QED BY <2>1, <2>2, <2>3, <2>4 DEF OrderOK
<1>15. OrderOK(o)'
  <2>1. cancel[o].at = "idle" /\ o \in Backed /\ o \notin Freed
    BY <1>2, <1>3, <1>9 DEF StageOK, PostedOK
  <2>2. StageOK(o)'
    BY <1>2, <1>4, <1>7, <1>9, <1>10 DEF StageOK, Submitted, Working, Writing
  <2>3. PostedOK(o)'
    BY <1>2, <1>4, <1>7, <1>9, <1>10, <1>12, <2>1 DEF PostedOK, Submitted
  <2>4. StatusOK(o)'
    BY <1>2, <1>7, <2>1 DEF StatusOK, Busy, Ended
  <2>5. TakerOK(o)'
    <3>1. filledQty[o] = 0 /\ Sold[o] = place[o].filled + 0
      BY <1>2, <1>3, <1>9 DEF TakerOK
    <3>2. Sold'[o] = place'[o].filled + t.quantity
      BY <1>7, <1>11, <3>1, SerialFacts
    <3>3. \A j \in DOMAIN resp[o].trades : j < place[o].k => <<o, j>> \in Settled'
      BY <1>2, <1>6, <1>9 DEF TakerOK, Working
    <3> QED BY <1>4, <1>7, <1>8, <1>10, <3>1, <3>2, <3>3 DEF TakerOK, Working, Writing
  <2> QED BY <2>2, <2>3, <2>4, <2>5 DEF OrderOK
<1>16. MakersFollow'
  <2>1. \A p \in Orders \ {o} : ~Busy(place, p) /\ place'[p].at \notin Writing
    <3>1. \A p \in Orders \ {o} : ~Busy(place, p)
      BY <1>3, OneIsBusy, SerialFacts
    <3> QED BY <1>7, <3>1 DEF Busy, Writing, Ended
  <2>2. \A p \in Orders \ {o} : filledQty[p] = Sold[p]
    <3>1. NobodyWrites
      BY <1>2, <1>7, <2>1 DEF NobodyWrites, Writing
    <3> QED BY <2>1, <3>1, NothingOwed, SerialFacts
  <2>3. Sold'[m] = filledQty'[m] + t.quantity
    BY <1>3, <1>10, <1>11, <2>2
  <2>4. ASSUME NEW p \in Orders, place'[p].at \in Writing
        PROVE  Sold'[Maker(p)'] = filledQty'[Maker(p)'] + TheTrade(p)'.quantity
    <3>1. p = o
      BY <2>1, <2>4
    <3> QED BY <1>8, <2>3, <3>1
  <2>5. \A p \in Orders : place'[p].at # "update"
    BY <1>7, <2>1 DEF Writing
  <2>6. ASSUME NEW p \in Orders, ~Busy(place', p),
               \A x \in Orders : place'[x].at \in Writing => Maker(x)' # p
        PROVE  filledQty'[p] = Sold'[p]
    <3>1. p # m
      BY <1>7, <1>8, <2>6 DEF Writing
    <3>2. p # o
      BY <1>7, <2>6 DEF Busy, Ended
    <3> QED BY <1>10, <1>11, <2>2, <3>1, <3>2
  <2> QED BY <2>4, <2>5, <2>6 DEF MakersFollow, Busy
<1> QED BY <1>2, <1>3, <1>4, <1>6, <1>7, <1>10, <1>13, <1>14, <1>15, <1>16, PairMoves

\* The order reaches the engine.
LEMMA SubmitOrderIsSerial ==
    ASSUME SerialState, FlowConsistent', ~Fault, NEW o \in Orders, SubmitOrder(o)
    PROVE  SerialConsistent'
<1>1. PICK now \in clock..MaxClock : Submit(o, req[o].side, req[o].price, req[o].quantity, now)
  BY DEF SubmitOrder
<1>2. /\ place[o].at = "submit" /\ Busy(place, o) /\ UNCHANGED accountVars /\ Goto(o, "await")
      /\ cancel' = cancel /\ filledQty' = filledQty /\ status' = status /\ req' = req /\ resp' = resp
  BY DEF SubmitOrder, storeVars, Busy, Ended
<1>3. /\ place'[o].at = "await" /\ place'[o].filled = place[o].filled
      /\ \A p \in Orders \ {o} : place'[p] = place[p]
  BY <1>2, GotoAt, SerialFacts
<1>4. /\ order'[o].price = req[o].price /\ order'[o].quantity = req[o].quantity /\ pc'[o] = "stamped"
      /\ \A p \in Orders \ {o} : order'[p] = order[p] /\ pc'[p] = pc[p]
      /\ mu' = mu /\ fills' = fills /\ bids' = bids /\ asks' = asks
  <2>1. order \in [Orders -> OrderFields] /\ pc \in [Orders -> {"idle", "stamped", "matching", "returned"}]
    BY BookFacts, SerialFacts
  <2> QED BY <1>1, <2>1 DEF Submit
<1>5. Matches' = Matches /\ TradesKept /\ Resting' = Resting
  BY <1>2, <1>4, TradesStay, SerialFacts DEF Resting
<1>6. MoneyStays /\ Settled' = Settled
  <2>1. MoneyStays
    BY <1>2, QuietMoney, SerialFacts
  <2> QED BY <1>2, <2>1 DEF Settled, accountVars
<1>7. o \notin Resting /\ cancel[o].at = "idle" /\ Sold[o] = 0 /\ place[o].filled = 0
  BY <1>2, UnsentFacts
<1>8. StageOK(o) /\ PostedOK(o) /\ StatusOK(o) /\ TakerOK(o) /\ req[o].quantity > 0
  BY SerialFacts
<1>9. StageOK(o)'
  BY <1>2, <1>3, <1>4, <1>5, <1>7, <1>8 DEF StageOK, Submitted
<1>10. PostedOK(o)'
  BY <1>2, <1>3, <1>5, <1>6, <1>7, <1>8 DEF PostedOK, MoneyStays, Busy, Ended
<1>11. StatusOK(o)'
  BY <1>2, <1>3, <1>7 DEF StatusOK, Busy, Ended
<1>12. TakerOK(o)'
  BY <1>2, <1>3, <1>6, <1>8 DEF TakerOK, MoneyStays, Busy, Ended, Working, Writing
<1>13. \A p \in Orders \ {o} : SameAt(p)
  BY <1>2, <1>3, <1>4, <1>5, <1>6 DEF SameAt, MoneyStays
<1>14. MakersFollow'
  <2>1. place[o].at \notin Writing /\ place'[o].at \notin Writing /\ Busy(place', o)
    BY <1>2, <1>3 DEF Writing, Busy, Ended
  <2>2. \A p \in Orders \ {o} : place'[p] = place[p] /\ filledQty'[p] = filledQty[p] /\ Sold'[p] = Sold[p]
    BY <1>2, <1>3, <1>6 DEF MoneyStays
  <2> QED BY <1>2, <2>1, <2>2, QuietMakers
<1>15. users' = users /\ Freed' = Freed
  BY <1>6 DEF MoneyStays
<1>16. OrderOK(o)'
  BY <1>9, <1>10, <1>11, <1>12 DEF OrderOK
<1> QED BY <1>2, <1>5, <1>6, <1>13, <1>14, <1>15, <1>16, TakerMoves
-----------------------------------------------------------------------------
(* What the orders hold *)

\* A sum over a part of T of what is at most g is at most the sum of g.
LEMMA SumAtMost ==
    ASSUME NEW T, IsFiniteSet(T), NEW S \in SUBSET T, NEW f, NEW g,
           \A x \in T : g[x] \in Int /\ g[x] >= 0,
           \A x \in S : f[x] \in Int /\ f[x] <= g[x]
    PROVE  SumFunctionOnSet(f, S) <= SumFunctionOnSet(g, T)
<1> DEFINE part == [x \in T |-> IF x \in S THEN f[x] ELSE 0]
           rest == [x \in T |-> g[x] - part[x]]
<1>1. \A x \in T : part[x] \in Int /\ rest[x] \in Nat /\ rest[x] \in Int /\ g[x] = rest[x] + part[x]
  OBVIOUS
<1>2. IsFiniteSet(S) /\ IsFiniteSet(T \ S)
  BY FS_Subset
<1>3. SumFunctionOnSet(part, S) = SumFunctionOnSet(f, S)
  <2>1. \A x \in S : part[x] = f[x]
    OBVIOUS
  <2> HIDE DEF part, rest
  <2> QED BY <1>2, <2>1, SumEqual
<1>4. SumFunctionOnSet(part, T \ S) = 0
  <2>1. \A x \in T \ S : part[x] = 0
    OBVIOUS
  <2> HIDE DEF part, rest
  <2> QED BY <1>2, <2>1, SumZero
<1> HIDE DEF part, rest
<1>5. SumFunctionOnSet(part, T) = SumFunctionOnSet(part, S) + SumFunctionOnSet(part, T \ S)
  <2>1. T = S \cup (T \ S) /\ S \cap (T \ S) = {} /\ \A x \in S \cup (T \ S) : part[x] \in Int
    BY <1>1
  <2>2. SumFunctionOnSet(part, S \cup (T \ S)) = SumFunctionOnSet(part, S) + SumFunctionOnSet(part, T \ S)
    BY <1>2, <2>1, SumUnion
  <2> QED BY <2>1, <2>2
<1>6. SumFunctionOnSet(g, T) = SumFunctionOnSet(rest, T) + SumFunctionOnSet(part, T)
  BY <1>1, SumPlus
<1>7. SumFunctionOnSet(rest, T) \in Nat
  BY <1>1, SumIsNat
<1>8. SumFunctionOnSet(f, S) \in Int
  BY <1>2, SumIsInt
<1> QED BY <1>3, <1>4, <1>5, <1>6, <1>7, <1>8

\* The collateral of a quantity, in two parts.
LEMMA CollateralSplits ==
    ASSUME NEW r, r.price \in Nat, NEW q \in Nat, NEW s \in Nat, s <= q
    PROVE  /\ CollateralAmount(r, q) \in Nat /\ CollateralAmount(r, s) \in Nat
           /\ CollateralAmount(r, q - s) \in Nat /\ q - s \in Nat
           /\ CollateralAmount(r, q) = CollateralAmount(r, s) + CollateralAmount(r, q - s)
           /\ CollateralAmount(r, 0) = 0
<1>1. PICK d \in Nat : d = q - s /\ q = s + d
  OBVIOUS
<1>2. PICK p \in Nat : p = r.price
  OBVIOUS
<1>3. q * p \in Nat /\ s * p \in Nat /\ d * p \in Nat
  BY <1>1, <1>2, MulNat
<1>4. (s + d) * p = s * p + d * p /\ 0 * p = 0
  BY <1>1, <1>2
<1> QED BY <1>1, <1>2, <1>3, <1>4 DEF CollateralAmount

\* No order has sold more than it is for, and every order holds the
\* collateral of what it has not sold, unless that was unfrozen.
LEMMA OrderHolds ==
    ASSUME SerialState, NEW o \in Orders
    PROVE  /\ Sold[o] \in Nat /\ Sold[o] <= req[o].quantity
           /\ Held[o] \in Int /\ Held[o] >= 0
           /\ o \in Backed /\ o \notin Freed =>
                Held[o] >= CollateralAmount(req[o], req[o].quantity - Sold[o])
<1>1. /\ FlowConsistent /\ CollateralTyped /\ PostedOK(o)
      /\ req[o].quantity \in Nat /\ req[o].price \in Nat
  BY SerialFacts
<1>2. /\ Sold[o] \in Nat /\ Spent[o] \in Nat /\ Locked[o] \in Nat /\ Returned[o] \in Nat
      /\ Held[o] \in Int /\ Held[o] = Locked[o] - Returned[o] - Spent[o]
      /\ Sold[o] = SettledQty(o) /\ Returned[o] = Unfrozen(o)
  BY <1>1, HeldFacts DEF HeldTyped
<1>3. Sold[o] <= req[o].quantity /\ (~Submitted(order, o) => Sold[o] = 0)
  <2>1. SettledQty(o) + remaining[o] <= order[o].quantity
    BY <1>1, ConsistentIsSafe DEF FilledIsSettledAndMatched
  <2>2. order[o].quantity \in Nat /\ remaining[o] \in Nat
    BY <1>1, QuantityFacts
  <2>3. Submitted(order, o) => order[o].quantity = req[o].quantity
    BY <1>1 DEF FlowConsistent, AnswersFollowBook
  <2>4. ~Submitted(order, o) => order[o].quantity = 0
    BY <2>2 DEF Submitted
  <2> QED BY <1>1, <1>2, <2>1, <2>2, <2>3, <2>4
<1> DEFINE C(n) == CollateralAmount(req[o], n)
<1>4. /\ C(req[o].quantity) \in Nat /\ C(Sold[o]) \in Nat /\ C(req[o].quantity - Sold[o]) \in Nat
      /\ C(req[o].quantity) = C(Sold[o]) + C(req[o].quantity - Sold[o]) /\ C(0) = 0
  BY <1>1, <1>2, <1>3, CollateralSplits
<1>5. Spent[o] <= C(Sold[o])
  BY <1>1 DEF PostedOK
<1> HIDE DEF C
<1>6. CASE o \in Freed
  <2>1. Locked[o] = C(req[o].quantity) /\ Returned[o] = C(req[o].quantity - Sold[o])
    BY <1>1, <1>6 DEF PostedOK, C
  <2> QED BY <1>2, <1>3, <1>4, <1>5, <1>6, <2>1
<1>7. CASE o \notin Freed
  <2>1. Returned[o] = 0
    BY <1>2, <1>7 DEF Unfrozen, Freed
  <2>2. CASE o \in Backed
    <3>1. Locked[o] = C(req[o].quantity)
      BY <1>1, <2>2 DEF PostedOK, C
    <3> QED BY <1>2, <1>3, <1>4, <1>5, <2>1, <3>1 DEF C
  <2>3. CASE o \notin Backed
    <3>1. Locked[o] = 0
      BY <2>3 DEF Locked
    <3>2. Sold[o] = 0
      BY <1>1, <1>3, <2>3 DEF PostedOK
    <3> QED BY <1>2, <1>3, <1>4, <1>5, <2>1, <2>3, <3>1, <3>2
  <2> QED BY <2>2, <2>3
<1> QED BY <1>6, <1>7

\* What is frozen covers what some of the orders hold.
LEMMA FrozenCovers ==
    ASSUME SerialState, NEW u \in Users, NEW a \in {Base, Quote},
           NEW S \in SUBSET OrdersOf(u, a), NEW f,
           \A o \in S : f[o] \in Int /\ f[o] <= Held[o]
    PROVE  frozen[u][a] >= SumFunctionOnSet(f, S)
<1>1. frozen[u][a] = SumFunctionOnSet(Held, OrdersOf(u, a))
  BY SerialFacts DEF FrozenIsHeld
<1>2. OrdersOf(u, a) \in SUBSET Orders /\ IsFiniteSet(Orders)
  BY OrdersOfFacts, SerialFacts
<1>3. IsFiniteSet(OrdersOf(u, a))
  BY <1>2, FS_Subset
<1>4. \A o \in OrdersOf(u, a) : Held[o] \in Int /\ Held[o] >= 0
  BY <1>2, OrderHolds
<1>5. SumFunctionOnSet(f, S) <= SumFunctionOnSet(Held, OrdersOf(u, a))
  BY <1>3, <1>4, SumAtMost
<1>6. SumFunctionOnSet(f, S) \in Int /\ SumFunctionOnSet(Held, OrdersOf(u, a)) \in Int
  <2>1. IsFiniteSet(S)
    BY <1>3, FS_Subset
  <2> QED BY <1>3, <1>4, <2>1, SumIsInt
<1> QED BY <1>1, <1>5, <1>6
-----------------------------------------------------------------------------
(* The steps of CancelOrder *)

\* A step of a cancellation: no placement is busy meanwhile.
LEMMA CancelMoves ==
    ASSUME SerialState, NEW o \in Orders, \A p \in Orders : ~Busy(place, p),
           place' = place, filledQty' = filledQty, Sold' = Sold, users' = users, Settled' = Settled,
           \A p \in Orders \ {o} : SameAt(p), TradesKept, req' = req, OneByOne', OrderOK(o)'
    PROVE  SerialConsistent'
<1>1. NobodyWrites /\ NobodyWrites'
  BY DEF NobodyWrites, Busy, Ended, Writing
<1>2. \A p \in Orders : filledQty[p] = Sold[p]
  BY <1>1, NothingOwed, SerialFacts
<1>3. MakersFollow'
  <2>1. \A p \in Orders : ~Busy(place', p) => filledQty'[p] = Sold'[p]
    BY <1>2
  <2> QED BY <1>1, <2>1, NothingOwedNext
<1>4. TradesAreFair'
  <2>1. \A p \in Orders : ~Busy(place', p)
    BY DEF Busy
  <2>2. \A p \in Orders : place[p].at = "done" => place'[p].at = "done"
    OBVIOUS
  <2> QED BY <2>1, <2>2, FairStays, MakersAreOrders, SerialFacts
<1> QED BY <1>3, <1>4, OneOrderMoves, SerialFacts

\* While a cancellation is busy, no placement is and nobody owes a maker.
LEMMA CancelAlone ==
    ASSUME SerialState, NEW o \in Orders, Busy(cancel, o), NEW at, CancelGoto(o, at), place' = place
    PROVE  /\ \A p \in Orders : ~Busy(place, p) /\ filledQty[p] = Sold[p]
           /\ cancel'[o].at = at /\ cancel'[o].filled = cancel[o].filled
           /\ \A p \in Orders \ {o} : cancel'[p] = cancel[p]
           /\ OneByOne'
           /\ place[o].at \in {"done", "failed"} /\ status[o] \in Open /\ cancel[o].filled = Sold[o]
<1>1. \A p \in Orders : ~Busy(place, p)
  BY OneIsBusy, SerialFacts
<1>2. \A p \in Orders : filledQty[p] = Sold[p]
  <2>1. NobodyWrites
    BY <1>1 DEF NobodyWrites, Busy, Ended, Writing
  <2> QED BY <1>1, <2>1, NothingOwed, SerialFacts
<1>3. /\ cancel'[o].at = at /\ cancel'[o].filled = cancel[o].filled
      /\ \A p \in Orders \ {o} : cancel'[p] = cancel[p]
  BY CancelGotoAt, SerialFacts
<1>4. OneByOne'
  <2>1. \A p \in Orders : Busy(place', p) => Busy(place, p)
    BY DEF Busy
  <2>2. \A p \in Orders : Busy(cancel', p) => Busy(cancel, p)
    BY <1>3 DEF Busy
  <2> QED BY <2>1, <2>2, BusyStays, SerialFacts
<1>5. place[o].at \in {"done", "failed"} /\ status[o] \in Open /\ cancel[o].filled = Sold[o]
  <2>1. StageOK(o) /\ StatusOK(o)
    BY SerialFacts
  <2>2. cancel[o].at # "idle"
    BY DEF Busy, Ended
  <2> QED BY <1>2, <2>1, <2>2 DEF StageOK, StatusOK
<1> QED BY <1>1, <1>2, <1>3, <1>4, <1>5

\* The order is read.
LEMMA CancelLookupIsSerial ==
    ASSUME SerialState, FlowConsistent', MaxInFlight = 1, NEW o \in Orders, CancelLookup(o)
    PROVE  SerialConsistent'
<1>1. /\ cancel[o].at \in Ended /\ InFlight < 1 /\ status[o] \in Open
      /\ cancel' = [cancel EXCEPT ![o] = [at |-> "book", filled |-> filledQty[o]]]
      /\ UNCHANGED accountVars /\ BookStays /\ place' = place /\ status' = status /\ filledQty' = filledQty
  BY DEF CancelLookup, BookStays, storeVars
<1>2. /\ cancel'[o].at = "book" /\ cancel'[o].filled = filledQty[o]
      /\ \A p \in Orders \ {o} : cancel'[p] = cancel[p]
  BY <1>1, SerialFacts
<1>3. MoneyStays /\ Settled' = Settled
  BY <1>1, QuietMakesNoMove, SerialFacts
<1>4. /\ TradesKept /\ Resting' = Resting /\ pc' = pc /\ order' = order /\ req' = req /\ resp' = resp
  BY <1>1, BookStaysFacts, SerialFacts
<1>5. \A p \in Orders : ~Busy(place, p) /\ ~Busy(cancel, p)
  BY <1>1, Alone
<1>6. OneByOne'
  BY <1>1, <1>2, <1>5, BusyStarts
<1>7. \A p \in Orders \ {o} : SameAt(p)
  BY <1>1, <1>2, <1>3, <1>4 DEF SameAt, MoneyStays
<1>8. StageOK(o) /\ PostedOK(o) /\ StatusOK(o) /\ TakerOK(o)
  BY SerialFacts
<1>9. place[o].at \in {"done", "failed"} /\ cancel[o].at # "done"
  <2>1. place[o].at \in Ended
    BY <1>5 DEF Busy
  <2>2. place[o].at # "idle"
    BY <1>1, <1>8 DEF StageOK, Open
  <2>3. cancel[o].at # "done"
    BY <1>1, <1>8 DEF StatusOK, Open
  <2> QED BY <2>1, <2>2, <2>3 DEF Ended
<1>10. OrderOK(o)'
  <2>1. StageOK(o)'
    BY <1>1, <1>2, <1>4, <1>8, <1>9 DEF StageOK, Submitted, Working, Writing
  <2>2. PostedOK(o)'
    BY <1>1, <1>2, <1>3, <1>4, <1>8 DEF PostedOK, MoneyStays, Submitted, Busy, Ended
  <2>3. StatusOK(o)'
    BY <1>1, <1>2, <1>4, <1>8, <1>9 DEF StatusOK
  <2>4. TakerOK(o)'
    BY <1>1, <1>3, <1>4, <1>8, <1>9 DEF TakerOK, MoneyStays, Busy, Ended, Working, Writing
  <2> QED BY <2>1, <2>2, <2>3, <2>4 DEF OrderOK
<1>11. Sold' = Sold /\ users' = users
  BY <1>3 DEF MoneyStays
<1> QED BY <1>1, <1>3, <1>4, <1>5, <1>6, <1>7, <1>10, <1>11, CancelMoves

\* The order leaves the book, or is not on it.
LEMMA CancelOnBookIsSerial ==
    ASSUME SerialState, FlowConsistent', ~Fault, NEW o \in Orders, CancelOnBook(o)
    PROVE  SerialConsistent'
<1>1. /\ cancel[o].at = "book" /\ Busy(cancel, o) /\ CancelGoto(o, "unfreeze") /\ UNCHANGED accountVars
      /\ place' = place /\ status' = status /\ filledQty' = filledQty /\ req' = req /\ resp' = resp
      /\ Cancel(o) \/ (o \notin Resting /\ UNCHANGED bookVars)
  BY DEF CancelOnBook, Try, storeVars, Busy, Ended
<1>2. /\ \A p \in Orders : ~Busy(place, p) /\ filledQty[p] = Sold[p]
      /\ cancel'[o].at = "unfreeze" /\ cancel'[o].filled = cancel[o].filled
      /\ \A p \in Orders \ {o} : cancel'[p] = cancel[p]
      /\ OneByOne' /\ place[o].at \in {"done", "failed"} /\ status[o] \in Open
  BY <1>1, CancelAlone
<1>3. /\ pc' = pc /\ order' = order /\ mu' = mu /\ fills' = fills
  BY <1>1 DEF Cancel, bookVars
<1>4. o \notin Resting' /\ \A p \in Orders : p \in Resting' => p \in Resting
  <2>1. CASE UNCHANGED bookVars /\ o \notin Resting
    BY <2>1 DEF bookVars, Resting
  <2>2. CASE Cancel(o)
    <3>1. /\ BookHolds /\ bids \in Seq(Orders) /\ asks \in Seq(Orders)
          /\ IsInjective(bids) /\ IsInjective(asks)
          /\ \A p \in Range(bids) : order[p].side = "BUY"
          /\ \A p \in Range(asks) : order[p].side = "SELL"
      BY SerialFacts DEF FlowConsistent, BookHolds, BookTypeOK
    <3>2. ASSUME NEW i \in DOMAIN bids, bids[i] = o, bids' = DropAt(bids, i), asks' = asks
          PROVE  o \notin Resting' /\ \A p \in Orders : p \in Resting' => p \in Resting
      <4>1. Range(bids') = Range(bids) \ {o}
        BY <3>1, <3>2, DropAtProperties
      <4>2. o \in Range(bids)
        BY <3>1, <3>2 DEF Range
      <4>3. o \notin Range(asks)
        BY <3>1, <4>2
      <4>4. Resting' = (Range(bids) \ {o}) \cup Range(asks)
        BY <3>2, <4>1 DEF Resting
      <4> QED BY <4>3, <4>4 DEF Resting
    <3>3. ASSUME NEW i \in DOMAIN asks, asks[i] = o, asks' = DropAt(asks, i), bids' = bids
          PROVE  o \notin Resting' /\ \A p \in Orders : p \in Resting' => p \in Resting
      <4>1. Range(asks') = Range(asks) \ {o}
        BY <3>1, <3>3, DropAtProperties
      <4>2. o \in Range(asks)
        BY <3>1, <3>3 DEF Range
      <4>3. o \notin Range(bids)
        BY <3>1, <4>2
      <4>4. Resting' = Range(bids) \cup (Range(asks) \ {o})
        BY <3>3, <4>1 DEF Resting
      <4> QED BY <4>3, <4>4 DEF Resting
    <3> QED BY <2>2, <3>2, <3>3 DEF Cancel
  <2> QED BY <1>1, <2>1, <2>2
<1>5. TradesKept
  BY <1>1, <1>3, TradesStay, SerialFacts
<1>6. MoneyStays /\ Settled' = Settled
  <2>1. MoneyStays
    BY <1>1, QuietMoney, SerialFacts
  <2> QED BY <1>1, <2>1 DEF Settled, accountVars
<1>7. \A p \in Orders \ {o} : SameAt(p)
  BY <1>1, <1>2, <1>3, <1>4, <1>6 DEF SameAt, MoneyStays
<1>8. StageOK(o) /\ PostedOK(o) /\ StatusOK(o) /\ TakerOK(o)
  BY SerialFacts
<1>9. OrderOK(o)'
  <2>1. StageOK(o)'
    BY <1>1, <1>2, <1>3, <1>4, <1>8 DEF StageOK, Submitted
  <2>2. PostedOK(o)'
    BY <1>1, <1>2, <1>3, <1>4, <1>6, <1>8 DEF PostedOK, MoneyStays, Submitted, Busy, Ended
  <2>3. StatusOK(o)'
    BY <1>1, <1>2, <1>8 DEF StatusOK
  <2>4. TakerOK(o)'
    BY <1>1, <1>2, <1>6, <1>8 DEF TakerOK, MoneyStays, Busy, Ended, Working, Writing
  <2> QED BY <2>1, <2>2, <2>3, <2>4 DEF OrderOK
<1>10. Sold' = Sold /\ users' = users
  BY <1>6 DEF MoneyStays
<1> QED BY <1>1, <1>2, <1>5, <1>6, <1>7, <1>9, <1>10, CancelMoves

\* The row is closed.
LEMMA CancelMarkIsSerial ==
    ASSUME SerialState, FlowConsistent', NEW o \in Orders, CancelMark(o)
    PROVE  SerialConsistent'
<1>1. /\ cancel[o].at = "mark" /\ Busy(cancel, o) /\ UNCHANGED accountVars /\ BookStays
      /\ place' = place /\ filledQty' = filledQty
  BY DEF CancelMark, BookStays, Busy, Ended
<1>2. status[o] \in Open
  BY <1>1, SerialFacts DEF StatusOK
<1>3. status' = [status EXCEPT ![o] = "CANCELLED"] /\ CancelGoto(o, "done")
  BY <1>2 DEF CancelMark
<1>4. /\ \A p \in Orders : ~Busy(place, p) /\ filledQty[p] = Sold[p]
      /\ cancel'[o].at = "done" /\ \A p \in Orders \ {o} : cancel'[p] = cancel[p]
      /\ OneByOne' /\ place[o].at \in {"done", "failed"}
  BY <1>1, <1>3, CancelAlone
<1>5. status'[o] = "CANCELLED" /\ \A p \in Orders \ {o} : status'[p] = status[p]
  BY <1>3, SerialFacts
<1>6. MoneyStays /\ Settled' = Settled
  BY <1>1, QuietMakesNoMove, SerialFacts
<1>7. /\ TradesKept /\ Resting' = Resting /\ pc' = pc /\ order' = order /\ req' = req /\ resp' = resp
  BY <1>1, BookStaysFacts, SerialFacts
<1>8. \A p \in Orders \ {o} : SameAt(p)
  BY <1>1, <1>4, <1>5, <1>6, <1>7 DEF SameAt, MoneyStays
<1>9. StageOK(o) /\ PostedOK(o) /\ StatusOK(o) /\ TakerOK(o)
  BY SerialFacts
<1>10. OrderOK(o)'
  <2>1. StageOK(o)'
    BY <1>1, <1>4, <1>7, <1>9 DEF StageOK, Submitted
  <2>2. PostedOK(o)'
    <3>1. status[o] # "NOROW"
      BY <1>2 DEF Open
    <3> QED BY <1>1, <1>4, <1>6, <1>7, <1>9, <3>1 DEF PostedOK, MoneyStays, Submitted, Busy, Ended
  <2>3. StatusOK(o)'
    BY <1>4, <1>5 DEF StatusOK, Busy, Ended
  <2>4. TakerOK(o)'
    BY <1>1, <1>4, <1>6, <1>7, <1>9 DEF TakerOK, MoneyStays, Busy, Ended, Working, Writing
  <2> QED BY <2>1, <2>2, <2>3, <2>4 DEF OrderOK
<1>11. Sold' = Sold /\ users' = users
  BY <1>6 DEF MoneyStays
<1> QED BY <1>1, <1>4, <1>6, <1>7, <1>8, <1>10, <1>11, CancelMoves

\* The collateral of something is something.
LEMMA CollateralPositive ==
    ASSUME FlowConsistent, NEW o \in Orders, Accepted(req[o]), NEW n \in Nat, n > 0
    PROVE  CollateralAmount(req[o], n) > 0
<1>1. req[o].side \in Sides /\ req[o].price \in Prices \cup {Market} /\ Prices \subseteq Nat \ {0}
  BY RequestFields, PricesAssumption
<1>2. CASE req[o].side = "BUY"
  <2>1. PICK p \in Nat : p = req[o].price /\ p > 0
    <3>1. req[o].price # Market /\ req[o].price \in Nat \ {0}
      BY <1>1, <1>2 DEF Accepted
    <3> QED BY <3>1
  <2>2. n * p > 0
    BY <2>1, MulPositive
  <2> QED BY <1>2, <2>1, <2>2 DEF CollateralAmount
<1>3. CASE req[o].side # "BUY"
  BY <1>3 DEF CollateralAmount
<1> QED BY <1>2, <1>3

\* The unfreeze of what is not sold: either it was unfrozen before, or
\* nothing is left, or the user has it frozen.
LEMMA CancelUnfreezeGoes ==
    ASSUME SerialState, NEW o \in Orders, Busy(cancel, o)
    PROVE  \/ o \in Freed
           \/ Sold[o] = req[o].quantity
           \/ UnfreezeOK(req[o].user, CollateralAsset(req[o]),
                         CollateralAmount(req[o], req[o].quantity - cancel[o].filled), o)
<1> SUFFICES ASSUME o \notin Freed, Sold[o] # req[o].quantity
             PROVE  UnfreezeOK(req[o].user, CollateralAsset(req[o]),
                         CollateralAmount(req[o], req[o].quantity - cancel[o].filled), o)
  OBVIOUS
<1>1. place[o].at \in {"done", "failed"} /\ status[o] \in Open /\ cancel[o].filled = Sold[o]
  <2>1. \A p \in Orders : ~Busy(place, p)
    BY OneIsBusy, SerialFacts
  <2>2. filledQty[o] = Sold[o]
    <3>1. NobodyWrites
      BY <2>1 DEF NobodyWrites, Busy, Ended, Writing
    <3> QED BY <2>1, <3>1, NothingOwed, SerialFacts
  <2>3. StageOK(o) /\ StatusOK(o) /\ cancel[o].at # "idle"
    BY SerialFacts DEF Busy, Ended
  <2> QED BY <2>2, <2>3 DEF StageOK, StatusOK
<1>2. o \in Backed /\ req[o].user \in users /\ Accepted(req[o])
  <2>1. status[o] # "NOROW" /\ place[o].at # "idle"
    BY <1>1 DEF Open
  <2> QED BY <2>1, SerialFacts DEF PostedOK, StageOK
<1>3. PICK u \in Users : u = req[o].user
  BY SerialFacts
<1>4. PICK a \in {Base, Quote} : a = CollateralAsset(req[o])
  BY OrdersOfFacts, SerialFacts
<1>5. /\ Sold[o] \in Nat /\ Sold[o] <= req[o].quantity /\ Held[o] \in Int
      /\ Held[o] >= CollateralAmount(req[o], req[o].quantity - Sold[o])
  BY <1>2, OrderHolds
<1>6. PICK left \in Nat : left = req[o].quantity - Sold[o] /\ left > 0
  <2>1. req[o].quantity \in Nat /\ Sold[o] # req[o].quantity
    BY SerialFacts
  <2>2. req[o].quantity - Sold[o] \in Nat /\ req[o].quantity - Sold[o] > 0
    BY <1>5, <2>1
  <2> QED BY <2>2
<1>7. PICK n \in Nat : n = CollateralAmount(req[o], left) /\ n > 0
  <2>1. CollateralAmount(req[o], left) \in Nat
    BY <1>5, <1>6, CollateralSplits, SerialFacts
  <2>2. CollateralAmount(req[o], left) > 0
    BY <1>2, <1>6, CollateralPositive, SerialFacts
  <2> QED BY <2>1, <2>2
<1>8. frozen[u][a] >= n
  <2>1. frozen[u][a] >= SumFunctionOnSet([x \in {o} |-> n], {o})
    <3>1. {o} \in SUBSET OrdersOf(u, a)
      BY <1>3, <1>4 DEF OrdersOf
    <3>2. \A x \in {o} : [y \in {o} |-> n][x] \in Int /\ [y \in {o} |-> n][x] <= Held[x]
      BY <1>5, <1>6, <1>7
    <3> QED BY <3>1, <3>2, FrozenCovers
  <2>2. SumFunctionOnSet([x \in {o} |-> n], {o}) = n
    <3> DEFINE f == [x \in {o} |-> n]
    <3>1. f[o] = n /\ f[o] \in Int
      BY <1>7
    <3> HIDE DEF f
    <3>2. SumFunctionOnSet(f, {o}) = n
      BY <3>1, SumOne
    <3> QED BY <3>2 DEF f
  <2> QED BY <2>1, <2>2
<1>9. <<"unfreeze", o>> \notin DOMAIN entries
  BY DEF Freed
<1>10. n = CollateralAmount(req[o], req[o].quantity - cancel[o].filled)
  BY <1>1, <1>6, <1>7
<1>11. UnfreezeOK(u, a, n, o)
  BY <1>2, <1>3, <1>7, <1>8, <1>9 DEF UnfreezeOK
<1> QED BY <1>3, <1>4, <1>10, <1>11

\* The collateral comes back, unless it has before.
LEMMA CancelUnfreezeIsSerial ==
    ASSUME SerialState, FlowConsistent', ~Fault, NEW o \in Orders, CancelUnfreeze(o)
    PROVE  SerialConsistent'
<1>1. PICK n \in Int : n = CollateralAmount(req[o], req[o].quantity - cancel[o].filled)
  <2>1. req[o].quantity - cancel[o].filled \in Int
    BY SerialFacts DEF CancelRecord
  <2> QED BY <2>1, CollateralType, SerialFacts
<1>2. /\ cancel[o].at = "unfreeze" /\ Busy(cancel, o) /\ CancelGoto(o, "mark") /\ BookStays
      /\ place' = place /\ status' = status /\ filledQty' = filledQty
      /\ \/ Unfreeze(req[o].user, CollateralAsset(req[o]), n, o)
         \/ /\ ~UnfreezeOK(req[o].user, CollateralAsset(req[o]), n, o)
            /\ UNCHANGED accountVars
  BY <1>1 DEF CancelUnfreeze, Try, UnfreezeIfPossible, BookStays, storeVars, Busy, Ended
<1>3. /\ \A p \in Orders : ~Busy(place, p) /\ filledQty[p] = Sold[p]
      /\ cancel'[o].at = "mark" /\ cancel'[o].filled = cancel[o].filled
      /\ \A p \in Orders \ {o} : cancel'[p] = cancel[p]
      /\ OneByOne' /\ place[o].at \in {"done", "failed"} /\ status[o] \in Open
      /\ cancel[o].filled = Sold[o]
  BY <1>2, CancelAlone
<1>4. /\ TradesKept /\ Resting' = Resting /\ pc' = pc /\ order' = order /\ req' = req /\ resp' = resp
  BY <1>2, BookStaysFacts, SerialFacts
<1>5. StageOK(o) /\ PostedOK(o) /\ StatusOK(o) /\ TakerOK(o)
  BY SerialFacts
<1>6. /\ MoneyStays \/ \E k \in Int : Froze(o, k) \/ Unfroze(o, k)
      /\ Settled' = Settled /\ Sold' = Sold /\ Spent' = Spent
      /\ Backed' = Backed /\ Locked' = Locked /\ users' = users
      /\ o \in Freed' => o \in Freed \/ Returned'[o] = n
      /\ o \in Freed => Returned'[o] = Returned[o]
      /\ o \in Freed' \/ Sold[o] = req[o].quantity
  <2>1. CASE Unfreeze(req[o].user, CollateralAsset(req[o]), n, o)
    <3>1. Unfroze(o, n) /\ Settled' = Settled
      BY <1>2, <2>1, UnfreezeFacts
    <3>2. Returned'[o] = n /\ o \notin Freed /\ o \in Freed'
      BY <3>1, SerialFacts DEF Unfroze
    <3> QED BY <3>1, <3>2 DEF Unfroze
  <2>2. CASE ~UnfreezeOK(req[o].user, CollateralAsset(req[o]), n, o) /\ UNCHANGED accountVars
    <3>1. MoneyStays /\ Settled' = Settled
      BY <1>2, <2>2, QuietMakesNoMove, SerialFacts
    <3>2. o \in Freed \/ Sold[o] = req[o].quantity
      BY <1>1, <1>2, <2>2, CancelUnfreezeGoes
    <3> QED BY <3>1, <3>2 DEF MoneyStays
  <2> QED BY <1>2, <2>1, <2>2
<1>7. \A p \in Orders \ {o} : SameAt(p)
  <2>1. \A p \in Orders \ {o} : Waits(p)
    BY <1>2, <1>3 DEF Waits
  <2> QED BY <1>2, <1>6, <2>1, MoneyElsewhere, SerialFacts
<1>8. OrderOK(o)'
  <2>1. o \notin Resting
    BY <1>2, <1>5 DEF StageOK
  <2>2. StageOK(o)'
    BY <1>2, <1>3, <1>4, <1>5, <2>1 DEF StageOK, Submitted
  <2>3. PostedOK(o)'
    <3>1. status[o] # "NOROW" /\ ~Busy(place, o) /\ ~Busy(place', o)
      BY <1>2, <1>3 DEF Open, Busy
    <3>2. o \in Freed' => Returned'[o] = CollateralAmount(req[o], req[o].quantity - Sold[o])
      BY <1>1, <1>3, <1>5, <1>6 DEF PostedOK
    <3> QED BY <1>2, <1>3, <1>4, <1>5, <1>6, <2>1, <3>1, <3>2 DEF PostedOK, Submitted
  <2>4. StatusOK(o)'
    BY <1>2, <1>3, <1>4, <1>5 DEF StatusOK, Busy, Ended
  <2>5. TakerOK(o)'
    BY <1>2, <1>3, <1>4, <1>5, <1>6 DEF TakerOK, Busy, Ended, Working, Writing
  <2> QED BY <2>2, <2>3, <2>4, <2>5 DEF OrderOK
<1> QED BY <1>2, <1>3, <1>4, <1>6, <1>7, <1>8, CancelMoves
-----------------------------------------------------------------------------
(* The steps of the engine *)

\* The order that the engine works on is the one that is placed.
LEMMA EngineFacts ==
    ASSUME SerialState, FlowConsistent', NEW o \in Orders, BookStep(o)
    PROVE  /\ place[o].at = "await" /\ Busy(place, o) /\ cancel[o].at = "idle" /\ pc[o] \in {"stamped", "matching"}
           /\ MoneyStays /\ Settled' = Settled
           /\ order' = order /\ req' = req /\ place' = place /\ cancel' = cancel
           /\ status' = status /\ filledQty' = filledQty
           /\ MakersFollow' /\ OneByOne'
<1>1. /\ order' = order /\ req' = req /\ place' = place /\ cancel' = cancel
      /\ status' = status /\ filledQty' = filledQty /\ UNCHANGED accountVars
      /\ pc[o] = "stamped" \/ mu = o
  BY DEF BookStep, MatchLock, MatchFill, MatchReturn, storeVars
<1>2. pc[o] \in {"stamped", "matching"}
  BY <1>1, BookFacts, SerialFacts
<1>3. place[o].at = "await" /\ cancel[o].at = "idle"
  BY <1>2, SerialFacts DEF StageOK
<1>4. Busy(place, o)
  BY <1>3 DEF Busy, Ended
<1>5. \A x \in Settled : resp'[x[1]] = resp[x[1]]
  BY EngineStep, SettledFacts, SerialFacts DEF BookMoves
<1>6. MoneyStays
  BY <1>1, <1>5, QuietMoney, SerialFacts
<1>7. Settled' = Settled
  BY <1>1 DEF Settled, accountVars
<1>8. OneByOne'
  BY <1>1, BusyStays, SerialFacts DEF Busy
<1>9. MakersFollow'
  <2>1. place[o].at \notin Writing /\ place'[o].at \notin Writing /\ Busy(place', o)
    BY <1>1, <1>3, <1>4 DEF Writing, Busy
  <2>2. \A p \in Orders \ {o} : place'[p] = place[p] /\ filledQty'[p] = filledQty[p] /\ Sold'[p] = Sold[p]
    BY <1>1, <1>6 DEF MoneyStays
  <2> QED BY <1>4, <2>1, <2>2, QuietMakers
<1> QED BY <1>1, <1>2, <1>3, <1>4, <1>6, <1>7, <1>8, <1>9

\* What such a step leaves to show of the order.
LEMMA EngineKeepsOrder ==
    ASSUME SerialState, FlowConsistent', NEW o \in Orders, BookStep(o),
           o \in Resting' => resp'[o].resting
    PROVE  OrderOK(o)'
<1>1. /\ place[o].at = "await" /\ Busy(place, o) /\ cancel[o].at = "idle" /\ pc[o] \in {"stamped", "matching"}
      /\ MoneyStays /\ Settled' = Settled
      /\ order' = order /\ req' = req /\ place' = place /\ cancel' = cancel
      /\ status' = status /\ filledQty' = filledQty
  BY EngineFacts
<1>2. StageOK(o) /\ PostedOK(o) /\ StatusOK(o) /\ TakerOK(o)
  BY SerialFacts
<1>3. StageOK(o)'
  BY <1>1, <1>2 DEF StageOK, Submitted
<1>4. PostedOK(o)'
  BY <1>1, <1>2 DEF PostedOK, MoneyStays, Submitted, Busy, Ended
<1>5. StatusOK(o)'
  BY <1>1 DEF StatusOK, Busy, Ended
<1>6. TakerOK(o)'
  BY <1>1, <1>2 DEF TakerOK, MoneyStays, Busy, Ended, Working, Writing
<1> QED BY <1>3, <1>4, <1>5, <1>6 DEF OrderOK

\* The handler has the book.
LEMMA MatchLockIsSerial ==
    ASSUME SerialState, FlowConsistent', NEW o \in Orders, BookStep(o), MatchLock(o), resp' = resp
    PROVE  SerialConsistent'
<1>1. /\ place[o].at = "await" /\ Busy(place, o) /\ cancel[o].at = "idle" /\ pc[o] \in {"stamped", "matching"}
      /\ MoneyStays /\ Settled' = Settled
      /\ order' = order /\ req' = req /\ place' = place /\ cancel' = cancel
      /\ status' = status /\ filledQty' = filledQty /\ MakersFollow'
  BY EngineFacts
<1>2. Resting' = Resting /\ \A p \in Orders \ {o} : pc'[p] = pc[p]
  BY BookFacts, SerialFacts DEF MatchLock, Resting
<1>3. \A p \in Orders \ {o} : SameAt(p)
  BY <1>1, <1>2 DEF SameAt, MoneyStays
<1>4. OrderOK(o)'
  <2>1. o \notin Resting
    BY <1>1, SerialFacts DEF FlowConsistent, BookHolds
  <2> QED BY <1>2, <2>1, EngineKeepsOrder
<1>5. users' = users /\ Freed' = Freed
  BY <1>1 DEF MoneyStays
<1> QED BY <1>1, <1>3, <1>4, <1>5, LockTrades, TakerMoves, SerialFacts

\* The answer is made, and what is left of a limit order rests.
LEMMA MatchReturnIsSerial ==
    ASSUME SerialState, FlowConsistent', NEW o \in Orders, BookStep(o), MatchReturn(o),
           resp' = [resp EXCEPT ![o] = [trades |-> fills, resting |-> remaining[o] > 0 /\ ~isMarket(o)]]
    PROVE  SerialConsistent'
<1>1. /\ place[o].at = "await" /\ Busy(place, o) /\ cancel[o].at = "idle" /\ pc[o] \in {"stamped", "matching"}
      /\ MoneyStays /\ Settled' = Settled
      /\ order' = order /\ req' = req /\ place' = place /\ cancel' = cancel
      /\ status' = status /\ filledQty' = filledQty /\ MakersFollow'
  BY EngineFacts
<1>2. o \notin Resting
  BY <1>1, SerialFacts DEF FlowConsistent, BookHolds
<1>3. /\ resp'[o].resting = (remaining[o] > 0 /\ ~isMarket(o))
      /\ \A p \in Orders \ {o} : resp'[p] = resp[p] /\ pc'[p] = pc[p]
  BY BookFacts, SerialFacts DEF MatchReturn
<1>4. /\ \A p \in Orders \ {o} : p \in Resting' => p \in Resting
      /\ o \in Resting' => remaining[o] > 0 /\ ~isMarket(o)
  <2>1. CASE ~(remaining[o] > 0 /\ ~isMarket(o))
    BY <1>2, <2>1 DEF MatchReturn, Resting
  <2>2. CASE remaining[o] > 0 /\ ~isMarket(o)
    <3>1. PICK t \in Sorts(Append(SideOf(o), o)) :
              IF order[o].side = "BUY" THEN bids' = t /\ asks' = asks
                                       ELSE asks' = t /\ bids' = bids
      BY <2>2 DEF MatchReturn, insertResting
    <3>2. SideOf(o) \in Seq(Orders)
      BY SerialFacts DEF SideOf, FlowConsistent, BookHolds, BookTypeOK
    <3>3. /\ Append(SideOf(o), o) \in Seq(Orders)
          /\ Range(Append(SideOf(o), o)) = Range(SideOf(o)) \cup {o}
      BY <3>2, AppendProperties
    <3>4. Range(t) = Range(SideOf(o)) \cup {o}
      BY <3>3, SortsProperties
    <3>5. Resting' = Resting \cup {o}
      BY <3>1, <3>4 DEF Resting, SideOf
    <3> QED BY <2>2, <3>5
  <2> QED BY <2>1, <2>2
<1>5. \A p \in Orders \ {o} : SameAt(p)
  BY <1>1, <1>3, <1>4 DEF SameAt, MoneyStays
<1>6. OrderOK(o)'
  BY <1>3, <1>4, EngineKeepsOrder
<1>7. users' = users /\ Freed' = Freed
  BY <1>1 DEF MoneyStays
<1> QED BY <1>1, <1>5, <1>6, <1>7, ReturnTrades, TakerMoves, SerialFacts

\* A trade is within the limit of its buyer: the book crossed, and no market
\* order buys.
LEMMA FillWithinLimit ==
    ASSUME SerialState, NEW o \in Orders, place[o].at = "await", mu = o, CanFill(o)
    PROVE  FillOf(o).price <= req[FillOf(o).buy].price
<1> DEFINE best == Head(Opposite(o))
           f == FillOf(o)
<1>1. /\ best \in Orders /\ {f.buy, f.sell} = {o, best} /\ f.buy \in Orders /\ f.sell \in Orders
      /\ order[f.buy].side = "BUY" /\ order[f.sell].side = "SELL"
      /\ Submitted(order, f.buy) /\ Submitted(order, f.sell)
      /\ f.price = TradePrice(f.buy, f.sell) /\ best # o
  BY FillSides, SerialFacts
<1>2. isMarket(o) \/ (IF order[o].side = "BUY" THEN order[o].price >= order[best].price
                                               ELSE order[o].price <= order[best].price)
  BY DEF CanFill, Crosses
<1> HIDE DEF f, best
<1>3. order[f.buy].price \in Nat /\ order[f.sell].price \in Nat /\ BookTypeOK
  BY <1>1, OrderFieldsType, BookFacts, SerialFacts
<1>4. order[f.buy].price = req[f.buy].price
  BY <1>1, SerialFacts DEF StageOK
<1>5. f.price <= order[f.buy].price
  <2>1. CASE isMarket(f.sell)
    BY <1>1, <1>3, <2>1 DEF TradePrice
  <2>2. CASE ~isMarket(f.sell)
    <3>1. f.price = order[f.sell].price
      BY <1>1, <2>2 DEF TradePrice
    <3>2. CASE o = f.buy
      <4>1. f.sell = best
        BY <1>1, <3>2
      <4>2. ~isMarket(o)
        <5>1. Accepted(req[o])
          BY SerialFacts DEF StageOK
        <5>2. req[o].side = "BUY" /\ order[o].price = req[o].price
          BY <1>1, <1>4, <3>2, SerialFacts DEF TradesHaveSides
        <5> QED BY <5>1, <5>2 DEF Accepted, isMarket
      <4> QED BY <1>1, <1>2, <1>3, <3>1, <3>2, <4>1, <4>2
    <3>3. CASE o = f.sell
      <4>1. f.buy = best
        BY <1>1, <3>3
      <4> QED BY <1>1, <1>2, <1>3, <2>2, <3>1, <3>3, <4>1
    <3> QED BY <1>1, <3>2, <3>3
  <2> QED BY <2>1, <2>2
<1> QED BY <1>4, <1>5 DEF f

\* A trade is made.
LEMMA MatchFillIsSerial ==
    ASSUME SerialState, FlowConsistent', NEW o \in Orders, BookStep(o), MatchFill(o), resp' = resp
    PROVE  SerialConsistent'
<1>1. /\ place[o].at = "await" /\ Busy(place, o) /\ cancel[o].at = "idle" /\ pc[o] \in {"stamped", "matching"}
      /\ MoneyStays /\ Settled' = Settled
      /\ order' = order /\ req' = req /\ place' = place /\ cancel' = cancel
      /\ status' = status /\ filledQty' = filledQty /\ MakersFollow' /\ OneByOne'
  BY EngineFacts
<1>2. /\ mu = o /\ CanFill(o)
      /\ \A p \in Orders : \A k \in DOMAIN Matches'[p] :
            \/ k \in DOMAIN Matches[p] /\ Matches'[p][k] = Matches[p][k]
            \/ p = o /\ Matches'[p][k] = FillOf(o)
  BY FillTrades, SerialFacts
<1>3. PICK best \in Orders :
         /\ best = Head(Opposite(o)) /\ best \in Resting /\ best # o
         /\ {FillOf(o).buy, FillOf(o).sell} = {o, best} /\ FillOf(o).quantity > 0
  BY <1>2, FillSides, SerialFacts
<1>4. /\ pc' = pc /\ \A p \in Orders : p \in Resting' => p \in Resting
  <2>1. pc' = pc
    BY DEF MatchFill
  <2>2. Opposite(o) \in Seq(Orders) /\ Opposite(o) # <<>> /\ IsInjective(Opposite(o))
    BY <1>2, FillHolds, BookFacts, SerialFacts
  <2>3. Range(Tail(Opposite(o))) \subseteq Range(Opposite(o))
    BY <2>2, TailProperties
  <2>4. PICK rest \in {Tail(Opposite(o)), Opposite(o)} :
            IF order[o].side = "BUY" THEN asks' = rest /\ bids' = bids
                                     ELSE bids' = rest /\ asks' = asks
    BY DEF MatchFill
  <2>5. Range(rest) \subseteq Range(Opposite(o))
    BY <2>3
  <2>6. Resting' \subseteq Resting
    BY <2>4, <2>5 DEF Resting, Opposite
  <2> QED BY <2>1, <2>6
<1>5. \A p \in Orders \ {o} : SameAt(p)
  BY <1>1, <1>4 DEF SameAt, MoneyStays
<1>6. o \notin Resting'
  BY <1>1, <1>4, SerialFacts DEF FlowConsistent, BookHolds
<1>7. OrderOK(o)'
  BY <1>6, EngineKeepsOrder
<1>8. place[best].at = "done" /\ best \notin Freed /\ cancel[best].at # "done"
  <2>1. ~Busy(place, best)
    BY <1>1, <1>3, OneIsBusy, SerialFacts
  <2>2. StageOK(best) /\ PostedOK(best)
    BY SerialFacts
  <2> QED BY <1>3, <2>1, <2>2 DEF StageOK, PostedOK, Busy, Ended, Working, Writing
<1>9. TradesAreFair'
  <2> SUFFICES ASSUME NEW p \in Orders, NEW k \in DOMAIN Matches'[p]
               PROVE  LET t == Matches'[p][k]
                          m == MakerIn(t, p)
                      IN  /\ t.quantity > 0 /\ t.price <= req'[t.buy].price
                          /\ place'[m].at = "done"
                          /\ Busy(place', p) => m \notin Freed' /\ cancel'[m].at # "done"
    BY DEF TradesAreFair
  <2>1. CASE k \in DOMAIN Matches[p] /\ Matches'[p][k] = Matches[p][k]
    BY <1>1, <2>1, SerialFacts DEF TradesAreFair, MoneyStays
  <2>2. CASE p = o /\ Matches'[p][k] = FillOf(o)
    <3>1. MakerIn(FillOf(o), o) = best
      BY <1>3 DEF MakerIn
    <3>2. FillOf(o).price <= req[FillOf(o).buy].price
      BY <1>1, <1>2, FillWithinLimit
    <3> QED BY <1>1, <1>3, <1>8, <2>2, <3>1, <3>2 DEF MoneyStays
  <2> QED BY <1>2, <2>1, <2>2
<1>10. users' = users
  BY <1>1 DEF MoneyStays
<1> QED BY <1>1, <1>5, <1>7, <1>9, <1>10, OneOrderMoves, SerialFacts
-----------------------------------------------------------------------------
(* The invariant *)

\* A step of nobody's request: the engine stops or starts, or nothing moves.
LEMMA NobodyMoves ==
    ASSUME SerialState, FlowConsistent', TradesKept, UNCHANGED accountVars,
           req' = req, resp' = resp, place' = place, cancel' = cancel, order' = order,
           status' = status, filledQty' = filledQty,
           \A p \in Orders : p \in Resting' => p \in Resting,
           \A p \in Orders : pc'[p] = pc[p] \/ pc'[p] = "idle"
    PROVE  SerialConsistent'
<1>1. MoneyStays
  BY QuietMoney, SerialFacts
<1>2. Settled' = Settled
  BY DEF Settled, accountVars
<1>3. ASSUME NEW p \in Orders PROVE OrderOK(p)'
  <2>1. StageOK(p) /\ PostedOK(p) /\ StatusOK(p) /\ TakerOK(p)
    BY SerialFacts
  <2>2. (p \in Resting' => p \in Resting) /\ (pc'[p] = pc[p] \/ pc'[p] = "idle")
    OBVIOUS
  <2>3. StageOK(p)'
    BY <2>1, <2>2 DEF StageOK, Submitted
  <2>4. PostedOK(p)'
    BY <1>1, <2>1, <2>2 DEF PostedOK, MoneyStays, Submitted, Busy
  <2>5. StatusOK(p)'
    BY <2>1 DEF StatusOK, Busy
  <2>6. TakerOK(p)'
    BY <1>1, <1>2, <2>1 DEF TakerOK, MoneyStays, Busy, TheTrade
  <2> QED BY <2>3, <2>4, <2>5, <2>6 DEF OrderOK
<1>4. OneByOne'
  BY BusyStays, SerialFacts DEF Busy
<1>5. TradesAreFair'
  <2>1. \A p \in Orders : \A k \in DOMAIN Matches'[p] :
           Busy(place', p) => Busy(place, p) /\ Freed' = Freed /\ cancel' = cancel
    BY <1>1 DEF MoneyStays, Busy
  <2>2. \A p \in Orders : place[p].at = "done" => place'[p].at = "done"
    OBVIOUS
  <2> QED BY <2>1, <2>2, FairStays, MakersAreOrders, SerialFacts
<1>6. MakersFollow'
  BY <1>1, SerialFacts DEF MakersFollow, MoneyStays, Maker, TheTrade, Busy
<1> QED BY <1>3, <1>4, <1>5, <1>6 DEF SerialConsistent

\* The engine stops, or starts without quotes of its own.
LEMMA EngineIsSerial ==
    ASSUME Serial, SerialState, FlowConsistent', StopEngine \/ StartEngine
    PROVE  SerialConsistent'
<1>1. CASE StopEngine
  <2>1. /\ UNCHANGED accountVars /\ req' = req /\ resp' = resp /\ place' = place /\ cancel' = cancel
        /\ order' = order /\ status' = status /\ filledQty' = filledQty /\ bids' = <<>> /\ asks' = <<>>
    BY <1>1 DEF StopEngine, storeVars
  <2>2. Resting' = {}
    BY <2>1 DEF Resting, Range
  <2>3. \A p \in Orders : pc'[p] = pc[p] \/ pc'[p] = "idle"
    BY <1>1 DEF StopEngine
  <2>4. TradesKept
    BY <1>1, StopTrades, SerialFacts
  <2> QED BY <2>1, <2>2, <2>3, <2>4, NobodyMoves
<1>2. CASE StartEngine
  <2>1. /\ UNCHANGED accountVars /\ req' = req /\ resp' = resp /\ place' = place /\ cancel' = cancel
        /\ status' = status /\ filledQty' = filledQty /\ BookStays
    BY <1>2 DEF StartEngine, storeVars, BookStays, Serial
  <2>2. TradesKept /\ Resting' = Resting /\ pc' = pc /\ order' = order
    BY <2>1, BookStaysFacts, SerialFacts
  <2> QED BY <2>1, <2>2, NobodyMoves
<1> QED BY <1>1, <1>2

\* Nothing moves.
LEMMA SerialStutters ==
    ASSUME SerialState, FlowConsistent', UNCHANGED flowVars
    PROVE  SerialConsistent'
<1>1. /\ UNCHANGED accountVars /\ req' = req /\ resp' = resp /\ place' = place /\ cancel' = cancel
      /\ status' = status /\ filledQty' = filledQty /\ BookStays
  BY DEF flowVars, storeVars, BookStays
<1>2. TradesKept /\ Resting' = Resting /\ pc' = pc /\ order' = order
  BY <1>1, BookStaysFacts, SerialFacts
<1> QED BY <1>1, <1>2, NobodyMoves

\* A step of a request.
LEMMA RequestIsSerial ==
    ASSUME Serial, SettlementsGoThrough, SerialState, FlowConsistent', NEW o \in Orders,
           LifePlace(o) \/ CancelStep(o)
    PROVE  SerialConsistent'
<1>1. ~Fault
  BY NothingFails, SerialFacts
<1>2. MaxInFlight = 1
  BY DEF Serial
<1>3. CASE SubmitRefused(o) \/ SubmitReset(o)
  BY <1>3, SubmitErrorIsSerial
<1>4. CASE PlaceStep(o)
  <2>1. CASE PlaceFreeze(o)
    BY <1>2, <2>1, PlaceFreezeIsSerial
  <2>2. CASE CreateOrder(o)
    BY <1>1, <2>2, CreateOrderIsSerial
  <2>3. CASE PlaceUndo(o)
    BY <2>3, PlaceUndoIsSerial
  <2>4. CASE SubmitOrder(o)
    BY <1>1, <2>4, SubmitOrderIsSerial
  <2>5. CASE SubmitTimeout(o) \/ PlaceAbandoned(o)
    BY <1>1, <2>5 DEF SubmitTimeout, PlaceAbandoned
  <2>6. CASE SubmitAnswered(o)
    BY <2>6, SubmitAnsweredIsSerial
  <2>7. CASE SettleMatch(o)
    BY <2>7, SettleMatchIsSerial
  <2>8. CASE InsertTrade(o)
    BY <2>8, InsertTradeIsSerial
  <2>9. CASE ReadMaker(o)
    BY <2>9, ReadMakerIsSerial
  <2>10. CASE UpdateMaker(o)
    BY <1>1, <2>10, UpdateMakerIsSerial
  <2>11. CASE UpdateOwn(o)
    BY <1>1, <2>11, UpdateOwnIsSerial
  <2>12. CASE ReleaseRemaining(o)
    BY <2>12, ReleaseRemainingIsSerial
  <2> QED BY <1>4, <2>1, <2>2, <2>3, <2>4, <2>5, <2>6, <2>7, <2>8, <2>9, <2>10, <2>11, <2>12
          DEF PlaceStep
<1>5. CASE CancelStep(o)
  <2>1. CASE CancelLookup(o)
    BY <1>2, <2>1, CancelLookupIsSerial
  <2>2. CASE CancelOnBook(o)
    BY <1>1, <2>2, CancelOnBookIsSerial
  <2>3. CASE CancelUnfreeze(o)
    BY <1>1, <2>3, CancelUnfreezeIsSerial
  <2>4. CASE CancelMark(o)
    BY <2>4, CancelMarkIsSerial
  <2>5. CASE CancelAbandoned(o)
    BY <1>1, <2>5 DEF CancelAbandoned
  <2> QED BY <1>5, <2>1, <2>2, <2>3, <2>4, <2>5 DEF CancelStep
<1> QED BY <1>3, <1>4, <1>5 DEF LifePlace

\* Every step of the system.
LEMMA SerialStep ==
    ASSUME Serial, SettlementsGoThrough, LifeConsistent, LifeConsistent', HeldConsistent,
           SerialConsistent, [LifeNext]_lifeVars
    PROVE  SerialConsistent'
<1>1. SerialState /\ FlowConsistent'
  BY DEF LifeConsistent, SerialState
<1>2. CASE UNCHANGED lifeVars
  BY <1>1, <1>2, SerialStutters DEF lifeVars
<1>3. CASE StopEngine \/ StartEngine
  BY <1>1, <1>3, EngineIsSerial
<1>4. ASSUME NEW o \in Orders, BookStep(o) \/ LifePlace(o) \/ CancelStep(o)
      PROVE  SerialConsistent'
  <2>1. CASE LifePlace(o) \/ CancelStep(o)
    BY <1>1, <2>1, RequestIsSerial
  <2>2. CASE BookStep(o)
    BY <1>1, <2>2, MatchLockIsSerial, MatchFillIsSerial, MatchReturnIsSerial DEF BookStep
  <2> QED BY <1>4, <2>1, <2>2
<1> QED BY <1>2, <1>3, <1>4 DEF LifeNext

LEMMA SerialStarts ==
    ASSUME FlowInit, FlowConsistent
    PROVE  SerialConsistent
<1>1. /\ place = [o \in Orders |-> [at |-> "idle", k |-> 0, filled |-> 0, seen |-> 0]]
      /\ cancel = [o \in Orders |-> [at |-> "idle", filled |-> 0]]
      /\ status = [o \in Orders |-> "NOROW"] /\ filledQty = [o \in Orders |-> 0]
      /\ pc = [o \in Orders |-> "idle"] /\ bids = <<>> /\ asks = <<>>
  BY DEF FlowInit, BookInit
<1>2. /\ Backed = {} /\ Freed = {} /\ CollateralTyped
      /\ \A o \in Orders : Sold[o] = 0 /\ Spent[o] = 0
      /\ \A o \in Orders : ~Submitted(order, o) /\ Matches[o] = <<>>
  BY HeldStarts DEF HeldConsistent
<1>3. Resting = {}
  BY <1>1 DEF Resting, Range
<1>4. /\ \A o \in Orders : place[o].at = "idle" /\ place[o].filled = 0 /\ cancel[o].at = "idle"
      /\ \A o \in Orders : status[o] = "NOROW" /\ filledQty[o] = 0 /\ pc[o] = "idle"
  BY <1>1
<1>5. OneByOne /\ MakersFollow /\ TradesAreFair
  <2>1. OneByOne
    BY <1>4 DEF OneByOne, Busy, Ended
  <2>2. MakersFollow
    BY <1>2, <1>4 DEF MakersFollow, Writing
  <2>3. TradesAreFair
    BY <1>2 DEF TradesAreFair
  <2> QED BY <2>1, <2>2, <2>3
<1>6. ASSUME NEW o \in Orders PROVE OrderOK(o)
  <2>1. StageOK(o)
    BY <1>2, <1>3, <1>4 DEF StageOK
  <2>2. PostedOK(o)
    <3>1. req[o].price \in Nat
      BY StoreFacts
    <3>2. CollateralAmount(req[o], 0) = 0
      BY <3>1 DEF CollateralAmount
    <3> QED BY <1>2, <1>4, <3>2 DEF PostedOK
  <2>3. StatusOK(o)
    BY <1>4 DEF StatusOK, Busy, Ended
  <2>4. TakerOK(o)
    BY <1>4 DEF TakerOK, Busy, Ended, Working, Writing
  <2> QED BY <2>1, <2>2, <2>3, <2>4 DEF OrderOK
<1> QED BY <1>5, <1>6 DEF SerialConsistent

\* When requests come one at a time and none fails, the placement, the ledger,
\* the store and the book stay in step at every call of PlaceOrder and
\* CancelOrder, stops of the engine included: each order's freeze and unfreeze
\* are for the quantities the trades left, a maker's row lacks at most the
\* trade its taker is at, and a cancelled order is off the book.
THEOREM RequestsInTurn ==
    ASSUME Serial
    PROVE  LifeSpec /\ []SettlementsGoThrough => []SerialConsistent
<1>1. LifeInit /\ LifeConsistent => SerialConsistent
  BY SerialStarts DEF LifeInit, LifeConsistent
<1>2. ASSUME SettlementsGoThrough, LifeConsistent, LifeConsistent', HeldConsistent,
             SerialConsistent, [LifeNext]_lifeVars
      PROVE  SerialConsistent'
  BY <1>2, SerialStep
<1> QED BY <1>1, <1>2, LifeIsConsistent, FundsAreHeld, PTL DEF LifeSpec
-----------------------------------------------------------------------------
(* The collateral *)

\* What some of a user's orders need is frozen, when each holds it.
LEMMA NeedIsFrozen ==
    ASSUME SerialState, NEW u \in Users, NEW a \in {Base, Quote}, NEW S \in SUBSET OrdersOf(u, a),
           NEW n \in [S -> Nat],
           \A o \in S : o \in Backed /\ o \notin Freed /\ Sold[o] + n[o] <= req[o].quantity
    PROVE  frozen[u][a] >= SumFunction([o \in S |-> CollateralAmount(req[o], n[o])])
<1> DEFINE f == [o \in S |-> CollateralAmount(req[o], n[o])]
<1>1. \A o \in S : f[o] \in Int /\ f[o] <= Held[o]
  <2> SUFFICES ASSUME NEW o \in S PROVE f[o] \in Int /\ f[o] <= Held[o]
    OBVIOUS
  <2>1. o \in Orders
    BY OrdersOfFacts, SerialFacts
  <2>2. /\ Sold[o] \in Nat /\ Sold[o] <= req[o].quantity /\ Held[o] \in Int
        /\ Held[o] >= CollateralAmount(req[o], req[o].quantity - Sold[o])
    BY <2>1, OrderHolds
  <2>3. PICK left \in Nat : left = req[o].quantity - Sold[o]
    <3>1. req[o].quantity \in Nat
      BY <2>1, SerialFacts
    <3> QED BY <2>2, <3>1
  <2>4. n[o] <= left /\ n[o] \in Nat
    <3>1. req[o].quantity \in Nat /\ n[o] \in Nat /\ Sold[o] + n[o] <= req[o].quantity
      BY <2>1, SerialFacts
    <3> QED BY <2>2, <2>3, <3>1
  <2>5. /\ CollateralAmount(req[o], left) \in Nat /\ CollateralAmount(req[o], n[o]) \in Nat
        /\ CollateralAmount(req[o], left - n[o]) \in Nat
        /\ CollateralAmount(req[o], left) = CollateralAmount(req[o], n[o]) + CollateralAmount(req[o], left - n[o])
    BY <2>1, <2>4, CollateralSplits, SerialFacts
  <2>6. f[o] = CollateralAmount(req[o], n[o])
    OBVIOUS
  <2> HIDE DEF f
  <2> QED BY <2>2, <2>3, <2>5, <2>6
<1>2. SumFunction(f) = SumFunctionOnSet(f, S)
  BY DEF SumFunction
<1> HIDE DEF f
<1>3. frozen[u][a] >= SumFunction(f)
  BY <1>1, <1>2, FrozenCovers
<1> QED BY <1>3 DEF f

\* A resting order is backed, and what it has left is not sold.
LEMMA RestingIsBacked ==
    ASSUME SerialState, NEW o \in Resting
    PROVE  /\ o \in Orders /\ o \in Backed /\ o \notin Freed
           /\ remaining[o] \in Nat /\ Sold[o] + remaining[o] <= req[o].quantity
<1>1. o \in Orders /\ FlowConsistent /\ CollateralTyped
  BY RestingAreOrders, SerialFacts DEF FlowConsistent
<1>2. StageOK(o) /\ PostedOK(o)
  BY <1>1, SerialFacts
<1>3. place[o].at \notin {"idle", "failed"}
  BY <1>2 DEF StageOK, Working, Writing
<1>4. o \in Backed /\ o \notin Freed
  BY <1>2, <1>3 DEF PostedOK
<1>5. remaining[o] \in Nat /\ Submitted(order, o)
  BY <1>1, QuantityFacts DEF FlowConsistent, BookHolds
<1>6. Sold[o] + remaining[o] <= order[o].quantity
  <2>1. Sold[o] = SettledQty(o)
    BY <1>1, HeldFacts DEF HeldTyped
  <2> QED BY <1>1, <2>1, ConsistentIsSafe DEF FilledIsSettledAndMatched
<1>7. order[o].quantity = req[o].quantity
  BY <1>1, <1>5 DEF FlowConsistent, AnswersFollowBook
<1> QED BY <1>1, <1>4, <1>5, <1>6, <1>7

\* Every resting order is backed by frozen funds: docs/ledger-design.md, "Order
\* collateral", when requests come one at a time and none fails, whatever the
\* orders, and with an engine that stops and starts.
THEOREM CollateralIsFrozen ==
    ASSUME Serial
    PROVE  LifeSpec /\ []SettlementsGoThrough => []CollateralCoversBook
<1>1. ASSUME LifeConsistent, HeldConsistent, SerialConsistent
      PROVE  CollateralCoversBook
  <2> SUFFICES ASSUME NEW u \in Users, NEW a \in {Base, Quote}
               PROVE  frozen[u][a] >= Needed(u, a)
    BY DEF CollateralCoversBook
  <2>1. SerialState
    BY <1>1 DEF SerialState, LifeConsistent
  <2> DEFINE S == {x \in Resting : req[x].user = u /\ CollateralAsset(req[x]) = a}
             n == [o \in S |-> remaining[o]]
  <2>2. \A o \in S : /\ o \in Orders /\ o \in Backed /\ o \notin Freed
                     /\ remaining[o] \in Nat /\ Sold[o] + remaining[o] <= req[o].quantity
    BY <2>1, RestingIsBacked
  <2>3. S \in SUBSET OrdersOf(u, a)
    BY <2>2 DEF OrdersOf
  <2>4. n \in [S -> Nat] /\ \A o \in S : n[o] = remaining[o]
    BY <2>2
  <2>5. Needed(u, a) = SumFunction([o \in S |-> CollateralAmount(req[o], n[o])])
    <3>1. [o \in S |-> CollateralAmount(req[o], n[o])] = [o \in S |-> CollateralAmount(req[o], remaining[o])]
      OBVIOUS
    <3> QED BY <3>1 DEF Needed
  <2> HIDE DEF S, n
  <2>6. frozen[u][a] >= SumFunction([o \in S |-> CollateralAmount(req[o], n[o])])
    BY <2>1, <2>2, <2>3, <2>4, NeedIsFrozen
  <2> QED BY <2>5, <2>6
<1> QED BY <1>1, LifeIsConsistent, FundsAreHeld, RequestsInTurn, PTL

\* After any stop and start of the engine, when no request is busy, the frozen
\* funds of a user cover what a cancellation of his open orders would give back.
THEOREM CancellationsAreCovered ==
    ASSUME Serial
    PROVE  LifeSpec /\ []SettlementsGoThrough => []OpenOrdersHoldTheirCollateral
<1>1. ASSUME LifeConsistent, HeldConsistent, SerialConsistent
      PROVE  OpenOrdersHoldTheirCollateral
  <2> SUFFICES ASSUME InFlight = 0, NEW u \in Seeded, NEW a \in {Base, Quote}
               PROVE  frozen[u][a] >= Cancellable(u, a)
    BY DEF OpenOrdersHoldTheirCollateral
  <2>1. SerialState /\ u \in Users
    BY <1>1, AccountsAssumption DEF SerialState, LifeConsistent
  <2>2. \A p \in Orders : ~Busy(place, p) /\ filledQty[p] = Sold[p]
    <3>1. InFlight < 1
      OBVIOUS
    <3>2. \A p \in Orders : ~Busy(place, p)
      BY <3>1, Alone
    <3>3. NobodyWrites
      BY <3>2 DEF NobodyWrites, Busy, Ended, Writing
    <3> QED BY <2>1, <3>2, <3>3, NothingOwed, SerialFacts
  <2> DEFINE S == {x \in Orders \ Quotes :
                      /\ req[x].user = u /\ CollateralAsset(req[x]) = a
                      /\ status[x] \in Open
                      /\ <<"unfreeze", x>> \notin DOMAIN entries}
             n == [o \in S |-> req[o].quantity - filledQty[o]]
  <2>3. ASSUME NEW o \in S
        PROVE  /\ o \in Orders /\ o \in Backed /\ o \notin Freed
               /\ req[o].quantity - filledQty[o] \in Nat
               /\ Sold[o] + (req[o].quantity - filledQty[o]) <= req[o].quantity
    <3>1. o \in Orders /\ PostedOK(o) /\ status[o] # "NOROW" /\ o \notin Freed /\ req[o].quantity \in Nat
      BY <2>1, SerialFacts DEF Open, Freed
    <3>2. o \in Backed
      BY <3>1 DEF PostedOK
    <3>3. Sold[o] \in Nat /\ Sold[o] <= req[o].quantity /\ filledQty[o] = Sold[o]
      BY <2>1, <2>2, <3>1, OrderHolds
    <3> QED BY <3>1, <3>2, <3>3
  <2>4. S \in SUBSET OrdersOf(u, a)
    BY DEF OrdersOf
  <2>5. n \in [S -> Nat] /\ \A o \in S : n[o] = req[o].quantity - filledQty[o]
    BY <2>3
  <2>6. Cancellable(u, a) = SumFunction([o \in S |-> CollateralAmount(req[o], n[o])])
    <3>1. [o \in S |-> CollateralAmount(req[o], n[o])]
            = [o \in S |-> CollateralAmount(req[o], req[o].quantity - filledQty[o])]
      OBVIOUS
    <3> QED BY <3>1 DEF Cancellable
  <2>7. \A o \in S : o \in Backed /\ o \notin Freed /\ Sold[o] + n[o] <= req[o].quantity
    BY <2>3, <2>5
  <2> HIDE DEF S, n
  <2>8. frozen[u][a] >= SumFunction([o \in S |-> CollateralAmount(req[o], n[o])])
    BY <2>1, <2>4, <2>5, <2>7, NeedIsFrozen
  <2> QED BY <2>6, <2>8
<1> QED BY <1>1, LifeIsConsistent, FundsAreHeld, RequestsInTurn, PTL
-----------------------------------------------------------------------------
(* The exact share *)

\* No taker got a better price than the buyer's limit.
FillsAtLimit ==
    \A o \in Orders : \A k \in DOMAIN resp[o].trades :
        resp[o].trades[k].price = req[resp[o].trades[k].buy].price

\* The settlements of an order took the collateral of what they sold.
ExactSpending == \A o \in Orders : Spent[o] = CollateralAmount(req[o], Sold[o])

\* A trade at the buyer's limit takes its share.
LEMMA UseAtLimit ==
    ASSUME NEW t \in Trade, t.buy # t.sell, NEW o \in {t.buy, t.sell}, HasSides(t, req),
           req[o].price \in Nat, t.price = req[t.buy].price, NEW s \in Nat
    PROVE  CollateralAmount(req[o], s + t.quantity) = CollateralAmount(req[o], s) + Use(t, o)
<1> DEFINE q == t.quantity
           p == req[o].price
<1>1. q \in Nat /\ p \in Nat
  BY DEF Trade
<1>2. CASE o = t.buy
  <2>1. /\ Use(t, o) = p * q /\ CollateralAmount(req[o], s) = s * p
        /\ CollateralAmount(req[o], s + q) = (s + q) * p
    BY <1>2 DEF Use, HasSides, CollateralAmount
  <2> HIDE DEF q, p
  <2>2. (s + q) * p = s * p + p * q
    BY <1>1
  <2> QED BY <2>1, <2>2 DEF q
<1>3. CASE o = t.sell
  <2>1. /\ Use(t, o) = q /\ CollateralAmount(req[o], s) = s
        /\ CollateralAmount(req[o], s + q) = s + q
    BY <1>3 DEF Use, HasSides, CollateralAmount
  <2> QED BY <2>1 DEF q
<1> QED BY <1>2, <1>3

\* Steps that move no money between orders.
LEMMA ExactStays ==
    ASSUME ExactSpending, req' = req, Sold' = Sold, Spent' = Spent
    PROVE  ExactSpending'
  BY DEF ExactSpending

\* The settlement of a trade at the limit.
LEMMA ExactSettle ==
    ASSUME FlowConsistent, FlowConsistent', HeldConsistent, FillsAtLimit, ExactSpending,
           req' = req, resp' = resp, NEW o \in Orders, place[o].at = "settle", SettleNext(o)
    PROVE  ExactSpending'
<1>1. PICK t : t = TheTrade(o)
  OBVIOUS
<1>2. /\ t \in Trade /\ t.buy # t.sell /\ place[o].k \in DOMAIN resp[o].trades
      /\ t = resp[o].trades[place[o].k] /\ Matches[o] = Answers[o] /\ Answers[o] = resp[o].trades
      /\ t.buy \in Orders /\ t.sell \in Orders
  <2>1. /\ TheTrade(o) \in Trade /\ {TheTrade(o).buy, TheTrade(o).sell} = {o, Maker(o)}
        /\ Maker(o) # o /\ place[o].k \in DOMAIN resp[o].trades /\ Answers[o] = resp[o].trades
    BY TradeFacts
  <2>2. resp[o].trades # <<>> /\ TheTrade(o) = resp[o].trades[place[o].k]
    BY <2>1 DEF TheTrade
  <2>3. Matches[o] = Answers[o]
    BY <2>2, BookFacts
  <2>4. t \in Trade /\ t.buy # t.sell
    BY <1>1, <2>1
  <2>5. t.buy \in Orders /\ t.sell \in Orders
    BY <2>4 DEF Trade
  <2> QED BY <1>1, <2>1, <2>2, <2>3, <2>4, <2>5
<1>3. HasSides(t, req) /\ t.price = req[t.buy].price
  BY <1>2 DEF FillsAtLimit, HeldConsistent, TradesHaveSides
<1>4. Settles(t)
  BY <1>1, SettleMoney DEF HeldConsistent
<1>5. HeldTyped
  BY HeldFacts DEF HeldConsistent
<1> SUFFICES ASSUME NEW p \in Orders PROVE Spent'[p] = CollateralAmount(req'[p], Sold'[p])
  BY DEF ExactSpending
<1>6. Spent[p] = CollateralAmount(req[p], Sold[p]) /\ Sold[p] \in Nat /\ req[p].price \in Nat
  BY <1>5, StoreFacts DEF ExactSpending, HeldTyped
<1>7. CASE p \in {t.buy, t.sell}
  <2>1. Sold'[p] = Sold[p] + t.quantity /\ Spent'[p] = Spent[p] + Use(t, p)
    BY <1>4, <1>7 DEF Settles
  <2>2. CollateralAmount(req[p], Sold[p] + t.quantity) = CollateralAmount(req[p], Sold[p]) + Use(t, p)
    BY <1>2, <1>3, <1>6, <1>7, UseAtLimit
  <2> QED BY <1>6, <2>1, <2>2
<1>8. CASE p \notin {t.buy, t.sell}
  <2>1. Sold'[p] = Sold[p] /\ Spent'[p] = Spent[p]
    BY <1>4, <1>8 DEF Settles
  <2> QED BY <1>6, <2>1
<1> QED BY <1>7, <1>8

\* No step but a settlement spends what an order has frozen, and a settlement
\* spends the share.
LEMMA ExactStep ==
    ASSUME LifeConsistent, LifeConsistent', HeldConsistent, FillsAtLimit, ExactSpending,
           [LifeNext]_lifeVars
    PROVE  ExactSpending'
<1>1. FlowConsistent /\ FlowConsistent' /\ CollateralTyped /\ FrozenIsHeld
  BY DEF LifeConsistent, HeldConsistent
<1>2. ASSUME UNCHANGED <<accountVars, req>>, \A x \in Settled : resp'[x[1]] = resp[x[1]]
      PROVE  ExactSpending'
  <2>1. MoneyStays
    BY <1>1, <1>2, QuietMoney
  <2> QED BY <1>2, <2>1, ExactStays DEF MoneyStays
<1>3. CASE UNCHANGED lifeVars \/ StopEngine \/ StartEngine
  <2>1. UNCHANGED <<accountVars, req>> /\ resp' = resp
    BY <1>3 DEF lifeVars, flowVars, StopEngine, StartEngine
  <2> QED BY <1>2, <2>1
<1>4. ASSUME NEW o \in Orders, BookStep(o)
      PROVE  ExactSpending'
  <2>1. \A x \in Settled : resp'[x[1]] = resp[x[1]]
    BY <1>1, <1>4, EngineStep, SettledFacts DEF BookMoves
  <2>2. UNCHANGED <<accountVars, req>>
    BY <1>4 DEF BookStep
  <2> QED BY <1>2, <2>1, <2>2
<1>5. ASSUME NEW o \in Orders, SubmitRefused(o) \/ SubmitReset(o)
      PROVE  ExactSpending'
  <2>1. UNCHANGED <<accountVars, req>> /\ resp' = resp
    BY <1>5 DEF SubmitRefused, SubmitReset
  <2> QED BY <1>2, <2>1
<1>6. ASSUME NEW o \in Orders, PlaceStep(o) \/ CancelStep(o)
      PROVE  ExactSpending'
  <2>1. resp' = resp /\ req' = req
    BY <1>1, <1>6, RequestBook
  <2>2. CASE UNCHANGED accountVars
    BY <1>2, <2>1, <2>2
  <2>3. ASSUME NEW n \in Int, Freeze(req[o].user, CollateralAsset(req[o]), n, o)
        PROVE  ExactSpending'
    <3>1. Froze(o, n)
      BY <1>1, <2>1, <2>3, FreezeMoney
    <3> QED BY <2>1, <3>1, ExactStays DEF Froze
  <2>4. ASSUME NEW n \in Int, Unfreeze(req[o].user, CollateralAsset(req[o]), n, o)
        PROVE  ExactSpending'
    <3>1. Unfroze(o, n)
      BY <1>1, <2>1, <2>4, UnfreezeMoney
    <3> QED BY <2>1, <3>1, ExactStays DEF Unfroze
  <2>5. CASE place[o].at = "settle" /\ SettleNext(o)
    BY <1>1, <2>1, <2>5, ExactSettle
  <2> QED BY <1>1, <1>6, <2>2, <2>3, <2>4, <2>5, RequestMoney
<1> QED BY <1>3, <1>4, <1>5, <1>6 DEF LifeNext, LifePlace

\* Every trade at the buyer's limit takes exactly its share of the collateral of
\* both orders, whatever the requests, faults and stops of the engine.
THEOREM LimitFillsSpendTheirShare == LifeSpec /\ []FillsAtLimit => []ExactSpending
<1>1. LifeInit /\ LifeConsistent => ExactSpending
  <2> SUFFICES ASSUME LifeInit, LifeConsistent, NEW o \in Orders
               PROVE  Spent[o] = CollateralAmount(req[o], Sold[o])
    BY DEF ExactSpending
  <2>1. FlowInit /\ FlowConsistent
    BY DEF LifeInit, LifeConsistent
  <2>2. Sold[o] = 0 /\ Spent[o] = 0 /\ req[o].price \in Nat
    BY <2>1, HeldStarts, StoreFacts
  <2>3. CollateralAmount(req[o], 0) = 0
    BY <2>2, CollateralSplits
  <2> QED BY <2>2, <2>3
<1>2. ASSUME FillsAtLimit, LifeConsistent, LifeConsistent', HeldConsistent, ExactSpending,
             [LifeNext]_lifeVars
      PROVE  ExactSpending'
  BY <1>2, ExactStep
<1> QED BY <1>1, <1>2, LifeIsConsistent, FundsAreHeld, PTL DEF LifeSpec

\* A confirmed cancellation leaves nothing of the order's collateral frozen:
\* flow.go, "CancelOrder cancels a resting order and unfreezes collateral."
\* When requests come one at a time, none fails, and no taker gets a better
\* price than its limit; what price improvement saves stays frozen.
THEOREM CancellationReturnsTheRest ==
    ASSUME Serial
    PROVE  LifeSpec /\ []SettlementsGoThrough /\ []FillsAtLimit => []CancelReturnsCollateral
<1>1. ASSUME LifeConsistent, HeldConsistent, SerialConsistent, ExactSpending
      PROVE  CancelReturnsCollateral
  <2> SUFFICES ASSUME NEW o \in Orders, cancel[o].at = "done"
               PROVE  CollateralAmount(req[o], req[o].quantity) = Consumed(o) + Unfrozen(o)
    BY DEF CancelReturnsCollateral
  <2>1. SerialState
    BY <1>1 DEF SerialState, LifeConsistent
  <2>2. HeldTyped
    BY <1>1, HeldFacts DEF LifeConsistent, HeldConsistent
  <2>3. /\ Spent[o] = Consumed(o) /\ Returned[o] = Unfrozen(o)
        /\ Spent[o] = CollateralAmount(req[o], Sold[o]) /\ Returned[o] \in Nat
    BY <1>1, <2>2 DEF HeldTyped, ExactSpending
  <2>4. Sold[o] \in Nat /\ Sold[o] <= req[o].quantity
    BY <2>1, OrderHolds
  <2>5. PostedOK(o) /\ req[o].quantity \in Nat /\ req[o].price \in Nat
    BY <2>1, SerialFacts
  <2>6. /\ CollateralAmount(req[o], req[o].quantity) \in Nat
        /\ CollateralAmount(req[o], req[o].quantity)
             = CollateralAmount(req[o], Sold[o]) + CollateralAmount(req[o], req[o].quantity - Sold[o])
    BY <2>4, <2>5, CollateralSplits
  <2>7. CASE o \in Freed
    <3>1. Returned[o] = CollateralAmount(req[o], req[o].quantity - Sold[o])
      BY <2>5, <2>7 DEF PostedOK
    <3> QED BY <2>3, <2>6, <3>1
  <2>8. CASE o \notin Freed
    <3>1. Sold[o] = req[o].quantity /\ Unfrozen(o) = 0
      BY <2>5, <2>8 DEF PostedOK, Freed, Unfrozen
    <3> QED BY <2>3, <2>6, <3>1
  <2> QED BY <2>7, <2>8
<1> QED BY <1>1, LifeIsConsistent, FundsAreHeld, RequestsInTurn, LimitFillsSpendTheirShare, PTL
-----------------------------------------------------------------------------
(* The store and the book *)

\* A request that goes on after the engine's answer has had it.
AnswersAreFinal ==
    \A o \in Orders : place[o].at \in {"own", "release", "done"} \cup Working => pc[o] = "returned"

\* An order the book has given back is on its way to be marked.
CancelsGoOn == \A o \in cancelled : cancel[o].at \in {"unfreeze", "mark", "done"}

\* While the engine has not stopped, its book is whole.
BookIsWhole ==
    restarts = 0 => BookInv /\ NothingLost /\ AnswersAreFinal /\ CancelsGoOn

\* A step of the flow is one of the book, or none.
LEMMA FlowMovesBook ==
    ASSUME FlowConsistent, NEW o \in Orders, BookStep(o) \/ PlaceStep(o) \/ CancelStep(o)
    PROVE  [BookNext]_bookVars
<1>1. CASE BookStep(o)
  BY <1>1 DEF BookStep, BookNext
<1>2. CASE PlaceStep(o) \/ CancelStep(o)
  <2>1. /\ req[o].side \in Sides /\ req[o].price \in Prices \cup {Market}
        /\ req[o].quantity \in Quantities
    BY RequestFields
  <2>2. \/ UNCHANGED bookVars
        \/ \E now \in clock..MaxClock : Submit(o, req[o].side, req[o].price, req[o].quantity, now)
        \/ Cancel(o)
    BY <1>2, RequestBook
  <2> QED BY <2>1, <2>2 DEF BookNext
<1> QED BY <1>1, <1>2

\* Nothing on the book is lost by a step of the flow.
LEMMA FlowLosesNothing ==
    ASSUME SerialState, NothingLost, NEW o \in Orders, BookStep(o) \/ PlaceStep(o) \/ CancelStep(o)
    PROVE  NothingLost'
<1>1. FlowConsistent
  BY SerialFacts
<1>2. CASE BookStep(o)
  BY <1>1, <1>2, EngineStep DEF BookMoves
<1>3. CASE PlaceStep(o) \/ CancelStep(o)
  <2>1. resp' = resp /\ req' = req /\ mu' = mu /\ fills' = fills
    BY <1>3, RequestBook
  <2>2. CASE UNCHANGED bookVars
    <3>1. Matches' = Matches /\ remaining' = remaining /\ order' = order
      BY <1>1, <2>1, <2>2, TradesStay DEF bookVars
    <3> QED BY <3>1 DEF NothingLost, PartyOf, Qty, QtyAt
  <2>3. ASSUME SubmitOrder(o), NEW now \in clock..MaxClock,
               Submit(o, req[o].side, req[o].price, req[o].quantity, now)
        PROVE  NothingLost'
    <3>1. ~Submitted(order, o)
      BY <2>3, UnsentFacts DEF SubmitOrder
    <3> QED BY <1>1, <2>1, <2>3, <3>1, SubmitMoves DEF BookMoves
  <2>4. CASE Cancel(o)
    BY <1>1, <2>1, <2>4, LockAndCancelMove DEF BookMoves
  <2> QED BY <1>3, <2>2, <2>3, <2>4, RequestBook
<1> QED BY <1>2, <1>3

\* An answer that was given stays given.
LEMMA FlowKeepsAnswers ==
    ASSUME SerialState, AnswersAreFinal, NEW o \in Orders,
           BookStep(o) \/ PlaceStep(o) \/ CancelStep(o)
    PROVE  AnswersAreFinal'
<1> DEFINE Later == {"own", "release", "done"} \cup Working
<1>1. FlowConsistent /\ pc \in [Orders -> {"idle", "stamped", "matching", "returned"}]
  BY BookFacts, SerialFacts
<1>2. \A p \in Orders \ {o} : place'[p] = place[p]
  BY <1>1, OthersWait
<1>3. \A p \in Orders : pc[p] = "returned" => pc'[p] = "returned"
  <2>1. CASE BookStep(o)
    BY <1>1, <2>1, BookFacts DEF BookStep, MatchLock, MatchFill, MatchReturn
  <2>2. CASE PlaceStep(o) \/ CancelStep(o)
    <3>1. \/ UNCHANGED bookVars
          \/ \E now \in clock..MaxClock : Submit(o, req[o].side, req[o].price, req[o].quantity, now)
          \/ Cancel(o)
      BY <2>2, RequestBook
    <3> QED BY <1>1, <3>1 DEF bookVars, Submit, Cancel
  <2> QED BY <2>1, <2>2
<1>4. place'[o].at \in Later => place[o].at \in Later \/ pc[o] = "returned"
  <2>1. CASE BookStep(o) \/ CancelStep(o)
    <3>1. place' = place
      BY <2>1 DEF BookStep, CancelStep, CancelLookup, CancelOnBook, CancelUnfreeze, CancelMark,
         CancelAbandoned
    <3> QED BY <3>1
  <2>2. CASE SubmitAnswered(o)
    BY <2>2 DEF SubmitAnswered
  <2>3. CASE SettleMatch(o) \/ InsertTrade(o) \/ ReadMaker(o) \/ UpdateMaker(o) \/ UpdateOwn(o)
             \/ ReleaseRemaining(o)
    <3>1. place[o].at \in {"settle", "insert", "read", "update", "own", "release"}
      BY <2>3 DEF SettleMatch, InsertTrade, ReadMaker, UpdateMaker, UpdateOwn, ReleaseRemaining
    <3> QED BY <3>1 DEF Working, Writing
  <2>4. CASE PlaceFreeze(o) \/ CreateOrder(o) \/ PlaceUndo(o) \/ SubmitOrder(o)
             \/ SubmitTimeout(o) \/ PlaceAbandoned(o)
    <3>1. \E at \in {"create", "failed", "submit", "undo", "await"} : Goto(o, at)
      BY <2>4 DEF PlaceFreeze, CreateOrder, PlaceUndo, SubmitOrder, SubmitTimeout, PlaceAbandoned
    <3>2. place'[o].at \in {"create", "failed", "submit", "undo", "await"}
      BY <1>1, <3>1, GotoAt
    <3> QED BY <3>2 DEF Working, Writing
  <2> QED BY <2>1, <2>2, <2>3, <2>4 DEF PlaceStep
<1> QED BY <1>2, <1>3, <1>4 DEF AnswersAreFinal

\* An order the book has given back is marked next.
LEMMA FlowCancelsInTurn ==
    ASSUME Serial, SerialState, CancelsGoOn, cancelled \subseteq Orders, NEW o \in Orders,
           BookStep(o) \/ PlaceStep(o) \/ CancelStep(o)
    PROVE  CancelsGoOn'
<1>1. FlowConsistent /\ ~Fault /\ StatusOK(o)
  BY NothingFails, SerialFacts
<1>2. CASE BookStep(o) \/ PlaceStep(o)
  <2>1. cancelled' = cancelled /\ cancel' = cancel
    <3>1. CASE BookStep(o)
      BY <3>1 DEF BookStep, MatchLock, MatchFill, MatchReturn
    <3>2. CASE PlaceStep(o)
      BY <3>2 DEF PlaceStep, PlaceFreeze, CreateOrder, PlaceUndo, SubmitOrder, SubmitTimeout,
         SubmitAnswered, SettleMatch, InsertTrade, ReadMaker, UpdateMaker, UpdateOwn,
         ReleaseRemaining, PlaceAbandoned, Submit, bookVars
    <3> QED BY <1>2, <3>1, <3>2
  <2> QED BY <2>1 DEF CancelsGoOn
<1>3. CASE CancelLookup(o)
  <2>1. /\ cancelled' = cancelled /\ cancel[o].at \in Ended /\ status[o] \in Open
        /\ cancel' = [cancel EXCEPT ![o] = [at |-> "book", filled |-> filledQty[o]]]
    BY <1>3 DEF CancelLookup, bookVars
  <2>2. cancel[o].at # "done"
    BY <1>1, <2>1 DEF StatusOK, Open
  <2>3. o \notin cancelled
    BY <2>1, <2>2 DEF CancelsGoOn, Ended
  <2>4. \A p \in Orders \ {o} : cancel'[p] = cancel[p]
    BY <2>1, SerialFacts
  <2> QED BY <2>1, <2>3, <2>4 DEF CancelsGoOn
<1>4. CASE CancelOnBook(o)
  <2>1. CancelGoto(o, "unfreeze") /\ cancelled' \subseteq cancelled \cup {o}
    BY <1>1, <1>4 DEF CancelOnBook, Try, Cancel, bookVars
  <2>2. cancel'[o].at = "unfreeze" /\ \A p \in Orders \ {o} : cancel'[p] = cancel[p]
    BY <1>1, <2>1, CancelGotoAt
  <2> QED BY <2>1, <2>2 DEF CancelsGoOn
<1>5. CASE CancelUnfreeze(o) \/ CancelMark(o)
  <2>1. /\ cancelled' = cancelled
        /\ CancelGoto(o, "mark") \/ CancelGoto(o, "done")
    <3>1. CASE CancelUnfreeze(o)
      BY <3>1 DEF CancelUnfreeze, bookVars
    <3>2. CASE CancelMark(o)
      <4>1. status[o] \in Open
        BY <1>1, <3>2 DEF StatusOK, CancelMark, Busy, Ended
      <4> QED BY <3>2, <4>1 DEF CancelMark, bookVars
    <3> QED BY <1>5, <3>1, <3>2
  <2>2. cancel'[o].at \in {"mark", "done"} /\ \A p \in Orders \ {o} : cancel'[p] = cancel[p]
    BY <1>1, <2>1, CancelGotoAt
  <2> QED BY <2>1, <2>2 DEF CancelsGoOn
<1> QED BY <1>1, <1>2, <1>3, <1>4, <1>5 DEF CancelStep, CancelAbandoned

\* Until the engine stops, every step keeps its book whole.
LEMMA WholeStep ==
    ASSUME Serial, LifeConsistent, HeldConsistent, SerialConsistent, BookIsWhole,
           [LifeNext]_lifeVars
    PROVE  BookIsWhole'
<1>1. SerialState /\ FlowConsistent /\ restarts \in Nat
  <2>1. restarts \in 0..MaxRestarts /\ MaxRestarts \in Nat
    BY EngineLifeAssumption DEF LifeConsistent, LifeTypeOK
  <2> QED BY <2>1 DEF SerialState, LifeConsistent
<1> SUFFICES ASSUME restarts' = 0
             PROVE  BookInv' /\ NothingLost' /\ AnswersAreFinal' /\ CancelsGoOn'
  BY DEF BookIsWhole
<1>2. ~StopEngine
  BY <1>1 DEF StopEngine
<1>3. restarts = 0
  BY <1>2 DEF LifeNext, StartEngine, lifeVars
<1>4. BookInv /\ NothingLost /\ AnswersAreFinal /\ CancelsGoOn
  BY <1>3 DEF BookIsWhole
<1>5. ASSUME UNCHANGED <<bookVars, resp, cancel>>, AnswersAreFinal'
      PROVE  BookInv' /\ NothingLost' /\ AnswersAreFinal' /\ CancelsGoOn'
  <2>1. BookInv'
    BY <1>4, <1>5, NextPreservesBookInv
  <2>2. Matches' = Matches /\ remaining' = remaining /\ order' = order
    BY <1>1, <1>5, TradesStay DEF bookVars
  <2>3. NothingLost'
    BY <1>4, <2>2 DEF NothingLost, PartyOf, Qty, QtyAt
  <2>4. CancelsGoOn'
    BY <1>4, <1>5 DEF CancelsGoOn, bookVars
  <2> QED BY <1>5, <2>1, <2>3, <2>4
<1>6. CASE UNCHANGED lifeVars \/ StartEngine
  <2>1. UNCHANGED <<bookVars, resp, cancel, place>>
    BY <1>6 DEF lifeVars, flowVars, StartEngine, Serial
  <2>2. AnswersAreFinal'
    BY <1>4, <2>1 DEF AnswersAreFinal, bookVars
  <2> QED BY <1>5, <2>1, <2>2
<1>7. ASSUME NEW o \in Orders, SubmitRefused(o) \/ SubmitReset(o)
      PROVE  BookInv' /\ NothingLost' /\ AnswersAreFinal' /\ CancelsGoOn'
  <2>1. UNCHANGED <<bookVars, resp, cancel>> /\ Goto(o, "undo")
    BY <1>7 DEF SubmitRefused, SubmitReset
  <2>2. place'[o].at = "undo" /\ \A p \in Orders \ {o} : place'[p] = place[p]
    BY <1>1, <2>1, GotoAt
  <2>3. AnswersAreFinal'
    BY <1>4, <2>1, <2>2 DEF AnswersAreFinal, bookVars, Working, Writing
  <2> QED BY <1>5, <2>1, <2>3
<1>8. ASSUME NEW o \in Orders, BookStep(o) \/ PlaceStep(o) \/ CancelStep(o)
      PROVE  BookInv' /\ NothingLost' /\ AnswersAreFinal' /\ CancelsGoOn'
  <2>1. BookInv'
    BY <1>1, <1>4, <1>8, FlowMovesBook, NextPreservesBookInv
  <2>2. cancelled \subseteq Orders
    BY <1>4 DEF BookInv, BookTypeOK
  <2>3. NothingLost' /\ AnswersAreFinal' /\ CancelsGoOn'
    BY <1>1, <1>4, <1>8, <2>2, FlowLosesNothing, FlowKeepsAnswers, FlowCancelsInTurn
  <2> QED BY <2>1, <2>3
<1> QED BY <1>2, <1>6, <1>7, <1>8 DEF LifeNext, LifePlace

\* When every request has been answered without an error, every trade is
\* settled and the rows show them all.
LEMMA QuietIsSettled ==
    ASSUME SerialState, NothingLost,
           \A o \in Orders : place[o].at \in {"idle", "done"} /\ cancel[o].at \in {"idle", "done"}
    PROVE  \A o \in Orders : filledQty[o] = Sold[o] /\ filledQty[o] + remaining[o] = order[o].quantity
<1>1. /\ FlowConsistent /\ CollateralTyped
      /\ \A o \in Orders : StageOK(o) /\ TakerOK(o)
  BY SerialFacts
<1>2. \A o \in Orders : filledQty[o] = Sold[o]
  <2>1. \A o \in Orders : ~Busy(place, o)
    BY DEF Busy, Ended
  <2>2. NobodyWrites
    BY DEF NobodyWrites, Writing
  <2> QED BY <2>1, <2>2, NothingOwed, SerialFacts
<1>3. ASSUME NEW o \in Orders PROVE mu # o
  <2>1. pc[o] # "matching"
    BY <1>1 DEF StageOK
  <2> QED BY <1>1, <2>1, BookFacts
<1>4. Matches = Answers
  BY <1>3 DEF Matches, Answers
<1>5. ASSUME NEW x \in Numbers, x[2] \in DOMAIN Answers[x[1]]
      PROVE  x \in Settled
  <2>1. PICK p \in Orders : p = x[1]
    BY <1>5 DEF Numbers
  <2>2. x = <<p, x[2]>> /\ x[2] \in DOMAIN resp[p].trades
    BY <1>5, <2>1 DEF Numbers, Answers
  <2>3. CASE place[p].at = "done"
    BY <1>1, <2>2, <2>3 DEF TakerOK
  <2>4. CASE place[p].at = "idle"
    <3>1. Matches[p] = <<>>
      BY <2>4, UnsentFacts
    <3> QED BY <1>4, <1>5, <2>1, <3>1
  <2> QED BY <2>3, <2>4
<1> SUFFICES ASSUME NEW o \in Orders PROVE filledQty[o] + remaining[o] = order[o].quantity
  BY <1>2
<1>6. PartyOf(Answers, o) \cap Settled = PartyOf(Answers, o)
  BY <1>5 DEF PartyOf
<1>7. SettledQty(o) = Qty(Answers, PartyOf(Answers, o))
  BY <1>1, <1>6, SettledQtyIsQty
<1>8. Sold[o] = SettledQty(o)
  BY <1>1, HeldFacts DEF HeldTyped
<1> QED BY <1>2, <1>4, <1>7, <1>8 DEF NothingLost

\* Then the open limit orders of the store are the resting orders of the book.
LEMMA OpenIsResting ==
    ASSUME SerialState, BookInv, NothingLost, AnswersAreFinal, CancelsGoOn, NEW o \in Orders,
           \A p \in Orders : place[p].at \in {"idle", "done"} /\ cancel[p].at \in {"idle", "done"}
    PROVE  o \in Resting <=> status[o] \in Open /\ ~isMarket(o)
<1>1. /\ filledQty[o] + remaining[o] = order[o].quantity /\ filledQty[o] \in Nat /\ remaining[o] \in Nat
      /\ StageOK(o) /\ StatusOK(o) /\ req[o].quantity \in Nat /\ req[o].quantity > 0
      /\ Submitted(order, o) => order[o].quantity = req[o].quantity
  BY QuietIsSettled, QuantityFacts, SerialFacts DEF FlowConsistent, AnswersFollowBook
<1>2. o \in Resting <=> /\ pc[o] = "returned" /\ remaining[o] > 0 /\ ~isMarket(o) /\ o \notin cancelled
  BY DEF BookInv, OnBookExactlyWhileOpen
<1>3. CASE place[o].at = "idle"
  <2>1. status[o] = "NOROW" /\ pc[o] = "idle"
    BY <1>1, <1>3 DEF StageOK
  <2> QED BY <1>2, <2>1 DEF Open
<1>4. CASE place[o].at = "done" /\ cancel[o].at = "done"
  <2>1. status[o] = "CANCELLED" /\ o \notin Resting
    BY <1>1, <1>4 DEF StatusOK, StageOK
  <2> QED BY <2>1 DEF Open
<1>5. CASE place[o].at = "done" /\ cancel[o].at = "idle"
  <2>1. pc[o] = "returned" /\ o \notin cancelled
    BY <1>5 DEF AnswersAreFinal, CancelsGoOn
  <2>2. order[o].quantity = req[o].quantity
    BY <1>1, <2>1 DEF StageOK
  <2>3. o \in Resting <=> remaining[o] > 0 /\ ~isMarket(o)
    BY <1>2, <2>1
  <2>4. status[o] = IF filledQty[o] > 0 THEN FillStatus(filledQty[o], req[o].quantity)
                    ELSE IF resp[o].resting THEN "NEW" ELSE "CANCELLED"
    BY <1>1, <1>5 DEF StatusOK
  <2>5. CASE filledQty[o] > 0
    <3>1. status[o] \in Open <=> ~(filledQty[o] >= req[o].quantity)
      BY <2>4, <2>5 DEF FillStatus, Open
    <3>2. ~(filledQty[o] >= req[o].quantity) <=> remaining[o] > 0
      BY <1>1, <2>2
    <3> QED BY <2>3, <3>1, <3>2
  <2>6. CASE filledQty[o] = 0
    <3>1. remaining[o] > 0
      BY <1>1, <2>2, <2>6
    <3>2. o \in Resting => resp[o].resting
      BY <1>1 DEF StageOK
    <3>3. status[o] = IF resp[o].resting THEN "NEW" ELSE "CANCELLED"
      BY <2>4, <2>6
    <3> QED BY <2>3, <3>1, <3>2, <3>3 DEF Open
  <2> QED BY <1>1, <2>5, <2>6
<1> QED BY <1>3, <1>4, <1>5

\* As long as the engine has not stopped, the store agrees with the book
\* whenever every request has been answered without an error: the filled
\* quantities are what was matched, and the open limit orders are the resting
\* ones, when requests come one at a time.
THEOREM StoreFollowsTheBook ==
    ASSUME Serial
    PROVE  LifeSpec /\ []SettlementsGoThrough => []StoreAgreesWithLivingBook
<1>1. LifeInit /\ LifeConsistent => BookIsWhole
  <2> SUFFICES ASSUME LifeInit, LifeConsistent PROVE BookIsWhole
    OBVIOUS
  <2>1. FlowInit /\ FlowConsistent
    BY DEF LifeInit, LifeConsistent
  <2>2. BookInv /\ cancelled = {} /\ remaining = [o \in Orders |-> 0]
        /\ order = [o \in Orders |-> Unsubmitted]
    BY <2>1, InitEstablishesBookInv DEF FlowInit, BookInit
  <2>3. NothingLost
    <3>1. \A o \in Orders : Matches[o] = <<>> /\ ~Submitted(order, o)
      BY <2>1, HeldStarts
    <3>2. \A o \in Orders : PartyOf(Matches, o) = {}
      BY <2>1, <3>1, UnsentHasNoTrades
    <3>3. Qty(Matches, {}) = 0
      BY SumEmpty DEF Qty
    <3> QED BY <2>2, <3>2, <3>3 DEF NothingLost, Unsubmitted
  <2>4. AnswersAreFinal
    BY <2>1 DEF FlowInit, AnswersAreFinal, Working, Writing
  <2>5. CancelsGoOn
    BY <2>2 DEF CancelsGoOn
  <2> QED BY <2>2, <2>3, <2>4, <2>5 DEF BookIsWhole
<1>2. ASSUME LifeConsistent, HeldConsistent, SerialConsistent, BookIsWhole, [LifeNext]_lifeVars
      PROVE  BookIsWhole'
  BY <1>2, WholeStep
<1>3. ASSUME LifeConsistent, HeldConsistent, SerialConsistent, BookIsWhole
      PROVE  StoreAgreesWithLivingBook
  <2>1. SerialState
    BY <1>3 DEF SerialState, LifeConsistent
  <2> QED BY <1>3, <2>1, QuietIsSettled, OpenIsResting
          DEF StoreAgreesWithLivingBook, QuietStoreAgreesWithBook, BookIsWhole
<1> QED BY <1>1, <1>2, <1>3, LifeIsConsistent, FundsAreHeld, RequestsInTurn, PTL DEF LifeSpec
-----------------------------------------------------------------------------
(* Funds for every settlement *)

\* A request settles its trades in turn: those it has still to settle are not
\* in the ledger.
Early == {"idle", "create", "submit", "await"}

NewAt(pl, x) ==
    /\ pl[x[1]].at \notin Early
    /\ pl[x[1]].at = "settle" => x[2] < pl[x[1]].k
    /\ pl[x[1]].at \in Writing => x[2] <= pl[x[1]].k

NextIsNew == \A x \in Settled : NewAt(place, x)

\* Only SettleMatch settles a trade.
LEMMA OnlySettleMatchSettles ==
    ASSUME FlowConsistent, NEW o \in Orders, PlaceStep(o) \/ CancelStep(o), ~SettleMatch(o)
    PROVE  Settled' = Settled
<1> DEFINE u == req[o].user
           a == CollateralAsset(req[o])
           quiet == UNCHANGED accountVars
           C(n) == CollateralAmount(req[o], n)
<1>1. \A n \in Int : C(n) \in Int
  BY CollateralType
<1>2. req[o].quantity \in Int /\ req[o].quantity - place[o].filled \in Int
      /\ req[o].quantity - cancel[o].filled \in Int
  BY StoreFacts DEF CancelRecord
<1>3. u \in Users /\ a \in {Base, Quote} /\ LedgerTypeOK
  BY OrdersOfFacts, StoreFacts
<1>4. ASSUME NEW n \in Int, Freeze(u, a, C(n), o) \/ Unfreeze(u, a, C(n), o) PROVE Settled' = Settled
  <2>1. C(n) \in Int
    BY <1>1
  <2> HIDE DEF u, a, C
  <2> QED BY <1>3, <1>4, <2>1, CollateralMoves
<1>5. ASSUME quiet PROVE Settled' = Settled
  BY <1>5, NoMoneyMoves
<1>6. CASE PlaceFreeze(o)
  <2>1. Freeze(u, a, C(req[o].quantity), o) \/ quiet
    BY <1>6 DEF PlaceFreeze
  <2> QED BY <1>2, <1>4, <1>5, <2>1
<1>7. CASE PlaceUndo(o)
  <2>1. Unfreeze(u, a, C(req[o].quantity), o) \/ quiet
    BY <1>7 DEF PlaceUndo, UnfreezeIfPossible
  <2> QED BY <1>2, <1>4, <1>5, <2>1
<1>8. CASE ReleaseRemaining(o)
  <2>1. Unfreeze(u, a, C(req[o].quantity - place[o].filled), o) \/ quiet
    BY <1>8 DEF ReleaseRemaining
  <2> QED BY <1>2, <1>4, <1>5, <2>1
<1>9. CASE CancelUnfreeze(o)
  <2>1. Unfreeze(u, a, C(req[o].quantity - cancel[o].filled), o) \/ quiet
    BY <1>9 DEF CancelUnfreeze, UnfreezeIfPossible, Try
  <2> QED BY <1>2, <1>4, <1>5, <2>1
<1>10. CASE PlaceStep(o) /\ ~(PlaceFreeze(o) \/ PlaceUndo(o) \/ ReleaseRemaining(o))
  <2>1. quiet
    BY <1>10 DEF PlaceStep, CreateOrder, SubmitOrder, SubmitTimeout, SubmitAnswered,
       InsertTrade, ReadMaker, UpdateMaker, UpdateOwn, PlaceAbandoned
  <2> QED BY <1>5, <2>1
<1>11. CASE CancelStep(o) /\ ~CancelUnfreeze(o)
  <2>1. quiet
    BY <1>11 DEF CancelStep, CancelLookup, CancelOnBook, CancelMark, CancelAbandoned
  <2> QED BY <1>5, <2>1
<1> QED BY <1>6, <1>7, <1>8, <1>9, <1>10, <1>11

\* How a request goes on, unless it settles a trade.
LEMMA RequestGoesOn ==
    ASSUME FlowConsistent, NEW o \in Orders, LifePlace(o), ~SettleMatch(o)
    PROVE  \/ place'[o].at \in {"undo", "own", "release", "done", "failed"}
           \/ place[o].at \in Early
           \/ place[o].at \in Writing /\ place'[o].at \in Writing /\ place'[o].k = place[o].k
           \/ place[o].at = "update" /\ place'[o].at = "settle" /\ place'[o].k = place[o].k + 1
<1>1. place \in [Orders -> PlaceRecord] /\ place[o] \in PlaceRecord
  BY StoreFacts
<1>2. ASSUME NEW at, Goto(o, at) PROVE place'[o].at = at
  BY <1>2, GotoAt
<1>3. CASE SubmitRefused(o) \/ SubmitReset(o)
  <2>1. Goto(o, "undo")
    BY <1>3 DEF SubmitRefused, SubmitReset
  <2> QED BY <1>2, <2>1
<1>4. CASE PlaceFreeze(o) \/ CreateOrder(o) \/ SubmitOrder(o) \/ SubmitTimeout(o) \/ SubmitAnswered(o)
  BY <1>4 DEF PlaceFreeze, CreateOrder, SubmitOrder, SubmitTimeout, SubmitAnswered, Early
<1>5. CASE PlaceUndo(o) \/ PlaceAbandoned(o)
  <2>1. Goto(o, "failed")
    BY <1>5 DEF PlaceUndo, PlaceAbandoned
  <2> QED BY <1>2, <2>1
<1>6. CASE ReleaseRemaining(o)
  <2>1. Goto(o, "done") \/ Goto(o, "failed")
    BY <1>6 DEF ReleaseRemaining
  <2> QED BY <1>2, <2>1
<1>7. CASE UpdateOwn(o)
  <2>1. Goto(o, "done") \/ Goto(o, "release")
    BY <1>7 DEF UpdateOwn
  <2> QED BY <1>2, <2>1
<1>8. CASE InsertTrade(o)
  <2>1. /\ place[o].at = "insert"
        /\ place' = [place EXCEPT ![o].at = "read", ![o].filled = @ + TheTrade(o).quantity]
    BY <1>8 DEF InsertTrade
  <2>2. place'[o].at = "read" /\ place'[o].k = place[o].k
    BY <1>1, <2>1 DEF PlaceRecord
  <2> QED BY <2>1, <2>2 DEF Writing
<1>9. CASE ReadMaker(o)
  <2>1. /\ place[o].at = "read"
        /\ place' = [place EXCEPT ![o].at = "update", ![o].seen = filledQty[Maker(o)]]
    BY <1>9 DEF ReadMaker
  <2>2. place'[o].at = "update" /\ place'[o].k = place[o].k
    BY <1>1, <2>1 DEF PlaceRecord
  <2> QED BY <2>1, <2>2 DEF Writing
<1>10. CASE UpdateMaker(o)
  <2>1. /\ place[o].at = "update"
        /\ place' = [place EXCEPT
               ![o].at = IF place[o].k = Len(resp[o].trades) THEN "own" ELSE "settle",
               ![o].k = @ + 1, ![o].seen = 0]
    BY <1>10 DEF UpdateMaker
  <2>2. place'[o].at \in {"own", "settle"} /\ place'[o].k = place[o].k + 1
    BY <1>1, <2>1 DEF PlaceRecord
  <2> QED BY <2>1, <2>2
<1> QED BY <1>3, <1>4, <1>5, <1>6, <1>7, <1>8, <1>9, <1>10 DEF LifePlace, PlaceStep

\* One more trade at most is settled, the one the request is at.
LEMMA SettleMatchGoesOn ==
    ASSUME FlowConsistent, NEW o \in Orders, SettleMatch(o)
    PROVE  \/ Settled' = Settled /\ place'[o].at = "failed"
           \/ Settled' = Settled \cup {<<o, place[o].k>>} /\ place'[o].at = "insert"
              /\ place'[o].k = place[o].k /\ place[o].at = "settle"
<1>1. /\ place[o].at = "settle"
      /\ \/ SettleNext(o) /\ Goto(o, "insert")
         \/ UNCHANGED accountVars /\ Goto(o, "failed")
  BY DEF SettleMatch, SettleNext
<1>2. CASE UNCHANGED accountVars /\ Goto(o, "failed")
  BY <1>2, NoMoneyMoves, GotoAt
<1>3. CASE SettleNext(o) /\ Goto(o, "insert")
  <2> DEFINE x == <<o, place[o].k>>
             t == TheTrade(o)
             buyer == req[t.buy].user
             seller == req[t.sell].user
             n == t.price * t.quantity
             legs == TradeLegs(buyer, seller, Base, Quote, t.quantity, n)
             release == TradeRelease(buyer, seller, Base, Quote, t.quantity, n)
  <2>1. x \in Numbers /\ legs \in Seq(Leg) /\ release \in Seq(Leg) /\ LedgerTypeOK
    BY <1>1, TradeFacts, SettlementLegs, StoreFacts
  <2>2. SettleTrade(x, legs, release)
    BY <1>3 DEF SettleNext
  <2> HIDE DEF x, legs, release
  <2>3. Settled' = Settled \cup {x}
    BY <2>1, <2>2, SettlementMoves
  <2> QED BY <1>1, <1>3, <2>3, GotoAt DEF x
<1> QED BY <1>1, <1>2, <1>3

\* A step of the system.
LEMMA NextStaysNew ==
    ASSUME LifeConsistent, LifeConsistent', NextIsNew, [LifeNext]_lifeVars
    PROVE  NextIsNew'
<1>1. FlowConsistent /\ FlowConsistent'
  BY DEF LifeConsistent
<1>2. \A x \in Settled : x[1] \in Orders /\ x[2] \in Nat
  BY <1>1, SettledFacts DEF Numbers
<1>3. ASSUME UNCHANGED <<accountVars, place>> PROVE NextIsNew'
  <2>1. Settled' = Settled /\ place' = place
    BY <1>1, <1>3, NoMoneyMoves
  <2> QED BY <2>1 DEF NextIsNew
<1>4. CASE UNCHANGED lifeVars
  <2>1. UNCHANGED <<accountVars, place>>
    BY <1>4 DEF lifeVars, flowVars
  <2> QED BY <1>3, <2>1
<1>5. CASE StopEngine \/ StartEngine
  <2>1. UNCHANGED <<accountVars, place>>
    BY <1>5 DEF StopEngine, StartEngine
  <2> QED BY <1>3, <2>1
<1>6. ASSUME NEW o \in Orders, BookStep(o) PROVE NextIsNew'
  <2>1. UNCHANGED <<accountVars, place>>
    BY <1>6 DEF BookStep
  <2> QED BY <1>3, <2>1
<1>7. ASSUME NEW o \in Orders, CancelStep(o) PROVE NextIsNew'
  <2>1. place' = place
    BY <1>7 DEF CancelStep, CancelLookup, CancelOnBook, CancelUnfreeze, CancelMark, CancelAbandoned
  <2>2. CASE ~SettleMatch(o)
    <3>1. Settled' = Settled
      BY <1>1, <1>7, <2>2, OnlySettleMatchSettles
    <3> QED BY <2>1, <3>1 DEF NextIsNew
  <2>3. CASE SettleMatch(o)
    <3>1. place[o].at = "settle" /\ place'[o].at \in {"failed", "insert"}
      BY <1>1, <2>3, SettleMatchGoesOn DEF SettleMatch
    <3> QED BY <2>1, <3>1
  <2> QED BY <2>2, <2>3
<1>8. ASSUME NEW o \in Orders, LifePlace(o) PROVE NextIsNew'
  <2>1. \A p \in Orders \ {o} : place'[p] = place[p]
    <3>1. CASE SubmitRefused(o) \/ SubmitReset(o)
      <4>1. Goto(o, "undo")
        BY <3>1 DEF SubmitRefused, SubmitReset
      <4> QED BY <1>1, <4>1, GotoAt
    <3>2. CASE PlaceStep(o)
      BY <1>1, <3>2, OthersWait
    <3> QED BY <1>8, <3>1, <3>2 DEF LifePlace
  <2>2. CASE ~SettleMatch(o)
    <3>1. Settled' = Settled
      <4>1. CASE SubmitRefused(o) \/ SubmitReset(o)
        <5>1. UNCHANGED accountVars
          BY <4>1 DEF SubmitRefused, SubmitReset
        <5> QED BY <1>1, <5>1, NoMoneyMoves
      <4>2. CASE PlaceStep(o)
        BY <1>1, <2>2, <4>2, OnlySettleMatchSettles
      <4> QED BY <1>8, <4>1, <4>2 DEF LifePlace
    <3>2. ASSUME NEW x \in Settled, x[1] = o PROVE NewAt(place', x)
      <4>1. NewAt(place, x) /\ place[o].k \in Nat /\ x[2] \in Nat
        BY <1>1, <1>2, StoreFacts DEF NextIsNew
      <4>2. CASE place'[o].at \in {"undo", "own", "release", "done", "failed"}
        BY <3>2, <4>2 DEF NewAt, Early, Writing
      <4>3. CASE place[o].at \in Early
        BY <3>2, <4>1, <4>3 DEF NewAt
      <4>4. CASE place[o].at \in Writing /\ place'[o].at \in Writing /\ place'[o].k = place[o].k
        BY <3>2, <4>1, <4>4 DEF NewAt, Early, Writing
      <4>5. CASE place[o].at = "update" /\ place'[o].at = "settle" /\ place'[o].k = place[o].k + 1
        BY <3>2, <4>1, <4>5 DEF NewAt, Early, Writing
      <4> QED BY <1>1, <1>8, <2>2, <4>2, <4>3, <4>4, <4>5, RequestGoesOn
    <3>3. ASSUME NEW x \in Settled, x[1] # o PROVE NewAt(place', x)
      BY <1>2, <2>1, <3>3 DEF NextIsNew, NewAt
    <3> QED BY <3>1, <3>2, <3>3 DEF NextIsNew
  <2>3. CASE SettleMatch(o)
    <3>1. place[o].at = "settle" /\ place[o].k \in Nat
      BY <1>1, <2>3, StoreFacts DEF SettleMatch
    <3>2. ASSUME NEW x \in Settled, x[1] = o PROVE NewAt(place', x)
      <4>1. NewAt(place, x) /\ x[2] \in Nat
        BY <1>2 DEF NextIsNew
      <4>2. x[2] < place[o].k
        BY <3>1, <3>2, <4>1 DEF NewAt
      <4> QED BY <1>1, <2>3, <3>1, <3>2, <4>1, <4>2, SettleMatchGoesOn DEF NewAt, Early, Writing
    <3>3. ASSUME NEW x \in Settled, x[1] # o PROVE NewAt(place', x)
      BY <1>2, <2>1, <3>3 DEF NextIsNew, NewAt
    <3>4. CASE Settled' = Settled
      BY <3>2, <3>3, <3>4 DEF NextIsNew
    <3>5. CASE Settled' = Settled \cup {<<o, place[o].k>>} /\ place'[o].at = "insert"
               /\ place'[o].k = place[o].k
      <4> DEFINE y == <<o, place[o].k>>
      <4>1. NewAt(place', y)
        BY <3>1, <3>5 DEF NewAt, Early, Writing
      <4> QED BY <3>2, <3>3, <3>5, <4>1 DEF NextIsNew
    <3> QED BY <1>1, <2>3, <3>4, <3>5, SettleMatchGoesOn
  <2> QED BY <2>2, <2>3
<1> QED BY <1>4, <1>5, <1>6, <1>7, <1>8 DEF LifeNext

LEMMA PairIsFinite ==
    ASSUME NEW x, NEW y
    PROVE  IsFiniteSet({x, y})
<1>1. IsFiniteSet({x}) /\ {x, y} = {x} \cup {y}
  BY FS_Singleton
<1> QED BY <1>1, FS_AddElement

\* What a settlement posts to one balance after k of its four legs: at worst it
\* has taken the notional of the buyer and the quantity of the seller.
LEMMA LegsRow ==
    ASSUME NEW buyer, NEW seller, NEW q \in Nat, NEW n \in Nat, NEW w, NEW b, NEW k \in 0..4
    PROVE  LET row == RowSum(TradeLegs(buyer, seller, Base, Quote, q, n), k, w, b)
           IN  /\ row \in Int
               /\ row >= -((IF w = buyer /\ b = Quote THEN n ELSE 0)
                           + (IF w = seller /\ b = Base THEN q ELSE 0))
<1> DEFINE legs == TradeLegs(buyer, seller, Base, Quote, q, n)
           f == [i \in 1..k |-> legs[i].amount]
           S == {i \in 1..k : legs[i].user = w /\ legs[i].asset = b}
           x == IF w = buyer /\ b = Quote THEN n ELSE 0
           y == IF w = seller /\ b = Base THEN q ELSE 0
           loss == [i \in 1..4 |-> IF i = 1 THEN x ELSE IF i = 3 THEN y ELSE 0]
           back == [i \in 1..k |-> -f[i]]
           none == [i \in 1..k |-> 0]
<1>1. /\ legs[1] = [user |-> buyer, asset |-> Quote, amount |-> -n]
      /\ legs[2] = [user |-> buyer, asset |-> Base, amount |-> q]
      /\ legs[3] = [user |-> seller, asset |-> Base, amount |-> -q]
      /\ legs[4] = [user |-> seller, asset |-> Quote, amount |-> n]
  BY DEF TradeLegs
<1>2. RowSum(legs, k, w, b) = SumFunctionOnSet(f, S)
  BY DEF RowSum
<1>3. x \in Nat /\ y \in Nat
  OBVIOUS
<1>4. IsFiniteSet({1, 3}) /\ IsFiniteSet({2, 4}) /\ IsFiniteSet({1, 3} \cup {2, 4})
  BY PairIsFinite, FS_Union
<1>5. 1..4 = {1, 3} \cup {2, 4} /\ {1, 3} \cap {2, 4} = {} /\ S \in SUBSET ({1, 3} \cup {2, 4})
      /\ S \in SUBSET (1..k)
  OBVIOUS
<1>6. IsFiniteSet(S)
  BY <1>4, <1>5, FS_Subset
<1>7. ASSUME NEW i \in S
      PROVE  /\ f[i] \in Int /\ back[i] \in Int /\ none[i] = f[i] + back[i] /\ none[i] = 0
             /\ back[i] <= loss[i]
  <2>1. i \in {1, 2, 3, 4} /\ i \in 1..k /\ legs[i].user = w /\ legs[i].asset = b
    OBVIOUS
  <2> HIDE DEF legs
  <2>2. CASE i = 1
    BY <1>1, <2>1, <2>2
  <2>3. CASE i = 2
    BY <1>1, <2>1, <2>3
  <2>4. CASE i = 3
    BY <1>1, <2>1, <2>4
  <2>5. CASE i = 4
    BY <1>1, <2>1, <2>5
  <2> QED BY <2>1, <2>2, <2>3, <2>4, <2>5
<1>8. /\ \A i \in {1, 3} \cup {2, 4} : loss[i] \in Int /\ loss[i] >= 0
      /\ loss[1] = x /\ loss[3] = y /\ \A i \in {2, 4} : loss[i] = 0
  BY <1>3
<1> HIDE DEF legs, f, S, loss, back, none, x, y
<1>9. SumFunctionOnSet(none, S) = SumFunctionOnSet(f, S) + SumFunctionOnSet(back, S)
  BY <1>6, <1>7, SumPlus
<1>10. SumFunctionOnSet(none, S) = 0
  BY <1>6, <1>7, SumZero
<1>11. SumFunctionOnSet(f, S) \in Int /\ SumFunctionOnSet(back, S) \in Int
  BY <1>6, <1>7, SumIsInt
<1>12. SumFunctionOnSet(back, S) <= SumFunctionOnSet(loss, {1, 3} \cup {2, 4})
  <2>1. \A i \in S : back[i] \in Int /\ back[i] <= loss[i]
    BY <1>7
  <2> DEFINE T == {1, 3} \cup {2, 4}
  <2>2. IsFiniteSet(T) /\ S \in SUBSET T /\ \A i \in T : loss[i] \in Int /\ loss[i] >= 0
    BY <1>4, <1>5, <1>8
  <2> HIDE DEF T
  <2>3. SumFunctionOnSet(back, S) <= SumFunctionOnSet(loss, T)
    BY <2>1, <2>2, SumAtMost
  <2> QED BY <2>3 DEF T
<1>13. SumFunctionOnSet(loss, {1, 3} \cup {2, 4})
         = SumFunctionOnSet(loss, {1, 3}) + SumFunctionOnSet(loss, {2, 4})
  <2> DEFINE A == {1, 3}
             B == {2, 4}
  <2>1. IsFiniteSet(A) /\ IsFiniteSet(B) /\ A \cap B = {} /\ \A i \in A \cup B : loss[i] \in Int
    BY <1>4, <1>5, <1>8
  <2> HIDE DEF A, B
  <2>2. SumFunctionOnSet(loss, A \cup B) = SumFunctionOnSet(loss, A) + SumFunctionOnSet(loss, B)
    BY <2>1, SumUnion
  <2> QED BY <2>2 DEF A, B
<1>14. SumFunctionOnSet(loss, {2, 4}) = 0
  BY <1>4, <1>8, SumZero
<1>15. SumFunctionOnSet(loss, {1, 3}) = x + y
  <2> DEFINE i == 1
             j == 3
  <2>1. i # j /\ loss[i] = x /\ loss[j] = y /\ loss[i] \in Int /\ loss[j] \in Int
    BY <1>3, <1>8
  <2> HIDE DEF i, j
  <2>2. SumFunctionOnSet(loss, {i, j}) = x + y
    BY <2>1, SumTwo
  <2> QED BY <2>2 DEF i, j
<1>16. SumFunctionOnSet(f, S) >= -(x + y)
  <2> DEFINE sum == SumFunctionOnSet(f, S)
             neg == SumFunctionOnSet(back, S)
  <2>1. sum + neg = 0
    BY <1>9, <1>10
  <2>2. neg <= x + y
    BY <1>3, <1>12, <1>13, <1>14, <1>15
  <2>3. sum \in Int /\ neg \in Int
    BY <1>11
  <2> HIDE DEF sum, neg
  <2>4. sum >= -(x + y)
    BY <1>3, <2>1, <2>2, <2>3
  <2> QED BY <2>4 DEF sum
<1> QED BY <1>2, <1>11, <1>16 DEF legs, x, y

\* The legs of a trade sum to zero per asset.
LEMMA LegsBalance ==
    ASSUME Base # Quote, NEW buyer, NEW seller, NEW q \in Nat, NEW n \in Nat
    PROVE  verifyLedgerBalance(TradeLegs(buyer, seller, Base, Quote, q, n))
<1> DEFINE legs == TradeLegs(buyer, seller, Base, Quote, q, n)
<1>1. /\ Len(legs) = 4
      /\ legs[1].asset = Quote /\ legs[1].amount = -n
      /\ legs[2].asset = Base /\ legs[2].amount = q
      /\ legs[3].asset = Base /\ legs[3].amount = -q
      /\ legs[4].asset = Quote /\ legs[4].amount = n
  BY DEF TradeLegs
<1> HIDE DEF legs
<1> SUFFICES ASSUME NEW a \in {Base, Quote} PROVE AssetSum(legs, a) = 0
  BY DEF verifyLedgerBalance, legs
<1> DEFINE f == [i \in 1..4 |-> legs[i].amount]
           S == {i \in 1..4 : legs[i].asset = a}
<1>2. AssetSum(legs, a) = SumFunctionOnSet(f, S)
  BY <1>1 DEF AssetSum
<1>3. f[1] = -n /\ f[2] = q /\ f[3] = -q /\ f[4] = n
  BY <1>1
<1>4. S \subseteq {1, 2, 3, 4}
  OBVIOUS
<1>5. (1 \in S <=> a = Quote) /\ (2 \in S <=> a = Base) /\ (3 \in S <=> a = Base) /\ (4 \in S <=> a = Quote)
  BY <1>1
<1> HIDE DEF f, S
<1>6. ASSUME NEW i, NEW j, i # j, f[i] \in Int, f[j] \in Int, f[i] + f[j] = 0, S = {i, j}
      PROVE  SumFunctionOnSet(f, S) = 0
  BY <1>6, SumTwo
<1>7. CASE a = Base
  <2> DEFINE i == 2
             j == 3
  <2>1. S = {i, j}
    BY <1>4, <1>5, <1>7
  <2>2. i # j /\ f[i] \in Int /\ f[j] \in Int /\ f[i] + f[j] = 0
    BY <1>3
  <2> HIDE DEF i, j
  <2> QED BY <1>2, <1>6, <2>1, <2>2
<1>8. CASE a = Quote
  <2> DEFINE i == 1
             j == 4
  <2>1. S = {i, j}
    BY <1>4, <1>5, <1>8
  <2>2. i # j /\ f[i] \in Int /\ f[j] \in Int /\ f[i] + f[j] = 0
    BY <1>3
  <2> HIDE DEF i, j
  <2> QED BY <1>2, <1>6, <2>1, <2>2
<1> QED BY <1>7, <1>8

\* Part of the releases takes no more from a balance than all of them.
LEMMA ReleasePart ==
    ASSUME NEW buyer, NEW seller, NEW q \in Nat, NEW n \in Nat, NEW w, NEW b, NEW k \in 0..2
    PROVE  LET row == RowSum(TradeRelease(buyer, seller, Base, Quote, q, n), k, w, b)
           IN  /\ row \in Int
               /\ row <= (IF w = buyer /\ b = Quote THEN n ELSE 0)
                         + (IF w = seller /\ b = Base THEN q ELSE 0)
<1> DEFINE release == TradeRelease(buyer, seller, Base, Quote, q, n)
           f == [i \in 1..k |-> release[i].amount]
           g == [i \in 1..2 |-> release[i].amount]
           S == {i \in 1..k : release[i].user = w /\ release[i].asset = b}
           T == {i \in 1..2 : release[i].user = w /\ release[i].asset = b}
<1>1. Len(release) = 2 /\ release[1].amount = n /\ release[2].amount = q
  BY DEF TradeRelease
<1>2. RowSum(release, k, w, b) = SumFunctionOnSet(f, S)
      /\ RowSum(release, Len(release), w, b) = SumFunctionOnSet(g, T)
  BY <1>1 DEF RowSum
<1>3. S \in SUBSET T /\ T \in SUBSET {1, 2}
  OBVIOUS
<1>4. IsFiniteSet({1, 2})
  BY PairIsFinite
<1>5. IsFiniteSet(T) /\ IsFiniteSet(S)
  <2> HIDE DEF S, T
  <2> QED BY <1>3, <1>4, FS_Subset
<1>6. \A i \in T : g[i] \in Int /\ g[i] >= 0
  <2> HIDE DEF release
  <2> QED BY <1>1
<1>7. \A i \in S : f[i] \in Int /\ f[i] <= g[i]
  <2>1. \A i \in S : f[i] = g[i]
    OBVIOUS
  <2> QED BY <1>3, <1>6, <2>1
<1> HIDE DEF release, f, g, S, T
<1>8. SumFunctionOnSet(f, S) <= SumFunctionOnSet(g, T)
  BY <1>3, <1>5, <1>6, <1>7, SumAtMost
<1>9. SumFunctionOnSet(f, S) \in Int
  BY <1>5, <1>7, SumIsInt
<1>10. RowSum(release, Len(release), w, b)
         = (IF w = buyer /\ b = Quote THEN n ELSE 0) + (IF w = seller /\ b = Base THEN q ELSE 0)
  <2>1. q \in Int /\ n \in Int
    OBVIOUS
  <2> QED BY <2>1, ReleaseRow DEF release
<1> QED BY <1>2, <1>8, <1>9, <1>10 DEF release

\* What an order has taken from its user's available funds at most: its freeze,
\* and what its settled trades posted once more.
Claimed == [o \in Orders |-> Locked[o] + Spent[o]]

\* Nobody but the seeded users has an account, and their funds cover the claims
\* of their orders.
FundsLeft ==
    /\ users = Seeded
    /\ \A u \in Seeded, a \in {Base, Quote} :
          Funding[a] <= available[u][a] + SumFunctionOnSet(Claimed, OrdersOf(u, a))

LEMMA ClaimedType ==
    ASSUME FlowConsistent, CollateralTyped
    PROVE  Claimed \in [Orders -> Int]
           /\ \A o \in Orders : Claimed[o] = Locked[o] + Spent[o] /\ Claimed[o] \in Nat
<1>1. \A o \in Orders : Locked[o] \in Nat /\ Spent[o] \in Nat
  BY HeldFacts DEF HeldTyped
<1> QED BY <1>1 DEF Claimed

LEMMA ClaimedTypeNext ==
    FlowConsistent' /\ CollateralTyped' =>
        /\ Claimed' \in [Orders -> Int]
        /\ \A o \in Orders : Claimed'[o] = Locked'[o] + Spent'[o] /\ Claimed'[o] \in Nat
<1>1. FlowConsistent /\ CollateralTyped =>
        /\ Claimed \in [Orders -> Int]
        /\ \A o \in Orders : Claimed[o] = Locked[o] + Spent[o] /\ Claimed[o] \in Nat
  BY ClaimedType
<1>2. (FlowConsistent /\ CollateralTyped =>
        /\ Claimed \in [Orders -> Int]
        /\ \A o \in Orders : Claimed[o] = Locked[o] + Spent[o] /\ Claimed[o] \in Nat)'
  BY <1>1, PTL
<1> QED BY <1>2

\* The claim of one order grows by d, or those of two orders by d and e, and
\* their users have that much less.
LEMMA FundsMove ==
    ASSUME FlowConsistent, FundsLeft, req' = req, users' = users,
           available \in [Users -> [{Base, Quote} -> Nat]],
           available' \in [Users -> [{Base, Quote} -> Nat]],
           NEW o \in Orders, NEW d \in Nat,
           Claimed \in [Orders -> Int], Claimed' \in [Orders -> Int], Claimed'[o] = Claimed[o] + d,
           \A p \in Orders \ {o} : Claimed'[p] = Claimed[p],
           \A w \in Users, b \in {Base, Quote} :
              available'[w][b] >= available[w][b] - (IF o \in OrdersOf(w, b) THEN d ELSE 0)
    PROVE  FundsLeft'
<1> SUFFICES ASSUME NEW w \in Seeded, NEW b \in {Base, Quote}
             PROVE  Funding[b] <= available'[w][b] + SumFunctionOnSet(Claimed', OrdersOf(w, b)')
  BY DEF FundsLeft
<1> DEFINE S == OrdersOf(w, b)
           f == Claimed
           g == Claimed'
           old == available[w][b]
           new == available'[w][b]
<1>1. w \in Users /\ OrdersOf(w, b)' = S /\ Funding[b] \in Nat
  BY AccountsAssumption DEF OrdersOf
<1>2. IsFiniteSet(Orders) /\ S \in SUBSET Orders
  BY OrdersOfFacts
<1>3. old \in Nat /\ new \in Nat /\ new >= old - (IF o \in S THEN d ELSE 0)
  BY <1>1
<1>4. Funding[b] <= old + SumFunctionOnSet(f, S)
  BY DEF FundsLeft
<1>5. /\ \A p \in Orders : f[p] \in Int /\ g[p] \in Int
      /\ \A p \in Orders \ {o} : g[p] = f[p]
      /\ g[o] - f[o] = d
  OBVIOUS
<1> HIDE DEF f, g, S, old, new
<1>6. SumFunctionOnSet(g, S) = SumFunctionOnSet(f, S) + (IF o \in S THEN g[o] - f[o] ELSE 0)
  <2>1. DifferAt(Orders, f, g, o)
    BY <1>2, <1>5 DEF DifferAt
  <2> QED BY <1>2, <2>1, SumMoves
<1>7. SumFunctionOnSet(f, S) \in Int /\ SumFunctionOnSet(g, S) \in Int
  BY <1>2, <1>5, FS_Subset, SumIsInt
<1>8. Funding[b] <= new + SumFunctionOnSet(g, S)
  <2>1. CASE o \in S
    BY <1>1, <1>3, <1>4, <1>5, <1>6, <1>7, <2>1
  <2>2. CASE o \notin S
    BY <1>1, <1>3, <1>4, <1>6, <1>7, <2>2
  <2> QED BY <2>1, <2>2
<1> QED BY <1>1, <1>8 DEF g, new

LEMMA FundsMoveTwice ==
    ASSUME FlowConsistent, FundsLeft, req' = req, users' = users,
           available \in [Users -> [{Base, Quote} -> Nat]],
           available' \in [Users -> [{Base, Quote} -> Nat]],
           NEW o \in Orders, NEW p \in Orders, o # p, NEW d \in Nat, NEW e \in Nat,
           Claimed \in [Orders -> Int], Claimed' \in [Orders -> Int],
           Claimed'[o] = Claimed[o] + d, Claimed'[p] = Claimed[p] + e,
           \A z \in Orders \ {o, p} : Claimed'[z] = Claimed[z],
           \A w \in Users, b \in {Base, Quote} :
              available'[w][b] >= available[w][b] - ((IF o \in OrdersOf(w, b) THEN d ELSE 0)
                                                     + (IF p \in OrdersOf(w, b) THEN e ELSE 0))
    PROVE  FundsLeft'
<1> SUFFICES ASSUME NEW w \in Seeded, NEW b \in {Base, Quote}
             PROVE  Funding[b] <= available'[w][b] + SumFunctionOnSet(Claimed', OrdersOf(w, b)')
  BY DEF FundsLeft
<1> DEFINE S == OrdersOf(w, b)
           f == Claimed
           g == Claimed'
           old == available[w][b]
           new == available'[w][b]
           x == IF o \in S THEN d ELSE 0
           y == IF p \in S THEN e ELSE 0
           xx == IF o \in S THEN g[o] - f[o] ELSE 0
           yy == IF p \in S THEN g[p] - f[p] ELSE 0
<1>1. w \in Users /\ OrdersOf(w, b)' = S /\ Funding[b] \in Nat
  BY AccountsAssumption DEF OrdersOf
<1>2. IsFiniteSet(Orders) /\ S \in SUBSET Orders
  BY OrdersOfFacts
<1>3. old \in Nat /\ new \in Nat /\ new >= old - (x + y)
  BY <1>1
<1>4. Funding[b] <= old + SumFunctionOnSet(f, S)
  BY DEF FundsLeft
<1>5. /\ f \in [Orders -> Int] /\ g \in [Orders -> Int]
      /\ \A z \in Orders \ {o, p} : g[z] = f[z]
      /\ g[o] - f[o] = d /\ g[p] - f[p] = e
  OBVIOUS
<1>6. x \in Nat /\ y \in Nat /\ xx = x /\ yy = y
  BY <1>5
<1> HIDE DEF f, g, S, old, new
<1>7. SumFunctionOnSet(g, S) = SumFunctionOnSet(f, S) + (xx + yy)
  <2>1. DifferAtTwo(Orders, f, g, o, p)
    BY <1>2, <1>5 DEF DifferAtTwo
  <2> QED BY <1>2, <2>1, SumMovesTwice
<1>8. SumFunctionOnSet(f, S) \in Int
  BY <1>2, <1>5, FS_Subset, SumIsInt
<1> HIDE DEF x, y, xx, yy
<1>9. Funding[b] <= new + SumFunctionOnSet(g, S)
  BY <1>1, <1>3, <1>4, <1>6, <1>7, <1>8
<1> QED BY <1>1, <1>9 DEF g, new

LEMMA AvailableType ==
    /\ FlowConsistent => available \in [Users -> [{Base, Quote} -> Nat]]
    /\ FlowConsistent' => available' \in [Users -> [{Base, Quote} -> Nat]]
BY DEF FlowConsistent, FlowTypeOK, LedgerTypeOK

\* A freeze claims its amount, and an unfreeze gives some of it back.
LEMMA CollateralLeavesFunds ==
    ASSUME FlowConsistent, FlowConsistent', CollateralTyped, FrozenIsHeld, FundsLeft,
           req' = req, resp' = resp, NEW o \in Orders, NEW n \in Int,
           \/ Freeze(req[o].user, CollateralAsset(req[o]), n, o)
           \/ Unfreeze(req[o].user, CollateralAsset(req[o]), n, o)
    PROVE  FundsLeft'
<1> DEFINE u == req[o].user
           a == CollateralAsset(req[o])
           assets == {Base, Quote}
<1>1. u \in Users /\ a \in assets
      /\ \A w \in Users, b \in assets : o \in OrdersOf(w, b) <=> (w = u /\ b = a)
  BY OrdersOfFacts
<1>2. available \in [Users -> [assets -> Nat]] /\ available' \in [Users -> [assets -> Nat]]
  BY AvailableType
<1>3. Claimed \in [Orders -> Int] /\ \A p \in Orders : Claimed[p] = Locked[p] + Spent[p] /\ Claimed[p] \in Nat
  BY ClaimedType
<1>4. CASE Freeze(u, a, n, o)
  <2>1. Froze(o, n) /\ CollateralTyped'
    BY <1>4, FreezeMoney
  <2>2. /\ Claimed' \in [Orders -> Int]
        /\ \A p \in Orders : Claimed'[p] = Locked'[p] + Spent'[p] /\ Claimed'[p] \in Nat
    BY <2>1, ClaimedTypeNext
  <2>3. n \in Nat /\ users' = users /\ Spent' = Spent /\ Locked' = [Locked EXCEPT ![o] = n] /\ Locked[o] = 0
    BY <2>1 DEF Froze
  <2>4. Locked'[o] = n /\ \A p \in Orders \ {o} : Locked'[p] = Locked[p]
    BY <2>3 DEF CollateralTyped
  <2>5. Spent[o] \in Nat
    BY HeldFacts DEF HeldTyped
  <2>6. Claimed'[o] = Claimed[o] + n /\ \A p \in Orders \ {o} : Claimed'[p] = Claimed[p]
    BY <1>3, <2>2, <2>3, <2>4, <2>5
  <2>7. available' = [available EXCEPT ![u][a] = @ - n]
    BY <1>4 DEF Freeze
  <2>8. ASSUME NEW w \in Users, NEW b \in assets
        PROVE  available'[w][b] >= available[w][b] - (IF o \in OrdersOf(w, b) THEN n ELSE 0)
    <3>1. available[w][b] \in Nat /\ (o \in OrdersOf(w, b) <=> (w = u /\ b = a))
      BY <1>1, <1>2
    <3> HIDE DEF u, a, assets
    <3>2. CASE w = u /\ b = a
      <4>1. available'[w][b] = available[w][b] - n
        BY <1>2, <2>7, <3>2
      <4> QED BY <2>3, <3>1, <3>2, <4>1
    <3>3. CASE ~(w = u /\ b = a)
      <4>1. available'[w][b] = available[w][b]
        BY <1>2, <2>7, <3>3
      <4> QED BY <3>1, <3>3, <4>1
    <3> QED BY <3>2, <3>3
  <2> QED BY <1>2, <1>3, <2>2, <2>3, <2>6, <2>8, FundsMove
<1>5. CASE Unfreeze(u, a, n, o)
  <2>1. Unfroze(o, n) /\ CollateralTyped'
    BY <1>5, UnfreezeMoney
  <2>2. /\ Claimed' \in [Orders -> Int]
        /\ \A p \in Orders : Claimed'[p] = Locked'[p] + Spent'[p] /\ Claimed'[p] \in Nat
    BY <2>1, ClaimedTypeNext
  <2>3. n \in Nat /\ users' = users /\ Spent' = Spent /\ Locked' = Locked
    BY <2>1 DEF Unfroze
  <2>4. Claimed'[o] = Claimed[o] + 0 /\ \A p \in Orders \ {o} : Claimed'[p] = Claimed[p]
    BY <1>3, <2>2, <2>3
  <2>5. available' = [available EXCEPT ![u][a] = @ + n]
    BY <1>5 DEF Unfreeze
  <2>6. ASSUME NEW w \in Users, NEW b \in assets
        PROVE  available'[w][b] >= available[w][b] - (IF o \in OrdersOf(w, b) THEN 0 ELSE 0)
    <3>1. available[w][b] \in Nat
      BY <1>2
    <3> HIDE DEF u, a, assets
    <3>2. CASE w = u /\ b = a
      <4>1. available'[w][b] = available[w][b] + n
        BY <1>2, <2>5, <3>2
      <4> QED BY <2>3, <3>1, <4>1
    <3>3. CASE ~(w = u /\ b = a)
      <4>1. available'[w][b] = available[w][b]
        BY <1>2, <2>5, <3>3
      <4> QED BY <3>1, <4>1
    <3> QED BY <3>2, <3>3
  <2>7. 0 \in Nat
    OBVIOUS
  <2> QED BY <1>2, <1>3, <2>2, <2>3, <2>4, <2>6, <2>7, FundsMove
<1> QED BY <1>4, <1>5

\* A settlement claims what its trade takes from the buyer and the seller.
LEMMA SettlementLeavesFunds ==
    ASSUME FlowConsistent, FlowConsistent', TradesHaveSides, CollateralTyped, FrozenIsHeld, FundsLeft,
           req' = req, resp' = resp, NEW o \in Orders, place[o].at = "settle", SettleNext(o)
    PROVE  FundsLeft'
<1> DEFINE t == TheTrade(o)
           b == t.buy
           s == t.sell
           buyer == req[b].user
           seller == req[s].user
           q == t.quantity
           n == t.price * q
           x == <<o, place[o].k>>
           legs == TradeLegs(buyer, seller, Base, Quote, q, n)
           release == TradeRelease(buyer, seller, Base, Quote, q, n)
<1>1. /\ t \in Trade /\ {b, s} = {o, Maker(o)} /\ Maker(o) # o
      /\ place[o].k \in DOMAIN Answers[o] /\ Answers[o][place[o].k] = t /\ resp[o].trades # <<>>
  <2>1. /\ t \in Trade /\ {b, s} = {o, Maker(o)} /\ Maker(o) # o
        /\ place[o].k \in DOMAIN resp[o].trades /\ Answers[o] = resp[o].trades
        /\ Answers[o][place[o].k] = t
    BY TradeFacts
  <2>2. resp[o].trades # <<>>
    BY <2>1
  <2> QED BY <2>1, <2>2
<1>2. b \in Orders /\ s \in Orders /\ b # s /\ q \in Nat /\ t.price \in Nat
  <2>1. b \in Orders /\ s \in Orders /\ q \in Nat /\ t.price \in Nat
    <3> HIDE DEF t
    <3> QED BY <1>1 DEF Trade
  <2>2. b # s
    <3>1. PICK m : m = Maker(o)
      OBVIOUS
    <3>2. {b, s} = {o, m} /\ m # o
      BY <1>1, <3>1
    <3> HIDE DEF b, s
    <3> QED BY <3>2
  <2> QED BY <2>1, <2>2
<1>3. n \in Nat
  BY <1>2, MulNat
<1>4. HasSides(t, req)
  <2>1. Matches[o] = Answers[o]
    BY <1>1, BookFacts
  <2> QED BY <1>1, <2>1 DEF TradesHaveSides
<1>5. CollateralAsset(req[b]) = Quote /\ CollateralAsset(req[s]) = Base
  BY <1>4 DEF HasSides, CollateralAsset
<1>6. Use(t, b) = n /\ Use(t, s) = q
  BY <1>2 DEF Use
<1>7. Settles(t) /\ CollateralTyped'
  BY SettleMoney
<1>8. SettleTrade(x, legs, release)
  BY DEF SettleNext
<1>9. Len(legs) = 4
  BY DEF TradeLegs
<1>10. available' = [w \in Users |-> [a \in {Base, Quote} |-> available[w][a] + RowSum(legs, 4, w, a)]]
  <2>1. available' = [w \in Users |-> [a \in {Base, Quote} |-> available[w][a] + RowSum(legs, Len(legs), w, a)]]
    BY <1>8 DEF SettleTrade
  <2> QED BY <1>9, <2>1
<1>11. available \in [Users -> [{Base, Quote} -> Nat]] /\ available' \in [Users -> [{Base, Quote} -> Nat]]
  BY AvailableType
<1>12. Claimed \in [Orders -> Int] /\ Claimed' \in [Orders -> Int]
       /\ \A p \in Orders : /\ Claimed[p] = Locked[p] + Spent[p] /\ Claimed[p] \in Nat
                            /\ Claimed'[p] = Locked'[p] + Spent'[p] /\ Claimed'[p] \in Nat
  BY <1>7, ClaimedType, ClaimedTypeNext
<1>13. \A p \in Orders : Locked[p] \in Nat /\ Spent[p] \in Nat
  BY HeldFacts DEF HeldTyped
<1> HIDE DEF legs, release, t, n, q, x
<1>14. /\ users' = users /\ Locked' = Locked
       /\ Spent'[b] = Spent[b] + n /\ Spent'[s] = Spent[s] + q
       /\ \A p \in Orders \ {b, s} : Spent'[p] = Spent[p]
  BY <1>2, <1>6, <1>7 DEF Settles
<1> HIDE DEF b, s
<1>15. Claimed'[b] = Claimed[b] + n /\ Claimed'[s] = Claimed[s] + q
       /\ \A p \in Orders \ {b, s} : Claimed'[p] = Claimed[p]
  BY <1>2, <1>3, <1>12, <1>13, <1>14
<1>16. ASSUME NEW w \in Users, NEW a \in {Base, Quote}
       PROVE  available'[w][a] >= available[w][a] - ((IF b \in OrdersOf(w, a) THEN n ELSE 0)
                                                      + (IF s \in OrdersOf(w, a) THEN q ELSE 0))
  <2> DEFINE row == RowSum(legs, 4, w, a)
             loss == (IF w = buyer /\ a = Quote THEN n ELSE 0) + (IF w = seller /\ a = Base THEN q ELSE 0)
  <2>1. 4 \in 0..4
    OBVIOUS
  <2>2. row \in Int /\ row >= -loss
    BY <1>2, <1>3, <2>1, LegsRow DEF legs
  <2>3. loss \in Nat
    BY <1>2, <1>3
  <2>4. (b \in OrdersOf(w, a) <=> (w = buyer /\ a = Quote)) /\ (s \in OrdersOf(w, a) <=> (w = seller /\ a = Base))
    BY <1>2, <1>5, OrdersOfFacts
  <2>5. loss = (IF b \in OrdersOf(w, a) THEN n ELSE 0) + (IF s \in OrdersOf(w, a) THEN q ELSE 0)
    BY <2>4
  <2>6. available[w][a] \in Nat /\ available'[w][a] = available[w][a] + row
    BY <1>10, <1>11
  <2>7. available'[w][a] >= available[w][a] - loss
    <3> HIDE DEF row, loss
    <3> QED BY <2>2, <2>3, <2>6
  <2> QED BY <2>5, <2>7
<1> QED BY <1>2, <1>3, <1>11, <1>12, <1>14, <1>15, <1>16, FundsMoveTwice

\* Every other step leaves the accounts alone.
LEMMA QuietLeavesFunds ==
    ASSUME FlowConsistent, FlowConsistent', FundsLeft, req' = req, UNCHANGED accountVars,
           \A x \in Settled : resp'[x[1]] = resp[x[1]]
    PROVE  FundsLeft'
<1>1. MoneyStays
  BY QuietMoney
<1>2. Claimed' = Claimed
  BY <1>1 DEF MoneyStays, Claimed
<1>3. available' = available /\ users' = users
  BY DEF accountVars
<1>4. \A u, a : OrdersOf(u, a)' = OrdersOf(u, a)
  BY DEF OrdersOf
<1> QED BY <1>2, <1>3, <1>4 DEF FundsLeft

LEMMA StepLeavesFunds ==
    ASSUME LifeConsistent, LifeConsistent', HeldConsistent, FundsLeft, [LifeNext]_lifeVars
    PROVE  FundsLeft'
<1>1. FlowConsistent /\ FlowConsistent' /\ TradesHaveSides /\ CollateralTyped /\ FrozenIsHeld
  BY DEF LifeConsistent, HeldConsistent
<1>2. ASSUME UNCHANGED <<accountVars, req, resp>> PROVE FundsLeft'
  <2>1. req' = req /\ UNCHANGED accountVars /\ \A x \in Settled : resp'[x[1]] = resp[x[1]]
    BY <1>2
  <2> QED BY <1>1, <2>1, QuietLeavesFunds
<1>3. CASE UNCHANGED lifeVars
  <2>1. UNCHANGED <<accountVars, req, resp>>
    BY <1>3 DEF lifeVars, flowVars
  <2> QED BY <1>2, <2>1
<1>4. CASE StopEngine \/ StartEngine
  <2>1. UNCHANGED <<accountVars, req, resp>>
    BY <1>4 DEF StopEngine, StartEngine
  <2> QED BY <1>2, <2>1
<1>5. ASSUME NEW o \in Orders, BookStep(o) \/ LifePlace(o) \/ CancelStep(o)
      PROVE  FundsLeft'
  <2>1. CASE SubmitRefused(o) \/ SubmitReset(o)
    <3>1. UNCHANGED <<accountVars, req, resp>>
      BY <2>1 DEF SubmitRefused, SubmitReset
    <3> QED BY <1>2, <3>1
  <2>2. CASE BookStep(o)
    <3>1. \A x \in Settled : resp'[x[1]] = resp[x[1]]
      BY <1>1, <2>2, EngineStep, SettledFacts DEF BookMoves
    <3>2. UNCHANGED accountVars /\ req' = req
      BY <2>2 DEF BookStep
    <3> QED BY <1>1, <3>1, <3>2, QuietLeavesFunds
  <2>3. CASE PlaceStep(o) \/ CancelStep(o)
    <3>1. resp' = resp /\ req' = req
      BY <2>3, RequestBook
    <3>2. CASE UNCHANGED accountVars
      BY <1>2, <3>1, <3>2
    <3>3. ASSUME NEW n \in Int, Freeze(req[o].user, CollateralAsset(req[o]), n, o)
                                  \/ Unfreeze(req[o].user, CollateralAsset(req[o]), n, o)
          PROVE  FundsLeft'
      BY <1>1, <3>1, <3>3, CollateralLeavesFunds
    <3>4. CASE place[o].at = "settle" /\ SettleNext(o)
      BY <1>1, <3>1, <3>4, SettlementLeavesFunds
    <3> QED BY <1>1, <2>3, <3>2, <3>3, <3>4, RequestMoney
  <2> QED BY <1>5, <2>1, <2>2, <2>3 DEF LifePlace
<1> QED BY <1>3, <1>4, <1>5 DEF LifeNext

LEMMA FundsStart ==
    ASSUME FlowInit, FlowConsistent
    PROVE  FundsLeft /\ NextIsNew
<1>1. /\ users = Seeded
      /\ available = [u \in Users |-> [a \in {Base, Quote} |-> IF u \in Seeded THEN Funding[a] ELSE 0]]
      /\ entries = [r \in {} |-> <<>>]
  BY DEF FlowInit, LedgerInit
<1>2. CollateralTyped
  BY HeldStarts DEF HeldConsistent
<1>3. ASSUME NEW u \in Seeded, NEW a \in {Base, Quote}
      PROVE  Funding[a] <= available[u][a] + SumFunctionOnSet(Claimed, OrdersOf(u, a))
  <2> DEFINE S == OrdersOf(u, a)
             f == Claimed
  <2>1. IsFiniteSet(S) /\ S \in SUBSET Orders
    BY OrdersOfFacts, FS_Subset
  <2>2. \A o \in S : f[o] \in Nat
    BY <1>2, <2>1, ClaimedType
  <2>3. available[u][a] = Funding[a] /\ Funding[a] \in Nat
    BY <1>1, AccountsAssumption
  <2> HIDE DEF S, f
  <2>4. SumFunctionOnSet(f, S) \in Nat
    BY <2>1, <2>2, SumIsNat
  <2> QED BY <2>3, <2>4 DEF S, f
<1>4. Settled = {}
  BY <1>1 DEF Settled
<1> QED BY <1>1, <1>3, <1>4 DEF FundsLeft, NextIsNew

\* With the stops of the engine and every failure of a request: the requests
\* settle their trades in turn, and a user has lost no more of his funds than
\* his orders have frozen and settled.
THEOREM FundsAreLeft == LifeSpec => [](FundsLeft /\ NextIsNew)
<1>1. LifeInit /\ LifeConsistent => FundsLeft /\ NextIsNew
  BY FundsStart DEF LifeInit, LifeConsistent
<1>2. ASSUME LifeConsistent, LifeConsistent', HeldConsistent, FundsLeft /\ NextIsNew, [LifeNext]_lifeVars
      PROVE  (FundsLeft /\ NextIsNew)'
  BY <1>2, StepLeavesFunds, NextStaysNew
<1> QED BY <1>1, <1>2, LifeIsConsistent, FundsAreHeld, PTL DEF LifeSpec

\* The orders' users have funds for twice the collateral of their orders: a
\* freeze takes it from what is available, and the settlements take it again.
Twice == [o \in Orders |-> 2 * CollateralAmount(req[o], req[o].quantity)]

FundsForAll ==
    \A u \in Seeded, a \in {Base, Quote} : SumFunctionOnSet(Twice, OrdersOf(u, a)) <= Funding[a]

\* The trade a request is to settle fits in what its parties have not sold.
LEMMA TradeHasRoom ==
    ASSUME SerialState, NextIsNew, NEW o \in Orders, place[o].at = "settle",
           NEW p \in {TheTrade(o).buy, TheTrade(o).sell}
    PROVE  Sold[p] + TheTrade(o).quantity <= req[p].quantity
<1> DEFINE t == TheTrade(o)
           x == <<o, place[o].k>>
           S == PartyOf(Answers, p) \cap Settled
           T == S \cup {x}
<1>1. FlowConsistent /\ CollateralTyped
  BY SerialFacts
<1>2. /\ t \in Trade /\ t.quantity \in Nat /\ {t.buy, t.sell} = {o, Maker(o)} /\ x \in Numbers
      /\ Maker(o) \in Orders /\ Submitted(order, Maker(o))
      /\ x[2] \in DOMAIN resp[o].trades /\ Answers[o] = resp[o].trades /\ Answers[x[1]][x[2]] = t
  BY <1>1, TradeFacts
<1>3. resp[o].trades # <<>>
  BY <1>2
<1>4. Submitted(order, o) /\ Matches[o] = Answers[o]
  BY <1>1, <1>3, BookFacts DEF AnswersFollowBook
<1>5. p \in Orders /\ Submitted(order, p)
  BY <1>2, <1>4
<1>6. x \notin Settled
  <2>1. place[o].k \in Nat
    BY SerialFacts
  <2> QED BY <2>1 DEF NextIsNew, NewAt
<1>7. Sold[p] = Qty(Answers, S) /\ S \in SUBSET Numbers /\ x \notin S
  BY <1>1, <1>5, <1>6, SettledQtyIsQty DEF Sold, PartyOf
<1>8. Answers \in TradesByTaker /\ Matches \in TradesByTaker
  BY <1>1, BookFacts
<1>9. Qty(Answers, T) = Sold[p] + t.quantity
  <2>1. x[2] \in DOMAIN Answers[x[1]]
    BY <1>2
  <2> HIDE DEF x, S, t
  <2> QED BY <1>2, <1>7, <1>8, <2>1, QtyAdd
<1>10. \A y \in T : Matches[y[1]] = Answers[y[1]]
  BY <1>1, <1>4, SettledFacts
<1>11. T \in SUBSET Numbers /\ T \in SUBSET PartyOf(Matches, p)
  <2>1. x \in PartyOf(Matches, p)
    BY <1>2, <1>4 DEF PartyOf
  <2>2. S \subseteq PartyOf(Matches, p)
    BY <1>10 DEF PartyOf
  <2> QED BY <1>2, <1>7, <2>1, <2>2
<1>12. Qty(Matches, T) = Qty(Answers, T)
  <2>1. \A y \in T : QtyAt(Matches)[y] = QtyAt(Answers)[y]
    BY <1>10, <1>11 DEF QtyAt
  <2> HIDE DEF T
  <2> QED BY <1>11, <2>1, QtyEqual
<1>13. Qty(Matches, T) <= Qty(Matches, PartyOf(Matches, p))
  <2>1. PartyOf(Matches, p) \in SUBSET Numbers
    BY DEF PartyOf
  <2> HIDE DEF T
  <2> QED BY <1>8, <1>11, <2>1, QtyGrows
<1>14. /\ Qty(Matches, PartyOf(Matches, p)) + remaining[p] <= order[p].quantity
       /\ order[p].quantity = req[p].quantity
  BY <1>1, <1>5, BookFacts DEF AnswersFollowBook
<1>15. remaining[p] \in Nat /\ order[p].quantity \in Nat /\ Qty(Matches, PartyOf(Matches, p)) \in Nat
       /\ Sold[p] \in Nat
  <2>1. Sold[p] \in Nat /\ PartyOf(Matches, p) \in SUBSET Numbers
    BY <1>5, OrderHolds DEF PartyOf
  <2>2. Qty(Matches, PartyOf(Matches, p)) \in Nat
    BY <1>8, <2>1, QtyType
  <2> QED BY <1>1, <1>5, <2>1, <2>2, QuantityFacts
<1> HIDE DEF t, T, S
<1>16. Sold[p] + t.quantity <= req[p].quantity
  BY <1>2, <1>9, <1>12, <1>13, <1>14, <1>15
<1> QED BY <1>16 DEF t

\* No order claims more than twice its collateral.
LEMMA ClaimedAtMost ==
    ASSUME SerialState, NEW o \in Orders
    PROVE  LET C(n) == CollateralAmount(req[o], n)
           IN  /\ C(req[o].quantity) \in Nat /\ Locked[o] \in Nat /\ Spent[o] \in Nat
               /\ Claimed[o] = Locked[o] + Spent[o]
               /\ Locked[o] <= C(req[o].quantity) /\ Spent[o] <= C(req[o].quantity)
<1> DEFINE C(n) == CollateralAmount(req[o], n)
           c == C(req[o].quantity)
<1>1. /\ FlowConsistent /\ CollateralTyped /\ PostedOK(o) /\ req[o].quantity \in Nat
      /\ req[o].price \in Nat /\ Spent[o] \in Nat
  BY SerialFacts
<1>2. Locked[o] \in Nat /\ Claimed[o] = Locked[o] + Spent[o]
  BY <1>1, ClaimedType DEF CollateralTyped
<1>3. Sold[o] \in Nat /\ Sold[o] <= req[o].quantity
  BY OrderHolds
<1>4. c \in Nat /\ C(Sold[o]) \in Nat /\ C(Sold[o]) <= c
  <2> DEFINE rest == C(req[o].quantity - Sold[o])
  <2>1. c \in Nat /\ C(Sold[o]) \in Nat /\ rest \in Nat /\ c = C(Sold[o]) + rest
    BY <1>1, <1>3, CollateralSplits
  <2> HIDE DEF c, C, rest
  <2> QED BY <2>1
<1>5. Spent[o] <= C(Sold[o])
  BY <1>1 DEF PostedOK
<1>6. Locked[o] <= c
  <2>1. CASE o \in Backed
    <3>1. Locked[o] = c
      BY <1>1, <2>1 DEF PostedOK
    <3> QED BY <1>4, <3>1
  <2>2. CASE o \notin Backed
    <3>1. Locked[o] = 0
      BY <2>2 DEF Locked
    <3> QED BY <1>4, <3>1
  <2> QED BY <2>1, <2>2
<1> HIDE DEF c, C
<1>7. Spent[o] <= c
  BY <1>1, <1>4, <1>5
<1> QED BY <1>1, <1>2, <1>4, <1>6, <1>7 DEF c, C

\* A party of the trade to settle has an account, and enough of its asset both
\* frozen and available.
LEMMA PartyHasFunds ==
    ASSUME SerialState, NextIsNew, FundsLeft, FundsForAll, NEW o \in Orders, place[o].at = "settle",
           NEW p \in {TheTrade(o).buy, TheTrade(o).sell}
    PROVE  LET u == req[p].user
               a == CollateralAsset(req[p])
           IN  /\ u \in users /\ u \in Users /\ a \in {Base, Quote}
               /\ frozen[u][a] >= Use(TheTrade(o), p) /\ available[u][a] >= Use(TheTrade(o), p)
<1> DEFINE t == TheTrade(o)
           u == req[p].user
           a == CollateralAsset(req[p])
           n == Use(t, p)
           C(k) == CollateralAmount(req[p], k)
           size == req[p].quantity
           left == size - Sold[p]
<1>1. FlowConsistent /\ CollateralTyped
  BY SerialFacts
<1>2. /\ t \in Trade /\ t.quantity \in Nat /\ {t.buy, t.sell} = {o, Maker(o)} /\ Maker(o) # o
      /\ Maker(o) \in Orders /\ Maker(o) \notin Freed /\ t.price <= req[t.buy].price /\ HasSides(t, req)
      /\ Busy(place, o)
  BY MakerIsFair DEF Working
<1>3. p \in Orders /\ t.buy # t.sell
  <2> HIDE DEF t
  <2> QED BY <1>2 DEF t
<1>4. p \in Backed /\ p \notin Freed /\ u \in users
  <2>1. PostedOK(p) /\ PostedOK(o)
    BY <1>3, SerialFacts
  <2>2. Submitted(order, Maker(o))
    BY <1>1, TradeFacts
  <2>3. CASE p = o
    BY <1>2, <2>1, <2>3 DEF PostedOK
  <2>4. CASE p = Maker(o)
    BY <1>2, <2>1, <2>2, <2>4 DEF PostedOK
  <2> QED BY <1>2, <2>3, <2>4
<1>5. u \in Users /\ a \in {Base, Quote} /\ u \in Seeded /\ p \in OrdersOf(u, a)
  BY <1>1, <1>3, <1>4, OrdersOfFacts DEF FundsLeft
<1>6. size \in Nat /\ req[p].price \in Nat /\ Sold[p] \in Nat /\ Spent[p] \in Nat
  BY <1>3, SerialFacts
<1>7. Sold[p] + t.quantity <= size
  BY TradeHasRoom
<1>8. n \in Nat
  BY <1>2, UseType
<1>9. Held[p] \in Int /\ Held[p] >= C(left)
  BY <1>3, <1>4, OrderHolds
<1>10. C(t.quantity) \in Nat /\ C(left) \in Nat /\ C(t.quantity) <= C(left)
       /\ C(Sold[p] + t.quantity) \in Nat /\ C(size) \in Nat /\ C(Sold[p] + t.quantity) <= C(size)
  <2> DEFINE k == t.quantity
             s == Sold[p] + k
  <2>1. k \in Nat /\ left \in Nat /\ k <= left /\ s \in Nat /\ s <= size
    <3> HIDE DEF t
    <3> QED BY <1>2, <1>6, <1>7
  <2> HIDE DEF left, k, s, size
  <2>2. C(left) \in Nat /\ C(k) \in Nat /\ C(left - k) \in Nat /\ C(left) = C(k) + C(left - k)
    BY <1>6, <2>1, CollateralSplits
  <2>3. C(size) \in Nat /\ C(s) \in Nat /\ C(size - s) \in Nat /\ C(size) = C(s) + C(size - s)
    BY <1>6, <2>1, CollateralSplits
  <2> HIDE DEF C
  <2>4. C(k) <= C(left) /\ C(s) <= C(size)
    BY <2>2, <2>3
  <2> QED BY <2>2, <2>3, <2>4 DEF k, s
<1>11. n <= C(t.quantity)
  <2> DEFINE none == 0
  <2>1. none \in Nat /\ none <= size
    BY <1>6
  <2>2. none <= C(none)
    <3>1. C(0) = 0
      <4> HIDE DEF size, C
      <4> QED BY <1>6, <2>1, CollateralSplits DEF C
    <3> QED BY <3>1
  <2> HIDE DEF none
  <2>3. none + n <= C(none + t.quantity)
    BY <1>2, <1>3, <1>6, <2>1, <2>2, UseWithinLimit
  <2>4. none + t.quantity = t.quantity /\ none + n = n
    BY <1>2, <1>8 DEF none
  <2> QED BY <2>3, <2>4
<1>12. frozen[u][a] >= n
  <2> DEFINE S == {p}
             f == Held
  <2>1. S \in SUBSET OrdersOf(u, a) /\ f[p] \in Int /\ \A z \in S : f[z] \in Int /\ f[z] <= Held[z]
    BY <1>5, <1>9
  <2> HIDE DEF f
  <2>2. frozen[u][a] >= SumFunctionOnSet(f, S)
    BY <1>5, <2>1, FrozenCovers
  <2>3. SumFunctionOnSet(f, {p}) = f[p]
    BY <2>1, SumOne
  <2>4. frozen[u][a] \in Nat
    BY <1>1, <1>5, StoreFacts DEF LedgerTypeOK
  <2> HIDE DEF t, u, a, n, C, left
  <2> QED BY <1>8, <1>9, <1>10, <1>11, <2>1, <2>2, <2>3, <2>4 DEF f
<1>13. available[u][a] >= n
  <2> DEFINE S == OrdersOf(u, a)
             f == Claimed
             g == [f EXCEPT ![p] = @ + n]
             h == Twice
  <2>1. Spent[p] + n <= C(Sold[p] + t.quantity)
    <3>1. Spent[p] <= C(Sold[p])
      BY <1>3, SerialFacts DEF PostedOK
    <3> QED BY <1>2, <1>6, <3>1, UseWithinLimit
  <2>2. IsFiniteSet(Orders) /\ S \in SUBSET Orders /\ IsFiniteSet(S)
    BY <1>1, OrdersOfFacts, FS_Subset
  <2>3. f \in [Orders -> Int] /\ \A z \in Orders : f[z] \in Nat
    BY <1>1, ClaimedType
  <2>4. /\ \A z \in Orders : f[z] \in Int /\ g[z] \in Int
        /\ \A z \in Orders \ {p} : g[z] = f[z]
        /\ g[p] = f[p] + n
    <3> HIDE DEF f, n
    <3> QED BY <1>3, <1>8, <2>3 DEF n
  <2>5. \A z \in S : h[z] \in Int /\ h[z] >= 0 /\ g[z] <= h[z]
    <3> SUFFICES ASSUME NEW z \in S PROVE h[z] \in Int /\ h[z] >= 0 /\ g[z] <= h[z]
      OBVIOUS
    <3> DEFINE c == CollateralAmount(req[z], req[z].quantity)
    <3>1. z \in Orders
      BY <2>2
    <3>2. /\ c \in Nat /\ Locked[z] \in Nat /\ Spent[z] \in Nat /\ f[z] = Locked[z] + Spent[z]
          /\ Locked[z] <= c /\ Spent[z] <= c
      BY <3>1, ClaimedAtMost
    <3>3. h[z] = 2 * c
      BY <3>1 DEF Twice
    <3>4. CASE z = p
      <4>1. c = C(size)
        BY <3>4
      <4> HIDE DEF f, g, h, c, n, C, size, t
      <4> QED BY <1>8, <1>10, <2>1, <2>4, <3>2, <3>3, <3>4, <4>1
    <3>5. CASE z # p
      <4>1. g[z] = f[z]
        BY <2>4, <3>1, <3>5
      <4> HIDE DEF f, g, h, c
      <4> QED BY <3>2, <3>3, <4>1
    <3> QED BY <3>4, <3>5
  <2>6. Funding[a] <= available[u][a] + SumFunctionOnSet(f, S)
    BY <1>5 DEF FundsLeft
  <2>7. SumFunctionOnSet(h, S) <= Funding[a]
    BY <1>5 DEF FundsForAll
  <2>8. available[u][a] \in Nat /\ Funding[a] \in Nat /\ p \in S
    BY <1>1, <1>5, StoreFacts, AccountsAssumption DEF LedgerTypeOK
  <2> HIDE DEF f, g, h, S, u, a
  <2>9. SumFunctionOnSet(g, S) = SumFunctionOnSet(f, S) + (IF p \in S THEN g[p] - f[p] ELSE 0)
    <3>1. DifferAt(Orders, f, g, p)
      BY <1>3, <2>2, <2>4 DEF DifferAt
    <3> QED BY <2>2, <3>1, SumMoves
  <2>10. SumFunctionOnSet(g, S) <= SumFunctionOnSet(h, S)
    <3>1. \A z \in S : g[z] \in Int
      BY <2>2, <2>4
    <3>2. S \in SUBSET S
      OBVIOUS
    <3> QED BY <2>2, <2>5, <3>1, <3>2, SumAtMost
  <2>11. SumFunctionOnSet(f, S) \in Int /\ SumFunctionOnSet(h, S) \in Int
    BY <2>2, <2>4, <2>5, SumIsInt
  <2>12. g[p] - f[p] = n
    <3>1. f[p] \in Int
      BY <1>3, <2>3
    <3> HIDE DEF n
    <3> QED BY <1>8, <2>4, <3>1
  <2> HIDE DEF n
  <2> QED BY <1>8, <2>6, <2>7, <2>8, <2>9, <2>10, <2>11, <2>12
<1> QED BY <1>4, <1>5, <1>12, <1>13

\* Both balances of both parties bear the next settlement.
LEMMA SettlementGoesThrough ==
    ASSUME Base # Quote, SerialState, NextIsNew, FundsLeft, FundsForAll
    PROVE  SettlementsGoThrough
<1> SUFFICES ASSUME NEW o \in Orders, place[o].at = "settle"
             PROVE  LET t == TheTrade(o)
                        buyer == req[t.buy].user
                        seller == req[t.sell].user
                        n == t.price * t.quantity
                    IN  SettleTradeOK(TradeLegs(buyer, seller, Base, Quote, t.quantity, n),
                                      TradeRelease(buyer, seller, Base, Quote, t.quantity, n))
  BY DEF SettlementsGoThrough
<1> DEFINE t == TheTrade(o)
           buyer == req[t.buy].user
           seller == req[t.sell].user
           q == t.quantity
           n == t.price * q
           legs == TradeLegs(buyer, seller, Base, Quote, q, n)
           release == TradeRelease(buyer, seller, Base, Quote, q, n)
           X(w, b) == IF w = buyer /\ b = Quote THEN n ELSE 0
           Y(w, b) == IF w = seller /\ b = Base THEN q ELSE 0
<1>1. FlowConsistent
  BY SerialFacts
<1>2. /\ t \in Trade /\ {t.buy, t.sell} = {o, Maker(o)} /\ Maker(o) # o /\ HasSides(t, req)
  BY MakerIsFair DEF Working
<1>3. t.buy # t.sell /\ q \in Nat /\ t.price \in Nat
  <2>1. q \in Nat /\ t.price \in Nat
    BY <1>2 DEF Trade
  <2>2. t.buy # t.sell
    <3> HIDE DEF t
    <3> QED BY <1>2
  <2> QED BY <2>1, <2>2
<1>4. n \in Nat
  BY <1>3, MulNat
<1>5. Use(t, t.buy) = n /\ Use(t, t.sell) = q
  BY <1>3 DEF Use
<1>6. CollateralAsset(req[t.buy]) = Quote /\ CollateralAsset(req[t.sell]) = Base
  BY <1>2 DEF HasSides, CollateralAsset
<1>7. buyer \in users /\ frozen[buyer][Quote] >= n /\ available[buyer][Quote] >= n
  BY <1>5, <1>6, PartyHasFunds
<1>8. seller \in users /\ frozen[seller][Base] >= q /\ available[seller][Base] >= q
  BY <1>5, <1>6, PartyHasFunds
<1>9. /\ \A w \in Users, b \in {Base, Quote} : available[w][b] \in Nat /\ frozen[w][b] \in Nat
  BY <1>1, StoreFacts DEF LedgerTypeOK
<1>10. Len(legs) = 4 /\ Len(release) = 2
       /\ (\A k \in 1..4 : legs[k].user \in {buyer, seller})
       /\ (\A k \in 1..2 : release[k].user \in {buyer, seller})
  BY DEF TradeLegs, TradeRelease
<1> HIDE DEF t, q, n, buyer, seller, legs, release
<1>11. ASSUME NEW w \in Users, NEW b \in {Base, Quote}
       PROVE  X(w, b) + Y(w, b) \in Nat /\ X(w, b) + Y(w, b) <= available[w][b]
              /\ X(w, b) + Y(w, b) <= frozen[w][b]
  <2>1. CASE w = buyer /\ b = Quote
    BY <1>3, <1>4, <1>7, <1>9, <2>1
  <2>2. CASE w = seller /\ b = Base
    BY <1>3, <1>4, <1>8, <1>9, <2>2
  <2>3. CASE ~(w = buyer /\ b = Quote) /\ ~(w = seller /\ b = Base)
    BY <1>9, <2>3
  <2> QED BY <2>1, <2>2, <2>3
<1>12. LegsApply(legs)
  <2>1. ASSUME NEW k \in 0..4, NEW w \in Users, NEW b \in {Base, Quote}
        PROVE  available[w][b] + RowSum(legs, k, w, b) \in Nat
    <3> DEFINE row == RowSum(legs, k, w, b)
               loss == X(w, b) + Y(w, b)
    <3>1. row \in Int /\ row >= -loss
      BY <1>3, <1>4, LegsRow DEF legs
    <3>2. loss \in Nat /\ loss <= available[w][b] /\ available[w][b] \in Nat
      BY <1>9, <1>11
    <3> HIDE DEF row, loss
    <3>3. available[w][b] + row \in Nat
      BY <3>1, <3>2
    <3> QED BY <3>3 DEF row
  <2> QED BY <1>7, <1>8, <1>10, <2>1 DEF LegsApply
<1>13. ReleasesApply(release)
  <2>1. ASSUME NEW k \in 0..2, NEW w \in Users, NEW b \in {Base, Quote}
        PROVE  frozen[w][b] - RowSum(release, k, w, b) \in Nat
    <3> DEFINE row == RowSum(release, k, w, b)
               loss == X(w, b) + Y(w, b)
    <3>1. row \in Int /\ row <= loss
      BY <1>3, <1>4, ReleasePart DEF release
    <3>2. loss \in Nat /\ loss <= frozen[w][b] /\ frozen[w][b] \in Nat
      BY <1>9, <1>11
    <3> HIDE DEF row, loss
    <3>3. frozen[w][b] - row \in Nat
      BY <3>1, <3>2
    <3> QED BY <3>3 DEF row
  <2> QED BY <1>7, <1>8, <1>10, <2>1 DEF ReleasesApply
<1>14. verifyLedgerBalance(legs)
  BY <1>3, <1>4, LegsBalance DEF legs
<1>15. SettleTradeOK(legs, release)
  BY <1>10, <1>12, <1>13, <1>14 DEF SettleTradeOK
<1> QED BY <1>15 DEF legs, release, n, q, buyer, seller, t

LEMMA RequestsStay == [LifeNext]_lifeVars => req' = req
<1> SUFFICES ASSUME [LifeNext]_lifeVars PROVE req' = req
  OBVIOUS
<1>1. CASE UNCHANGED lifeVars
  BY <1>1 DEF lifeVars, flowVars
<1>2. CASE StopEngine \/ StartEngine
  BY <1>2 DEF StopEngine, StartEngine
<1>3. ASSUME NEW o \in Orders, BookStep(o) \/ LifePlace(o) \/ CancelStep(o) PROVE req' = req
  <2>1. CASE BookStep(o)
    BY <2>1 DEF BookStep
  <2>2. CASE PlaceStep(o) \/ CancelStep(o)
    BY <2>2, RequestBook
  <2>3. CASE SubmitRefused(o) \/ SubmitReset(o)
    BY <2>3 DEF SubmitRefused, SubmitReset
  <2> QED BY <1>3, <2>1, <2>2, <2>3 DEF LifePlace
<1> QED BY <1>1, <1>2, <1>3 DEF LifeNext

LEMMA FundsForAllStays == FundsForAll /\ [LifeNext]_lifeVars => FundsForAll'
<1> SUFFICES ASSUME FundsForAll, [LifeNext]_lifeVars PROVE FundsForAll'
  OBVIOUS
<1>1. req' = req
  BY RequestsStay
<1>2. Twice' = Twice /\ \A u, a : OrdersOf(u, a)' = OrdersOf(u, a)
  BY <1>1 DEF Twice, OrdersOf, CollateralAmount, CollateralAsset
<1> QED BY <1>2 DEF FundsForAll

\* Requests that come one at a time, do not fail and are placed by users with
\* funds for twice the collateral of their orders: settleMatch finds the
\* funds of every trade, however the orders meet, are cancelled and placed,
\* and whenever the engine stops in between.
THEOREM FundedOrdersSettle ==
    ASSUME Serial, Base # Quote
    PROVE  LifeSpec /\ FundsForAll => []SettlementsGoThrough
<1>1. LifeInit /\ LifeConsistent => SerialConsistent
  BY SerialStarts DEF LifeInit, LifeConsistent
<1>2. ASSUME LifeConsistent, HeldConsistent, SerialConsistent, FundsLeft /\ NextIsNew, FundsForAll
      PROVE  SettlementsGoThrough
  <2>1. SerialState
    BY <1>2 DEF SerialState, LifeConsistent
  <2> QED BY <1>2, <2>1, SettlementGoesThrough
<1>3. ASSUME SettlementsGoThrough, LifeConsistent, LifeConsistent', HeldConsistent,
             SerialConsistent, [LifeNext]_lifeVars
      PROVE  SerialConsistent'
  BY <1>3, SerialStep
<1> QED BY <1>1, <1>2, <1>3, FundsForAllStays, LifeIsConsistent, FundsAreHeld, FundsAreLeft, PTL DEF LifeSpec

\* For such requests: resting orders are backed by frozen funds at every
\* moment,
THEOREM FundedCollateralIsFrozen ==
    ASSUME Serial, Base # Quote
    PROVE  LifeSpec /\ FundsForAll => []CollateralCoversBook
BY FundedOrdersSettle, CollateralIsFrozen, PTL

\* the open orders of a user can all be cancelled without touching what is
\* frozen for others, also after the engine has stopped and forgotten them,
THEOREM FundedCancellationsAreCovered ==
    ASSUME Serial, Base # Quote
    PROVE  LifeSpec /\ FundsForAll => []OpenOrdersHoldTheirCollateral
BY FundedOrdersSettle, CancellationsAreCovered, PTL

\* and the store agrees with the book whenever no request is on its way, as
\* long as the engine has not stopped.
THEOREM FundedStoreFollowsTheBook ==
    ASSUME Serial, Base # Quote
    PROVE  LifeSpec /\ FundsForAll => []StoreAgreesWithLivingBook
BY FundedOrdersSettle, StoreFollowsTheBook, PTL

\* A confirmed cancellation returns all that is left of the collateral, when
\* the fills are at the buyer's limit: no price improvement stays frozen.
THEOREM FundedCancellationReturnsTheRest ==
    ASSUME Serial, Base # Quote
    PROVE  LifeSpec /\ FundsForAll /\ []FillsAtLimit => []CancelReturnsCollateral
BY FundedOrdersSettle, CancellationReturnsTheRest, PTL
=============================================================================
