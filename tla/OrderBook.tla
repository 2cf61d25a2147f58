----------------------------- MODULE OrderBook -----------------------------
(***************************************************************************)
(* The price-time priority book of packages/matching/book.go for one       *)
(* symbol of one venue, with the matching-engine handler goroutines that   *)
(* call it.  Book.mu makes Match and Cancel critical sections; the handler *)
(* stamps CreatedAt before it competes for the mutex, so the order of the  *)
(* stamps and the order of the critical sections may differ.  Every        *)
(* iteration of the loops in matchBuy and matchSell is one step, taken     *)
(* while the mutex is held.                                                *)
(*                                                                         *)
(* Prices and quantities are small naturals; price 0 is a market order.    *)
(* Order ids are fresh UUIDs in the callers, so an id is submitted once.   *)
(***************************************************************************)
EXTENDS Integers, Sequences, Functions

CONSTANTS
    Orders,      \* order ids
    Prices,      \* limit prices
    Quantities,  \* order quantities
    TradeCap,    \* trades kept by the book (500 in the code)
    MaxClock,    \* bound on the readings of time.Now()
    None         \* "no goroutine holds the mutex"

ASSUME PricesAssumption == Prices \subseteq Nat \ {0}
ASSUME QuantitiesAssumption == Quantities \subseteq Nat \ {0}
ASSUME TradeCapAssumption == TradeCap \in Nat \ {0}
ASSUME MaxClockAssumption == MaxClock \in Nat
ASSUME NoneAssumption == None \notin Orders

Market == 0
Sides == {"BUY", "SELL"}

VARIABLES
    order,      \* the immutable fields of each Order
    remaining,  \* Order.Remaining, mutated in place by fillAgainst
    bids, asks, \* the resting orders, best first
    trades,     \* Book.trades, the capped list behind RecentTrades
    fills,      \* local variable `trades` of the running Match
    mu,         \* holder of Book.mu
    pc,         \* where the submitOrder goroutine of each order is
    cancelled,  \* orders that Cancel found and returned
    tape,       \* history: all the trades ever made, oldest first
    clock       \* the latest reading of time.Now()

bookVars == <<order, remaining, bids, asks, trades, fills, mu, pc,
              cancelled, tape, clock>>

OrderFields == [side : Sides, price : Prices \cup {Market},
                quantity : Quantities \cup {0}, createdAt : 0..MaxClock]
Trade == [buy : Orders, sell : Orders, price : Nat, quantity : Nat]

Unsubmitted == [side |-> "BUY", price |-> Market, quantity |-> 0, createdAt |-> 0]

BookTypeOK ==
    /\ order \in [Orders -> OrderFields]
    /\ remaining \in [Orders -> Nat]
    /\ bids \in Seq(Orders)
    /\ asks \in Seq(Orders)
    /\ trades \in Seq(Trade)
    /\ fills \in Seq(Trade)
    /\ mu \in Orders \cup {None}
    /\ pc \in [Orders -> {"idle", "stamped", "matching", "returned"}]
    /\ cancelled \subseteq Orders
    /\ tape \in Seq(Trade)
    /\ clock \in 0..MaxClock

\* NewBook: an empty book.
BookInit ==
    /\ order = [o \in Orders |-> Unsubmitted]
    /\ remaining = [o \in Orders |-> 0]
    /\ bids = <<>>
    /\ asks = <<>>
    /\ trades = <<>>
    /\ fills = <<>>
    /\ mu = None
    /\ pc = [o \in Orders |-> "idle"]
    /\ cancelled = {}
    /\ tape = <<>>
    /\ clock = 0

-----------------------------------------------------------------------------
(* Helpers *)

isMarket(o) == order[o].price = Market

\* The comparison of insertResting: TRUE when a must precede b on its side.
Before(a, b) ==
    IF order[a].price = order[b].price
      THEN order[a].createdAt < order[b].createdAt
      ELSE IF order[a].side = "BUY" THEN order[a].price > order[b].price
                                    ELSE order[a].price < order[b].price

\* sort.Slice promises an order without inversions; it is not stable, so
\* orders that compare equal may end up in any order.
Sorted(s) == \A i, j \in 1..Len(s) : i < j => ~Before(s[j], s[i])

\* Mutant: the sort is forgotten.
Sorts_appendOnly(s) == {s}

Sorts(s) == {t \in Bijection(1..Len(s), Range(s)) : Sorted(t)}

SideOf(o) == IF order[o].side = "BUY" THEN bids ELSE asks
Opposite(o) == IF order[o].side = "BUY" THEN asks ELSE bids

\* Mutant: equal prices do not cross.
Crosses_strict(o, best) ==
    \/ isMarket(o)
    \/ IF order[o].side = "BUY" THEN order[o].price > order[best].price
                                ELSE order[o].price < order[best].price

\* The incoming order accepts the best resting order's price.
Crosses(o, best) ==
    \/ isMarket(o)
    \/ IF order[o].side = "BUY" THEN order[o].price >= order[best].price
                                ELSE order[o].price <= order[best].price

\* The loop condition of matchBuy and matchSell, with its break.
CanFill(o) ==
    /\ remaining[o] > 0
    /\ Opposite(o) # <<>>
    /\ Crosses(o, Head(Opposite(o)))

\* Mutant: always the buyer's price.
TradePrice_buyers(buy, sell) == order[buy].price

\* fillAgainst prices a trade at the seller's limit, whoever came first; a
\* market seller takes the buyer's.
TradePrice(buy, sell) ==
    IF isMarket(sell) THEN order[buy].price ELSE order[sell].price

\* Mutant: the larger remainder is traded.
MinOf_larger(a, b) == IF a < b THEN b ELSE a

MinOf(a, b) == IF a < b THEN a ELSE b

Fill(o, best) ==
    LET buy  == IF order[o].side = "BUY" THEN o ELSE best
        sell == IF order[o].side = "BUY" THEN best ELSE o
    IN  [buy |-> buy, sell |-> sell, price |-> TradePrice(buy, sell),
         quantity |-> MinOf(remaining[o], remaining[best])]

\* The last n elements of s.
LastN(s, n) == SubSeq(s, IF Len(s) > n THEN Len(s) - n + 1 ELSE 1, Len(s))

\* Mutant: Cancel drops the head instead of the order it found.
DropAt_head(s, i) == Tail(s)

\* append(s[:i], s[i+1:]...) of Cancel.
DropAt(s, i) == [j \in 1..(Len(s) - 1) |-> s[IF j < i THEN j ELSE j + 1]]
-----------------------------------------------------------------------------
(* Actions *)

\* submitOrder up to the call of Match: the order is built and stamped with
\* time.Now(), which never runs backwards but may read the same twice.
Submit(o, side, price, quantity, now) ==
    /\ pc[o] = "idle"
    /\ clock' = now
    /\ order' = [order EXCEPT ![o] = [side |-> side, price |-> price,
                              quantity |-> quantity, createdAt |-> now]]
    /\ remaining' = [remaining EXCEPT ![o] = quantity]
    /\ pc' = [pc EXCEPT ![o] = "stamped"]
    /\ UNCHANGED <<bids, asks, trades, fills, mu, cancelled, tape>>

\* Match: b.mu.Lock() and the local `var trades`.
MatchLock(o) ==
    /\ pc[o] = "stamped"
    /\ mu = None
    /\ mu' = o
    /\ fills' = <<>>
    /\ pc' = [pc EXCEPT ![o] = "matching"]
    /\ UNCHANGED <<order, remaining, bids, asks, trades, cancelled, tape, clock>>

\* Mutant: only the incoming order loses what was traded.
MatchFill_makerUntouched(o) ==
    /\ mu = o
    /\ CanFill(o)
    /\ LET best == Head(Opposite(o))
           f    == Fill(o, best)
       IN  /\ remaining' = [remaining EXCEPT ![o] = @ - f.quantity]
           /\ fills' = Append(fills, f)
           /\ tape' = Append(tape, f)
    /\ UNCHANGED <<order, bids, asks, trades, mu, pc, cancelled, clock>>

\* Mutant: the scan starts from the worst of the crossing orders.
MatchFill_worstFirst(o) ==
    /\ mu = o
    /\ CanFill(o)
    /\ LET opp  == Opposite(o)
           i    == CHOOSE i \in DOMAIN opp :
                      /\ Crosses(o, opp[i])
                      /\ \A j \in DOMAIN opp : j > i => ~Crosses(o, opp[j])
           f    == Fill(o, opp[i])
           rest == IF remaining[opp[i]] = f.quantity THEN DropAt(opp, i) ELSE opp
       IN  /\ remaining' = [remaining EXCEPT ![o] = @ - f.quantity,
                                             ![opp[i]] = @ - f.quantity]
           /\ IF order[o].side = "BUY" THEN asks' = rest /\ bids' = bids
                                       ELSE bids' = rest /\ asks' = asks
           /\ fills' = Append(fills, f)
           /\ tape' = Append(tape, f)
    /\ UNCHANGED <<order, trades, mu, pc, cancelled, clock>>

\* One iteration of matchBuy or matchSell with its fillAgainst: the best
\* resting order leaves its side when it is exhausted.
MatchFill(o) ==
    /\ mu = o
    /\ CanFill(o)
    /\ LET best == Head(Opposite(o))
           f    == Fill(o, best)
           rest == IF remaining[best] = f.quantity
                     THEN Tail(Opposite(o)) ELSE Opposite(o)
       IN  /\ remaining' = [remaining EXCEPT ![o] = @ - f.quantity,
                                             ![best] = @ - f.quantity]
           /\ IF order[o].side = "BUY" THEN asks' = rest /\ bids' = bids
                                       ELSE bids' = rest /\ asks' = asks
           /\ fills' = Append(fills, f)
           /\ tape' = Append(tape, f)
    /\ UNCHANGED <<order, trades, mu, pc, cancelled, clock>>

\* insertResting: append to the own side and sort it.
insertResting(o) ==
    \E s \in Sorts(Append(SideOf(o), o)) :
        IF order[o].side = "BUY" THEN bids' = s /\ asks' = asks
                                 ELSE asks' = s /\ bids' = bids

\* The rest of Match after the loop: record the trades, rest the remainder
\* of a limit order, unlock.
MatchReturn(o) ==
    /\ mu = o
    /\ ~CanFill(o)
    /\ trades' = LastN(trades \o fills, TradeCap)
    /\ IF remaining[o] > 0 /\ ~isMarket(o)
         THEN insertResting(o)
         ELSE UNCHANGED <<bids, asks>>
    /\ mu' = None
    /\ pc' = [pc EXCEPT ![o] = "returned"]
    /\ UNCHANGED <<order, remaining, fills, cancelled, tape, clock>>

\* Cancel: removes a resting order; an id that is not on the book changes
\* nothing (the handler answers "order not on book").
Cancel(o) ==
    /\ mu = None
    /\ \/ \E i \in DOMAIN bids : /\ bids[i] = o
                                /\ bids' = DropAt(bids, i)
                                /\ asks' = asks
       \/ \E i \in DOMAIN asks : /\ asks[i] = o
                                /\ asks' = DropAt(asks, i)
                                /\ bids' = bids
    /\ cancelled' = cancelled \cup {o}
    /\ UNCHANGED <<order, remaining, trades, fills, mu, pc, tape, clock>>

BookNext ==
    \/ \E o \in Orders, side \in Sides, p \in Prices \cup {Market},
          q \in Quantities, now \in clock..MaxClock : Submit(o, side, p, q, now)
    \/ \E o \in Orders : MatchLock(o)
    \/ \E o \in Orders : MatchFill(o)
    \/ \E o \in Orders : MatchReturn(o)
    \/ \E o \in Orders : Cancel(o)

\* A goroutine that has entered submitOrder keeps running, and sync.Mutex
\* does not starve a waiter.
BookFairness ==
    \A o \in Orders : /\ SF_bookVars(MatchLock(o))
                      /\ WF_bookVars(MatchFill(o))
                      /\ WF_bookVars(MatchReturn(o))

BookSpec == BookInit /\ [][BookNext]_bookVars /\ BookFairness
-----------------------------------------------------------------------------
(* Properties *)

Resting == Range(bids) \cup Range(asks)

\* Each side holds its own orders, best price first and earlier CreatedAt
\* first within a price, whatever order the goroutines got the mutex in:
\* docs/matching-design.md, "Same price level: earlier `CreatedAt` wins".
PriceTimeSorted ==
    /\ Sorted(bids) /\ \A o \in Range(bids) : order[o].side = "BUY"
    /\ Sorted(asks) /\ \A o \in Range(asks) : order[o].side = "SELL"

\* The book never shows a bid at or above an ask: Match rests a remainder only
\* after it has taken everything that crosses.
Uncrossed ==
    \A b \in Range(bids), a \in Range(asks) : order[b].price < order[a].price

\* After Match has returned, an order is on the book, once, exactly when a
\* limit order has something left and nobody cancelled it: no resting order
\* is lost by a pop, a sort or a cancellation and no exhausted one lingers.
OnBookExactlyWhileOpen ==
    /\ \A s \in {bids, asks} : IsInjective(s)
    /\ \A o \in Orders :
         o \in Resting <=> /\ pc[o] = "returned"
                          /\ remaining[o] > 0
                          /\ ~isMarket(o)
                          /\ o \notin cancelled

\* What the trades on the tape took from an order.
Traded(o) ==
    SumFunction([i \in DOMAIN tape |->
        IF o \in {tape[i].buy, tape[i].sell} THEN tape[i].quantity ELSE 0])

\* The trades account for every unit an order has lost: fillAgainst takes
\* the same quantity from both sides and never more than either has.
QuantityConserved ==
    \A o \in Orders : Traded(o) + remaining[o] = order[o].quantity

\* Every trade is between a buyer and a seller at a positive price neither
\* limit forbids, although fillAgainst prices at the seller's limit even
\* when the seller is the taker.
TradesWithinLimits ==
    \A i \in DOMAIN tape :
        LET t == tape[i] IN
        /\ order[t.buy].side = "BUY" /\ order[t.sell].side = "SELL"
        /\ t.quantity > 0 /\ t.price > 0
        /\ isMarket(t.buy) \/ t.price <= order[t.buy].price
        /\ isMarket(t.sell) \/ t.price >= order[t.sell].price

\* RecentTrades serves the newest trades of the tape, whole matches in
\* order, through the cap of Match, and never more than the cap.
RecentTradesAreTheNewest ==
    mu = None =>
        /\ Len(trades) = IF Len(tape) < TradeCap THEN Len(tape) ELSE TradeCap
        /\ \A i \in DOMAIN trades : trades[i] = tape[Len(tape) - Len(trades) + i]

\* A step never takes from a resting order while another order of its side
\* has the better claim (a better price, or the same price and an earlier
\* CreatedAt).
PriceTimePriority ==
    [][\A m, n \in Resting :
         order[m].side = order[n].side /\ remaining'[m] < remaining[m]
           => ~Before(n, m)]_bookVars

\* An order that Cancel has returned never trades again and never comes back
\* to the book.
CancelIsFinal ==
    [][\A o \in cancelled : remaining'[o] = remaining[o] /\ o \notin Resting']_bookVars

\* What makes the properties above inductive: only the holder of the mutex
\* is inside Match, only an answered order can have been cancelled, and an
\* order that was never submitted is not on the tape.
Bookkeeping ==
    /\ \A o \in Orders : pc[o] = "matching" <=> mu = o
    /\ \A o \in cancelled : pc[o] = "returned"
    /\ \A i \in DOMAIN tape : pc[tape[i].buy] # "idle" /\ pc[tape[i].sell] # "idle"

BookInv ==
    /\ BookTypeOK
    /\ Bookkeeping
    /\ PriceTimeSorted
    /\ Uncrossed
    /\ OnBookExactlyWhileOpen
    /\ TradesWithinLimits

\* Every order that reaches the handler is answered: the matching loop ends
\* and the mutex is handed on.
EverySubmitReturns ==
    \A o \in Orders : pc[o] = "stamped" ~> pc[o] = "returned"
=============================================================================
