----------------------------- MODULE OrderFlow ------------------------------
(***************************************************************************)
(* packages/orderflow: the order-service requests that tie the order       *)
(* store, the account service and the matching engine together.  PlaceOrder *)
(* and CancelOrder are sequences of remote calls, one step per call, and    *)
(* the requests of different orders, and the cancellation of an order and   *)
(* its own placement, interleave between the calls.  The book is OrderBook, *)
(* the account service is Ledger.                                           *)
(*                                                                          *)
(* A request stops where it is when the client disconnects (every later     *)
(* call fails with the cancelled r.Context()), when the process dies, or    *)
(* when a call fails whose error the code returns; MaxFaults bounds these   *)
(* and the failures the code compensates or ignores.                        *)
(***************************************************************************)
EXTENDS OrderBook, FiniteSets

CONSTANTS
    Users, Seeded, Base, Quote, Funding,
    Requests,     \* the place-order payloads that arrive
    MaxInFlight,  \* requests handled at the same time
    MaxFaults     \* calls that fail or requests that stop half-way

ASSUME RequestsAssumption ==
    Requests \subseteq [user : Users, side : Sides, price : Prices \cup {Market},
                        quantity : Quantities]
ASSUME OrdersAssumption == IsFiniteSet(Orders)
ASSUME AccountsAssumption == Seeded \subseteq Users /\ Funding \in [{Base, Quote} -> Nat]
ASSUME MaxInFlightAssumption == MaxInFlight \in Nat \ {0}
ASSUME MaxFaultsAssumption == MaxFaults \in Nat

VARIABLES
    users, available, frozen, entries,  \* the account service, see Ledger
    req,        \* the payload of each order
    status,     \* orders.status, "NOROW" before CreateOrder
    filledQty,  \* orders.filled_qty
    tradeRows,  \* rows of the trades table: k-th trade of a taker's match
    resp,       \* the matching engine's answer to each order
    place,      \* local state of PlaceOrder
    cancel,     \* local state of CancelOrder
    faults

INSTANCE Ledger WITH
    Assets <- {Base, Quote}, RefIds <- Orders,
    TradeIds <- Orders \X (1..Cardinality(Orders)),
    Amounts <- {}, Settlements <- {}

accountVars == <<users, available, frozen, entries>>
storeVars == <<status, filledQty, tradeRows>>
flowVars == <<bookVars, accountVars, storeVars, req, resp, place, cancel, faults>>

Ended == {"idle", "done", "failed"}
Open == {"NEW", "PARTIALLY_FILLED"}

FlowTypeOK ==
    /\ BookTypeOK
    /\ LedgerTypeOK
    /\ req \in [Orders -> Requests]
    /\ status \in [Orders -> Open \cup {"NOROW", "FILLED", "CANCELLED"}]
    /\ filledQty \in [Orders -> Nat]
    /\ tradeRows \subseteq Orders \X Nat
    /\ resp \in [Orders -> [trades : Seq(Trade), resting : BOOLEAN]]
    /\ place \in [Orders -> [at : Ended \cup {"create", "undo", "submit", "await",
                                    "settle", "insert", "read", "update", "own", "release"},
                             k : Nat, filled : Nat, seen : Nat]]
    /\ cancel \in [Orders -> [at : Ended \cup {"book", "unfreeze", "mark"}, filled : Nat]]
    /\ faults \in 0..MaxFaults

FlowInit ==
    /\ BookInit
    /\ LedgerInit
    /\ req \in [Orders -> Requests]
    /\ status = [o \in Orders |-> "NOROW"]
    /\ filledQty = [o \in Orders |-> 0]
    /\ tradeRows = {}
    /\ resp = [o \in Orders |-> [trades |-> <<>>, resting |-> FALSE]]
    /\ place = [o \in Orders |-> [at |-> "idle", k |-> 0, filled |-> 0, seen |-> 0]]
    /\ cancel = [o \in Orders |-> [at |-> "idle", filled |-> 0]]
    /\ faults = 0
-----------------------------------------------------------------------------
(* Helpers *)

\* collateralForOrder: quote for a buy, base for a sell.
CollateralAsset(r) == IF r.side = "BUY" THEN Quote ELSE Base
CollateralAmount(r, quantity) ==
    IF r.side = "BUY" THEN quantity * r.price ELSE quantity

\* collateralForOrder refuses a market buy.
Accepted(r) == ~(r.side = "BUY" /\ r.price = Market)

TheTrade(o) == resp[o].trades[place[o].k]
Maker(o) == IF TheTrade(o).buy = o THEN TheTrade(o).sell ELSE TheTrade(o).buy

\* Mutants: the last fill does not complete the order; any fill does.
FillStatus_strict(filled, quantity) ==
    IF filled > quantity THEN "FILLED" ELSE "PARTIALLY_FILLED"

FillStatus_anyFill(filled, quantity) ==
    IF filled > 0 THEN "FILLED" ELSE "PARTIALLY_FILLED"

FillStatus(filled, quantity) ==
    IF filled >= quantity THEN "FILLED" ELSE "PARTIALLY_FILLED"

InFlight == Cardinality({o \in Orders : place[o].at \notin Ended})
            + Cardinality({o \in Orders : cancel[o].at \notin Ended})

Goto(o, at) == place' = [place EXCEPT ![o].at = at]
CancelGoto(o, at) == cancel' = [cancel EXCEPT ![o].at = at]

Fault == faults < MaxFaults /\ faults' = faults + 1

\* A call that may fail and then has no effect: done, or lost by a fault.
Try(effect, unchanged) == \/ effect /\ UNCHANGED faults
                          \/ unchanged /\ Fault

\* An Unfreeze whose error the code ignores.
UnfreezeIfPossible(u, a, n, ref) ==
    IF UnfreezeOK(u, a, n, ref) THEN Unfreeze(u, a, n, ref) ELSE UNCHANGED accountVars
-----------------------------------------------------------------------------
(* PlaceOrder *)

\* Validation and Account.Freeze; an error (not enough available) ends it.
PlaceFreeze(o) ==
    LET r == req[o]
        asset == CollateralAsset(r)
        amount == CollateralAmount(r, r.quantity)
    IN  /\ place[o].at = "idle"
        /\ InFlight < MaxInFlight
        /\ Accepted(r)
        /\ \/ Freeze(r.user, asset, amount, o) /\ Goto(o, "create")
           \/ /\ ~FreezeOK(r.user, asset, amount, o)
              /\ Goto(o, "failed")
              /\ UNCHANGED accountVars
        /\ UNCHANGED <<bookVars, storeVars, req, resp, cancel, faults>>

\* Store.CreateOrder; an error is followed by Unfreeze.
CreateOrder(o) ==
    /\ place[o].at = "create"
    /\ \/ /\ status' = [status EXCEPT ![o] = "NEW"]
          /\ Goto(o, "submit")
          /\ UNCHANGED faults
       \/ Fault /\ Goto(o, "undo") /\ UNCHANGED status
    /\ UNCHANGED <<bookVars, accountVars, filledQty, tradeRows, req, resp, cancel>>

\* Mutant: the compensation has a reference of its own.
PlaceUndo_ownRef(o) ==
    LET r == req[o] IN
    /\ place[o].at = "undo"
    /\ UnfreezeIfPossible(r.user, CollateralAsset(r), CollateralAmount(r, r.quantity), <<o>>)
    /\ Goto(o, "failed")
    /\ UNCHANGED <<bookVars, storeVars, req, resp, cancel, faults>>

\* Unfreeze of the whole collateral after CreateOrder or SubmitOrder failed,
\* its error ignored; an Unfreeze that is lost is PlaceAbandoned.
PlaceUndo(o) ==
    LET r == req[o] IN
    /\ place[o].at = "undo"
    /\ UnfreezeIfPossible(r.user, CollateralAsset(r), CollateralAmount(r, r.quantity), o)
    /\ Goto(o, "failed")
    /\ UNCHANGED <<bookVars, storeVars, req, resp, cancel, faults>>

\* Matching.SubmitOrder: the request reaches the matching engine, or not.
SubmitOrder(o) ==
    /\ place[o].at = "submit"
    /\ \/ /\ \E now \in clock..MaxClock :
                 Submit(o, req[o].side, req[o].price, req[o].quantity, now)
          /\ Goto(o, "await")
          /\ UNCHANGED faults
       \/ Fault /\ Goto(o, "undo") /\ UNCHANGED bookVars
    /\ UNCHANGED <<accountVars, storeVars, req, resp, cancel>>

\* The client's timeout: the handler in the matching engine goes on.
SubmitTimeout(o) ==
    /\ place[o].at = "await"
    /\ Fault
    /\ Goto(o, "undo")
    /\ UNCHANGED <<bookVars, accountVars, storeVars, req, resp, cancel>>

SubmitAnswered(o) ==
    /\ place[o].at = "await"
    /\ pc[o] = "returned"
    /\ place' = [place EXCEPT ![o].at = IF resp[o].trades = <<>> THEN "own" ELSE "settle",
                              ![o].k = 1]
    /\ UNCHANGED <<bookVars, accountVars, storeVars, req, resp, cancel, faults>>

\* Mutant: a failed settlement is ignored.
SettleMatch_errorIgnored(o) ==
    LET t == TheTrade(o)
        buyer == req[t.buy].user
        seller == req[t.sell].user
        n == t.price * t.quantity
        legs == TradeLegs(buyer, seller, Base, Quote, t.quantity, n)
        release == TradeRelease(buyer, seller, Base, Quote, t.quantity, n)
    IN  /\ place[o].at = "settle"
        /\ Goto(o, "insert")
        /\ \/ SettleTrade(<<o, place[o].k>>, legs, release)
           \/ ~SettleTradeOK(legs, release) /\ UNCHANGED accountVars
        /\ UNCHANGED <<bookVars, storeVars, req, resp, cancel, faults>>

\* settleMatch of the next trade; an error ends PlaceOrder at once.
SettleMatch(o) ==
    LET t == TheTrade(o)
        buyer == req[t.buy].user
        seller == req[t.sell].user
        n == t.price * t.quantity
        legs == TradeLegs(buyer, seller, Base, Quote, t.quantity, n)
        release == TradeRelease(buyer, seller, Base, Quote, t.quantity, n)
    IN  /\ place[o].at = "settle"
        /\ \/ SettleTrade(<<o, place[o].k>>, legs, release) /\ Goto(o, "insert")
           \/ /\ ~SettleTradeOK(legs, release)
              /\ Goto(o, "failed")
              /\ UNCHANGED accountVars
        /\ UNCHANGED <<bookVars, storeVars, req, resp, cancel, faults>>

\* Store.InsertTrade, and the running total of the own fills.
InsertTrade(o) ==
    /\ place[o].at = "insert"
    /\ tradeRows' = tradeRows \cup {<<o, place[o].k>>}
    /\ place' = [place EXCEPT ![o].at = "read",
                              ![o].filled = @ + TheTrade(o).quantity]
    /\ UNCHANGED <<bookVars, accountVars, status, filledQty, req, resp, cancel, faults>>

\* Store.GetOrder of the counterparty: the filled quantity the update adds to.
ReadMaker(o) ==
    /\ place[o].at = "read"
    /\ place' = [place EXCEPT ![o].at = "update", ![o].seen = filledQty[Maker(o)]]
    /\ UNCHANGED <<bookVars, accountVars, storeVars, req, resp, cancel, faults>>

\* Store.UpdateOrderFill of the counterparty, unconditional, error ignored;
\* then the next trade.
UpdateMaker(o) ==
    LET m == Maker(o)
        filled == place[o].seen + TheTrade(o).quantity
    IN  /\ place[o].at = "update"
        /\ Try(/\ filledQty' = [filledQty EXCEPT ![m] = filled]
               /\ status' = [status EXCEPT ![m] = FillStatus(filled, req[m].quantity)],
               UNCHANGED <<filledQty, status>>)
        /\ place' = [place EXCEPT
               ![o].at = IF place[o].k = Len(resp[o].trades) THEN "own" ELSE "settle",
               ![o].k = @ + 1, ![o].seen = 0]
        /\ UNCHANGED <<bookVars, accountVars, tradeRows, req, resp, cancel>>

\* The own status and UpdateOrderFill, unconditional, error ignored.
UpdateOwn(o) ==
    LET filled == place[o].filled
        quantity == req[o].quantity
    IN  /\ place[o].at = "own"
        /\ Try(/\ filledQty' = [filledQty EXCEPT ![o] = filled]
               /\ status' = [status EXCEPT ![o] =
                      IF filled > 0 THEN FillStatus(filled, quantity)
                      ELSE IF resp[o].resting THEN "NEW" ELSE "CANCELLED"],
               UNCHANGED <<filledQty, status>>)
        /\ Goto(o, IF resp[o].resting \/ filled >= quantity THEN "done" ELSE "release")
        /\ UNCHANGED <<bookVars, accountVars, tradeRows, req, resp, cancel>>

\* releaseRemainingFreeze of an order that did not rest (a market sell).
ReleaseRemaining(o) ==
    LET r == req[o]
        asset == CollateralAsset(r)
        amount == CollateralAmount(r, r.quantity - place[o].filled)
    IN  /\ place[o].at = "release"
        /\ \/ Unfreeze(r.user, asset, amount, o) /\ Goto(o, "done")
           \/ /\ ~UnfreezeOK(r.user, asset, amount, o)
              /\ Goto(o, "failed")
              /\ UNCHANGED accountVars
        /\ UNCHANGED <<bookVars, storeVars, req, resp, cancel, faults>>

\* The request stops half-way.
PlaceAbandoned(o) ==
    /\ place[o].at \notin Ended
    /\ Fault
    /\ Goto(o, "failed")
    /\ UNCHANGED <<bookVars, accountVars, storeVars, req, resp, cancel>>
-----------------------------------------------------------------------------
(* CancelOrder *)

\* Store.GetOrder: only an open order is cancelled; its filled quantity is
\* what the rest of the request works with.  A cancellation that failed, or
\* whose answer was lost, may be requested again.
CancelLookup(o) ==
    /\ cancel[o].at \in Ended
    /\ InFlight < MaxInFlight
    /\ status[o] \in Open
    /\ cancel' = [cancel EXCEPT ![o] = [at |-> "book", filled |-> filledQty[o]]]
    /\ UNCHANGED <<bookVars, accountVars, storeVars, req, resp, place, faults>>

\* Matching.CancelOrder: "not on book" and errors are ignored.
CancelOnBook(o) ==
    /\ cancel[o].at = "book"
    /\ Try(Cancel(o) \/ (mu = None /\ o \notin Resting /\ UNCHANGED bookVars),
           UNCHANGED bookVars)
    /\ CancelGoto(o, "unfreeze")
    /\ UNCHANGED <<accountVars, storeVars, req, resp, place>>

\* Mutant: the whole collateral is released, fills or no fills.
CancelUnfreeze_whole(o) ==
    LET r == req[o] IN
    /\ cancel[o].at = "unfreeze"
    /\ Try(UnfreezeIfPossible(r.user, CollateralAsset(r),
                              CollateralAmount(r, r.quantity), o),
           UNCHANGED accountVars)
    /\ CancelGoto(o, "mark")
    /\ UNCHANGED <<bookVars, storeVars, req, resp, place>>

\* Unfreeze of what the lookup took for the remainder, error ignored.
CancelUnfreeze(o) ==
    LET r == req[o] IN
    /\ cancel[o].at = "unfreeze"
    /\ Try(UnfreezeIfPossible(r.user, CollateralAsset(r),
                              CollateralAmount(r, r.quantity - cancel[o].filled), o),
           UNCHANGED accountVars)
    /\ CancelGoto(o, "mark")
    /\ UNCHANGED <<bookVars, storeVars, req, resp, place>>

\* Store.CancelOrder: conditional on the order being open still.
CancelMark(o) ==
    /\ cancel[o].at = "mark"
    /\ IF status[o] \in Open
         THEN status' = [status EXCEPT ![o] = "CANCELLED"] /\ CancelGoto(o, "done")
         ELSE UNCHANGED status /\ CancelGoto(o, "failed")
    /\ UNCHANGED <<bookVars, accountVars, filledQty, tradeRows, req, resp, place, faults>>

CancelAbandoned(o) ==
    /\ cancel[o].at \notin Ended
    /\ Fault
    /\ CancelGoto(o, "failed")
    /\ UNCHANGED <<bookVars, accountVars, storeVars, req, resp, place>>
-----------------------------------------------------------------------------
(* The matching engine *)

\* A step of submitOrder in the matching engine; its answer carries the
\* trades of this Match and whether the order rests.
BookStep(o) ==
    /\ \/ (MatchLock(o) \/ MatchFill(o)) /\ UNCHANGED resp
       \/ /\ MatchReturn(o)
          /\ resp' = [resp EXCEPT ![o] =
                 [trades |-> fills, resting |-> remaining[o] > 0 /\ ~isMarket(o)]]
    /\ UNCHANGED <<accountVars, storeVars, req, place, cancel, faults>>

PlaceStep(o) ==
    \/ PlaceFreeze(o) \/ CreateOrder(o) \/ PlaceUndo(o) \/ SubmitOrder(o)
    \/ SubmitTimeout(o) \/ SubmitAnswered(o) \/ SettleMatch(o) \/ InsertTrade(o)
    \/ ReadMaker(o) \/ UpdateMaker(o) \/ UpdateOwn(o) \/ ReleaseRemaining(o)
    \/ PlaceAbandoned(o)

CancelStep(o) ==
    \/ CancelLookup(o) \/ CancelOnBook(o) \/ CancelUnfreeze(o) \/ CancelMark(o)
    \/ CancelAbandoned(o)

FlowNext == \E o \in Orders : BookStep(o) \/ PlaceStep(o) \/ CancelStep(o)

\* A request that has begun goes on, unless it is abandoned, and sync.Mutex
\* does not starve a waiter.
FlowFairness ==
    \A o \in Orders :
        /\ SF_flowVars(BookStep(o))
        /\ WF_flowVars(place[o].at \notin Ended /\ PlaceStep(o))
        /\ SF_flowVars(cancel[o].at \notin Ended /\ CancelStep(o))

FlowSpec == FlowInit /\ [][FlowNext]_flowVars /\ FlowFairness
-----------------------------------------------------------------------------
(* Properties *)

\* The settled trades an order took part in: (taker, index) pairs whose
\* settlement is in the ledger.
SettledTrades(o) ==
    {x \in Orders \X (1..Cardinality(Orders)) :
        /\ <<"trade", x>> \in DOMAIN entries
        /\ o \in {resp[x[1]].trades[x[2]].buy, resp[x[1]].trades[x[2]].sell}}

SettledQty(o) ==
    SumFunction([x \in SettledTrades(o) |-> resp[x[1]].trades[x[2]].quantity])

\* The store never shows more filled than the ledger has settled and the book
\* has matched, however the unsynchronised read-add-write updates of taker and
\* maker interleave with faults and cancellations; and an order shown as
\* FILLED is exhausted and off the book.
FilledIsSettledAndMatched ==
    \A o \in Orders :
        /\ filledQty[o] <= SettledQty(o)
        /\ SettledQty(o) + remaining[o] <= order[o].quantity
        /\ status[o] = "FILLED" => o \notin Resting /\ remaining[o] = 0

\* A trade row exists only for a trade whose legs are in the ledger, whenever
\* the request stopped: settleMatch comes before InsertTrade.
TradeRowsAreSettled == \A x \in tradeRows : <<"trade", x>> \in DOMAIN entries

\* What the resting orders of a user still need as collateral.
Needed(u, a) ==
    SumFunction([o \in {x \in Resting : req[x].user = u /\ CollateralAsset(req[x]) = a} |->
                    CollateralAmount(req[o], remaining[o])])

\* Every resting order is backed by frozen funds: docs/ledger-design.md,
\* "Order collateral".
CollateralCoversBook ==
    \A u \in Users, a \in {Base, Quote} : frozen[u][a] >= Needed(u, a)

\* When every request has been answered without an error, the store agrees
\* with the book: the filled quantities are what was matched, and the open
\* limit orders are the resting ones.
QuietStoreAgreesWithBook ==
    (\A o \in Orders : place[o].at \in {"idle", "done"} /\ cancel[o].at \in {"idle", "done"})
      => \A o \in Orders :
            /\ filledQty[o] + remaining[o] = order[o].quantity
            /\ o \in Resting <=> status[o] \in Open /\ ~isMarket(o)

\* An order whose cancellation was confirmed is off the book: flow.go,
\* "CancelOrder cancels a resting order and unfreezes collateral."
CancelledIsOffBook ==
    \A o \in Orders : cancel[o].at = "done" => o \notin Resting

\* What an order still holds of its user's frozen funds: its freeze, less its
\* unfreeze, less what its settled trades released.
Consumed(o) ==
    SumFunction([x \in SettledTrades(o) |->
        LET t == resp[x[1]].trades[x[2]] IN
        IF o = t.buy THEN t.price * t.quantity ELSE t.quantity])

Unfrozen(o) ==
    IF <<"unfreeze", o>> \in DOMAIN entries THEN entries[<<"unfreeze", o>>][1].amount ELSE 0

\* A confirmed cancellation leaves nothing of the order's collateral frozen:
\* flow.go, "CancelOrder cancels a resting order and unfreezes collateral."
CancelReturnsCollateral ==
    \A o \in Orders :
        cancel[o].at = "done" /\ place[o].at = "done"
          => CollateralAmount(req[o], req[o].quantity) = Consumed(o) + Unfrozen(o)
=============================================================================
