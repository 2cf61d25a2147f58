---------------------------- MODULE MarketData -----------------------------
(***************************************************************************)
(* The market data feed of the matching-engine: Book.Depth and              *)
(* Book.RecentTrades, the broadcast that submitOrder and cancelOrder make   *)
(* after the book has changed, and the WebSocket clients of marketWS.       *)
(* Depth and RecentTrades take the mutex of the book one after the other;   *)
(* the list of clients has a sync.RWMutex of its own, which broadcast holds *)
(* for reading while it writes to the connections.  A waiting writer of     *)
(* that lock keeps new readers out.  One symbol of one venue.               *)
(***************************************************************************)
EXTENDS OrderBook, FiniteSets

CONSTANTS
    Clients,     \* WebSocket connections
    Stallers,    \* those that may stop reading
    Levels,      \* price levels of a snapshot (15 in the code)
    TradeLimit,  \* trades of a snapshot (20 in the code)
    MaxInFlight  \* submitOrder and cancelOrder handlers at the same time

ASSUME MarketDataAssumption ==
    /\ Stallers \subseteq Clients
    /\ Levels \in Nat \ {0} /\ TradeLimit \in Nat
    /\ None \notin Clients

VARIABLES
    cast,        \* local state of each broadcast
    client,      \* local state of each marketWS goroutine
    registered,  \* h.clients
    rw,          \* who holds, or waits with, the write lock of h.mu
    inbox,       \* the snapshots written to each connection
    stalled      \* clients whose buffers are full and stay so

feedVars == <<cast, client, registered, rw, inbox, stalled>>
marketVars == <<bookVars, feedVars>>

\* Each order is broadcast when Match returns and when it is cancelled.
Casts == Orders \X {"submit", "cancel"}

NoDepth == [bids |-> <<>>, asks |-> <<>>]
Idle == [at |-> "idle", depth |-> NoDepth, trades |-> <<>>, left |-> {}]

Level == [price : Prices, quantity : Nat \ {0}]
Snapshot == [depth : [bids : Seq(Level), asks : Seq(Level)], trades : Seq(Trade)]

MarketTypeOK ==
    /\ BookTypeOK
    /\ \A k \in Casts :
          /\ cast[k].at \in {"idle", "depth", "trades", "rlock", "write", "done"}
          /\ cast[k].depth \in [bids : Seq(Level), asks : Seq(Level)]
          /\ cast[k].trades \in Seq(Trade)
          /\ cast[k].left \subseteq registered
    /\ \A c \in Clients :
          client[c].at \in {"away", "join", "depth", "trades", "write", "reading", "leave", "gone"}
    /\ registered \subseteq Clients
    /\ rw \in Clients \cup {None}
    /\ \A c \in Clients : inbox[c] \subseteq Snapshot
    /\ stalled \subseteq Stallers

MarketInit ==
    /\ BookInit
    /\ cast = [k \in Casts |-> Idle]
    /\ client = [c \in Clients |-> [at |-> "away", depth |-> NoDepth, trades |-> <<>>]]
    /\ registered = {}
    /\ rw = None
    /\ inbox = [c \in Clients |-> {}]
    /\ stalled = {}
-----------------------------------------------------------------------------
(* Depth and RecentTrades *)

\* byPrice: what is left of the orders of a list at a price.
QuantityAt(orders, price) ==
    SumFunction([i \in DOMAIN orders |->
        IF order[orders[i]].price = price THEN remaining[orders[i]] ELSE 0])

\* The prices of the orders with something left, and sort.Slice on them: as
\* keys of byPrice they are distinct.
OpenPrices(orders) == {order[o].price : o \in {p \in Range(orders) : remaining[p] # 0}}

Better(p, q, isBid) == IF isBid THEN p > q ELSE p < q

BestFirst(prices, isBid) ==
    CHOOSE s \in [1..Cardinality(prices) -> prices] :
        \A i, j \in DOMAIN s : i < j => Better(s[i], s[j], isBid)

\* Mutant: the worst levels survive the cut.
aggregateSide_worst(orders, levels, isBid) ==
    LET shown == LastN(BestFirst(OpenPrices(orders), isBid), levels)
    IN  [i \in 1..Len(shown) |->
            [price |-> shown[i], quantity |-> QuantityAt(orders, shown[i])]]

\* aggregateSide: the prices, best first, cut to the number of levels.
aggregateSide(orders, levels, isBid) ==
    LET sorted == BestFirst(OpenPrices(orders), isBid)
        shown == SubSeq(sorted, 1, MinOf(Len(sorted), levels))
    IN  [i \in 1..Len(shown) |->
            [price |-> shown[i], quantity |-> QuantityAt(orders, shown[i])]]

Depth(levels) ==
    [bids |-> aggregateSide(bids, levels, TRUE), asks |-> aggregateSide(asks, levels, FALSE)]

RecentTrades(limit) == IF limit <= 0 THEN <<>> ELSE LastN(trades, limit)
-----------------------------------------------------------------------------
(* broadcast *)

\* Match has returned, or Cancel has found the order: broadcast is called.
StartCast(k) == cast' = [cast EXCEPT ![k].at = "depth"]

\* Depth(15), under the mutex of the book.
CastDepth(k) ==
    /\ cast[k].at = "depth" /\ mu = None
    /\ cast' = [cast EXCEPT ![k].at = "trades", ![k].depth = Depth(Levels)]
    /\ UNCHANGED <<bookVars, client, registered, rw, inbox, stalled>>

\* Mutant: RecentTrades returns without unlocking an empty book.
CastTrades_keepsMutex(k) ==
    /\ cast[k].at = "trades" /\ mu = None
    /\ mu' = IF trades = <<>> THEN k[1] ELSE None
    /\ cast' = [cast EXCEPT ![k].at = "rlock", ![k].trades = RecentTrades(TradeLimit)]
    /\ UNCHANGED <<order, remaining, bids, asks, trades, fills, pc, cancelled, tape, clock,
                   client, registered, rw, inbox, stalled>>

\* RecentTrades(20), under the mutex again.
CastTrades(k) ==
    /\ cast[k].at = "trades" /\ mu = None
    /\ cast' = [cast EXCEPT ![k].at = "rlock", ![k].trades = RecentTrades(TradeLimit)]
    /\ UNCHANGED <<bookVars, client, registered, rw, inbox, stalled>>

\* h.mu.RLock() waits for the holder of the write lock, and for a writer
\* that waits itself.
CastRLock(k) ==
    /\ cast[k].at = "rlock" /\ rw = None
    /\ cast' = [cast EXCEPT ![k].at = "write", ![k].left = registered]
    /\ UNCHANGED <<bookVars, client, registered, rw, inbox, stalled>>

Deliver(c, msg) == inbox' = [inbox EXCEPT ![c] = @ \cup {msg}]

\* WriteMessage to the next client; without a write deadline it does not
\* return while the client does not read.
CastWrite(k) ==
    /\ cast[k].at = "write"
    /\ \E c \in cast[k].left \ stalled :
          /\ cast' = [cast EXCEPT ![k].left = @ \ {c}]
          /\ Deliver(c, [depth |-> cast[k].depth, trades |-> cast[k].trades])
    /\ UNCHANGED <<bookVars, client, registered, rw, stalled>>

\* h.mu.RUnlock(), and the handler answers.
CastRUnlock(k) ==
    /\ cast[k].at = "write" /\ cast[k].left = {}
    /\ cast' = [cast EXCEPT ![k] = [Idle EXCEPT !.at = "done"]]
    /\ UNCHANGED <<bookVars, client, registered, rw, inbox, stalled>>
-----------------------------------------------------------------------------
(* marketWS *)

Go(c, at) == client' = [client EXCEPT ![c].at = at]

\* The connection is upgraded.
Connect(c) ==
    /\ client[c].at = "away"
    /\ Go(c, "join")
    /\ UNCHANGED <<bookVars, cast, registered, rw, inbox, stalled>>

\* h.mu.Lock(): from here on no new reader gets the lock.
ClientLock(c) ==
    /\ client[c].at \in {"join", "leave"} /\ rw = None
    /\ rw' = c
    /\ UNCHANGED <<bookVars, cast, client, registered, inbox, stalled>>

Readers == {k \in Casts : cast[k].at = "write"}

\* Mutant: the lock is kept.
Register_keepsLock(c) ==
    /\ client[c].at = "join" /\ rw = c /\ Readers = {}
    /\ registered' = registered \cup {c}
    /\ Go(c, "depth")
    /\ UNCHANGED <<bookVars, cast, rw, inbox, stalled>>

\* Mutant: the new client waits for the next broadcast.
Register_noSnapshot(c) ==
    /\ client[c].at = "join" /\ rw = c /\ Readers = {}
    /\ registered' = registered \cup {c}
    /\ rw' = None
    /\ Go(c, "reading")
    /\ UNCHANGED <<bookVars, cast, inbox, stalled>>

\* The readers are gone: the client is appended, the lock released, and
\* sendSnapshot begins.
Register(c) ==
    /\ client[c].at = "join" /\ rw = c /\ Readers = {}
    /\ registered' = registered \cup {c}
    /\ rw' = None
    /\ Go(c, "depth")
    /\ UNCHANGED <<bookVars, cast, inbox, stalled>>

SnapshotDepth(c) ==
    /\ client[c].at = "depth" /\ mu = None
    /\ client' = [client EXCEPT ![c].at = "trades", ![c].depth = Depth(Levels)]
    /\ UNCHANGED <<bookVars, cast, registered, rw, inbox, stalled>>

SnapshotTrades(c) ==
    /\ client[c].at = "trades" /\ mu = None
    /\ client' = [client EXCEPT ![c].at = "write", ![c].trades = RecentTrades(TradeLimit)]
    /\ UNCHANGED <<bookVars, cast, registered, rw, inbox, stalled>>

SnapshotWrite(c) ==
    /\ client[c].at = "write" /\ c \notin stalled
    /\ Deliver(c, [depth |-> client[c].depth, trades |-> client[c].trades])
    /\ client' = [client EXCEPT ![c] = [at |-> "reading", depth |-> NoDepth, trades |-> <<>>]]
    /\ UNCHANGED <<bookVars, cast, registered, rw, stalled>>

\* ReadMessage fails: the deferred function takes the write lock.
Disconnect(c) ==
    /\ client[c].at = "reading" /\ c \notin stalled
    /\ Go(c, "leave")
    /\ UNCHANGED <<bookVars, cast, registered, rw, inbox, stalled>>

Unregister(c) ==
    /\ client[c].at = "leave" /\ rw = c /\ Readers = {}
    /\ registered' = registered \ {c}
    /\ rw' = None
    /\ Go(c, "gone")
    /\ UNCHANGED <<bookVars, cast, inbox, stalled>>

\* A client stops reading and the buffers of its connection are full.
Stall(c) ==
    /\ c \in Stallers /\ client[c].at \in {"depth", "trades", "write", "reading"}
    /\ stalled' = stalled \cup {c}
    /\ UNCHANGED <<bookVars, cast, client, registered, rw, inbox>>
-----------------------------------------------------------------------------
InFlight == Cardinality({o \in Orders : pc[o] \in {"stamped", "matching"}})
            + Cardinality({k \in Casts : cast[k].at \notin {"idle", "done"}})

\* submitOrder and cancelOrder up to broadcast.
SubmitOrder(o) ==
    /\ InFlight < MaxInFlight
    /\ \E side \in Sides, p \in Prices \cup {Market}, q \in Quantities, now \in clock..MaxClock :
          Submit(o, side, p, q, now)
    /\ UNCHANGED feedVars

CancelOrder(o) ==
    /\ InFlight < MaxInFlight
    /\ Cancel(o) /\ StartCast(<<o, "cancel">>)
    /\ UNCHANGED <<client, registered, rw, inbox, stalled>>

MatchStep(o) ==
    \/ (MatchLock(o) \/ MatchFill(o)) /\ UNCHANGED feedVars
    \/ /\ MatchReturn(o) /\ StartCast(<<o, "submit">>)
       /\ UNCHANGED <<client, registered, rw, inbox, stalled>>

CastStep(k) ==
    CastDepth(k) \/ CastTrades(k) \/ CastRLock(k) \/ CastWrite(k) \/ CastRUnlock(k)

ClientStep(c) ==
    \/ ClientLock(c) \/ Register(c) \/ Unregister(c)
    \/ SnapshotDepth(c) \/ SnapshotTrades(c) \/ SnapshotWrite(c)

MarketNext ==
    \/ \E o \in Orders : SubmitOrder(o) \/ CancelOrder(o) \/ MatchStep(o)
    \/ \E k \in Casts : CastStep(k)
    \/ \E c \in Clients : Connect(c) \/ ClientStep(c) \/ Disconnect(c) \/ Stall(c)

\* A goroutine that can run does.  Weak fairness is enough: the orders and
\* the clients of an instance are finite, so a lock that is handed on is
\* free for good in the end.
MarketFairness ==
    /\ \A o \in Orders : WF_marketVars(MatchStep(o))
    /\ \A k \in Casts : WF_marketVars(CastStep(k))
    /\ \A c \in Clients : WF_marketVars(ClientStep(c))

MarketSpec == MarketInit /\ [][MarketNext]_marketVars /\ MarketFairness
-----------------------------------------------------------------------------
(* Properties *)

\* One side of a depth against the orders that rest on it: the levels are in
\* order, each shows all that rests at its price, and a better price than
\* the last one shown is never left out.
LevelsMatch(levels, side, isBid) ==
    /\ \A i, j \in 1..Len(levels) : i < j => Better(levels[i].price, levels[j].price, isBid)
    /\ \A i \in 1..Len(levels) :
          levels[i].quantity
            = SumFunctionOnSet(remaining, {o \in side : order[o].price = levels[i].price})
    /\ \A o \in side :
          \/ \E i \in 1..Len(levels) : levels[i].price = order[o].price
          \/ Len(levels) > 0 /\ Better(levels[Len(levels)].price, order[o].price, isBid)

\* What GET /depth answers is the top of the book at every cut, after any
\* sequence of partial fills and cancellations, and it is not crossed: the
\* perpetual mark price is the middle of its two first levels.
DepthIsTheTopOfTheBook ==
    \A levels \in 1..(Levels + 1) :
        LET d == Depth(levels) IN
        /\ Len(d.bids) <= levels /\ Len(d.asks) <= levels
        /\ LevelsMatch(d.bids, Range(bids), TRUE) /\ LevelsMatch(d.asks, Range(asks), FALSE)
        /\ d.bids # <<>> /\ d.asks # <<>> => d.bids[1].price < d.asks[1].price

\* The two reads of the API show the book: the top of it and its newest
\* trades.
ReadsShowTheBook == DepthIsTheTopOfTheBook /\ RecentTradesAreTheNewest

Current == [depth |-> Depth(Levels), trades |-> RecentTrades(TradeLimit)]

\* Nothing is on its way.
FeedIsQuiet ==
    /\ mu = None
    /\ \A k \in Casts : cast[k].at \in {"idle", "done"}
    /\ \A c \in registered : client[c].at \in {"reading", "leave"}

\* No change of the book is missed by a client that joins, reads or leaves
\* while others trade: when all is quiet every connection has been sent the
\* book as it is now (marketWS registers before it takes its snapshot,
\* broadcast reads the book before it takes the lock).
QuietClientsHaveTheBook ==
    FeedIsQuiet => \A c \in registered : Current \in inbox[c]

\* The book, the lock of the client table and what the clients were sent.
MarketInv == MarketTypeOK /\ QuietClientsHaveTheBook

\* Every order is answered and every client served although clients come and
\* go, as long as they read: the write lock is never waited for by someone
\* who keeps others from releasing the read lock.
FeedMovesOn ==
    [](stalled = {}) =>
        /\ \A k \in Casts : cast[k].at = "depth" ~> cast[k].at = "done"
        /\ \A c \in Clients :
              client[c].at = "join" ~> client[c].at \in {"reading", "leave", "gone"}
=============================================================================
