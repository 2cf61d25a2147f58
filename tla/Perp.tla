-------------------------------- MODULE Perp --------------------------------
(***************************************************************************)
(* Perpetual positions: packages/perpservice (Open, Close, Liquidate,       *)
(* ApplyFunding and the mark feed) over packages/perpstore and the account  *)
(* service, called by the hyperliquid-engine's handlers, the scan loop of   *)
(* the liquidation-engine and the settlement loop of the funding-engine.    *)
(* No transaction spans two calls: every call to the database or to the     *)
(* account service is one step, and requests, scans and funding runs        *)
(* interleave between them.  One market; prices, sizes and USDT amounts are *)
(* multiples of a smallest unit.  The leverage column is read by nobody     *)
(* once the margin is computed and is left out of the row.                  *)
(***************************************************************************)
EXTENDS Integers, Sequences, FiniteSets, Functions

CONSTANTS
    Traders, House, USDT,
    Deposits,      \* what each trader and the house start with
    Marks,         \* mid prices the CEX book can have
    MaxLeverage,   \* perp_markets.max_leverage
    MaintDen,      \* maint_margin_rate is 1 / MaintDen
    FundingDen,    \* FUNDING_RATE is 1 / FundingDen
    Reqs,          \* user requests: open and close
    Payloads,      \* what they may ask for
    Scanners,      \* runs of the liquidation scan: the loop, POST /api/v1/scan
    Settlers,      \* runs of the funding settlement: the loop, POST .../settle
    None,          \* no row
    MaxInFlight,   \* requests, scans and settlements at the same time
    MaxFaults,     \* calls that fail, or runs that stop half-way
    MaxTicks,      \* changes of the mark price
    MaxRates       \* funding runs

Procs == Reqs \cup Scanners \cup Settlers
PositionSides == {"LONG", "SHORT"}

\* An empty size (0) closes the whole position; open does not check the side.
Payload == [op : {"open", "close"}, user : Traders,
            side : PositionSides \cup {"OTHER"}, size : Nat, leverage : Nat]

ASSUME PerpAssumption ==
    /\ House \notin Traders
    /\ Deposits \in [Traders \cup {House} -> Nat]
    /\ Marks \subseteq Nat \ {0} /\ Marks # {}
    /\ MaxLeverage \in Nat /\ MaintDen \in Nat \ {0} /\ FundingDen \in Nat \ {0}
    /\ Payloads \subseteq Payload
    /\ Reqs \cap (Scanners \cup Settlers) = {} /\ Scanners \cap Settlers = {}
    /\ MaxFaults \in Nat /\ MaxTicks \in Nat /\ MaxRates \in Nat
    /\ None \notin [id : Reqs, user : Traders, side : PositionSides,
                    size : Nat, entry : Nat, margin : Nat]

VARIABLES
    users, available, frozen, entries,  \* the account service, see Ledger
    mark,       \* mark_prices.price
    positions,  \* perp_positions by user
    events,     \* perp_events rows: type, pnl and ref_id
    rates,      \* number of funding_rates rows
    payments,   \* funding_payments rows, by the trade that settled them
    req,        \* the payload of each request
    run,        \* local state of each request, scan and funding run
    ticks, faults

INSTANCE Ledger WITH
    Users <- Traders \cup {House}, Seeded <- Traders \cup {House},
    Assets <- {USDT}, Funding <- [a \in {USDT} |-> 0],
    RefIds <- {"freeze", "position"} \X Reqs,
    TradeIds <- {"pnl", "funding"} \X Reqs \X Nat,
    Amounts <- {}, Settlements <- {}

accountVars == <<users, available, frozen, entries>>
storeVars == <<mark, positions, events, rates, payments>>
perpVars == <<accountVars, storeVars, req, run, ticks, faults>>

\* A row of perp_positions, with its CHECK constraints and its enum.
Row == [id : Reqs, user : Traders, side : PositionSides,
        size : Nat \ {0}, entry : Nat, margin : Nat \ {0}]

Ended == {"idle", "done", "failed"}
Idle == [at |-> "idle", user |-> None, pos |-> None, mark |-> 0,
         trade |-> None, todo |-> {}]

PerpTypeOK ==
    /\ LedgerTypeOK
    /\ mark \in Nat \ {0}
    /\ positions \in [Traders -> Row \cup {None}]
    /\ \A u \in Traders : positions[u] # None => positions[u].user = u
    /\ events \subseteq [type : {"OPEN"}, pnl : {0}, ref : Reqs]
         \cup [type : {"CLOSE", "LIQUIDATION"}, pnl : Int, ref : {"pnl"} \X Reqs \X Nat]
    /\ rates \in 0..MaxRates
    /\ payments \subseteq {"funding"} \X Reqs \X Nat
    /\ req \in [Reqs -> Payloads]
    /\ run \in [Procs -> [at : Ended \cup {"position", "freeze", "upsert", "undo", "mark",
                                 "unfreeze", "settle", "write", "event", "scan",
                                 "liquidate", "fund", "pay", "record"},
                          user : Traders \cup {None}, pos : Row \cup {None},
                          mark : Nat, todo : SUBSET Row,
                          trade : ({"pnl", "funding"} \X Reqs \X Nat) \cup {None}]]
    /\ ticks \in 0..MaxTicks
    /\ faults \in 0..MaxFaults

PerpInit ==
    /\ users = Traders \cup {House}
    /\ available = [u \in Traders \cup {House} |-> [a \in {USDT} |-> Deposits[u]]]
    /\ frozen = [u \in Traders \cup {House} |-> [a \in {USDT} |-> 0]]
    /\ entries = [r \in {} |-> <<>>]
    /\ mark \in Marks
    /\ positions = [u \in Traders |-> None]
    /\ events = {} /\ rates = 0 /\ payments = {}
    /\ req \in [Reqs -> Payloads]
    /\ run = [p \in Procs |-> Idle]
    /\ ticks = 0 /\ faults = 0
-----------------------------------------------------------------------------
(* packages/perps *)

\* decimal.Div: rounded to the smallest unit, half away from zero.
Div(n, d) == IF n >= 0 THEN (2 * n + d) \div (2 * d) ELSE -((-2 * n + d) \div (2 * d))

Notional(size, price) == size * price
InitialMargin(notional, leverage) == Div(notional, leverage)

UnrealizedPnL(side, size, entry, price) ==
    IF side = "SHORT" THEN (entry - price) * size ELSE (price - entry) * size

Equity(margin, pnl) == margin + pnl
RealizedPnL(side, size, entry, price) == UnrealizedPnL(side, size, entry, price)

\* Mutant: the middle of the two prices, whatever their sizes.
WeightedEntryPrice_middle(oldSize, oldEntry, addSize, addPrice) ==
    Div(oldEntry + addPrice, 2)

WeightedEntryPrice(oldSize, oldEntry, addSize, addPrice) ==
    Div(oldSize * oldEntry + addSize * addPrice, oldSize + addSize)

\* Positive rate: longs pay.
FundingPayment(side, size, price) ==
    LET payment == Div(Notional(size, price), FundingDen)
    IN  IF side = "LONG" THEN -payment ELSE payment

\* MarginRatio < 1: the maintenance margin is notional / MaintDen, and a
\* position without notional has the ratio 999.
MarginRatioBelowOne(equity, notional) == notional # 0 /\ equity * MaintDen < notional

\* The risk API's liquidation_risk, and the test of the scan.
LiquidationRisk(pos, price) ==
    MarginRatioBelowOne(
        Equity(pos.margin, UnrealizedPnL(pos.side, pos.size, pos.entry, price)),
        Notional(pos.size, price))
-----------------------------------------------------------------------------
(* Helpers *)

InFlight == Cardinality({p \in Procs : run[p].at \notin Ended})
Starts(p) == run[p].at = "idle" /\ InFlight < MaxInFlight

Goto(p, at) == run' = [run EXCEPT ![p].at = at]

\* Mutant: the scan tries a refused liquidation again at once.
OnError_retry(p) ==
    IF p \in Reqs THEN "failed" ELSE IF p \in Scanners THEN "liquidate" ELSE "fund"

\* Where an error takes a run: a request fails, a scan or a funding run
\* continues with its next position.
OnError(p) == IF p \in Reqs THEN "failed" ELSE IF p \in Scanners THEN "scan" ELSE "fund"

Fault == faults < MaxFaults /\ faults' = faults + 1

\* UpsertPosition commits: the enum and the CHECK constraints hold.
UpsertOK(row) == row.side \in PositionSides /\ row.size > 0 /\ row.margin > 0

\* ON CONFLICT (user_id, symbol) DO UPDATE leaves the id of the row alone.
UpsertPosition(row) ==
    /\ UpsertOK(row)
    /\ positions' = [positions EXCEPT ![row.user] =
           IF @ = None THEN row ELSE [row EXCEPT !.id = positions[row.user].id]]

DeletePosition(u) == positions' = [positions EXCEPT ![u] = None]

Positions == {positions[u] : u \in Traders} \ {None}

\* A uuid for the settlement, fresh because the ledger only grows.
NewTrade(kind, pos) == <<kind, pos.id, Cardinality(DOMAIN entries)>>

\* AccountClient.SettleBalanced: a positive amount goes to the trader.
SettleBalanced(trade, pos, amount) ==
    SettleTrade(trade, TransferLegs(pos.user, House, USDT, amount), <<>>)

SettleBalancedOK(pos, amount) ==
    SettleTradeOK(TransferLegs(pos.user, House, USDT, amount), <<>>)
-----------------------------------------------------------------------------
(* Open *)

\* The checks of the payload, and GetMarkPrice.
OpenReadMark(p) ==
    LET r == req[p]
        accepted == r.leverage \in 1..MaxLeverage /\ r.size > 0
    IN  /\ r.op = "open" /\ Starts(p)
        /\ run' = [run EXCEPT ![p].at = IF accepted THEN "position" ELSE "failed",
                              ![p].mark = mark]
        /\ UNCHANGED <<accountVars, storeVars, req, ticks, faults>>

\* GetPosition: the other side has to be closed first.
OpenReadPosition(p) ==
    LET row == positions[req[p].user] IN
    /\ run[p].at = "position"
    /\ run' = [run EXCEPT ![p].pos = row,
           ![p].at = IF row # None /\ row.side # req[p].side THEN "failed" ELSE "freeze"]
    /\ UNCHANGED <<accountVars, storeVars, req, ticks, faults>>

addMargin(p) == InitialMargin(Notional(req[p].size, run[p].mark), req[p].leverage)

\* Account.Freeze under a new reference; an error ends the request.
OpenFreeze(p) ==
    /\ run[p].at = "freeze"
    /\ \/ Freeze(req[p].user, USDT, addMargin(p), <<"freeze", p>>) /\ Goto(p, "upsert")
       \/ /\ ~FreezeOK(req[p].user, USDT, addMargin(p), <<"freeze", p>>)
          /\ Goto(p, "failed")
          /\ UNCHANGED accountVars
    /\ UNCHANGED <<storeVars, req, ticks, faults>>

\* The row Open writes, from the position it has read.
OpenedRow(p) ==
    LET r == req[p]
        old == run[p].pos
    IN  IF old = None
        THEN [id |-> p, user |-> r.user, side |-> r.side, size |-> r.size,
              entry |-> run[p].mark, margin |-> addMargin(p)]
        ELSE [old EXCEPT !.size = @ + r.size,
                         !.entry = WeightedEntryPrice(old.size, @, r.size, run[p].mark),
                         !.margin = @ + addMargin(p)]

\* UpsertPosition; an error is followed by Unfreeze.
OpenUpsert(p) ==
    LET row == OpenedRow(p) IN
    /\ run[p].at = "upsert"
    /\ \/ /\ UpsertPosition(row)
          /\ run' = [run EXCEPT ![p].at = "event", ![p].pos = row]
          /\ UNCHANGED faults
       \/ /\ \/ ~UpsertOK(row) /\ UNCHANGED faults
             \/ UpsertOK(row) /\ Fault
          /\ Goto(p, "undo")
          /\ UNCHANGED positions
    /\ UNCHANGED <<accountVars, mark, events, rates, payments, req, ticks>>

\* Mutant: Open fails without giving the margin back.
OpenUndo_dropped(p) ==
    /\ run[p].at = "undo"
    /\ Goto(p, "failed")
    /\ UNCHANGED <<accountVars, storeVars, req, ticks, faults>>

\* Unfreeze of what this request froze, under its own reference; its error
\* is ignored.
OpenUndo(p) ==
    LET ref == <<"freeze", p>> IN
    /\ run[p].at = "undo"
    /\ \/ Unfreeze(req[p].user, USDT, addMargin(p), ref)
       \/ ~UnfreezeOK(req[p].user, USDT, addMargin(p), ref) /\ UNCHANGED accountVars
    /\ Goto(p, "failed")
    /\ UNCHANGED <<storeVars, req, ticks, faults>>
-----------------------------------------------------------------------------
(* Close, Liquidate and closeSize *)

\* GetPosition of a close request.
CloseReadPosition(p) ==
    LET row == positions[req[p].user] IN
    /\ req[p].op = "close" /\ Starts(p)
    /\ run' = [run EXCEPT ![p].pos = row, ![p].at = IF row = None THEN "failed" ELSE "mark"]
    /\ UNCHANGED <<accountVars, storeVars, req, ticks, faults>>

\* GetPosition of a liquidation: whatever position the user has by now.
LiquidateReadPosition(s) ==
    LET row == positions[run[s].user] IN
    /\ run[s].at = "liquidate"
    /\ run' = [run EXCEPT ![s].pos = row, ![s].at = IF row = None THEN "scan" ELSE "mark"]
    /\ UNCHANGED <<accountVars, storeVars, req, ticks, faults>>

\* GetMarkPrice, for Close and for Liquidate.
CloseReadMark(p) ==
    /\ run[p].at = "mark"
    /\ run' = [run EXCEPT ![p].mark = mark, ![p].at = "unfreeze"]
    /\ UNCHANGED <<accountVars, storeVars, req, ticks, faults>>

\* A request closes at most what it has read; a liquidation all of that.
CloseSize(p) ==
    LET held == run[p].pos.size IN
    IF p \in Reqs /\ req[p].size \in 1..held THEN req[p].size ELSE held

MarginRelease(p) ==
    Div(run[p].pos.margin * CloseSize(p), run[p].pos.size)

\* The reference of the release is the position id.
ReleaseRef(p) == <<"position", run[p].pos.id>>

\* Mutant: the error is ignored.
CloseUnfreeze_errorIgnored(p) ==
    LET u == run[p].pos.user IN
    /\ run[p].at = "unfreeze"
    /\ \/ Unfreeze(u, USDT, MarginRelease(p), ReleaseRef(p))
       \/ ~UnfreezeOK(u, USDT, MarginRelease(p), ReleaseRef(p)) /\ UNCHANGED accountVars
    /\ Goto(p, "settle")
    /\ UNCHANGED <<storeVars, req, ticks, faults>>

\* Account.Unfreeze of the margin.
CloseUnfreeze(p) ==
    LET u == run[p].pos.user IN
    /\ run[p].at = "unfreeze"
    /\ \/ Unfreeze(u, USDT, MarginRelease(p), ReleaseRef(p)) /\ Goto(p, "settle")
       \/ /\ ~UnfreezeOK(u, USDT, MarginRelease(p), ReleaseRef(p))
          /\ Goto(p, OnError(p))
          /\ UNCHANGED accountVars
    /\ UNCHANGED <<storeVars, req, ticks, faults>>

\* Mutant: the whole position's PnL, whatever the size of the close.
ClosePnL_whole(p) ==
    LET pos == run[p].pos IN RealizedPnL(pos.side, pos.size, pos.entry, run[p].mark)

ClosePnL(p) ==
    LET pos == run[p].pos IN RealizedPnL(pos.side, CloseSize(p), pos.entry, run[p].mark)

\* SettleBalanced of the PnL, if there is one; an error ends the close with
\* the margin already released.
CloseSettle(p) ==
    LET pos == run[p].pos
        trade == NewTrade("pnl", pos)
        settled == run' = [run EXCEPT ![p].at = "write", ![p].trade = trade]
    IN  /\ run[p].at = "settle"
        /\ \/ ClosePnL(p) # 0 /\ SettleBalanced(trade, pos, ClosePnL(p)) /\ settled
           \/ ClosePnL(p) = 0 /\ settled /\ UNCHANGED accountVars
           \/ /\ ClosePnL(p) # 0 /\ ~SettleBalancedOK(pos, ClosePnL(p))
              /\ Goto(p, OnError(p))
              /\ UNCHANGED accountVars
        /\ UNCHANGED <<storeVars, req, ticks, faults>>

\* DeletePosition by user, or UpsertPosition of the row as it was read with
\* the rest; an error is returned.
CloseWrite(p) ==
    LET pos == run[p].pos
        rest == [pos EXCEPT !.size = @ - CloseSize(p), !.margin = @ - MarginRelease(p)]
    IN  /\ run[p].at = "write"
        /\ \/ /\ IF rest.size = 0 THEN DeletePosition(pos.user) ELSE UpsertPosition(rest)
              /\ Goto(p, "event")
           \/ /\ rest.size > 0 /\ ~UpsertOK(rest)
              /\ Goto(p, OnError(p))
              /\ UNCHANGED positions
        /\ UNCHANGED <<accountVars, mark, events, rates, payments, req, ticks, faults>>

\* InsertEvent, error ignored.
EventRow(p) ==
    IF p \in Reqs /\ req[p].op = "open"
    THEN [type |-> "OPEN", pnl |-> 0, ref |-> run[p].pos.id]
    ELSE [type |-> IF p \in Reqs THEN "CLOSE" ELSE "LIQUIDATION",
          pnl |-> ClosePnL(p), ref |-> run[p].trade]

InsertEvent(p) ==
    /\ run[p].at = "event"
    /\ \/ events' = events \cup {EventRow(p)} /\ UNCHANGED faults
       \/ UNCHANGED events /\ Fault
    /\ Goto(p, IF p \in Reqs THEN "done" ELSE "scan")
    /\ UNCHANGED <<accountVars, mark, positions, rates, payments, req, ticks>>
-----------------------------------------------------------------------------
(* The liquidation scan *)

\* ListAllPositions.
ScanList(s) ==
    /\ Starts(s)
    /\ Positions # {}
    /\ run' = [run EXCEPT ![s].at = "scan", ![s].todo = Positions]
    /\ UNCHANGED <<accountVars, storeVars, req, ticks, faults>>

\* Mutant: the comparison of the margin ratio is inverted.
ScanCheck_inverted(s) ==
    /\ run[s].at = "scan"
    /\ \E pos \in run[s].todo :
          run' = [run EXCEPT ![s].at = IF LiquidationRisk(pos, mark) THEN "scan" ELSE "liquidate",
                             ![s].user = pos.user, ![s].todo = @ \ {pos}]
    /\ UNCHANGED <<accountVars, storeVars, req, ticks, faults>>

\* The row as listed, at the mark of now; the rows come in the order of the
\* user ids, which are random.  callLiquidate makes the request and waits.
ScanCheck(s) ==
    /\ run[s].at = "scan"
    /\ \E pos \in run[s].todo :
          run' = [run EXCEPT ![s].at = IF LiquidationRisk(pos, mark) THEN "liquidate" ELSE "scan",
                             ![s].user = pos.user, ![s].todo = @ \ {pos}]
    /\ UNCHANGED <<accountVars, storeVars, req, ticks, faults>>
-----------------------------------------------------------------------------
(* The funding settlement *)

\* InsertFundingRate and ListAllPositions.
FundList(f) ==
    /\ Starts(f)
    /\ rates < MaxRates
    /\ rates' = rates + 1
    /\ run' = [run EXCEPT ![f].at = "fund", ![f].todo = Positions]
    /\ UNCHANGED <<accountVars, mark, positions, events, payments, req, ticks, faults>>

\* ApplyFunding of the next row as listed: the mark, and the payment from it.
FundReadMark(f) ==
    /\ run[f].at = "fund"
    /\ \E pos \in run[f].todo :
          run' = [run EXCEPT ![f].pos = pos, ![f].mark = mark, ![f].todo = @ \ {pos},
                     ![f].at = IF FundingPayment(pos.side, pos.size, mark) = 0
                               THEN "fund" ELSE "pay"]
    /\ UNCHANGED <<accountVars, storeVars, req, ticks, faults>>

\* Mutant: the payment is recorded although the trader could not pay.
FundSettle_errorIgnored(f) ==
    LET pos == run[f].pos
        payment == FundingPayment(pos.side, pos.size, run[f].mark)
        trade == NewTrade("funding", pos)
    IN  /\ run[f].at = "pay"
        /\ \/ SettleBalanced(trade, pos, payment)
           \/ ~SettleBalancedOK(pos, payment) /\ UNCHANGED accountVars
        /\ run' = [run EXCEPT ![f].at = "record", ![f].trade = trade]
        /\ UNCHANGED <<storeVars, req, ticks, faults>>

\* SettleBalanced; a trader who cannot pay is skipped.
FundSettle(f) ==
    LET pos == run[f].pos
        payment == FundingPayment(pos.side, pos.size, run[f].mark)
        trade == NewTrade("funding", pos)
    IN  /\ run[f].at = "pay"
        /\ \/ /\ SettleBalanced(trade, pos, payment)
              /\ run' = [run EXCEPT ![f].at = "record", ![f].trade = trade]
           \/ ~SettleBalancedOK(pos, payment) /\ Goto(f, "fund") /\ UNCHANGED accountVars
        /\ UNCHANGED <<storeVars, req, ticks, faults>>

\* InsertFundingPayment; an error goes to the next row.
FundRecord(f) ==
    /\ run[f].at = "record"
    /\ \/ payments' = payments \cup {run[f].trade} /\ UNCHANGED faults
       \/ UNCHANGED payments /\ Fault
    /\ Goto(f, "fund")
    /\ UNCHANGED <<accountVars, mark, positions, events, rates, req, ticks>>
-----------------------------------------------------------------------------
(* The rest of the system *)

\* A scan or a funding run has seen all its rows; the loop waits for its
\* ticker, the POST request is answered.
LoopEnd(p) ==
    /\ run[p].at \in {"scan", "fund"}
    /\ run[p].todo = {}
    /\ run' = [run EXCEPT ![p] = Idle]
    /\ UNCHANGED <<accountVars, storeVars, req, ticks, faults>>

\* A run stops half-way: the process dies, a read fails, or the client of the
\* request goes away (callLiquidate after 10s) and r.Context() fails the calls
\* to come.
Abandon(p) ==
    /\ run[p].at \notin Ended
    /\ Fault
    /\ run' = [run EXCEPT ![p] = IF p \in Reqs THEN [Idle EXCEPT !.at = "failed"] ELSE Idle]
    /\ UNCHANGED <<accountVars, storeVars, req, ticks>>

\* MarkFeed.tick: SetMarkPrice of the mid price of the CEX book.
MarkTick ==
    /\ ticks < MaxTicks
    /\ ticks' = ticks + 1
    /\ mark' \in Marks \ {mark}
    /\ UNCHANGED <<accountVars, positions, events, rates, payments, req, run, faults>>

CloseStep(p) ==
    CloseReadMark(p) \/ CloseUnfreeze(p) \/ CloseSettle(p) \/ CloseWrite(p) \/ InsertEvent(p)

ReqStep(p) ==
    \/ OpenReadMark(p) \/ OpenReadPosition(p) \/ OpenFreeze(p) \/ OpenUpsert(p)
    \/ OpenUndo(p) \/ CloseReadPosition(p) \/ CloseStep(p)

ScanStep(s) ==
    ScanCheck(s) \/ LiquidateReadPosition(s) \/ CloseStep(s) \/ LoopEnd(s)

FundStep(f) ==
    FundReadMark(f) \/ FundSettle(f) \/ FundRecord(f) \/ LoopEnd(f)

PerpNext ==
    \/ \E p \in Reqs : ReqStep(p)
    \/ \E s \in Scanners : ScanList(s) \/ ScanStep(s)
    \/ \E f \in Settlers : FundList(f) \/ FundStep(f)
    \/ \E p \in Procs : Abandon(p)
    \/ MarkTick

\* A run that has begun goes on unless it is abandoned, and the ticker of the
\* liquidation-engine starts scan after scan.
PerpFairness ==
    /\ \A p \in Reqs : WF_perpVars(run[p].at \notin Ended /\ ReqStep(p))
    /\ \A s \in Scanners : SF_perpVars(ScanList(s)) /\ WF_perpVars(ScanStep(s))
    /\ \A f \in Settlers : WF_perpVars(FundStep(f))

PerpSpec == PerpInit /\ [][PerpNext]_perpVars /\ PerpFairness
-----------------------------------------------------------------------------
(* Properties *)

\* Every close request is for the whole position.
WholeCloses == \A p \in Reqs : req[p].op = "close" => req[p].size = 0

\* The PnL of a position is paid at most once, however closes, liquidations
\* and their retries after a fault race: the ledger accepts one release of
\* margin per position id, and closeSize settles only after it.
PnLRealisedOnce ==
    WholeCloses =>
        \A i, j \in DOMAIN entries :
            i[1] = "trade" /\ j[1] = "trade" /\ i[2][1] = "pnl" /\ j[2][1] = "pnl"
              /\ i[2][2] = j[2][2] => i = j

\* perp_events and funding_payments report no transfer that is not in the
\* ledger, wherever a run stopped: closeSize and ApplyFunding settle first.
JournalIsSettled ==
    /\ \A e \in events : e.pnl # 0 => <<"trade", e.ref>> \in DOMAIN entries
    /\ \A t \in payments : <<"trade", t>> \in DOMAIN entries

\* What the tables hold while runs overlap.
PerpInv == PerpTypeOK /\ JournalIsSettled

\* Over any mix of margins, PnL and funding a balance is what the user started
\* with plus the entries posted to him, and what traders lose the house gains:
\* docs/perpetual-risk.md, "`perp_house` balances PnL and funding legs
\* (zero-sum ledger with users)".
PerpBalancesFollowLedger ==
    \A u \in Traders \cup {House} :
        available[u][USDT] + frozen[u][USDT] = Deposits[u] + Posted(u, USDT)

\* No request, scan or funding run is half-way.
Quiet == \A p \in Procs : run[p].at \in Ended

\* Between requests a trader's frozen USDT is the margin of his position:
\* docs/perpetual-risk.md, "**Initial margin** = `notional / leverage`
\* (isolated, frozen in USDT)".
MarginIsFrozen ==
    Quiet => \A u \in Traders :
        frozen[u][USDT] = IF positions[u] = None THEN 0 ELSE positions[u].margin

\* No close fails once it has released its margin: the loss can be paid, and
\* the margin of what is left does not round to nothing.
ClosesGoThrough ==
    \A p \in Reqs \cup Scanners :
        /\ run[p].at = "settle" /\ ClosePnL(p) # 0
              => SettleBalancedOK(run[p].pos, ClosePnL(p))
        /\ run[p].at = "write" /\ CloseSize(p) < run[p].pos.size
              => MarginRelease(p) < run[p].pos.margin

\* With one request, scan or funding run at a time, no fault and
\* ClosesGoThrough, the balances are what the positions and the ledger say.
BalancesAddUp == PerpBalancesFollowLedger /\ MarginIsFrozen

\* UnrealizedPnL of what a trader holds.
PnLAt(u, price) ==
    IF positions[u] = None THEN 0
    ELSE UnrealizedPnL(positions[u].side, positions[u].size, positions[u].entry, price)

\* Adding to a position at the mark changes what it is worth at no price
\* but by what the added size is worth, up to the rounding of the entry.
AddingKeepsPnL ==
    [][\A p \in Reqs, price \in Marks :
          run[p].at = "upsert" /\ run'[p].at = "event" =>
            LET u == req[p].user
                added == UnrealizedPnL(req[p].side, req[p].size, run[p].mark, price)
                error == PnLAt(u, price)' - PnLAt(u, price) - added
            IN  2 * error \in -positions'[u].size..positions'[u].size]_perpVars

\* What a close takes off the position is what the ledger has moved: the PnL
\* the position loses at the closing mark was posted to the trader.
CloseRealisesItsShare ==
    [][\A p \in Reqs \cup Scanners :
          run[p].at = "write" /\ run'[p].at = "event" =>
            LET u == run[p].pos.user
                ref == <<"trade", run[p].trade>>
            IN  PnLAt(u, run[p].mark) - PnLAt(u, run[p].mark)'
                  = IF ref \in DOMAIN entries THEN entries[ref][1].amount ELSE 0]_perpVars

\* Each trader asks for one position at most: overlapping opens overwrite
\* each other's row.
OpensOnce ==
    \A p, q \in Reqs : req[p].op = "open" /\ req[q].op = "open"
                          /\ req[p].user = req[q].user => p = q

\* A position below its maintenance margin whose loss the trader can pay.
Underwater(u) ==
    /\ positions[u] # None /\ LiquidationRisk(positions[u], mark)
    /\ available[u][USDT] + frozen[u][USDT] + PnLAt(u, mark) >= 0

\* Such a position does not stay: the scan closes it (docs/perpetual-risk.md,
\* "Scans & force-closes"), the trader does, or the mark recovers, whoever of
\* them comes first.  A fault may use up the reference of its margin, and so
\* does a partial close.
UnderwaterIsClosed ==
    [](faults = 0) /\ WholeCloses /\ OpensOnce
      => \A u \in Traders : Underwater(u) ~> ~Underwater(u)

\* Every request, scan and funding run ends, refused calls included.
EveryRunEnds == \A p \in Procs : run[p].at \notin Ended ~> run[p].at \in Ended
=============================================================================
