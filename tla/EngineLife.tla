----------------------------- MODULE EngineLife -----------------------------
(***************************************************************************)
(* The order flow over a matching engine that stops and starts.  The books  *)
(* are in memory only: a stop forgets the resting orders and the handlers   *)
(* in flight, while the order store and the account service go on.  A start *)
(* makes empty books and, unless MATCHING_SEED_BOOKS is false, places one   *)
(* demo bid and ask of the user "seed-mm", who has no row in users.         *)
(***************************************************************************)
EXTENDS OrderFlow

CONSTANTS
    SeedUser,     \* "seed-mm"
    BidQuotes,    \* ids for the seeded bids, fresh at each start;
    AskQuotes,    \* both empty when the seed is disabled
    SeedBid, SeedAsk, SeedQty,
    MaxRestarts   \* times the engine stops

Quotes == BidQuotes \cup AskQuotes

\* Demo quotes: the mid less and plus 20 basis points.
SeedOrder(side, price) == [user |-> SeedUser, side |-> side, price |-> price, quantity |-> SeedQty]

ASSUME EngineLifeAssumption ==
    /\ SeedUser \in Users \ Seeded
    /\ Quotes \subseteq Orders /\ BidQuotes \cap AskQuotes = {}
    /\ SeedBid < SeedAsk
    /\ {r \in Requests : r.user = SeedUser} = {SeedOrder("BUY", SeedBid), SeedOrder("SELL", SeedAsk)}
    /\ MaxRestarts \in Nat

VARIABLES
    up,       \* the matching engine listens
    restarts

lifeVars == <<flowVars, up, restarts>>

InEngine == {o \in Orders : pc[o] \in {"stamped", "matching"}}

\* A stopped engine holds nothing.
LifeTypeOK ==
    /\ FlowTypeOK
    /\ up \in BOOLEAN
    /\ restarts \in 0..MaxRestarts
    /\ ~up => Resting = {} /\ InEngine = {} /\ mu = None

LifeInit ==
    /\ FlowInit
    /\ \A o \in Orders :
          IF o \in BidQuotes THEN req[o] = SeedOrder("BUY", SeedBid)
          ELSE IF o \in AskQuotes THEN req[o] = SeedOrder("SELL", SeedAsk)
          ELSE req[o].user # SeedUser
    /\ up = FALSE
    /\ restarts = 0
-----------------------------------------------------------------------------
(* The matching engine *)

Fresh(ids) == {o \in ids : pc[o] = "idle"}

\* seed.Liquidity: placeResting of the bid and of the ask, before the server
\* listens.  The book is empty and the two do not cross, so both rest.
Liquidity ==
    LET b == CHOOSE o \in Fresh(BidQuotes) : TRUE
        a == CHOOSE o \in Fresh(AskQuotes) : TRUE
        placed(o) == [side |-> req[o].side, price |-> req[o].price,
                      quantity |-> req[o].quantity, createdAt |-> clock]
    IN  /\ Fresh(BidQuotes) # {} /\ Fresh(AskQuotes) # {}
        /\ order' = [order EXCEPT ![b] = placed(b), ![a] = placed(a)]
        /\ remaining' = [remaining EXCEPT ![b] = SeedQty, ![a] = SeedQty]
        /\ pc' = [pc EXCEPT ![b] = "returned", ![a] = "returned"]
        /\ bids' = <<b>> /\ asks' = <<a>>
        /\ UNCHANGED <<trades, fills, mu, cancelled, tape, clock>>

\* main: NewHub, the seed, ListenAndServe.
StartEngine ==
    /\ ~up
    /\ up' = TRUE
    /\ IF Quotes = {} THEN UNCHANGED bookVars ELSE Liquidity
    /\ UNCHANGED <<accountVars, storeVars, req, resp, place, cancel, faults, restarts>>

\* Mutant: a shutdown that does not wait for the handlers it has.
StopEngine_leavesHandlers ==
    /\ up /\ restarts < MaxRestarts
    /\ up' = FALSE /\ restarts' = restarts + 1
    /\ bids' = <<>> /\ asks' = <<>> /\ trades' = <<>>
    /\ UNCHANGED <<order, remaining, fills, mu, pc, cancelled, tape, clock,
                   accountVars, storeVars, req, resp, place, cancel, faults>>

\* The process ends, by a signal or a crash: the books and the handlers are
\* gone, and so is an answer that was not yet written.  order and remaining
\* of the forgotten orders are history from here on.
StopEngine ==
    /\ up /\ restarts < MaxRestarts
    /\ up' = FALSE /\ restarts' = restarts + 1
    /\ bids' = <<>> /\ asks' = <<>> /\ trades' = <<>> /\ fills' = <<>> /\ mu' = None
    /\ \E unsent \in SUBSET {o \in Orders : pc[o] = "returned" /\ place[o].at = "await"} :
          pc' = [o \in Orders |-> IF o \in InEngine \cup unsent THEN "idle" ELSE pc[o]]
    /\ UNCHANGED <<order, remaining, cancelled, tape, clock,
                   accountVars, storeVars, req, resp, place, cancel, faults>>
-----------------------------------------------------------------------------
(* The order flow *)

\* Matching.SubmitOrder while nobody listens: an error, and Unfreeze next.
SubmitRefused(o) ==
    /\ place[o].at = "submit" /\ ~up
    /\ Goto(o, "undo")
    /\ UNCHANGED <<bookVars, accountVars, storeVars, req, resp, cancel, faults>>

\* Mutant: the client waits for the engine it has sent the order to.
SubmitReset_waits(o) ==
    /\ place[o].at = "await" /\ pc[o] = "returned" /\ ~up
    /\ Goto(o, "undo")
    /\ UNCHANGED <<bookVars, accountVars, storeVars, req, resp, cancel, faults>>

\* The connection breaks under the waiting client, which is an error too.
SubmitReset(o) ==
    /\ place[o].at = "await" /\ pc[o] = "idle"
    /\ Goto(o, "undo")
    /\ UNCHANGED <<bookVars, accountVars, storeVars, req, resp, cancel, faults>>

\* A cancellation that finds no engine is one that finds no order: either
\* way CancelOnBook ignores the error and leaves the book alone.
LifePlace(o) ==
    \/ (place[o].at = "submit" => up) /\ PlaceStep(o)
    \/ SubmitRefused(o) \/ SubmitReset(o)

LifeNext ==
    \/ StopEngine \/ StartEngine
    \/ /\ \E o \in Orders \ Quotes : BookStep(o) \/ LifePlace(o) \/ CancelStep(o)
       /\ UNCHANGED <<up, restarts>>

\* As in OrderFlow; nothing makes the engine start again.
LifeFairness ==
    \A o \in Orders \ Quotes :
        /\ SF_lifeVars(BookStep(o) /\ UNCHANGED <<up, restarts>>)
        /\ WF_lifeVars(place[o].at \notin Ended /\ LifePlace(o) /\ UNCHANGED <<up, restarts>>)
        /\ SF_lifeVars(cancel[o].at \notin Ended /\ CancelStep(o) /\ UNCHANGED <<up, restarts>>)

LifeSpec == LifeInit /\ [][LifeNext]_lifeVars /\ LifeFairness
-----------------------------------------------------------------------------
(* Properties *)

\* What a cancellation of the open orders of a user would give back: an order
\* whose reference was unfrozen before gives nothing.
Cancellable(u, a) ==
    SumFunction([o \in {x \in Orders \ Quotes :
                           /\ req[x].user = u /\ CollateralAsset(req[x]) = a
                           /\ status[x] \in Open
                           /\ <<"unfreeze", x>> \notin DOMAIN entries} |->
                    CollateralAmount(req[o], req[o].quantity - filledQty[o])])

\* After any stop and start of the engine, with orders forgotten on the book,
\* handlers dead and their collateral released, the open orders of the store
\* can still be cancelled without touching the collateral of others: PlaceOrder
\* and CancelOrder unfreeze under the same reference.
OpenOrdersHoldTheirCollateral ==
    InFlight = 0 =>
        \A u \in Seeded, a \in {Base, Quote} : frozen[u][a] >= Cancellable(u, a)

\* Every request is answered although the engine may stop under it and not
\* come back.
EveryRequestEnds ==
    \A o \in Orders \ Quotes :
        /\ place[o].at \notin Ended ~> place[o].at \in Ended
        /\ cancel[o].at \notin Ended ~> cancel[o].at \in Ended

\* As long as the engine has not stopped, the store agrees with the book
\* whenever every request has been answered without an error.
StoreAgreesWithLivingBook == restarts = 0 => QuietStoreAgreesWithBook

\* The tables and what they say of matched and settled trades, with trades
\* that cannot be settled (the quotes belong to nobody) and a book that is lost.
LifeInv == LifeTypeOK /\ FilledIsSettledAndMatched
=============================================================================
