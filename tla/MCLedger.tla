------------------------------ MODULE MCLedger ------------------------------
(* Model-checking instance of Ledger: two seeded users who trade, one who   *)
(* signs up later, one market.                                              *)
EXTENDS Ledger

CONSTANTS Alice, Bob, Carol, BTC, USDT

MCFunding == [a \in Assets |-> IF a = BTC THEN 2 ELSE 3]

\* Trades of one unit at notional 1 or 2 with either buyer, a trade with
\* oneself, a trade and a transfer with the user who may not exist, and
\* posts that verifyLedgerBalance has to refuse.
MCSettlements ==
    {[legs |-> TradeLegs(p[1], p[2], BTC, USDT, 1, n),
      release |-> TradeRelease(p[1], p[2], BTC, USDT, 1, n)] :
        p \in {<<Alice, Bob>>, <<Bob, Alice>>, <<Alice, Alice>>, <<Alice, Carol>>},
        n \in 1..2}
    \cup {[legs |-> TransferLegs(Alice, u, USDT, n), release |-> <<>>] :
              u \in {Bob, Carol}, n \in {-1, 1}}
    \cup {[legs |-> <<[user |-> Alice, asset |-> USDT, amount |-> 1]>>, release |-> <<>>]}
=============================================================================
