----------------------------- MODULE MCLedgerTx -----------------------------
(* Model-checking instance of LedgerTx. *)
EXTENDS LedgerTx, TLC

CONSTANTS Alice, Bob, Carol, BTC, USDT

MCFunding == [a \in Assets |-> 2]

\* A trade, payments that lock the same rows in either order, one to the user
\* who may not exist, and a post that does not balance.
MCSettlements ==
    {[legs |-> TradeLegs(Alice, Bob, BTC, USDT, 1, 1),
      release |-> TradeRelease(Alice, Bob, BTC, USDT, 1, 1)]}
    \cup {[legs |-> TransferLegs(p[1], p[2], USDT, -1), release |-> <<>>] :
              p \in {<<Alice, Bob>>, <<Bob, Alice>>}}
    \cup {[legs |-> <<[user |-> Alice, asset |-> USDT, amount |-> 1]>>, release |-> <<>>]}

Symmetry == Permutations(Txs) \cup Permutations(RefIds) \cup Permutations(TradeIds)
=============================================================================
