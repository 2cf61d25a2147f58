---------------------------- MODULE MCOrderFlow -----------------------------
(* Model-checking instance of OrderFlow. *)
EXTENDS OrderFlow, TLC

CONSTANTS Alice, Bob

Ask(u, p, q) == [user |-> u, side |-> "SELL", price |-> p, quantity |-> q]
Bid(u, p, q) == [user |-> u, side |-> "BUY", price |-> p, quantity |-> q]

\* For overlapping requests: a bid large enough for two takers at once.
OverlapRequests == {Bid(Alice, 2, 2), Ask(Bob, 1, 1), Ask(Bob, Market, 2)}

\* Enough to freeze and to trade, not always enough to settle: a settlement
\* debits the available balance a second time.
ScarceFunding == [a \in {Base, Quote} |-> 6]

Symmetry == Permutations(Orders)
=============================================================================
