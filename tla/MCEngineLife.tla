---------------------------- MODULE MCEngineLife ----------------------------
(* Model-checking instance of EngineLife. *)
EXTENDS EngineLife, TLC

CONSTANTS Alice, Bob

Ask(u, p, q) == [user |-> u, side |-> "SELL", price |-> p, quantity |-> q]
Bid(u, p, q) == [user |-> u, side |-> "BUY", price |-> p, quantity |-> q]

SeedQuotes == {SeedOrder("BUY", SeedBid), SeedOrder("SELL", SeedAsk)}

\* Orders that cross at their limit only, so that no price improvement stays
\* frozen, a market sell and a user who trades with himself.
AtLimit == SeedQuotes \cup
    {Bid(Alice, 2, 2), Bid(Alice, 1, 1), Ask(Bob, 2, 1), Ask(Alice, 2, 1), Ask(Bob, Market, 2)}

\* A bid that takes Bob's ask and the seeded one, and the ask.
AcrossTheSeed == SeedQuotes \cup {Bid(Alice, 3, 2), Ask(Bob, 2, 1)}

\* Enough for every settlement between users to succeed: twice the collateral of
\* four orders.
AmpleFunding == [a \in {Base, Quote} |-> 40]

Symmetry == Permutations(Orders \ Quotes)
=============================================================================
