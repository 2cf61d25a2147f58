------------------------------- MODULE MCPerp -------------------------------
(* Model-checking instance of Perp. *)
EXTENDS Perp

CONSTANT Alice

Open(u, side, size, leverage) ==
    [op |-> "open", user |-> u, side |-> side, size |-> size, leverage |-> leverage]
Close(u, size) ==
    [op |-> "close", user |-> u, side |-> "LONG", size |-> size, leverage |-> 1]

\* For one request at a time: both sides, an addition at another leverage, a
\* refused side and a refused leverage, partial and whole closes.
SerialPayloads ==
    {Open(Alice, "LONG", 2, 4), Open(Alice, "LONG", 1, 2), Open(Alice, "SHORT", 2, 4),
     Open(Alice, "OTHER", 1, 1), Open(Alice, "LONG", 1, 5), Close(Alice, 0), Close(Alice, 1)}

\* For overlapping requests of one trader.
OverlapPayloads == {Open(Alice, "LONG", 2, 4), Close(Alice, 0)}

\* Enough for every loss.
Ample == [u \in Traders \cup {House} |-> 20]

\* Enough for the margin of two positions and for the loss of one.
Tight == [u \in Traders \cup {House} |-> IF u = House THEN 20 ELSE 4]
=============================================================================
