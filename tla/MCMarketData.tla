---------------------------- MODULE MCMarketData ----------------------------
(* Model-checking instance of MarketData. *)
EXTENDS MarketData, TLC

\* The book and its queries without a feed: more orders for the same effort.
BookAlone == MarketInit /\ [][BookNext /\ UNCHANGED feedVars]_marketVars

Symmetry == Permutations(Orders) \cup Permutations(Clients)
=============================================================================
