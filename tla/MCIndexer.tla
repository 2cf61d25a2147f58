----------------------------- MODULE MCIndexer ------------------------------
(* Model-checking instance of Indexer. *)
EXTENDS Indexer, TLC

CONSTANTS b1, b2, b3, t1, t2, t3

\* The last two are rivals for a place on the chain.
RivalContent == (b1 :> <<t1>>) @@ (b2 :> <<t2>>) @@ (b3 :> <<t2, t3>>)

Watched(topic) == [watched |-> TRUE, topic |-> topic]
Elsewhere(topic) == [watched |-> FALSE, topic |-> topic]

\* Logs that ParseLog knows and others, of watched contracts and of others.
KnownLogs == (t1 :> <<Watched("other"), Watched(TopicSwap)>>) @@ (t2 :> <<>>)
             @@ (t3 :> <<Elsewhere(TopicMint), Watched(TopicBurn)>>)
=============================================================================
