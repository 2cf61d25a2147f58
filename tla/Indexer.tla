------------------------------ MODULE Indexer -------------------------------
(***************************************************************************)
(* The chain indexer and the read API over it: chainstore.Syncer.RunOnce,   *)
(* which copies blocks, transactions and decoded logs of a chain into       *)
(* Postgres one statement at a time, and the rpc-gateway's status,          *)
(* transaction and block queries.  The node behind chainrpc.Client is       *)
(* external: a chain that grows and may replace its last block.  A syncer   *)
(* is a run of the polling loop; two of them overlap while an instance is   *)
(* being replaced.  Every RPC call and every statement is one step.         *)
(***************************************************************************)
EXTENDS Integers, Sequences, FiniteSets, SequencesExt

CONSTANTS
    Blocks,       \* block hashes
    Txs,          \* transaction hashes
    Content,      \* the transactions of each block
    LogsOf,       \* the logs of each transaction
    Syncers,
    BatchMax,     \* INDEXER_BATCH_SIZE
    None,
    DefaultLimit, MaxLimit,  \* of the list queries
    FirstHead,    \* blocks on the chain when the indexer is first started
    MaxHead,      \* blocks on the chain in the end
    MaxFaults,    \* runs that stop, RPC errors that are swallowed, replaced blocks
    MaxAsks       \* status requests

Log == [watched : BOOLEAN, topic : STRING]

ASSUME IndexerAssumption ==
    /\ Content \in [Blocks -> Seq(Txs)]
    /\ LogsOf \in [Txs -> Seq(Log)]
    /\ BatchMax \in Nat \ {0}
    /\ MaxLimit \in Nat /\ DefaultLimit \in 1..MaxLimit
    /\ MaxHead \in Nat /\ FirstHead \in 1..MaxHead
    /\ MaxFaults \in Nat /\ MaxAsks \in Nat
    /\ None \notin Blocks
    /\ None \notin [block : 1..MaxHead, status : BOOLEAN]
    /\ None \notin [since : Nat, live : BOOLEAN, lag : Nat]

VARIABLES
    chain,      \* the canonical chain of the node
    cursor,     \* chain_sync_state.last_indexed_block
    blockRows,  \* indexed_blocks by number
    txRows,     \* indexed_transactions by hash
    eventRows,  \* indexed_events by transaction and log index
    sync,       \* local state of each run of the loop
    ask,        \* local state of the gateway's status request
    status,     \* its latest answer
    faults,     \* so far
    reorgs,     \* of them, replaced blocks
    asks

dbVars == <<cursor, blockRows, txRows, eventRows>>
gatewayVars == <<ask, status>>
bounds == <<faults, reorgs, asks>>
indexerVars == <<chain, dbVars, sync, gatewayVars, bounds>>

Idle == [at |-> "idle", n |-> 0, end |-> 0, blk |-> None, i |-> 1, todo |-> {},
         known |-> FALSE]

IndexerTypeOK ==
    /\ chain \in Seq(Blocks) /\ Len(chain) \in FirstHead..MaxHead
    /\ cursor \in 0..MaxHead
    /\ blockRows \in [1..MaxHead -> Blocks \cup {None}]
    /\ txRows \in [Txs -> [block : 1..MaxHead, status : BOOLEAN] \cup {None}]
    /\ eventRows \subseteq Txs \X Nat
    /\ sync \in [Syncers ->
           [at : {"idle", "head", "block", "insert", "tx", "logs", "watched"},
            n : 0..(MaxHead + 1), end : 0..MaxHead, blk : Blocks \cup {None}, i : Nat,
            todo : SUBSET (Txs \X Nat), known : BOOLEAN]]
    /\ ask \in [at : {"idle", "head"}, since : Nat, cursor : Nat]
    /\ status \in [since : Nat, live : BOOLEAN, lag : Nat] \cup {None}
    /\ faults \in 0..MaxFaults /\ reorgs \in 0..faults /\ asks \in 0..MaxAsks

TxsOfChain(c) == UNION {ToSet(Content[c[n]]) : n \in 1..Len(c)}

\* A chain repeats neither a block nor a transaction.
ChainOK(c) ==
    /\ IsInjective(c)
    /\ \A m, n \in 1..Len(c) :
           m # n => ToSet(Content[c[m]]) \cap ToSet(Content[c[n]]) = {}

NoAsk == [at |-> "idle", since |-> 0, cursor |-> 0]

IndexerInit ==
    /\ chain \in {c \in [1..FirstHead -> Blocks] : ChainOK(c)}
    /\ cursor = 0
    /\ blockRows = [n \in 1..MaxHead |-> None]
    /\ txRows = [t \in Txs |-> None]
    /\ eventRows = {}
    /\ sync = [y \in Syncers |-> Idle]
    /\ ask = NoAsk
    /\ status = None
    /\ faults = 0 /\ reorgs = 0 /\ asks = 0
-----------------------------------------------------------------------------
(* packages/chainrpc *)

TopicSwap == "0xd78ad95fa46c994b655be0babfbacf937b37edd20e8186735c10e87b6dab95f0"
TopicMint == "0x4c209b5fc8ad507833f3d9d4e9f268f54e4f284623fe92f254bd23f3106daf13"
TopicBurn == "0xdccd412f0b943f337cfca98bacdbc111211dde3237e59ce95b53ad19113de21"
TopicTransfer == "0xddf252ad1be2c89b69c2b068fc378daa952ba7f163c94a06c563440acf7ed"

\* ParseLog decodes a log whose first topic is one of the four.  None of them
\* is the hash of an event of contracts/src/amm (see the README).
ParseLog(log) == log.topic \in {TopicSwap, TopicMint, TopicBurn, TopicTransfer}

\* The keys of some logs of transaction t.
LogKeys(t, indices) == {<<t, i>> : i \in indices}

Decoded(t) == {i \in 1..Len(LogsOf[t]) : ParseLog(LogsOf[t][i])}

\* The logs of a receipt, and of eth_getLogs for the watched addresses, that
\* indexLog stores.
ReceiptLogs(t) == LogKeys(t, Decoded(t))
WatchedLogs(b) ==
    UNION {LogKeys(t, {i \in Decoded(t) : LogsOf[t][i].watched}) : t \in ToSet(Content[b])}
-----------------------------------------------------------------------------
(* Syncer.RunOnce *)

\* The ticker fires: GetSyncState.
ReadCursor(y) ==
    /\ sync[y].at = "idle"
    /\ sync' = [sync EXCEPT ![y] = [Idle EXCEPT !.at = "head", !.n = cursor + 1]]
    /\ UNCHANGED <<chain, dbVars, gatewayVars, bounds>>

\* Mutant: the head itself is left for later.
ReadHead_behind(y) ==
    LET head == Len(chain)
        start == sync[y].n
        last == start + BatchMax - 1
    IN  /\ sync[y].at = "head"
        /\ sync' = IF start >= head THEN [sync EXCEPT ![y] = Idle]
                   ELSE [sync EXCEPT ![y].at = "block", ![y].n = start,
                                     ![y].end = IF last > head THEN head ELSE last]
        /\ UNCHANGED <<chain, dbVars, gatewayVars, bounds>>

\* BlockNumber, and the range of this run; the cursor the migration inserts
\* is 0, so that start is never 0.
ReadHead(y) ==
    LET head == Len(chain)
        start == IF sync[y].n = 0 /\ head > 3 THEN head - 3 ELSE sync[y].n
        last == start + BatchMax - 1
    IN  /\ sync[y].at = "head"
        /\ sync' = IF start > head THEN [sync EXCEPT ![y] = Idle]
                   ELSE [sync EXCEPT ![y].at = "block", ![y].n = start,
                                     ![y].end = IF last > head THEN head ELSE last]
        /\ UNCHANGED <<chain, dbVars, gatewayVars, bounds>>

\* Mutant: the cursor moves before the block is indexed.
GetBlock_cursorFirst(y) ==
    /\ sync[y].at = "block"
    /\ sync' = [sync EXCEPT ![y].at = "insert", ![y].blk = chain[sync[y].n]]
    /\ cursor' = sync[y].n
    /\ UNCHANGED <<chain, blockRows, txRows, eventRows, gatewayVars, bounds>>

\* GetBlockByNumber.
GetBlock(y) ==
    /\ sync[y].at = "block"
    /\ sync' = [sync EXCEPT ![y].at = "insert", ![y].blk = chain[sync[y].n]]
    /\ UNCHANGED <<chain, dbVars, gatewayVars, bounds>>

\* InsertBlock: ON CONFLICT (chain_id, number) DO NOTHING.
InsertBlock(y) ==
    /\ sync[y].at = "insert"
    /\ blockRows' = [blockRows EXCEPT ![sync[y].n] = IF @ = None THEN sync[y].blk ELSE @]
    /\ sync' = [sync EXCEPT ![y].at = "tx", ![y].i = 1]
    /\ UNCHANGED <<chain, cursor, txRows, eventRows, gatewayVars, bounds>>

Fault == faults < MaxFaults /\ faults' = faults + 1

Tx(y) == Content[sync[y].blk][sync[y].i]
TxLeft(y) == sync[y].i <= Len(Content[sync[y].blk])

\* GetTransactionReceipt of the next transaction: an error, or no receipt
\* because the block was replaced, leaves out the logs and the status.
GetReceipt(y) ==
    LET found == Tx(y) \in TxsOfChain(chain)
        answer(known) == sync' = [sync EXCEPT ![y].at = "logs", ![y].known = known,
                                    ![y].todo = IF known THEN ReceiptLogs(Tx(y)) ELSE {}]
    IN  /\ sync[y].at = "tx" /\ TxLeft(y)
        /\ \/ answer(found) /\ UNCHANGED faults
           \/ answer(FALSE) /\ Fault
        /\ UNCHANGED <<chain, dbVars, gatewayVars, reorgs, asks>>

\* InsertEvent of one of the logs: ON CONFLICT DO NOTHING.  Nothing depends on
\* their order, and the model leaves it open.
IndexLog(y) ==
    /\ sync[y].at \in {"logs", "watched"}
    /\ \E key \in sync[y].todo :
          /\ eventRows' = eventRows \cup {key}
          /\ sync' = [sync EXCEPT ![y].todo = @ \ {key}]
    /\ UNCHANGED <<chain, cursor, blockRows, txRows, gatewayVars, bounds>>

\* InsertTransaction: ON CONFLICT (chain_id, hash) DO NOTHING.
InsertTransaction(y) ==
    /\ sync[y].at = "logs"
    /\ sync[y].todo = {}
    /\ txRows' = [txRows EXCEPT ![Tx(y)] =
           IF @ = None THEN [block |-> sync[y].n, status |-> sync[y].known] ELSE @]
    /\ sync' = [sync EXCEPT ![y].at = "tx", ![y].i = @ + 1]
    /\ UNCHANGED <<chain, cursor, blockRows, eventRows, gatewayVars, bounds>>

\* GetLogs of the watched contracts in whatever block has this number now;
\* an error leaves them out.
GetLogs(y) ==
    LET answer(keys) == sync' = [sync EXCEPT ![y].at = "watched", ![y].todo = keys] IN
    /\ sync[y].at = "tx" /\ ~TxLeft(y)
    /\ \/ answer(WatchedLogs(chain[sync[y].n])) /\ UNCHANGED faults
       \/ answer({}) /\ Fault
    /\ UNCHANGED <<chain, dbVars, gatewayVars, reorgs, asks>>

\* SetSyncState, and the next block of the range.
SetSyncState(y) ==
    LET n == sync[y].n IN
    /\ sync[y].at = "watched"
    /\ sync[y].todo = {}
    /\ cursor' = n
    /\ sync' = [sync EXCEPT ![y] =
           IF n < @.end THEN [Idle EXCEPT !.at = "block", !.n = n + 1, !.end = sync[y].end]
           ELSE Idle]
    /\ UNCHANGED <<chain, blockRows, txRows, eventRows, gatewayVars, bounds>>

\* The run returns an error (an RPC call for the head or a block, a
\* statement), or the process dies: the next one starts from the cursor.
Abort(y) ==
    /\ sync[y].at # "idle"
    /\ Fault
    /\ sync' = [sync EXCEPT ![y] = Idle]
    /\ UNCHANGED <<chain, dbVars, gatewayVars, reorgs, asks>>
-----------------------------------------------------------------------------
(* The node *)

Mine ==
    /\ Len(chain) < MaxHead
    /\ \E b \in Blocks : ChainOK(Append(chain, b)) /\ chain' = Append(chain, b)
    /\ UNCHANGED <<dbVars, sync, gatewayVars, bounds>>

\* The last block is replaced by another one.
Reorg ==
    /\ Fault
    /\ reorgs' = reorgs + 1
    /\ \E b \in Blocks \ {Last(chain)} :
          ChainOK(Append(Front(chain), b)) /\ chain' = Append(Front(chain), b)
    /\ UNCHANGED <<dbVars, sync, gatewayVars, asks>>
-----------------------------------------------------------------------------
(* The rpc-gateway *)

\* chainStatus: GetSyncState; "since" remembers the head of that moment.
StatusReadCursor ==
    /\ ask.at = "idle"
    /\ asks < MaxAsks
    /\ asks' = asks + 1
    /\ ask' = [at |-> "head", since |-> Len(chain), cursor |-> cursor]
    /\ UNCHANGED <<chain, dbVars, sync, status, faults, reorgs>>

\* Mutant: the comparison is off by one.
Lag_offByOne(head, indexed) == IF head > indexed + 1 THEN head - indexed ELSE 0

Lag(head, indexed) == IF head > indexed THEN head - indexed ELSE 0

\* liveHead: an error makes the lag 0; "live" remembers that there was none.
StatusAnswer ==
    /\ ask.at = "head"
    /\ \E live \in BOOLEAN :
          status' = [since |-> ask.since, live |-> live,
                     lag |-> IF live THEN Lag(Len(chain), ask.cursor) ELSE 0]
    /\ ask' = NoAsk
    /\ UNCHANGED <<chain, dbVars, sync, bounds>>

BlockOf(t) == CHOOSE n \in 1..Len(chain) : t \in ToSet(Content[chain[n]])

\* Mutant: no fallback to the node.
getTx_rowOnly(t) == IF txRows[t] # None THEN txRows[t].block ELSE 0

\* getTx: the row, or else the node's transaction; 0 is "not found".
getTx(t) ==
    IF txRows[t] # None THEN txRows[t].block
    ELSE IF t \in TxsOfChain(chain) THEN BlockOf(t) ELSE 0

\* ORDER BY number DESC.
Descending(S) ==
    CHOOSE s \in [1..Cardinality(S) -> S] :
        \A j, k \in 1..Cardinality(S) : j < k => s[j] > s[k]

\* ListBlocks: the newest rows first, an odd limit replaced by the default.
ListBlocks(limit) ==
    LET lim == IF limit <= 0 \/ limit > MaxLimit THEN DefaultLimit ELSE limit
        stored == {n \in 1..MaxHead : blockRows[n] # None}
        newest == Descending(stored)
    IN  SubSeq(newest, 1, IF Len(newest) < lim THEN Len(newest) ELSE lim)
-----------------------------------------------------------------------------
SyncStep(y) ==
    \/ ReadCursor(y) \/ ReadHead(y) \/ GetBlock(y) \/ InsertBlock(y) \/ GetReceipt(y)
    \/ IndexLog(y) \/ InsertTransaction(y) \/ GetLogs(y) \/ SetSyncState(y)

IndexerNext ==
    \/ \E y \in Syncers : SyncStep(y) \/ Abort(y)
    \/ Mine \/ Reorg
    \/ StatusReadCursor \/ StatusAnswer

\* The ticker fires for ever, and every call returns.
IndexerFairness == \A y \in Syncers : WF_indexerVars(SyncStep(y))

IndexerSpec == IndexerInit /\ [][IndexerNext]_indexerVars /\ IndexerFairness
-----------------------------------------------------------------------------
(* Properties *)

\* Block n is stored, and all its transactions under its number.
Stored(n) ==
    /\ blockRows[n] = chain[n]
    /\ \A t \in ToSet(Content[chain[n]]) : txRows[t] # None /\ txRows[t].block = n

\* Nothing up to the cursor is missing, wherever runs stopped or overlapped:
\* indexBlock is not a transaction, and a run never looks behind the cursor.
\* (RunOnce never looks for a replaced block, so the properties of the rows
\* are about a chain that only grows.)
CursorCoversRows == reorgs = 0 => \A n \in 1..cursor : Stored(n)

\* The decoded logs of watched contracts up to the cursor are stored although
\* the error of one RPC call is swallowed: what a receipt does not give,
\* eth_getLogs does.
WatchedLogsAreStored ==
    reorgs = 0 /\ faults <= 1 => \A n \in 1..cursor : WatchedLogs(chain[n]) \subseteq eventRows

\* What the tables hold, wherever the runs are.
IndexerInv == IndexerTypeOK /\ CursorCoversRows /\ WatchedLogsAreStored

\* A status without lag is true: all that was on the chain when it was asked
\* for is indexed.  docs/explorer.md, "sync lag vs live head".  (When the
\* node does not answer the gateway, the lag shown is 0 as well.)
NoLagIsCaughtUp ==
    reorgs = 0 /\ status # None /\ status.live /\ status.lag = 0
      => \A n \in 1..status.since : Stored(n)

\* The gateway finds every transaction of the chain in the right block while
\* the indexer is anywhere behind it (docs/explorer.md, "DB first, then live
\* RPC"), and its block list has no gaps and shows the chain, whatever the
\* limit.
GatewayAgreesWithChain ==
    reorgs = 0 =>
      /\ \A t \in TxsOfChain(chain) : getTx(t) = BlockOf(t)
      /\ \A limit \in 0..(MaxLimit + 1) :
            LET l == ListBlocks(limit) IN
            \A k \in 1..Len(l) : l[k] = l[1] - k + 1 /\ blockRows[l[k]] = chain[l[k]]

\* The indexer catches up with a chain that stops growing, errors, restarts
\* and replaced blocks notwithstanding.
CatchesUp == <>[](cursor = Len(chain))
=============================================================================
