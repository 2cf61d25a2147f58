---------------------------- MODULE IndexerProofs ----------------------------
(***************************************************************************)
(* Proofs about Indexer, for every chain, any number of overlapping runs,  *)
(* errors and restarts: nothing up to the cursor is missing, the status,   *)
(* the transaction lookup and the block list of the rpc-gateway are true   *)
(* to the chain.  As in the model, what the rows say is about a chain that *)
(* only grows.                                                             *)
(***************************************************************************)
EXTENDS Indexer, SumLemmas

-----------------------------------------------------------------------------
(* The invariant *)

Stages == {"idle", "head", "block", "insert", "tx", "logs", "watched"}
SyncRecord == [at : Stages, n : 0..(MaxHead + 1), end : 0..MaxHead, blk : Blocks \cup {None},
               i : Nat, todo : SUBSET (Txs \X Nat), known : BOOLEAN]

\* Stored, of a chain c and the rows br and tr.
StoredIn(n, c, br, tr) ==
    /\ br[n] = c[n]
    /\ \A t \in ToSet(Content[c[n]]) : tr[t] # None /\ tr[t].block = n

\* The local state of a run, with the chain c: its range is on the chain, and
\* its position within the block it has read.
RunTyped(s, c) ==
    /\ s \in SyncRecord
    /\ s.at # "idle" => s.n >= 1
    /\ s.at \notin {"idle", "head"} => s.n <= s.end /\ s.end <= Len(c)
    /\ s.at \in {"insert", "tx", "logs", "watched"} => s.blk \in Blocks
    /\ s.at = "tx" => s.i \in 1..(Len(Content[s.blk]) + 1)
    /\ s.at = "logs" => s.i \in 1..Len(Content[s.blk])

\* A run on a chain that only grows works behind what is stored, and has
\* stored what it has passed.
RunAhead(s, c, br, tr) ==
    /\ s.at # "idle" => s.n - 1 <= Len(c) /\ \A m \in 1..(s.n - 1) : StoredIn(m, c, br, tr)
    /\ s.at \in {"insert", "tx", "logs", "watched"} => s.blk = c[s.n]
    /\ s.at \in {"tx", "logs", "watched"} => br[s.n] = c[s.n]
    /\ s.at \in {"tx", "logs"} =>
          \A k \in 1..(s.i - 1) : LET t == Content[s.blk][k] IN tr[t] # None /\ tr[t].block = s.n
    /\ s.at = "watched" => StoredIn(s.n, c, br, tr)

\* The rows agree with the chain, and the block rows have no gap.
RowsAgree(c, br, tr) ==
    /\ \A n \in 1..MaxHead : br[n] # None =>
          n <= Len(c) /\ br[n] = c[n] /\ \A m \in 1..(n - 1) : StoredIn(m, c, br, tr)
    /\ \A t \in Txs : tr[t] # None =>
          tr[t].block <= Len(c) /\ t \in ToSet(Content[c[tr[t].block]])

\* The logs a run has passed are stored: those of the receipts as long as no
\* error was swallowed (f = 0).
RunLogs(s, c, ev, f) ==
    /\ s.at # "idle" => \A m \in 1..(s.n - 1) : WatchedLogs(c[m]) \subseteq ev
    /\ f = 0 /\ s.at \in {"tx", "logs"} =>
          \A k \in 1..(s.i - 1) : ReceiptLogs(Content[s.blk][k]) \subseteq ev
    /\ f = 0 /\ s.at = "logs" => ReceiptLogs(Content[s.blk][s.i]) \subseteq ev \cup s.todo
    /\ s.at = "watched" => WatchedLogs(c[s.n]) \subseteq ev \cup s.todo

AskAhead(a, c, br, tr) ==
    a.at = "head" => /\ a.cursor <= Len(c) /\ a.since <= Len(c)
                     /\ \A m \in 1..a.cursor : StoredIn(m, c, br, tr)

StatusAhead(st, c, br, tr) ==
    st # None /\ st.live /\ st.lag = 0 =>
        st.since <= Len(c) /\ \A m \in 1..st.since : StoredIn(m, c, br, tr)

IndexerConsistent ==
    /\ IndexerTypeOK
    /\ ChainOK(chain)
    /\ \A y \in Syncers : RunTyped(sync[y], chain)
    /\ reorgs = 0 =>
          /\ cursor <= Len(chain)
          /\ \A m \in 1..cursor : StoredIn(m, chain, blockRows, txRows)
          /\ RowsAgree(chain, blockRows, txRows)
          /\ \A y \in Syncers : RunAhead(sync[y], chain, blockRows, txRows)
          /\ AskAhead(ask, chain, blockRows, txRows)
          /\ StatusAhead(status, chain, blockRows, txRows)
    /\ reorgs = 0 /\ faults <= 1 =>
          /\ \A m \in 1..cursor : WatchedLogs(chain[m]) \subseteq eventRows
          /\ \A y \in Syncers : RunLogs(sync[y], chain, eventRows, faults)
-----------------------------------------------------------------------------
(* What has been stored stays *)

\* The node's chain and the tables.
RowsTyped(c, br, tr) ==
    /\ c \in Seq(Blocks) /\ Len(c) <= MaxHead
    /\ br \in [1..MaxHead -> Blocks \cup {None}]
    /\ tr \in [Txs -> [block : 1..MaxHead, status : BOOLEAN] \cup {None}]

\* The chain is extended and rows are added.
Grows(c, br, tr, c2, br2, tr2) ==
    /\ Len(c) <= Len(c2) /\ \A m \in 1..Len(c) : c2[m] = c[m]
    /\ \A n \in 1..MaxHead : br[n] # None => br2[n] = br[n]
    /\ \A t \in Txs : tr[t] # None => tr2[t] = tr[t]

\* Transactions of a block, and what a chain of blocks consists of.
LEMMA ContentType ==
    /\ \A b \in Blocks : Content[b] \in Seq(Txs) /\ ToSet(Content[b]) \subseteq Txs
    /\ \A c \in Seq(Blocks) : \A m \in 1..Len(c) : c[m] \in Blocks /\ c[m] # None
<1>1. \A b \in Blocks : Content[b] \in Seq(Txs)
  BY IndexerAssumption
<1>2. \A b \in Blocks : ToSet(Content[b]) \subseteq Txs
  BY <1>1 DEF ToSet
<1>3. \A c \in Seq(Blocks) : \A m \in 1..Len(c) : c[m] \in Blocks /\ c[m] # None
  BY IndexerAssumption
<1> QED BY <1>1, <1>2, <1>3

\* A stored block stays stored.
LEMMA StoredStays ==
    ASSUME NEW c, NEW br, NEW tr, NEW c2, NEW br2, NEW tr2,
           RowsTyped(c, br, tr), Grows(c, br, tr, c2, br2, tr2)
    PROVE  \A m \in 1..Len(c) : StoredIn(m, c, br, tr) => StoredIn(m, c2, br2, tr2)
<1> SUFFICES ASSUME NEW m \in 1..Len(c), StoredIn(m, c, br, tr)
             PROVE  StoredIn(m, c2, br2, tr2)
  OBVIOUS
<1>1. c[m] \in Blocks /\ c[m] # None /\ ToSet(Content[c[m]]) \subseteq Txs
  BY ContentType DEF RowsTyped
<1>2. c2[m] = c[m]
  BY DEF Grows
<1>3. m \in 1..MaxHead
  BY IndexerAssumption DEF RowsTyped
<1>4. br2[m] = c[m]
  BY <1>1, <1>3 DEF Grows, StoredIn
<1>5. \A t \in ToSet(Content[c[m]]) : tr2[t] # None /\ tr2[t].block = m
  BY <1>1 DEF Grows, StoredIn
<1> QED BY <1>2, <1>4, <1>5 DEF StoredIn

\* What the runs, the gateway and the rows rely on stays true.
LEMMA AheadStays ==
    ASSUME NEW c, NEW br, NEW tr, NEW c2, NEW br2, NEW tr2,
           RowsTyped(c, br, tr), Grows(c, br, tr, c2, br2, tr2), Len(c2) \in Nat
    PROVE  /\ \A s \in SyncRecord : RunTyped(s, c) /\ RunAhead(s, c, br, tr)
                                      => RunTyped(s, c2) /\ RunAhead(s, c2, br2, tr2)
           /\ \A a \in [at : {"idle", "head"}, since : Nat, cursor : Nat] :
                 AskAhead(a, c, br, tr) => AskAhead(a, c2, br2, tr2)
           /\ \A st \in [since : Nat, live : BOOLEAN, lag : Nat] \cup {None} :
                 StatusAhead(st, c, br, tr) => StatusAhead(st, c2, br2, tr2)
<1>1. \A m \in 1..Len(c) : StoredIn(m, c, br, tr) => StoredIn(m, c2, br2, tr2)
  BY StoredStays
<1>2. Len(c) \in Nat /\ Len(c) <= Len(c2) /\ \A m \in 1..Len(c) : c2[m] = c[m]
  BY DEF RowsTyped, Grows
<1>3. \A k \in Int : k <= Len(c) /\ (\A m \in 1..k : StoredIn(m, c, br, tr))
                       => k <= Len(c2) /\ \A m \in 1..k : StoredIn(m, c2, br2, tr2)
  BY <1>1, <1>2
<1>4. ASSUME NEW s \in SyncRecord, RunTyped(s, c), RunAhead(s, c, br, tr)
      PROVE  RunTyped(s, c2) /\ RunAhead(s, c2, br2, tr2)
  <2>1. s.n \in Nat /\ s.end \in Nat /\ s.i \in Nat
    BY IndexerAssumption DEF SyncRecord
  <2>2. RunTyped(s, c2)
    BY <1>2, <1>4, <2>1 DEF RunTyped
  <2>3. s.at # "idle" => s.n - 1 <= Len(c2) /\ \A m \in 1..(s.n - 1) : StoredIn(m, c2, br2, tr2)
    <3> DEFINE k == s.n - 1
    <3>1. k \in Int
      BY <2>1
    <3>2. s.at # "idle" => k <= Len(c) /\ \A m \in 1..k : StoredIn(m, c, br, tr)
      BY <1>4 DEF RunAhead
    <3> HIDE DEF k
    <3>3. s.at # "idle" => k <= Len(c2) /\ \A m \in 1..k : StoredIn(m, c2, br2, tr2)
      BY <1>3, <3>1, <3>2
    <3> QED BY <3>3 DEF k
  <2>4. s.at \in {"insert", "tx", "logs", "watched"} => s.n \in 1..Len(c) /\ s.n \in 1..MaxHead
    <3>1. Len(c) \in Nat /\ Len(c) <= MaxHead /\ MaxHead \in Nat
      BY <1>2, IndexerAssumption DEF RowsTyped
    <3>2. s.at \in {"insert", "tx", "logs", "watched"}
            => s.n >= 1 /\ s.n <= s.end /\ s.end <= Len(c)
      BY <1>4 DEF RunTyped
    <3> DEFINE n == s.n
               e == s.end
    <3>3. n \in Nat /\ e \in Nat
      BY <2>1
    <3> HIDE DEF n, e
    <3>4. n >= 1 /\ n <= e /\ e <= Len(c) => n \in 1..Len(c) /\ n \in 1..MaxHead
      BY <3>1, <3>3
    <3> QED BY <3>2, <3>4 DEF n, e
  <2>5. s.at \in {"insert", "tx", "logs", "watched"} => s.blk = c2[s.n]
    BY <1>2, <1>4, <2>4 DEF RunAhead
  <2>6. s.at \in {"tx", "logs", "watched"} => br2[s.n] = c2[s.n]
    <3>1. s.at \in {"tx", "logs", "watched"} => br[s.n] # None
      BY <1>4, <2>4, ContentType DEF RunAhead, RowsTyped
    <3> QED BY <1>2, <1>4, <2>4, <3>1 DEF RunAhead, Grows
  <2>7. s.at \in {"tx", "logs"} =>
          \A k \in 1..(s.i - 1) :
             LET t == Content[s.blk][k] IN tr2[t] # None /\ tr2[t].block = s.n
    <3> SUFFICES ASSUME s.at \in {"tx", "logs"}, NEW k \in 1..(s.i - 1)
                 PROVE  /\ tr2[Content[s.blk][k]] # None
                        /\ tr2[Content[s.blk][k]].block = s.n
      OBVIOUS
    <3>1. k \in 1..Len(Content[s.blk]) /\ s.blk \in Blocks
      BY <1>4, <2>1 DEF RunTyped
    <3>2. Content[s.blk][k] \in Txs
      BY <3>1, ContentType
    <3> QED BY <1>4, <3>2 DEF RunAhead, Grows
  <2>8. s.at = "watched" => StoredIn(s.n, c2, br2, tr2)
    BY <1>1, <1>4, <2>4 DEF RunAhead
  <2> QED BY <2>2, <2>3, <2>5, <2>6, <2>7, <2>8 DEF RunAhead
<1>5. ASSUME NEW a \in [at : {"idle", "head"}, since : Nat, cursor : Nat],
             AskAhead(a, c, br, tr)
      PROVE  AskAhead(a, c2, br2, tr2)
  BY <1>2, <1>3, <1>5 DEF AskAhead
<1>6. ASSUME NEW st \in [since : Nat, live : BOOLEAN, lag : Nat] \cup {None},
             StatusAhead(st, c, br, tr)
      PROVE  StatusAhead(st, c2, br2, tr2)
  BY <1>2, <1>3, <1>6 DEF StatusAhead
<1> QED BY <1>4, <1>5, <1>6

\* What the runs have stored of the logs stays stored.
LEMMA LogsStay ==
    ASSUME NEW c \in Seq(Blocks), NEW c2, Len(c) <= Len(c2), \A m \in 1..Len(c) : c2[m] = c[m],
           NEW s \in SyncRecord, RunTyped(s, c), s.at # "idle" => s.n - 1 <= Len(c),
           NEW ev, NEW ev2, ev \subseteq ev2, NEW f \in Nat, NEW f2 \in Nat, f <= f2,
           RunLogs(s, c, ev, f)
    PROVE  RunLogs(s, c2, ev2, f2)
<1>1. s.n \in Nat /\ s.end \in Nat
  BY IndexerAssumption DEF SyncRecord
<1>2. s.at # "idle" => \A m \in 1..(s.n - 1) : WatchedLogs(c2[m]) \subseteq ev2
  BY <1>1 DEF RunLogs
<1>3. f2 = 0 => f = 0
  OBVIOUS
<1>4. s.at = "watched" => s.n \in 1..Len(c)
  BY <1>1 DEF RunTyped
<1>5. s.at = "watched" => WatchedLogs(c2[s.n]) \subseteq ev2 \cup s.todo
  BY <1>4 DEF RunLogs
<1>6. f2 = 0 /\ s.at \in {"tx", "logs"} =>
          \A k \in 1..(s.i - 1) : ReceiptLogs(Content[s.blk][k]) \subseteq ev2
  BY <1>3 DEF RunLogs
<1>7. f2 = 0 /\ s.at = "logs" => ReceiptLogs(Content[s.blk][s.i]) \subseteq ev2 \cup s.todo
  BY <1>3 DEF RunLogs
<1> QED BY <1>2, <1>5, <1>6, <1>7 DEF RunLogs
-----------------------------------------------------------------------------
(* Steps of one run *)

\* The part of the invariant about a chain that only grows, and about the
\* logs while at most one error was swallowed, without the runs.
TablesAhead(c, cu, br, tr) ==
    /\ cu <= Len(c)
    /\ \A m \in 1..cu : StoredIn(m, c, br, tr)
    /\ RowsAgree(c, br, tr)

\* A run makes a step and the others find what they rely on.
LEMMA StepOfOne ==
    ASSUME IndexerConsistent, NEW y \in Syncers, NEW r,
           sync' = [sync EXCEPT ![y] = r], UNCHANGED <<chain, gatewayVars, reorgs, asks>>,
           faults' \in 0..MaxFaults, faults <= faults',
           cursor' \in 0..MaxHead,
           RowsTyped(chain, blockRows', txRows'), eventRows' \subseteq Txs \X Nat,
           Grows(chain, blockRows, txRows, chain, blockRows', txRows'),
           eventRows \subseteq eventRows',
           RunTyped(r, chain),
           reorgs = 0 => /\ TablesAhead(chain, cursor', blockRows', txRows')
                         /\ RunAhead(r, chain, blockRows', txRows'),
           reorgs = 0 /\ faults' <= 1 =>
              /\ \A m \in 1..cursor' : WatchedLogs(chain[m]) \subseteq eventRows'
              /\ RunLogs(r, chain, eventRows', faults')
    PROVE  IndexerConsistent'
<1>1. /\ IndexerTypeOK /\ chain' = chain /\ ask' = ask /\ status' = status
      /\ reorgs' = reorgs /\ asks' = asks
      /\ sync \in [Syncers -> SyncRecord]
      /\ RowsTyped(chain, blockRows, txRows) /\ Len(chain) \in Nat
      /\ faults \in Nat /\ faults' \in Nat /\ reorgs \in Nat
  BY IndexerAssumption DEF IndexerConsistent, IndexerTypeOK, gatewayVars, SyncRecord, Stages, RowsTyped
<1>2. /\ r \in SyncRecord /\ sync' \in [Syncers -> SyncRecord] /\ sync'[y] = r
      /\ \A o \in Syncers \ {y} : sync'[o] = sync[o]
  BY <1>1 DEF RunTyped
<1>3. IndexerTypeOK'
  <2>1. /\ chain' \in Seq(Blocks) /\ Len(chain') \in FirstHead..MaxHead /\ cursor' \in 0..MaxHead
        /\ blockRows' \in [1..MaxHead -> Blocks \cup {None}]
        /\ txRows' \in [Txs -> [block : 1..MaxHead, status : BOOLEAN] \cup {None}]
        /\ eventRows' \subseteq Txs \X Nat
    BY <1>1 DEF IndexerTypeOK, RowsTyped
  <2>2. /\ faults' \in 0..MaxFaults /\ reorgs' \in 0..faults' /\ asks' \in 0..MaxAsks
        /\ ask' \in [at : {"idle", "head"}, since : Nat, cursor : Nat]
        /\ status' \in [since : Nat, live : BOOLEAN, lag : Nat] \cup {None}
    BY <1>1, IndexerAssumption DEF IndexerTypeOK
  <2> QED BY <1>2, <2>1, <2>2 DEF IndexerTypeOK, SyncRecord, Stages
<1>4. \A o \in Syncers : RunTyped(sync'[o], chain')
  BY <1>1, <1>2 DEF IndexerConsistent
<1>5. ASSUME reorgs = 0
      PROVE  /\ \A o \in Syncers : RunAhead(sync'[o], chain, blockRows', txRows')
             /\ AskAhead(ask, chain, blockRows', txRows')
             /\ StatusAhead(status, chain, blockRows', txRows')
  <2>1. /\ ask \in [at : {"idle", "head"}, since : Nat, cursor : Nat]
        /\ status \in [since : Nat, live : BOOLEAN, lag : Nat] \cup {None}
    BY <1>1 DEF IndexerTypeOK
  <2>2. /\ \A o \in Syncers : RunTyped(sync[o], chain) /\ RunAhead(sync[o], chain, blockRows, txRows)
        /\ AskAhead(ask, chain, blockRows, txRows)
        /\ StatusAhead(status, chain, blockRows, txRows)
    BY <1>5 DEF IndexerConsistent
  <2>3. ASSUME NEW o \in Syncers PROVE RunAhead(sync'[o], chain, blockRows', txRows')
    <3>1. CASE o = y
      BY <1>2, <1>5, <3>1
    <3>2. CASE o # y
      BY <1>1, <1>2, <2>2, <3>2, AheadStays
    <3> QED BY <3>1, <3>2
  <2> QED BY <1>1, <2>1, <2>2, <2>3, AheadStays
<1>6. ASSUME reorgs = 0, faults' <= 1
      PROVE  \A o \in Syncers : RunLogs(sync'[o], chain, eventRows', faults')
  <2> SUFFICES ASSUME NEW o \in Syncers, o # y
               PROVE  RunLogs(sync[o], chain, eventRows', faults')
    BY <1>2, <1>6
  <2>1. faults <= 1
    BY <1>1, <1>6
  <2>2. /\ RunTyped(sync[o], chain) /\ RunLogs(sync[o], chain, eventRows, faults)
        /\ sync[o].at # "idle" => sync[o].n - 1 <= Len(chain)
    BY <1>6, <2>1 DEF IndexerConsistent, RunAhead
  <2>3. chain \in Seq(Blocks) /\ sync[o] \in SyncRecord
    BY <1>1 DEF RowsTyped
  <2> QED BY <1>1, <2>2, <2>3, LogsStay
<1>7. reorgs' = 0 =>
          /\ cursor' <= Len(chain')
          /\ \A m \in 1..cursor' : StoredIn(m, chain', blockRows', txRows')
          /\ RowsAgree(chain', blockRows', txRows')
          /\ \A o \in Syncers : RunAhead(sync'[o], chain', blockRows', txRows')
          /\ AskAhead(ask', chain', blockRows', txRows')
          /\ StatusAhead(status', chain', blockRows', txRows')
  BY <1>1, <1>5 DEF TablesAhead
<1>8. reorgs' = 0 /\ faults' <= 1 =>
          /\ \A m \in 1..cursor' : WatchedLogs(chain'[m]) \subseteq eventRows'
          /\ \A o \in Syncers : RunLogs(sync'[o], chain', eventRows', faults')
  BY <1>1, <1>6
<1>9. ChainOK(chain)'
  BY <1>1 DEF IndexerConsistent, ChainOK
<1> QED BY <1>3, <1>4, <1>7, <1>8, <1>9 DEF IndexerConsistent

\* Of the tables the step changes none.
LEMMA LocalStep ==
    ASSUME IndexerConsistent, NEW y \in Syncers, NEW r,
           sync' = [sync EXCEPT ![y] = r], UNCHANGED <<chain, dbVars, gatewayVars, reorgs, asks>>,
           faults' \in 0..MaxFaults, faults <= faults',
           RunTyped(r, chain),
           reorgs = 0 => RunAhead(r, chain, blockRows, txRows),
           reorgs = 0 /\ faults' <= 1 => RunLogs(r, chain, eventRows, faults')
    PROVE  IndexerConsistent'
<1>1. UNCHANGED <<chain, cursor, blockRows, txRows, eventRows, gatewayVars, reorgs, asks>>
  BY DEF dbVars
<1>2. /\ RowsTyped(chain, blockRows, txRows) /\ eventRows \subseteq Txs \X Nat
      /\ cursor \in 0..MaxHead /\ Len(chain) \in Nat
  BY IndexerAssumption DEF IndexerConsistent, IndexerTypeOK, RowsTyped
<1>3. Grows(chain, blockRows, txRows, chain, blockRows, txRows)
  BY <1>2 DEF Grows
<1>4. reorgs = 0 => TablesAhead(chain, cursor, blockRows, txRows)
  BY DEF IndexerConsistent, TablesAhead
<1>5. faults' <= 1 => faults <= 1
  BY IndexerAssumption DEF IndexerConsistent, IndexerTypeOK
<1>6. reorgs = 0 /\ faults' <= 1 =>
        \A m \in 1..cursor : WatchedLogs(chain[m]) \subseteq eventRows
  BY <1>5 DEF IndexerConsistent
<1> QED BY <1>1, <1>2, <1>3, <1>4, <1>6, StepOfOne

\* What the invariant says of one run.
LEMMA RunFacts ==
    ASSUME IndexerConsistent, NEW y \in Syncers
    PROVE  /\ sync \in [Syncers -> SyncRecord] /\ sync[y] \in SyncRecord
           /\ sync[y].n \in Nat /\ sync[y].end \in Nat /\ sync[y].i \in Nat
           /\ RunTyped(sync[y], chain)
           /\ reorgs = 0 => RunAhead(sync[y], chain, blockRows, txRows)
           /\ reorgs = 0 /\ faults <= 1 => RunLogs(sync[y], chain, eventRows, faults)
           /\ chain \in Seq(Blocks) /\ Len(chain) \in 1..MaxHead /\ cursor \in 0..MaxHead
           /\ faults \in 0..MaxFaults /\ reorgs \in Nat
           /\ RowsTyped(chain, blockRows, txRows) /\ eventRows \subseteq Txs \X Nat
<1>1. sync \in [Syncers -> SyncRecord]
  BY DEF IndexerConsistent, IndexerTypeOK, SyncRecord, Stages
<1>2. sync[y].n \in Nat /\ sync[y].end \in Nat /\ sync[y].i \in Nat
  BY <1>1, IndexerAssumption DEF SyncRecord
<1>3. /\ chain \in Seq(Blocks) /\ Len(chain) \in 1..MaxHead /\ cursor \in 0..MaxHead
      /\ faults \in 0..MaxFaults /\ reorgs \in Nat
      /\ RowsTyped(chain, blockRows, txRows) /\ eventRows \subseteq Txs \X Nat
  BY IndexerAssumption DEF IndexerConsistent, IndexerTypeOK, RowsTyped
<1> QED BY <1>1, <1>2, <1>3 DEF IndexerConsistent

\* A run within its range.
LEMMA RunRange ==
    ASSUME IndexerConsistent, NEW y \in Syncers, sync[y].at \notin {"idle", "head"}
    PROVE  /\ sync[y].n >= 1 /\ sync[y].n <= sync[y].end /\ sync[y].end <= Len(chain)
           /\ sync[y].n \in 1..Len(chain) /\ sync[y].n \in 1..MaxHead
           /\ chain[sync[y].n] \in Blocks
<1> DEFINE n == sync[y].n
           end == sync[y].end
           l == Len(chain)
<1>1. n >= 1 /\ n <= end /\ end <= l /\ n \in Nat /\ end \in Nat /\ l \in 1..MaxHead
  BY RunFacts DEF RunTyped
<1> HIDE DEF n, end, l
<1>2. n \in 1..l /\ n \in 1..MaxHead
  BY <1>1, IndexerAssumption
<1>3. chain[n] \in Blocks
  BY <1>2, RunFacts DEF l
<1> QED BY <1>1, <1>2, <1>3 DEF n, end, l

\* A run that is not under way relies on nothing.
LEMMA IdleRelies ==
    /\ Idle \in SyncRecord
    /\ \A c, br, tr, ev, f : RunTyped(Idle, c) /\ RunAhead(Idle, c, br, tr) /\ RunLogs(Idle, c, ev, f)
<1>1. Idle \in SyncRecord /\ Idle.at = "idle"
  BY IndexerAssumption DEF Idle, SyncRecord, Stages
<1> QED BY <1>1 DEF RunTyped, RunAhead, RunLogs

\* The cursor is read: all up to it is stored.
LEMMA ReadCursorKeeps ==
    ASSUME IndexerConsistent, NEW y \in Syncers, ReadCursor(y)
    PROVE  IndexerConsistent'
<1> DEFINE r == [Idle EXCEPT !.at = "head", !.n = cursor + 1]
<1>1. /\ sync' = [sync EXCEPT ![y] = r]
      /\ UNCHANGED <<chain, dbVars, gatewayVars, reorgs, asks>> /\ faults' = faults
  BY DEF ReadCursor, bounds
<1>2. cursor \in 0..MaxHead /\ faults \in 0..MaxFaults
  BY RunFacts
<1>3. r \in SyncRecord /\ r.at = "head" /\ r.n = cursor + 1
  <2>1. cursor + 1 \in 0..(MaxHead + 1)
    BY <1>2, IndexerAssumption
  <2> QED BY <2>1, IdleRelies DEF SyncRecord, Stages
<1> HIDE DEF r
<1>4. r.n >= 1 /\ r.n - 1 = cursor
  BY <1>2, <1>3, IndexerAssumption
<1>5. RunTyped(r, chain)
  BY <1>3, <1>4 DEF RunTyped
<1>6. reorgs = 0 => RunAhead(r, chain, blockRows, txRows)
  BY <1>3, <1>4 DEF RunAhead, IndexerConsistent
<1>7. reorgs = 0 /\ faults <= 1 => RunLogs(r, chain, eventRows, faults)
  BY <1>3, <1>4 DEF RunLogs, IndexerConsistent
<1>8. faults' \in 0..MaxFaults /\ faults <= faults'
  BY <1>1, <1>2, IndexerAssumption
<1> QED BY <1>1, <1>5, <1>6, <1>7, <1>8, LocalStep

\* The range of the run ends at the head.
LEMMA ReadHeadKeeps ==
    ASSUME IndexerConsistent, NEW y \in Syncers, ReadHead(y)
    PROVE  IndexerConsistent'
<1> DEFINE n == sync[y].n
           last == n + BatchMax - 1
           end == IF last > Len(chain) THEN Len(chain) ELSE last
           r == IF n > Len(chain) THEN Idle
                ELSE [sync[y] EXCEPT !.at = "block", !.n = n, !.end = end]
<1>1. sync[y].at = "head" /\ n >= 1 /\ n \in Nat
  BY RunFacts DEF ReadHead, RunTyped
<1>2. /\ sync' = [sync EXCEPT ![y] = r]
      /\ UNCHANGED <<chain, dbVars, gatewayVars, reorgs, asks>> /\ faults' = faults
  <2>1. (IF n = 0 /\ Len(chain) > 3 THEN Len(chain) - 3 ELSE n) = n
    BY <1>1
  <2>2. sync' = IF n > Len(chain) THEN [sync EXCEPT ![y] = Idle]
                ELSE [sync EXCEPT ![y].at = "block", ![y].n = n, ![y].end = end]
    BY <2>1 DEF ReadHead
  <2> HIDE DEF end
  <2>3. sync \in [Syncers -> SyncRecord]
    BY RunFacts
  <2>4. sync' = [sync EXCEPT ![y] = r]
    BY <2>2, <2>3
  <2> QED BY <2>4 DEF ReadHead, bounds
<1>3. faults' \in 0..MaxFaults /\ faults <= faults'
  BY <1>2, RunFacts, IndexerAssumption
<1>4. CASE n > Len(chain)
  <2>1. r = Idle
    BY <1>4
  <2> HIDE DEF r
  <2> QED BY <1>2, <1>3, <2>1, IdleRelies, LocalStep
<1>5. CASE ~(n > Len(chain))
  <2>1. end \in 0..MaxHead /\ n <= end /\ end <= Len(chain)
    <3>1. Len(chain) \in 1..MaxHead /\ BatchMax \in Nat \ {0} /\ MaxHead \in Nat
      BY RunFacts, IndexerAssumption
    <3>2. n \in Nat /\ n >= 1 /\ n <= Len(chain)
      BY <1>1, <1>5, <3>1
    <3> HIDE DEF n
    <3> QED BY <3>1, <3>2
  <2>2. r = [sync[y] EXCEPT !.at = "block", !.n = n, !.end = end]
    BY <1>5
  <2> HIDE DEF end
  <2>3. r \in SyncRecord /\ r.at = "block" /\ r.n = n /\ r.end = end
    BY <2>1, <2>2, RunFacts DEF SyncRecord, Stages
  <2> HIDE DEF r
  <2>4. RunTyped(r, chain)
    BY <1>1, <2>1, <2>3 DEF RunTyped
  <2>5. reorgs = 0 => RunAhead(r, chain, blockRows, txRows)
    BY <1>1, <2>3, RunFacts DEF RunAhead
  <2>6. reorgs = 0 /\ faults' <= 1 => RunLogs(r, chain, eventRows, faults')
    BY <1>1, <1>2, <2>3, RunFacts DEF RunLogs
  <2> QED BY <1>2, <1>3, <2>4, <2>5, <2>6, LocalStep
<1> QED BY <1>4, <1>5

\* The next block of the range is read.
LEMMA GetBlockKeeps ==
    ASSUME IndexerConsistent, NEW y \in Syncers, GetBlock(y)
    PROVE  IndexerConsistent'
<1> DEFINE n == sync[y].n
           r == [sync[y] EXCEPT !.at = "insert", !.blk = chain[n]]
<1>1. /\ sync[y].at = "block" /\ n >= 1 /\ n <= sync[y].end /\ sync[y].end <= Len(chain)
      /\ n \in Nat /\ n \in 1..Len(chain) /\ chain[n] \in Blocks
  BY RunFacts DEF GetBlock, RunTyped
<1>2. /\ sync' = [sync EXCEPT ![y] = r]
      /\ UNCHANGED <<chain, dbVars, gatewayVars, reorgs, asks>> /\ faults' = faults
  BY RunFacts DEF GetBlock, bounds
<1>3. faults' \in 0..MaxFaults /\ faults <= faults'
  BY <1>2, RunFacts, IndexerAssumption
<1>4. r \in SyncRecord /\ r.at = "insert" /\ r.n = n /\ r.end = sync[y].end /\ r.blk = chain[n]
  BY <1>1, RunFacts DEF SyncRecord, Stages
<1> HIDE DEF r
<1>5. RunTyped(r, chain)
  BY <1>1, <1>4 DEF RunTyped
<1>6. reorgs = 0 => RunAhead(r, chain, blockRows, txRows)
  BY <1>1, <1>4, RunFacts DEF RunAhead
<1>7. reorgs = 0 /\ faults' <= 1 => RunLogs(r, chain, eventRows, faults')
  BY <1>1, <1>2, <1>4, RunFacts DEF RunLogs
<1> QED BY <1>2, <1>3, <1>5, <1>6, <1>7, LocalStep
\* The logs of a transaction and of a block; the receipts hold all of them.
LEMMA LogsType ==
    /\ \A t \in Txs : ReceiptLogs(t) \subseteq Txs \X Nat
    /\ \A b \in Blocks : WatchedLogs(b) \subseteq Txs \X Nat
    /\ \A b \in Blocks : \A key \in WatchedLogs(b) :
          \E k \in 1..Len(Content[b]) : key \in ReceiptLogs(Content[b][k])
<1>1. \A t \in Txs : Decoded(t) \subseteq Nat
  <2> SUFFICES ASSUME NEW t \in Txs PROVE Decoded(t) \subseteq Nat
    OBVIOUS
  <2>1. Len(LogsOf[t]) \in Nat
    BY IndexerAssumption
  <2> QED BY <2>1 DEF Decoded
<1>2. \A t \in Txs : ReceiptLogs(t) \subseteq Txs \X Nat
  BY <1>1 DEF ReceiptLogs, LogKeys
<1>3. ASSUME NEW b \in Blocks, NEW key \in WatchedLogs(b)
      PROVE  \E k \in 1..Len(Content[b]) : key \in ReceiptLogs(Content[b][k])
  <2>1. PICK t \in ToSet(Content[b]) :
           key \in LogKeys(t, {i \in Decoded(t) : LogsOf[t][i].watched})
    BY DEF WatchedLogs
  <2>2. key \in ReceiptLogs(t)
    BY <2>1 DEF LogKeys, ReceiptLogs
  <2>3. PICK k \in 1..Len(Content[b]) : t = Content[b][k]
    BY ContentType DEF ToSet
  <2> QED BY <2>2, <2>3
<1>4. \A b \in Blocks : \A k \in 1..Len(Content[b]) : Content[b][k] \in Txs
  BY ContentType
<1>5. \A b \in Blocks : WatchedLogs(b) \subseteq Txs \X Nat
  BY <1>2, <1>3, <1>4
<1> QED BY <1>2, <1>3, <1>5

\* The block row is inserted, or is there already.
LEMMA InsertBlockKeeps ==
    ASSUME IndexerConsistent, NEW y \in Syncers, InsertBlock(y)
    PROVE  IndexerConsistent'
<1> DEFINE n == sync[y].n
           blk == sync[y].blk
           r == [sync[y] EXCEPT !.at = "tx", !.i = 1]
           c == chain
           br == blockRows
           br2 == blockRows'
           tr == txRows
<1>1. /\ sync[y].at = "insert" /\ n >= 1 /\ n <= sync[y].end /\ sync[y].end <= Len(c)
      /\ n \in Nat /\ n \in 1..Len(c) /\ n \in 1..MaxHead /\ blk \in Blocks
  <2>1. sync[y].at = "insert"
    BY DEF InsertBlock
  <2>2. blk \in Blocks
    BY <2>1, RunFacts DEF RunTyped
  <2> QED BY <2>1, <2>2, RunRange, RunFacts
<1>2. /\ sync' = [sync EXCEPT ![y] = r]
      /\ UNCHANGED <<chain, cursor, txRows, eventRows, gatewayVars, reorgs, asks>>
      /\ faults' = faults
      /\ br2 = [br EXCEPT ![n] = IF br[n] = None THEN blk ELSE br[n]]
  BY RunFacts DEF InsertBlock, bounds
<1>3. faults' \in 0..MaxFaults /\ faults <= faults'
  BY <1>2, RunFacts, IndexerAssumption
<1>4. r \in SyncRecord /\ r.at = "tx" /\ r.n = n /\ r.end = sync[y].end /\ r.blk = blk /\ r.i = 1
  BY <1>1, RunFacts DEF SyncRecord, Stages
<1> HIDE DEF r
<1>5. RunTyped(r, c)
  <2>1. Len(Content[blk]) \in Nat
    BY <1>1, ContentType
  <2> QED BY <1>1, <1>4, <2>1 DEF RunTyped
<1>6. RowsTyped(c, br, tr) /\ RowsTyped(c, br2, tr)
  BY <1>1, <1>2, RunFacts DEF RowsTyped
<1>7. Grows(c, br, tr, c, br2, tr)
  BY <1>1, <1>2, <1>6 DEF Grows, RowsTyped
<1>8. ASSUME reorgs = 0
      PROVE  TablesAhead(c, cursor, br2, tr) /\ RunAhead(r, c, br2, tr)
  <2>1. /\ RunAhead(sync[y], c, br, tr) /\ RowsAgree(c, br, tr)
        /\ cursor <= Len(c) /\ \A m \in 1..cursor : StoredIn(m, c, br, tr)
    BY <1>8, RunFacts DEF IndexerConsistent
  <2>2. \A m \in 1..Len(c) : StoredIn(m, c, br, tr) => StoredIn(m, c, br2, tr)
    BY <1>6, <1>7, StoredStays
  <2>3. blk = c[n] /\ \A m \in 1..(n - 1) : StoredIn(m, c, br2, tr)
    BY <1>1, <2>1, <2>2 DEF RunAhead
  <2>4. br2[n] = c[n] /\ \A m \in 1..MaxHead : m # n => br2[m] = br[m]
    BY <1>1, <1>2, <1>6, <2>1, <2>3 DEF RowsAgree, RowsTyped
  <2>5. \A m \in 1..cursor : StoredIn(m, c, br2, tr)
    BY <2>1, <2>2, RunFacts
  <2>6. RowsAgree(c, br2, tr)
    <3>1. ASSUME NEW m \in 1..MaxHead, br2[m] # None
          PROVE  m <= Len(c) /\ br2[m] = c[m] /\ \A k \in 1..(m - 1) : StoredIn(k, c, br2, tr)
      <4>1. CASE m = n
        BY <1>1, <2>3, <2>4, <4>1
      <4>2. CASE m # n
        <5>1. m <= Len(c) /\ br[m] = c[m] /\ \A k \in 1..(m - 1) : StoredIn(k, c, br, tr)
          BY <2>1, <2>4, <3>1, <4>2 DEF RowsAgree
        <5> QED BY <2>2, <2>4, <4>2, <5>1, RunFacts
      <4> QED BY <4>1, <4>2
    <3> QED BY <2>1, <3>1 DEF RowsAgree
  <2>7. RunAhead(r, c, br2, tr)
    BY <1>1, <1>4, <2>3, <2>4 DEF RunAhead
  <2> QED BY <2>1, <2>5, <2>6, <2>7 DEF TablesAhead
<1>9. reorgs = 0 /\ faults' <= 1 =>
          /\ \A m \in 1..cursor : WatchedLogs(c[m]) \subseteq eventRows
          /\ RunLogs(r, c, eventRows, faults')
  BY <1>1, <1>2, <1>4, RunFacts DEF RunLogs, IndexerConsistent
<1> QED BY <1>2, <1>3, <1>5, <1>6, <1>7, <1>8, <1>9, RunFacts, StepOfOne

\* The receipt is read, or an error swallowed.
LEMMA GetReceiptKeeps ==
    ASSUME IndexerConsistent, NEW y \in Syncers, GetReceipt(y)
    PROVE  IndexerConsistent'
<1> DEFINE n == sync[y].n
           blk == sync[y].blk
           i == sync[y].i
           t == Tx(y)
<1>1. /\ sync[y].at = "tx" /\ n >= 1 /\ n <= sync[y].end /\ sync[y].end <= Len(chain)
      /\ n \in 1..Len(chain) /\ blk \in Blocks /\ i \in 1..Len(Content[blk])
      /\ t = Content[blk][i] /\ t \in Txs
  <2>1. /\ sync[y].at = "tx" /\ n >= 1 /\ n <= sync[y].end /\ sync[y].end <= Len(chain)
        /\ n \in Nat /\ n \in 1..Len(chain) /\ blk \in Blocks /\ i \in 1..(Len(Content[blk]) + 1)
        /\ i <= Len(Content[blk])
    BY RunFacts DEF GetReceipt, TxLeft, RunTyped
  <2>2. Len(Content[blk]) \in Nat /\ \A k \in 1..Len(Content[blk]) : Content[blk][k] \in Txs
    BY <2>1, ContentType
  <2> QED BY <2>1, <2>2 DEF Tx
<1>2. PICK known \in BOOLEAN :
        /\ sync' = [sync EXCEPT ![y].at = "logs", ![y].known = known,
                        ![y].todo = IF known THEN ReceiptLogs(t) ELSE {}]
        /\ \/ known = (t \in TxsOfChain(chain)) /\ UNCHANGED faults
           \/ known = FALSE /\ Fault
  <2> DEFINE found == t \in TxsOfChain(chain)
             answer(known) == sync' = [sync EXCEPT ![y].at = "logs", ![y].known = known,
                                 ![y].todo = IF known THEN ReceiptLogs(t) ELSE {}]
  <2>1. \/ answer(found) /\ UNCHANGED faults
        \/ answer(FALSE) /\ Fault
    BY DEF GetReceipt
  <2>2. found \in BOOLEAN
    OBVIOUS
  <2> HIDE DEF answer, found
  <2>3. \E known \in BOOLEAN :
           /\ answer(known)
           /\ \/ known = found /\ UNCHANGED faults
              \/ known = FALSE /\ Fault
    BY <2>1, <2>2
  <2> QED BY <2>3 DEF answer, found
<1> DEFINE todo == IF known THEN ReceiptLogs(t) ELSE {}
           r == [sync[y] EXCEPT !.at = "logs", !.known = known, !.todo = todo]
<1>3. /\ sync' = [sync EXCEPT ![y] = r]
      /\ UNCHANGED <<chain, dbVars, gatewayVars, reorgs, asks>>
  BY <1>2, RunFacts DEF GetReceipt
<1>4. faults' \in 0..MaxFaults /\ faults <= faults'
  BY <1>2, RunFacts, IndexerAssumption DEF Fault
<1>5. todo \subseteq Txs \X Nat
  BY <1>1, LogsType
<1>6. reorgs = 0 /\ faults' = 0 => todo = ReceiptLogs(t) /\ faults = 0
  <2> SUFFICES ASSUME reorgs = 0, faults' = 0 PROVE todo = ReceiptLogs(t) /\ faults = 0
    OBVIOUS
  <2>1. faults \in Nat
    BY RunFacts, IndexerAssumption
  <2>2. known = (t \in TxsOfChain(chain)) /\ faults = 0
    BY <1>2, <2>1 DEF Fault
  <2>3. blk = chain[n]
    BY <1>1, RunFacts DEF RunAhead
  <2>4. t \in ToSet(Content[blk])
    BY <1>1, ContentType DEF ToSet
  <2>5. t \in TxsOfChain(chain)
    BY <1>1, <2>3, <2>4 DEF TxsOfChain
  <2> QED BY <2>2, <2>5
<1> HIDE DEF todo
<1>7. /\ r \in SyncRecord /\ r.at = "logs" /\ r.n = n /\ r.end = sync[y].end /\ r.blk = blk
      /\ r.i = i /\ r.todo = todo
  BY <1>5, RunFacts DEF SyncRecord, Stages
<1> HIDE DEF r
<1>8. RunTyped(r, chain)
  BY <1>1, <1>7 DEF RunTyped
<1>9. reorgs = 0 => RunAhead(r, chain, blockRows, txRows)
  BY <1>1, <1>7, RunFacts DEF RunAhead
<1>10. ASSUME reorgs = 0, faults' <= 1
       PROVE  RunLogs(r, chain, eventRows, faults')
  <2>1. faults <= 1
    BY <1>4, <1>10, RunFacts, IndexerAssumption
  <2>2. RunLogs(sync[y], chain, eventRows, faults)
    BY <1>10, <2>1, RunFacts
  <2> QED BY <1>1, <1>6, <1>7, <1>10, <2>2 DEF RunLogs
<1> QED BY <1>3, <1>4, <1>8, <1>9, <1>10, LocalStep

\* One log is inserted.
LEMMA IndexLogKeeps ==
    ASSUME IndexerConsistent, NEW y \in Syncers, IndexLog(y)
    PROVE  IndexerConsistent'
<1>1. PICK key \in sync[y].todo :
        /\ eventRows' = eventRows \cup {key}
        /\ sync' = [sync EXCEPT ![y].todo = @ \ {key}]
  BY DEF IndexLog
<1> DEFINE todo == sync[y].todo \ {key}
           r == [sync[y] EXCEPT !.todo = todo]
<1>2. /\ sync' = [sync EXCEPT ![y] = r] /\ sync[y].at \in {"logs", "watched"}
      /\ UNCHANGED <<chain, cursor, blockRows, txRows, gatewayVars, reorgs, asks>>
      /\ faults' = faults
  BY <1>1, RunFacts DEF IndexLog, bounds
<1>3. faults' \in 0..MaxFaults /\ faults <= faults'
  BY <1>2, RunFacts, IndexerAssumption
<1>4. sync[y].todo \subseteq Txs \X Nat
  BY RunFacts DEF SyncRecord
<1>5. eventRows \subseteq eventRows' /\ eventRows' \subseteq Txs \X Nat
      /\ eventRows' \cup todo = eventRows \cup sync[y].todo
  BY <1>1, <1>4, RunFacts
<1> HIDE DEF todo
<1>6. /\ r \in SyncRecord /\ r.at = sync[y].at /\ r.n = sync[y].n /\ r.end = sync[y].end
      /\ r.blk = sync[y].blk /\ r.i = sync[y].i /\ r.todo = todo
  <2>1. todo \subseteq Txs \X Nat
    BY <1>4 DEF todo
  <2> QED BY <2>1, RunFacts DEF SyncRecord
<1> HIDE DEF r
<1>7. RunTyped(r, chain)
  BY <1>2, <1>6, RunFacts DEF RunTyped
<1>8. Grows(chain, blockRows, txRows, chain, blockRows, txRows)
  BY RunFacts DEF Grows
<1>9. reorgs = 0 => /\ TablesAhead(chain, cursor, blockRows, txRows)
                    /\ RunAhead(r, chain, blockRows, txRows)
  <2>1. reorgs = 0 => TablesAhead(chain, cursor, blockRows, txRows)
    BY DEF TablesAhead, IndexerConsistent
  <2>2. reorgs = 0 => RunAhead(r, chain, blockRows, txRows)
    BY <1>6, RunFacts DEF RunAhead
  <2> QED BY <2>1, <2>2
<1>10. reorgs = 0 /\ faults <= 1 =>
          /\ \A m \in 1..cursor : WatchedLogs(chain[m]) \subseteq eventRows'
          /\ RunLogs(r, chain, eventRows', faults)
  <2> SUFFICES ASSUME reorgs = 0, faults <= 1
               PROVE  /\ \A m \in 1..cursor : WatchedLogs(chain[m]) \subseteq eventRows'
                      /\ RunLogs(r, chain, eventRows', faults)
    OBVIOUS
  <2>1. /\ \A m \in 1..cursor : WatchedLogs(chain[m]) \subseteq eventRows
        /\ RunLogs(sync[y], chain, eventRows, faults)
    BY DEF IndexerConsistent
  <2> QED BY <1>2, <1>5, <1>6, <2>1 DEF RunLogs
<1> QED BY <1>2, <1>3, <1>5, <1>7, <1>8, <1>9, <1>10, RunFacts, StepOfOne

\* A transaction of two blocks of a chain is a transaction of one.
LEMMA OneBlock ==
    ASSUME NEW c, ChainOK(c), NEW m \in 1..Len(c), NEW n \in 1..Len(c),
           NEW t, t \in ToSet(Content[c[m]]), t \in ToSet(Content[c[n]])
    PROVE  m = n
  BY DEF ChainOK

\* The transaction row is inserted, or is there already.
LEMMA InsertTransactionKeeps ==
    ASSUME IndexerConsistent, NEW y \in Syncers, InsertTransaction(y)
    PROVE  IndexerConsistent'
<1> DEFINE n == sync[y].n
           blk == sync[y].blk
           i == sync[y].i
           t == Tx(y)
           row == [block |-> n, status |-> sync[y].known]
           r == [sync[y] EXCEPT !.at = "tx", !.i = i + 1]
           c == chain
           br == blockRows
           tr == txRows
           tr2 == txRows'
<1>1. /\ sync[y].at = "logs" /\ n >= 1 /\ n <= sync[y].end /\ sync[y].end <= Len(c)
      /\ n \in 1..Len(c) /\ n \in 1..MaxHead /\ blk \in Blocks /\ i \in 1..Len(Content[blk])
      /\ t = Content[blk][i] /\ t \in Txs /\ t \in ToSet(Content[blk])
      /\ Len(Content[blk]) \in Nat /\ i \in Nat
  <2>1. sync[y].at = "logs"
    BY DEF InsertTransaction
  <2>2. blk \in Blocks /\ i \in 1..Len(Content[blk])
    BY <2>1, RunFacts DEF RunTyped
  <2>3. /\ Len(Content[blk]) \in Nat /\ Content[blk][i] \in Txs
        /\ Content[blk][i] \in ToSet(Content[blk])
    BY <2>2, ContentType DEF ToSet
  <2> QED BY <2>1, <2>2, <2>3, RunRange DEF Tx
<1>2. /\ sync' = [sync EXCEPT ![y] = r] /\ sync[y].todo = {}
      /\ UNCHANGED <<chain, cursor, blockRows, eventRows, gatewayVars, reorgs, asks>>
      /\ faults' = faults
      /\ tr2 = [tr EXCEPT ![t] = IF tr[t] = None THEN row ELSE tr[t]]
  BY RunFacts DEF InsertTransaction, bounds
<1>3. faults' \in 0..MaxFaults /\ faults <= faults'
  BY <1>2, RunFacts, IndexerAssumption
<1>4. r \in SyncRecord /\ r.at = "tx" /\ r.n = n /\ r.end = sync[y].end /\ r.blk = blk /\ r.i = i + 1
  <2>1. i + 1 \in Nat
    BY <1>1
  <2> QED BY <2>1, RunFacts DEF SyncRecord, Stages
<1>5. row \in [block : 1..MaxHead, status : BOOLEAN] /\ row # None /\ row.block = n
  <2>1. sync[y].known \in BOOLEAN
    BY RunFacts DEF SyncRecord
  <2> QED BY <1>1, <2>1, IndexerAssumption
<1> HIDE DEF r, row
<1>6. RunTyped(r, c)
  BY <1>1, <1>4 DEF RunTyped
<1>7. RowsTyped(c, br, tr) /\ RowsTyped(c, br, tr2)
  BY <1>1, <1>2, <1>5, RunFacts DEF RowsTyped
<1>8. Grows(c, br, tr, c, br, tr2)
  <2>1. Len(c) \in Nat /\ \A x \in Txs : tr[x] # None => tr2[x] = tr[x]
    <3>1. c \in Seq(Blocks) /\ DOMAIN tr = Txs
      BY <1>7 DEF RowsTyped
    <3>2. tr2 = [tr EXCEPT ![t] = IF tr[t] = None THEN row ELSE tr[t]]
      BY <1>2
    <3> HIDE DEF tr, tr2, t
    <3>3. \A x \in Txs : tr[x] # None => tr2[x] = tr[x]
      BY <3>1, <3>2
    <3> QED BY <3>1, <3>3
  <2>2. Len(c) <= Len(c)
    BY <2>1
  <2> HIDE DEF c, br, tr, tr2
  <2> QED BY <2>1, <2>2 DEF Grows
<1>9. ASSUME reorgs = 0
      PROVE  TablesAhead(c, cursor, br, tr2) /\ RunAhead(r, c, br, tr2)
  <2>1. /\ RunAhead(sync[y], c, br, tr) /\ RowsAgree(c, br, tr) /\ RunTyped(sync[y], c)
        /\ cursor <= Len(c) /\ \A m \in 1..cursor : StoredIn(m, c, br, tr)
    BY <1>9, RunFacts DEF IndexerConsistent
  <2>2. \A m \in 1..Len(c) : StoredIn(m, c, br, tr) => StoredIn(m, c, br, tr2)
    BY <1>7, <1>8, StoredStays
  <2>3. RunAhead(sync[y], c, br, tr2)
    BY <1>7, <1>8, <2>1, AheadStays, RunFacts
  <2>4. blk = c[n]
    BY <1>1, <2>1 DEF RunAhead
  <2>5. tr2[t] # None /\ tr2[t].block = n
    <3>1. CASE tr[t] = None
      BY <1>1, <1>2, <1>5, <1>7, <3>1 DEF RowsTyped
    <3>2. CASE tr[t] # None
      <4>1. tr[t].block \in 1..Len(c) /\ t \in ToSet(Content[c[tr[t].block]])
        <5> DEFINE old == tr[t].block
        <5>1. old \in 1..MaxHead
          BY <1>1, <1>7, <3>2 DEF RowsTyped
        <5>2. old <= Len(c) /\ t \in ToSet(Content[c[old]])
          BY <1>1, <2>1, <3>2 DEF RowsAgree
        <5>3. Len(c) \in Nat /\ MaxHead \in Nat
          BY RunFacts, IndexerAssumption
        <5> HIDE DEF old
        <5>4. old \in 1..Len(c)
          BY <5>1, <5>2, <5>3
        <5> QED BY <5>2, <5>4 DEF old
      <4>2. tr[t].block = n
        BY <1>1, <2>4, <4>1, OneBlock DEF IndexerConsistent
      <4> QED BY <1>1, <1>2, <1>7, <3>2, <4>2 DEF RowsTyped
    <3> QED BY <3>1, <3>2
  <2>6. \A x \in Txs : x # t => tr2[x] = tr[x]
    BY <1>2, <1>7 DEF RowsTyped
  <2>7. RowsAgree(c, br, tr2)
    <3>1. ASSUME NEW m \in 1..MaxHead, br[m] # None
          PROVE  m <= Len(c) /\ br[m] = c[m] /\ \A k \in 1..(m - 1) : StoredIn(k, c, br, tr2)
      <4>1. m <= Len(c) /\ br[m] = c[m] /\ \A k \in 1..(m - 1) : StoredIn(k, c, br, tr)
        BY <2>1, <3>1 DEF RowsAgree
      <4> QED BY <2>2, <4>1, RunFacts
    <3>2. ASSUME NEW x \in Txs, tr2[x] # None
          PROVE  tr2[x].block <= Len(c) /\ x \in ToSet(Content[c[tr2[x].block]])
      <4>1. CASE x = t
        <5>1. tr2[x].block = n
          BY <2>5, <4>1
        <5>2. n <= Len(c)
          BY <1>1, RunFacts
        <5>3. x \in ToSet(Content[c[n]])
          BY <1>1, <2>4, <4>1
        <5> HIDE DEF n
        <5> QED BY <5>1, <5>2, <5>3
      <4>2. CASE x # t
        BY <2>1, <2>6, <3>2, <4>2 DEF RowsAgree
      <4> QED BY <4>1, <4>2
    <3> QED BY <3>1, <3>2 DEF RowsAgree
  <2>8. \A m \in 1..cursor : StoredIn(m, c, br, tr2)
    BY <2>1, <2>2, RunFacts
  <2>9. \A k \in 1..(r.i - 1) :
           LET x == Content[blk][k] IN tr2[x] # None /\ tr2[x].block = n
    <3> SUFFICES ASSUME NEW k \in 1..(r.i - 1)
                 PROVE  tr2[Content[blk][k]] # None /\ tr2[Content[blk][k]].block = n
      OBVIOUS
    <3>1. k = i \/ k \in 1..(i - 1)
      BY <1>1, <1>4
    <3>2. CASE k = i
      BY <1>1, <2>5, <3>2
    <3>3. CASE k \in 1..(i - 1)
      BY <1>1, <2>3, <3>3 DEF RunAhead
    <3> QED BY <3>1, <3>2, <3>3
  <2>10. RunAhead(r, c, br, tr2)
    BY <1>1, <1>4, <2>3, <2>9 DEF RunAhead
  <2> QED BY <2>1, <2>7, <2>8, <2>10 DEF TablesAhead
<1>10. ASSUME reorgs = 0, faults <= 1
       PROVE  /\ \A m \in 1..cursor : WatchedLogs(c[m]) \subseteq eventRows
              /\ RunLogs(r, c, eventRows, faults)
  <2>1. /\ \A m \in 1..cursor : WatchedLogs(c[m]) \subseteq eventRows
        /\ RunLogs(sync[y], c, eventRows, faults)
    BY <1>10 DEF IndexerConsistent
  <2>2. ASSUME faults = 0, NEW k \in 1..(r.i - 1)
        PROVE  ReceiptLogs(Content[blk][k]) \subseteq eventRows
    <3>1. k = i \/ k \in 1..(i - 1)
      BY <1>1, <1>4
    <3> QED BY <1>1, <1>2, <2>1, <2>2, <3>1 DEF RunLogs
  <2> QED BY <1>1, <1>4, <2>1, <2>2 DEF RunLogs
<1> QED BY <1>2, <1>3, <1>6, <1>7, <1>8, <1>9, <1>10, RunFacts, StepOfOne

\* The logs of the watched contracts are read, or an error swallowed.
LEMMA GetLogsKeeps ==
    ASSUME IndexerConsistent, NEW y \in Syncers, GetLogs(y)
    PROVE  IndexerConsistent'
<1> DEFINE n == sync[y].n
           blk == sync[y].blk
           i == sync[y].i
<1>1. /\ sync[y].at = "tx" /\ n >= 1 /\ n <= sync[y].end /\ sync[y].end <= Len(chain)
      /\ n \in 1..Len(chain) /\ blk \in Blocks /\ i = Len(Content[blk]) + 1
      /\ chain[n] \in Blocks /\ Len(Content[blk]) \in Nat
  <2>1. sync[y].at = "tx" /\ ~(i <= Len(Content[blk]))
    BY DEF GetLogs, TxLeft
  <2>2. blk \in Blocks /\ i \in 1..(Len(Content[blk]) + 1)
    BY <2>1, RunFacts DEF RunTyped
  <2>3. Len(Content[blk]) \in Nat
    BY <2>2, ContentType
  <2>4. i = Len(Content[blk]) + 1
    BY <2>1, <2>2, <2>3
  <2> QED BY <2>1, <2>2, <2>3, <2>4, RunRange
<1>2. PICK todo \in {WatchedLogs(chain[n]), {}} :
        /\ sync' = [sync EXCEPT ![y].at = "watched", ![y].todo = todo]
        /\ \/ todo = WatchedLogs(chain[n]) /\ UNCHANGED faults
           \/ todo = {} /\ Fault
  <2> DEFINE all == WatchedLogs(chain[n])
             answer(keys) == sync' = [sync EXCEPT ![y].at = "watched", ![y].todo = keys]
  <2>1. \/ answer(all) /\ UNCHANGED faults
        \/ answer({}) /\ Fault
    BY DEF GetLogs
  <2> HIDE DEF answer, all
  <2>2. \E keys \in {all, {}} :
           /\ answer(keys)
           /\ \/ keys = all /\ UNCHANGED faults
              \/ keys = {} /\ Fault
    BY <2>1
  <2> QED BY <2>2 DEF answer, all
<1> DEFINE r == [sync[y] EXCEPT !.at = "watched", !.todo = todo]
<1>3. /\ sync' = [sync EXCEPT ![y] = r]
      /\ UNCHANGED <<chain, dbVars, gatewayVars, reorgs, asks>>
  BY <1>2, RunFacts DEF GetLogs
<1>4. faults' \in 0..MaxFaults /\ faults <= faults'
  BY <1>2, RunFacts, IndexerAssumption DEF Fault
<1>5. todo \subseteq Txs \X Nat
  BY <1>1, LogsType
<1>6. /\ r \in SyncRecord /\ r.at = "watched" /\ r.n = n /\ r.end = sync[y].end /\ r.blk = blk
      /\ r.todo = todo
  BY <1>5, RunFacts DEF SyncRecord, Stages
<1> HIDE DEF r
<1>7. RunTyped(r, chain)
  BY <1>1, <1>6 DEF RunTyped
<1>8. ASSUME reorgs = 0
      PROVE  RunAhead(r, chain, blockRows, txRows)
  <2>1. RunAhead(sync[y], chain, blockRows, txRows)
    BY <1>8, RunFacts
  <2>2. blk = chain[n] /\ blockRows[n] = chain[n]
    BY <1>1, <2>1 DEF RunAhead
  <2>3. ASSUME NEW t \in ToSet(Content[blk]) PROVE txRows[t] # None /\ txRows[t].block = n
    <3>1. PICK k \in 1..Len(Content[blk]) : t = Content[blk][k]
      BY <1>1, ContentType DEF ToSet
    <3>2. k \in 1..(i - 1)
      BY <1>1
    <3> QED BY <1>1, <2>1, <3>1, <3>2 DEF RunAhead
  <2>4. StoredIn(n, chain, blockRows, txRows)
    BY <2>2, <2>3 DEF StoredIn
  <2> QED BY <1>1, <1>6, <2>1, <2>2, <2>4 DEF RunAhead
<1>9. ASSUME reorgs = 0, faults' <= 1
      PROVE  RunLogs(r, chain, eventRows, faults')
  <2>1. faults <= 1 /\ faults \in Nat
    BY <1>4, <1>9, RunFacts, IndexerAssumption
  <2>2. RunLogs(sync[y], chain, eventRows, faults)
    BY <1>9, <2>1, RunFacts
  <2>3. WatchedLogs(chain[n]) \subseteq eventRows \cup todo
    <3>1. CASE todo = WatchedLogs(chain[n])
      BY <3>1
    <3>2. CASE Fault
      <4>1. faults = 0
        BY <1>9, <2>1, <3>2 DEF Fault
      <4>2. blk = chain[n]
        BY <1>1, <1>9, RunFacts DEF RunAhead
      <4>3. \A k \in 1..Len(Content[blk]) : ReceiptLogs(Content[blk][k]) \subseteq eventRows
        <5>1. \A k \in 1..Len(Content[blk]) : k \in 1..(i - 1)
          BY <1>1
        <5> QED BY <1>1, <2>2, <4>1, <5>1 DEF RunLogs
      <4> QED BY <1>1, <4>2, <4>3, LogsType
    <3> QED BY <1>2, <3>1, <3>2
  <2> QED BY <1>1, <1>6, <2>2, <2>3 DEF RunLogs
<1> QED BY <1>3, <1>4, <1>7, <1>8, <1>9, LocalStep
\* The cursor moves to the block, and the run to the next one.
LEMMA SetSyncStateKeeps ==
    ASSUME IndexerConsistent, NEW y \in Syncers, SetSyncState(y)
    PROVE  IndexerConsistent'
<1> DEFINE n == sync[y].n
           end == sync[y].end
           next == n + 1
           r == IF n < end THEN [Idle EXCEPT !.at = "block", !.n = next, !.end = end] ELSE Idle
<1>1. /\ sync[y].at = "watched" /\ sync[y].todo = {} /\ cursor' = n
      /\ sync' = [sync EXCEPT ![y] = r]
      /\ UNCHANGED <<chain, blockRows, txRows, eventRows, gatewayVars, reorgs, asks>>
      /\ faults' = faults
  BY DEF SetSyncState, bounds
<1>2. /\ n \in 1..Len(chain) /\ n \in 1..MaxHead /\ end <= Len(chain) /\ end \in 0..MaxHead
      /\ Len(chain) \in Nat /\ n >= 1 /\ n \in Nat
  BY <1>1, RunRange, RunFacts DEF SyncRecord
<1>3. /\ faults' \in 0..MaxFaults /\ faults <= faults' /\ cursor' \in 0..MaxHead
  BY <1>1, <1>2, RunFacts, IndexerAssumption
<1>4. /\ next \in 0..(MaxHead + 1) /\ next >= 1 /\ next - 1 = n
  BY <1>2, IndexerAssumption
<1>5. /\ Grows(chain, blockRows, txRows, chain, blockRows, txRows)
      /\ RowsTyped(chain, blockRows, txRows)
  BY RunFacts DEF Grows
<1>6. reorgs = 0 => /\ RunAhead(sync[y], chain, blockRows, txRows)
                    /\ \A m \in 1..n : StoredIn(m, chain, blockRows, txRows)
  <2> SUFFICES ASSUME reorgs = 0, NEW m \in 1..n
               PROVE  /\ RunAhead(sync[y], chain, blockRows, txRows)
                      /\ StoredIn(m, chain, blockRows, txRows)
    BY RunFacts
  <2>1. RunAhead(sync[y], chain, blockRows, txRows)
    BY RunFacts
  <2>2. m = n \/ m \in 1..(n - 1)
    BY <1>2
  <2> QED BY <1>1, <2>1, <2>2 DEF RunAhead
<1>7. reorgs = 0 /\ faults' <= 1 => \A m \in 1..n : WatchedLogs(chain[m]) \subseteq eventRows
  <2> SUFFICES ASSUME reorgs = 0, faults' <= 1, NEW m \in 1..n
               PROVE  WatchedLogs(chain[m]) \subseteq eventRows
    OBVIOUS
  <2>1. RunLogs(sync[y], chain, eventRows, faults)
    BY <1>1, RunFacts
  <2>2. m = n \/ m \in 1..(n - 1)
    BY <1>2
  <2> QED BY <1>1, <2>1, <2>2 DEF RunLogs
<1>8. reorgs = 0 => TablesAhead(chain, cursor', blockRows, txRows)
  BY <1>1, <1>2, <1>6 DEF TablesAhead, IndexerConsistent
<1>9. /\ RunTyped(r, chain)
      /\ reorgs = 0 => RunAhead(r, chain, blockRows, txRows)
      /\ reorgs = 0 /\ faults' <= 1 => RunLogs(r, chain, eventRows, faults')
  <2>1. CASE ~(n < end)
    <3>1. r = Idle
      BY <2>1
    <3> HIDE DEF r
    <3> QED BY <3>1, IdleRelies
  <2>2. CASE n < end
    <3>1. r = [Idle EXCEPT !.at = "block", !.n = next, !.end = end] /\ next <= end
      BY <1>2, <2>2
    <3> HIDE DEF next
    <3>2. r \in SyncRecord /\ r.at = "block" /\ r.n = next /\ r.end = end
      BY <1>2, <1>4, <3>1, IdleRelies DEF SyncRecord, Stages
    <3> HIDE DEF r
    <3>3. RunTyped(r, chain)
      BY <1>2, <1>4, <3>1, <3>2 DEF RunTyped
    <3>4. reorgs = 0 => RunAhead(r, chain, blockRows, txRows)
      BY <1>2, <1>4, <1>6, <3>2 DEF RunAhead
    <3>5. reorgs = 0 /\ faults' <= 1 => RunLogs(r, chain, eventRows, faults')
      BY <1>4, <1>7, <3>2 DEF RunLogs
    <3> QED BY <3>3, <3>4, <3>5
  <2> QED BY <2>1, <2>2
<1> HIDE DEF r
<1> QED BY <1>1, <1>3, <1>5, <1>7, <1>8, <1>9, RunFacts, StepOfOne

\* A run stops.
LEMMA AbortKeeps ==
    ASSUME IndexerConsistent, NEW y \in Syncers, Abort(y)
    PROVE  IndexerConsistent'
<1>1. /\ sync' = [sync EXCEPT ![y] = Idle]
      /\ UNCHANGED <<chain, dbVars, gatewayVars, reorgs, asks>>
  BY DEF Abort
<1>2. faults' \in 0..MaxFaults /\ faults <= faults'
  BY RunFacts, IndexerAssumption DEF Abort, Fault
<1> QED BY <1>1, <1>2, IdleRelies, LocalStep
-----------------------------------------------------------------------------
(* Steps of the node and of the gateway *)

\* The typed parts of the invariant.
LEMMA StateFacts ==
    ASSUME IndexerConsistent
    PROVE  /\ chain \in Seq(Blocks) /\ Len(chain) \in 1..MaxHead /\ Len(chain) \in FirstHead..MaxHead
           /\ Len(chain) \in Nat /\ cursor \in 0..MaxHead
           /\ sync \in [Syncers -> SyncRecord]
           /\ RowsTyped(chain, blockRows, txRows)
           /\ ask \in [at : {"idle", "head"}, since : Nat, cursor : Nat]
           /\ status \in [since : Nat, live : BOOLEAN, lag : Nat] \cup {None}
           /\ faults \in 0..MaxFaults /\ faults \in Nat /\ reorgs \in Nat
  BY IndexerAssumption DEF IndexerConsistent, IndexerTypeOK, SyncRecord, Stages, RowsTyped

\* A block is mined.
LEMMA MineKeeps ==
    ASSUME IndexerConsistent, Mine
    PROVE  IndexerConsistent'
<1>1. PICK b \in Blocks : ChainOK(Append(chain, b)) /\ chain' = Append(chain, b)
  BY DEF Mine
<1> DEFINE c == chain
           c2 == Append(chain, b)
           l == Len(chain)
<1>2. /\ UNCHANGED <<cursor, blockRows, txRows, eventRows, sync, ask, status>>
      /\ UNCHANGED <<faults, reorgs, asks>> /\ l < MaxHead
  BY DEF Mine, dbVars, gatewayVars, bounds
<1>3. /\ c2 \in Seq(Blocks) /\ Len(c2) = l + 1 /\ \A m \in 1..l : c2[m] = c[m]
      /\ l \in Nat /\ Len(c2) \in Nat /\ l <= Len(c2)
  BY <1>1, StateFacts
<1>4. Len(c2) \in FirstHead..MaxHead
  BY <1>2, <1>3, StateFacts, IndexerAssumption
<1>5. IndexerTypeOK'
  BY <1>1, <1>2, <1>3, <1>4 DEF IndexerConsistent, IndexerTypeOK
<1>6. Grows(c, blockRows, txRows, c2, blockRows, txRows)
  BY <1>3, StateFacts DEF Grows
<1> HIDE DEF c2
<1>7. \A m \in 1..l : StoredIn(m, c, blockRows, txRows) => StoredIn(m, c2, blockRows, txRows)
  BY <1>6, StateFacts, StoredStays
<1>8. ASSUME NEW y \in Syncers
      PROVE  RunTyped(sync[y], c2)
  <2>1. RunTyped(sync[y], c) /\ sync[y] \in SyncRecord
    BY StateFacts DEF IndexerConsistent
  <2>2. sync[y].end \in Nat
    BY RunFacts
  <2> QED BY <1>3, <2>1, <2>2 DEF RunTyped
<1>9. ASSUME reorgs = 0
      PROVE  /\ cursor <= Len(c2)
             /\ \A m \in 1..cursor : StoredIn(m, c2, blockRows, txRows)
             /\ RowsAgree(c2, blockRows, txRows)
             /\ \A y \in Syncers : RunAhead(sync[y], c2, blockRows, txRows)
             /\ AskAhead(ask, c2, blockRows, txRows)
             /\ StatusAhead(status, c2, blockRows, txRows)
  <2>1. /\ cursor <= l
        /\ \A m \in 1..cursor : StoredIn(m, c, blockRows, txRows)
        /\ RowsAgree(c, blockRows, txRows)
        /\ \A y \in Syncers : RunTyped(sync[y], c) /\ RunAhead(sync[y], c, blockRows, txRows)
        /\ AskAhead(ask, c, blockRows, txRows)
        /\ StatusAhead(status, c, blockRows, txRows)
    BY <1>9 DEF IndexerConsistent
  <2>2. cursor <= Len(c2) /\ \A m \in 1..cursor : StoredIn(m, c2, blockRows, txRows)
    <3>1. cursor \in Nat /\ cursor <= l /\ l \in Nat /\ Len(c2) = l + 1
      BY <1>3, <2>1, StateFacts, IndexerAssumption
    <3>2. cursor <= Len(c2) /\ \A m \in 1..cursor : m \in 1..l
      BY <3>1
    <3> QED BY <1>7, <2>1, <3>2
  <2>3. RowsAgree(c2, blockRows, txRows)
    <3>1. ASSUME NEW n \in 1..MaxHead, blockRows[n] # None
          PROVE  n <= Len(c2) /\ blockRows[n] = c2[n]
                 /\ \A m \in 1..(n - 1) : StoredIn(m, c2, blockRows, txRows)
      <4>1. n <= l /\ blockRows[n] = c[n] /\ \A m \in 1..(n - 1) : StoredIn(m, c, blockRows, txRows)
        BY <2>1, <3>1 DEF RowsAgree
      <4>2. n \in 1..l /\ n <= Len(c2)
        BY <1>3, <4>1
      <4> QED BY <1>3, <1>7, <4>1, <4>2
    <3>2. ASSUME NEW t \in Txs, txRows[t] # None
          PROVE  txRows[t].block <= Len(c2) /\ t \in ToSet(Content[c2[txRows[t].block]])
      <4> DEFINE n == txRows[t].block
      <4>1. n <= l /\ t \in ToSet(Content[c[n]])
        BY <2>1, <3>2 DEF RowsAgree
      <4>2. n \in 1..MaxHead
        BY <3>2, StateFacts DEF RowsTyped
      <4> HIDE DEF n
      <4>3. n \in 1..l /\ n <= Len(c2)
        BY <1>3, <4>1, <4>2
      <4>4. n <= Len(c2) /\ t \in ToSet(Content[c2[n]])
        BY <1>3, <4>1, <4>3
      <4> QED BY <4>4 DEF n
    <3> QED BY <3>1, <3>2 DEF RowsAgree
  <2> QED BY <1>3, <1>6, <2>1, <2>2, <2>3, StateFacts, AheadStays
<1>10. ASSUME reorgs = 0, faults <= 1
       PROVE  /\ \A m \in 1..cursor : WatchedLogs(c2[m]) \subseteq eventRows
              /\ \A y \in Syncers : RunLogs(sync[y], c2, eventRows, faults)
  <2>1. /\ cursor <= l
        /\ \A m \in 1..cursor : WatchedLogs(c[m]) \subseteq eventRows
    BY <1>10 DEF IndexerConsistent
  <2>2. ASSUME NEW y \in Syncers PROVE RunLogs(sync[y], c2, eventRows, faults)
    <3> DEFINE s == sync[y]
    <3>1. /\ RunTyped(s, c) /\ RunLogs(s, c, eventRows, faults)
          /\ s.at # "idle" => s.n - 1 <= l
      BY <1>10 DEF IndexerConsistent, RunAhead
    <3>2. s \in SyncRecord /\ faults \in Nat /\ c \in Seq(Blocks) /\ l <= Len(c2)
      BY <1>3, StateFacts
    <3>3. \A m \in 1..l : c2[m] = c[m]
      BY <1>3
    <3> HIDE DEF s
    <3>4. RunLogs(s, c2, eventRows, faults)
      BY <3>1, <3>2, <3>3, LogsStay
    <3> QED BY <3>4 DEF s
  <2>3. ASSUME NEW m \in 1..cursor PROVE WatchedLogs(c2[m]) \subseteq eventRows
    <3>1. m \in 1..l
      BY <1>3, <2>1, StateFacts, IndexerAssumption
    <3>2. c2[m] = c[m]
      BY <1>3, <3>1
    <3> QED BY <2>1, <3>2
  <2> QED BY <2>2, <2>3
<1>11. ChainOK(chain)' /\ chain' = c2
  BY <1>1 DEF ChainOK, c2
<1> QED BY <1>2, <1>5, <1>8, <1>9, <1>10, <1>11 DEF IndexerConsistent
\* The last block is replaced: the rows are no longer compared with the chain.
LEMMA ReorgKeeps ==
    ASSUME IndexerConsistent, Reorg
    PROVE  IndexerConsistent'
<1>1. PICK b \in Blocks : ChainOK(Append(Front(chain), b)) /\ chain' = Append(Front(chain), b)
  BY DEF Reorg
<1> DEFINE c2 == Append(Front(chain), b)
<1>2. /\ UNCHANGED <<cursor, blockRows, txRows, eventRows, sync, ask, status, asks>>
      /\ faults < MaxFaults /\ faults' = faults + 1 /\ reorgs' = reorgs + 1
  BY DEF Reorg, Fault, dbVars, gatewayVars
<1>3. c2 \in Seq(Blocks) /\ Len(c2) = Len(chain)
  <2>1. Front(chain) \in Seq(Blocks) /\ Len(Front(chain)) = Len(chain) - 1
    <3> DEFINE l == Len(chain) - 1
    <3>1. l \in Nat /\ l <= Len(chain) /\ chain \in Seq(Blocks)
      BY StateFacts, IndexerAssumption
    <3> HIDE DEF l
    <3>2. SubSeq(chain, 1, l) \in Seq(Blocks) /\ Len(SubSeq(chain, 1, l)) = l
      BY <3>1
    <3> QED BY <3>2 DEF Front, l
  <2> QED BY <2>1, StateFacts
<1>4. /\ chain' \in Seq(Blocks) /\ Len(chain') = Len(chain) /\ ChainOK(chain')
  BY <1>1, <1>3
<1>5. faults' \in 0..MaxFaults /\ reorgs' \in 0..faults' /\ reorgs' # 0
  BY <1>2, IndexerAssumption DEF IndexerConsistent, IndexerTypeOK
<1>6. IndexerTypeOK'
  BY <1>2, <1>4, <1>5 DEF IndexerConsistent, IndexerTypeOK
<1>7. \A y \in Syncers : RunTyped(sync'[y], chain')
  BY <1>2, <1>4 DEF IndexerConsistent, RunTyped
<1>8. ChainOK(chain)'
  BY <1>4 DEF ChainOK
<1> QED BY <1>5, <1>6, <1>7, <1>8 DEF IndexerConsistent

\* The gateway asks for the status: all up to the cursor is stored.
LEMMA StatusReadCursorKeeps ==
    ASSUME IndexerConsistent, StatusReadCursor
    PROVE  IndexerConsistent'
<1>1. /\ UNCHANGED <<chain, cursor, blockRows, txRows, eventRows, sync, status, faults, reorgs>>
      /\ ask' = [at |-> "head", since |-> Len(chain), cursor |-> cursor]
      /\ asks' = asks + 1 /\ asks < MaxAsks
  BY DEF StatusReadCursor, dbVars
<1>2. /\ ask' \in [at : {"idle", "head"}, since : Nat, cursor : Nat]
      /\ ask'.at = "head" /\ ask'.since = Len(chain) /\ ask'.cursor = cursor
  BY <1>1, StateFacts, IndexerAssumption
<1>3. IndexerTypeOK'
  BY <1>1, <1>2, IndexerAssumption DEF IndexerConsistent, IndexerTypeOK
<1>4. reorgs = 0 => AskAhead(ask', chain, blockRows, txRows)
  BY <1>2, StateFacts DEF AskAhead, IndexerConsistent
<1>5. ChainOK(chain)'
  BY <1>1 DEF IndexerConsistent, ChainOK
<1>6. \A y \in Syncers : RunTyped(sync'[y], chain')
  BY <1>1 DEF IndexerConsistent
<1>7. reorgs' = 0 =>
          /\ cursor' <= Len(chain')
          /\ \A m \in 1..cursor' : StoredIn(m, chain', blockRows', txRows')
          /\ RowsAgree(chain', blockRows', txRows')
          /\ \A y \in Syncers : RunAhead(sync'[y], chain', blockRows', txRows')
          /\ AskAhead(ask', chain', blockRows', txRows')
          /\ StatusAhead(status', chain', blockRows', txRows')
  BY <1>1, <1>4 DEF IndexerConsistent
<1>8. reorgs' = 0 /\ faults' <= 1 =>
          /\ \A m \in 1..cursor' : WatchedLogs(chain'[m]) \subseteq eventRows'
          /\ \A y \in Syncers : RunLogs(sync'[y], chain', eventRows', faults')
  BY <1>1 DEF IndexerConsistent
<1> QED BY <1>3, <1>5, <1>6, <1>7, <1>8 DEF IndexerConsistent

\* The gateway answers: without a lag the head is not beyond the cursor.
LEMMA StatusAnswerKeeps ==
    ASSUME IndexerConsistent, StatusAnswer
    PROVE  IndexerConsistent'
<1>1. PICK live \in BOOLEAN :
        status' = [since |-> ask.since, live |-> live,
                   lag |-> IF live THEN Lag(Len(chain), ask.cursor) ELSE 0]
  BY DEF StatusAnswer
<1> DEFINE lag == IF live THEN Lag(Len(chain), ask.cursor) ELSE 0
<1>2. /\ UNCHANGED <<chain, cursor, blockRows, txRows, eventRows, sync, faults, reorgs, asks>>
      /\ ask.at = "head" /\ ask' = NoAsk
  BY DEF StatusAnswer, dbVars, bounds
<1>3. ask.since \in Nat /\ ask.cursor \in Nat /\ Len(chain) \in Nat
  BY StateFacts
<1>4. lag \in Nat /\ (live /\ lag = 0 => Len(chain) <= ask.cursor)
  BY <1>3 DEF Lag
<1> HIDE DEF lag
<1>5. /\ status' \in [since : Nat, live : BOOLEAN, lag : Nat]
      /\ status'.since = ask.since /\ status'.live = live /\ status'.lag = lag
  BY <1>1, <1>3, <1>4 DEF lag
<1>6. /\ ask' \in [at : {"idle", "head"}, since : Nat, cursor : Nat] /\ ask'.at # "head"
  BY <1>2 DEF NoAsk
<1>7. IndexerTypeOK'
  BY <1>2, <1>5, <1>6 DEF IndexerConsistent, IndexerTypeOK
<1>8. reorgs = 0 => /\ AskAhead(ask', chain, blockRows, txRows)
                    /\ StatusAhead(status', chain, blockRows, txRows)
  <2> SUFFICES ASSUME reorgs = 0, live, lag = 0
               PROVE  ask.since <= Len(chain)
                      /\ \A m \in 1..ask.since : StoredIn(m, chain, blockRows, txRows)
    BY <1>5, <1>6 DEF AskAhead, StatusAhead
  <2>1. /\ ask.cursor <= Len(chain) /\ ask.since <= Len(chain)
        /\ \A m \in 1..ask.cursor : StoredIn(m, chain, blockRows, txRows)
    BY <1>2 DEF IndexerConsistent, AskAhead
  <2>2. Len(chain) <= ask.cursor
    BY <1>4
  <2>3. \A m \in 1..ask.since : m \in 1..ask.cursor
    BY <1>3, <2>1, <2>2
  <2> QED BY <2>1, <2>3
<1>9. ChainOK(chain)'
  BY <1>2 DEF IndexerConsistent, ChainOK
<1>10. \A y \in Syncers : RunTyped(sync'[y], chain')
  BY <1>2 DEF IndexerConsistent
<1>11. reorgs' = 0 =>
          /\ cursor' <= Len(chain')
          /\ \A m \in 1..cursor' : StoredIn(m, chain', blockRows', txRows')
          /\ RowsAgree(chain', blockRows', txRows')
          /\ \A y \in Syncers : RunAhead(sync'[y], chain', blockRows', txRows')
          /\ AskAhead(ask', chain', blockRows', txRows')
          /\ StatusAhead(status', chain', blockRows', txRows')
  BY <1>2, <1>8 DEF IndexerConsistent
<1>12. reorgs' = 0 /\ faults' <= 1 =>
          /\ \A m \in 1..cursor' : WatchedLogs(chain'[m]) \subseteq eventRows'
          /\ \A y \in Syncers : RunLogs(sync'[y], chain', eventRows', faults')
  BY <1>2 DEF IndexerConsistent
<1> QED BY <1>7, <1>9, <1>10, <1>11, <1>12 DEF IndexerConsistent
-----------------------------------------------------------------------------
(* The invariant holds *)

\* It holds when the indexer is first started.
LEMMA InitIsConsistent ==
    ASSUME IndexerInit
    PROVE  IndexerConsistent
<1>1. /\ chain \in [1..FirstHead -> Blocks] /\ ChainOK(chain) /\ FirstHead \in Nat
      /\ cursor = 0 /\ eventRows = {} /\ ask = NoAsk /\ status = None
      /\ faults = 0 /\ reorgs = 0 /\ asks = 0
      /\ blockRows = [n \in 1..MaxHead |-> None] /\ txRows = [t \in Txs |-> None]
      /\ sync = [y \in Syncers |-> Idle]
  BY IndexerAssumption DEF IndexerInit
<1>2. chain \in Seq(Blocks) /\ Len(chain) = FirstHead
  BY <1>1
<1>3. /\ ask \in [at : {"idle", "head"}, since : Nat, cursor : Nat] /\ ask.at # "head"
  BY <1>1 DEF NoAsk
<1>4. /\ \A y \in Syncers : sync[y] = Idle /\ sync \in [Syncers -> SyncRecord]
  BY <1>1, IdleRelies
<1>5. IndexerTypeOK
  BY <1>1, <1>2, <1>3, <1>4, IndexerAssumption DEF IndexerTypeOK, SyncRecord, Stages
<1>6. RowsAgree(chain, blockRows, txRows)
  BY <1>1 DEF RowsAgree
<1>7. AskAhead(ask, chain, blockRows, txRows) /\ StatusAhead(status, chain, blockRows, txRows)
  BY <1>1, <1>3 DEF AskAhead, StatusAhead
<1>8. 0 <= Len(chain) /\ 1..cursor = {}
  BY <1>1, <1>2
<1> QED BY <1>1, <1>4, <1>5, <1>6, <1>7, <1>8, IdleRelies DEF IndexerConsistent

\* Every step keeps it.
LEMMA StepIsConsistent ==
    ASSUME IndexerConsistent, [IndexerNext]_indexerVars
    PROVE  IndexerConsistent'
<1>1. ASSUME NEW y \in Syncers, SyncStep(y) PROVE IndexerConsistent'
  <2>1. CASE ReadCursor(y)
    BY <2>1, ReadCursorKeeps
  <2>2. CASE ReadHead(y)
    BY <2>2, ReadHeadKeeps
  <2>3. CASE GetBlock(y)
    BY <2>3, GetBlockKeeps
  <2>4. CASE InsertBlock(y)
    BY <2>4, InsertBlockKeeps
  <2>5. CASE GetReceipt(y)
    BY <2>5, GetReceiptKeeps
  <2>6. CASE IndexLog(y)
    BY <2>6, IndexLogKeeps
  <2>7. CASE InsertTransaction(y)
    BY <2>7, InsertTransactionKeeps
  <2>8. CASE GetLogs(y)
    BY <2>8, GetLogsKeeps
  <2>9. CASE SetSyncState(y)
    BY <2>9, SetSyncStateKeeps
  <2> QED BY <1>1, <2>1, <2>2, <2>3, <2>4, <2>5, <2>6, <2>7, <2>8, <2>9 DEF SyncStep
<1>2. ASSUME NEW y \in Syncers, Abort(y) PROVE IndexerConsistent'
  BY <1>2, AbortKeeps
<1>3. CASE Mine
  BY <1>3, MineKeeps
<1>4. CASE Reorg
  BY <1>4, ReorgKeeps
<1>5. CASE StatusReadCursor
  BY <1>5, StatusReadCursorKeeps
<1>6. CASE StatusAnswer
  BY <1>6, StatusAnswerKeeps
<1>7. CASE UNCHANGED indexerVars
  <2>1. /\ UNCHANGED <<chain, cursor, blockRows, txRows, eventRows, sync, ask, status>>
        /\ UNCHANGED <<faults, reorgs, asks>>
    BY <1>7 DEF indexerVars, dbVars, gatewayVars, bounds
  <2> QED BY <2>1 DEF IndexerConsistent, IndexerTypeOK, ChainOK
<1> QED BY <1>1, <1>2, <1>3, <1>4, <1>5, <1>6, <1>7 DEF IndexerNext

\* Runs, the chain and the tables fit together whatever overlaps, stops or
\* fails (chainstore.Syncer.RunOnce, rpc-gateway chainStatus).
THEOREM IndexerIsConsistent == IndexerSpec => []IndexerConsistent
<1>1. IndexerInit => IndexerConsistent
  BY InitIsConsistent
<1>2. IndexerConsistent /\ [IndexerNext]_indexerVars => IndexerConsistent'
  BY StepIsConsistent
<1> QED BY <1>1, <1>2, PTL DEF IndexerSpec

\* Nothing up to the cursor is missing from the tables, though a block is not
\* indexed in one transaction: not a block, not a transaction, and, while at
\* most one RPC error was swallowed, not a log of a watched contract.
THEOREM CursorNeverSkips == IndexerSpec => []IndexerInv
<1>1. IndexerConsistent => IndexerInv
  BY DEF IndexerConsistent, IndexerInv, CursorCoversRows, WatchedLogsAreStored, Stored, StoredIn
<1> QED BY <1>1, IndexerIsConsistent, PTL

\* A live status with lag 0 is true of the chain it was asked about.
THEOREM ZeroLagIsTrue == IndexerSpec => []NoLagIsCaughtUp
<1>1. IndexerConsistent => NoLagIsCaughtUp
  BY DEF IndexerConsistent, NoLagIsCaughtUp, StatusAhead, Stored, StoredIn
<1> QED BY <1>1, IndexerIsConsistent, PTL
-----------------------------------------------------------------------------
(* The queries of the gateway *)

\* A set of numbers without a gap is an interval.
LEMMA NoGapIsInterval ==
    ASSUME NEW N \in Nat, NEW S \in SUBSET (1..N), \A n \in S : \A m \in 1..(n - 1) : m \in S
    PROVE  \E k \in 0..N : S = 1..k
<1> DEFINE T == {n \in Nat : \E k \in 0..n : S \cap 1..n = 1..k}
<1>1. 0 \in T
  <2>1. S \cap 1..0 = 1..0 /\ 0 \in 0..0
    OBVIOUS
  <2> QED BY <2>1
<1>2. ASSUME NEW n \in Nat, n \in T PROVE n + 1 \in T
  <2>1. CASE n + 1 \in S
    <3>1. S \cap 1..(n + 1) = 1..(n + 1)
      BY <2>1
    <3> QED BY <3>1
  <2>2. CASE n + 1 \notin S
    <3>1. S \cap 1..(n + 1) = S \cap 1..n
      BY <2>2
    <3>2. PICK k \in 0..n : S \cap 1..n = 1..k
      BY <1>2
    <3>3. k \in 0..(n + 1)
      OBVIOUS
    <3> QED BY <3>1, <3>2, <3>3
  <2> QED BY <2>1, <2>2
<1>3. N \in T
  <2> HIDE DEF T
  <2> QED BY <1>1, <1>2, InductionOnNat
<1>4. S \cap 1..N = S
  OBVIOUS
<1> QED BY <1>3, <1>4

\* A decreasing enumeration of 1..M counts down from M.
LEMMA CountsDown ==
    ASSUME NEW M \in Nat, NEW s \in [1..M -> 1..M],
           \A j, k \in 1..M : j < k => s[j] > s[k]
    PROVE  \A k \in 1..M : s[k] = M + 1 - k
<1> DEFINE Below == {k \in Nat : k + 1 <= M => s[k + 1] <= M - k}
           Above == {k \in Nat : k + 1 <= M => s[M - k] >= k + 1}
<1>1. \A k \in 1..M : s[k] \in 1..M
  OBVIOUS
<1>2. \A n \in Nat : n \in Below
  <2>1. 0 \in Below
    BY <1>1
  <2>2. ASSUME NEW k \in Nat, k \in Below PROVE k + 1 \in Below
    <3> SUFFICES ASSUME k + 2 <= M PROVE s[k + 2] <= M - (k + 1)
      OBVIOUS
    <3>1. k + 1 \in 1..M /\ k + 2 \in 1..M /\ k + 1 < k + 2
      OBVIOUS
    <3>2. s[k + 1] > s[k + 2] /\ s[k + 1] \in 1..M /\ s[k + 2] \in 1..M
      BY <1>1, <3>1
    <3>3. s[k + 1] <= M - k
      BY <2>2
    <3> QED BY <3>2, <3>3
  <2> HIDE DEF Below
  <2> QED BY <2>1, <2>2, InductionOnNat
<1>3. \A n \in Nat : n \in Above
  <2>1. 0 \in Above
    BY <1>1
  <2>2. ASSUME NEW k \in Nat, k \in Above PROVE k + 1 \in Above
    <3> SUFFICES ASSUME k + 2 <= M PROVE s[M - (k + 1)] >= k + 2
      OBVIOUS
    <3> DEFINE p == M - (k + 1)
               q == M - k
    <3>1. p \in 1..M /\ q \in 1..M /\ p < q
      OBVIOUS
    <3>2. s[q] >= k + 1
      BY <2>2
    <3> HIDE DEF p, q
    <3>3. s[p] > s[q] /\ s[p] \in 1..M /\ s[q] \in 1..M
      BY <1>1, <3>1
    <3> DEFINE v == s[p]
               w == s[q]
    <3>4. v > w /\ v \in Int /\ w \in Int /\ w >= k + 1
      BY <3>2, <3>3
    <3> HIDE DEF v, w
    <3>5. v >= k + 2
      BY <3>4
    <3> QED BY <3>5 DEF v, p
  <2> HIDE DEF Above
  <2> QED BY <2>1, <2>2, InductionOnNat
<1>4. ASSUME NEW k \in 1..M PROVE s[k] = M + 1 - k
  <2> DEFINE a == k - 1
             b == M - k
  <2>1. a \in Nat /\ b \in Nat /\ a + 1 = k /\ M - b = k
    OBVIOUS
  <2> HIDE DEF a, b
  <2>2. s[k] <= M - a
    <3>1. a \in Below
      BY <1>2, <2>1
    <3>2. a + 1 <= M /\ s[a + 1] = s[k]
      BY <2>1
    <3> QED BY <3>1, <3>2
  <2>3. s[k] >= b + 1
    <3>1. b \in Above
      BY <1>3, <2>1
    <3>2. b + 1 <= M /\ s[M - b] = s[k]
      BY <2>1
    <3> QED BY <3>1, <3>2
  <2>4. M - a = M + 1 - k /\ b + 1 = M + 1 - k
    BY DEF a, b
  <2> DEFINE v == s[k]
  <2>5. v \in Int /\ v <= M + 1 - k /\ v >= M + 1 - k
    BY <1>1, <2>2, <2>3, <2>4
  <2> HIDE DEF v
  <2>6. v = M + 1 - k
    BY <2>5
  <2> QED BY <2>6 DEF v
<1> QED BY <1>4

\* ORDER BY number DESC of the numbers 1..M.
LEMMA DescendingInterval ==
    ASSUME NEW M \in Nat
    PROVE  /\ Descending(1..M) \in [1..M -> 1..M]
           /\ \A k \in 1..M : Descending(1..M)[k] = M + 1 - k
<1> DEFINE card == Cardinality(1..M)
           down == [k \in 1..M |-> M + 1 - k]
           d == Descending(1..M)
<1>1. card = M
  <2>1. 1 \in Int /\ M \in Int
    OBVIOUS
  <2> QED BY <2>1, FS_Interval
<1>2. down \in [1..M -> 1..M] /\ \A j, k \in 1..M : j < k => down[j] > down[k]
  OBVIOUS
<1>3. d = CHOOSE s \in [1..card -> 1..M] : \A j, k \in 1..card : j < k => s[j] > s[k]
  BY DEF Descending
<1> HIDE DEF card, d, down
<1>4. d = CHOOSE s \in [1..M -> 1..M] : \A j, k \in 1..M : j < k => s[j] > s[k]
  BY <1>1, <1>3
<1>5. d \in [1..M -> 1..M] /\ \A j, k \in 1..M : j < k => d[j] > d[k]
  BY <1>2, <1>4
<1>6. \A k \in 1..M : d[k] = M + 1 - k
  BY <1>5, CountsDown
<1> QED BY <1>5, <1>6 DEF d

\* The lookup finds the block of a transaction.
LEMMA GetTxIsRight ==
    ASSUME IndexerConsistent, reorgs = 0, NEW t \in TxsOfChain(chain)
    PROVE  getTx(t) = BlockOf(t)
<1>1. PICK m \in 1..Len(chain) : t \in ToSet(Content[chain[m]])
  BY DEF TxsOfChain
<1>2. BlockOf(t) \in 1..Len(chain) /\ t \in ToSet(Content[chain[BlockOf(t)]])
  BY <1>1 DEF BlockOf
<1>3. CASE txRows[t] = None
  BY <1>3 DEF getTx
<1>4. CASE txRows[t] # None
  <2> DEFINE b == txRows[t].block
  <2>1. t \in Txs
    BY <1>1, StateFacts, ContentType
  <2>2. b <= Len(chain) /\ t \in ToSet(Content[chain[b]])
    BY <1>4, <2>1 DEF IndexerConsistent, RowsAgree
  <2>3. b \in 1..MaxHead
    BY <1>4, <2>1, StateFacts DEF RowsTyped
  <2>4. getTx(t) = b
    BY <1>4 DEF getTx
  <2> HIDE DEF b
  <2>5. b \in 1..Len(chain)
    BY <2>2, <2>3, StateFacts, IndexerAssumption
  <2>6. b = BlockOf(t)
    BY <1>2, <2>2, <2>5, OneBlock DEF IndexerConsistent
  <2> QED BY <2>4, <2>6
<1> QED BY <1>3, <1>4

\* The numbers of the stored blocks.
LEMMA StoredBlocks ==
    ASSUME IndexerConsistent, reorgs = 0
    PROVE  \E M \in Nat : /\ {n \in 1..MaxHead : blockRows[n] # None} = 1..M
                          /\ \A n \in 1..M : blockRows[n] = chain[n]
<1> DEFINE stored == {n \in 1..MaxHead : blockRows[n] # None}
<1>1. RowsAgree(chain, blockRows, txRows)
  BY DEF IndexerConsistent
<1>2. ASSUME NEW n \in stored, NEW m \in 1..(n - 1) PROVE m \in stored
  <2>1. n \in 1..MaxHead /\ n <= Len(chain) /\ StoredIn(m, chain, blockRows, txRows)
    BY <1>1 DEF RowsAgree
  <2>2. m \in 1..Len(chain) /\ m \in 1..MaxHead
    BY <2>1, StateFacts, IndexerAssumption
  <2>3. blockRows[m] = chain[m] /\ chain[m] # None
    BY <2>1, <2>2, StateFacts, ContentType DEF StoredIn
  <2> QED BY <2>2, <2>3
<1>3. stored \in SUBSET (1..MaxHead) /\ MaxHead \in Nat
  BY IndexerAssumption
<1>4. \A n \in stored : blockRows[n] = chain[n]
  BY <1>1 DEF RowsAgree
<1> HIDE DEF stored
<1>5. PICK M \in 0..MaxHead : stored = 1..M
  BY <1>2, <1>3, NoGapIsInterval
<1>6. M \in Nat /\ \A n \in 1..M : blockRows[n] = chain[n]
  BY <1>4, <1>5
<1> QED BY <1>5, <1>6 DEF stored

\* The block list counts down from the newest row, and shows the chain.
LEMMA ListIsRight ==
    ASSUME IndexerConsistent, reorgs = 0, NEW limit \in 0..(MaxLimit + 1),
           NEW k \in 1..Len(ListBlocks(limit))
    PROVE  /\ ListBlocks(limit)[k] = ListBlocks(limit)[1] - k + 1
           /\ blockRows[ListBlocks(limit)[k]] = chain[ListBlocks(limit)[k]]
<1> DEFINE lim == IF limit <= 0 \/ limit > MaxLimit THEN DefaultLimit ELSE limit
           stored == {n \in 1..MaxHead : blockRows[n] # None}
           newest == Descending(stored)
           q == IF Len(newest) < lim THEN Len(newest) ELSE lim
           l == ListBlocks(limit)
<1>1. l = SubSeq(newest, 1, q)
  BY DEF ListBlocks
<1>2. PICK M \in Nat : stored = 1..M /\ \A n \in 1..M : blockRows[n] = chain[n]
  BY StoredBlocks
<1>3. lim \in Nat
  BY IndexerAssumption
<1>4. newest = Descending(1..M)
  BY <1>2
<1> HIDE DEF newest, stored, lim
<1>5. newest \in [1..M -> 1..M] /\ \A j \in 1..M : newest[j] = M + 1 - j
  BY <1>4, DescendingInterval
<1>6. newest \in Seq(1..M) /\ Len(newest) = M
  BY <1>5
<1>7. q \in Nat /\ q <= M
  BY <1>3, <1>6
<1> HIDE DEF q, l
<1>8. l \in Seq(1..M) /\ Len(l) = q /\ \A j \in 1..q : l[j] = newest[j]
  BY <1>1, <1>6, <1>7
<1>9. k \in 1..q /\ 1 \in 1..q /\ k \in 1..M /\ 1 \in 1..M
  BY <1>7, <1>8 DEF l
<1>10. l[k] = M + 1 - k /\ l[1] = M + 1 - 1 /\ l[k] \in 1..M
  BY <1>5, <1>8, <1>9
<1>11. l[k] = l[1] - k + 1 /\ blockRows[l[k]] = chain[l[k]]
  BY <1>2, <1>9, <1>10
<1> QED BY <1>11 DEF l

\* The gateway is right about the chain while the indexer is anywhere behind
\* it: the block of a transaction, and the list of the newest blocks.
THEOREM GatewayIsRight == IndexerSpec => []GatewayAgreesWithChain
<1>1. IndexerConsistent => GatewayAgreesWithChain
  BY GetTxIsRight, ListIsRight DEF GatewayAgreesWithChain
<1> QED BY <1>1, IndexerIsConsistent, PTL
=============================================================================
