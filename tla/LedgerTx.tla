------------------------------ MODULE LedgerTx ------------------------------
(***************************************************************************)
(* The store of the account-service statement by statement: Freeze,         *)
(* Unfreeze and SettleTrade as PostgreSQL transactions at READ COMMITTED    *)
(* that run at the same time.  The variables of Ledger are the committed    *)
(* tables; what a transaction has written is its own until it commits.      *)
(* An UPDATE locks its row until the end of the transaction and is          *)
(* evaluated on the newest committed row; an INSERT under a reference that  *)
(* another transaction has inserted waits for that one to end; of           *)
(* transactions that wait for each other PostgreSQL aborts one.             *)
(***************************************************************************)
EXTENDS Ledger

CONSTANTS
    Txs,        \* database connections of the account-service
    MaxTxs,     \* transactions
    MaxAborts   \* transactions that are cancelled or lose their connection

ASSUME LedgerTxAssumption == IsFiniteSet(Txs) /\ MaxTxs \in Nat /\ MaxAborts \in Nat

VARIABLES
    tx,       \* local state of each connection
    started, aborts

txVars == <<ledgerVars, tx, started, aborts>>

\* What the handlers accept: a positive amount, or at least one leg.
Moves == {m \in [op : {"freeze", "unfreeze"}, user : Users, asset : Assets,
                 amount : Amounts, ref : RefIds] : m.amount > 0}
Settles == {m \in [op : {"trade"}, ref : TradeIds, settle : Settlements] : m.settle.legs # <<>>}

State(at, call, av, fr) == [at |-> at, call |-> call, av |-> av, fr |-> fr]
Idle == State("idle", <<>>, <<>>, <<>>)

\* av and fr are the changes of available and frozen this transaction made.
TxTypeOK ==
    /\ LedgerTypeOK
    /\ \A t \in Txs :
          /\ tx[t].at \in {"idle", "update", "exists", "insert", "legs", "release", "verify", "commit"}
          /\ tx[t].at # "idle" => tx[t].call \in Moves \cup Settles
          /\ tx[t].av \in Seq(Leg) /\ tx[t].fr \in Seq(Leg)
    /\ started \in 0..MaxTxs
    /\ aborts \in 0..MaxAborts

TxInit ==
    /\ LedgerInit
    /\ tx = [t \in Txs |-> Idle]
    /\ started = 0 /\ aborts = 0
-----------------------------------------------------------------------------
(* PostgreSQL *)

\* A row as transaction t sees it.
Available(t, u, a) == available[u][a] + RowSum(tx[t].av, Len(tx[t].av), u, a)
Frozen(t, u, a) == frozen[u][a] + RowSum(tx[t].fr, Len(tx[t].fr), u, a)

\* The rows and the reference a transaction has written stay locked.
LocksRow(t, u, a) ==
    \E i \in 1..Len(tx[t].av) : tx[t].av[i].user = u /\ tx[t].av[i].asset = a

InsertedRef(t) == tx[t].at \in {"legs", "release", "verify", "commit"}
Ref(t) == <<tx[t].call.op, tx[t].call.ref>>
LocksRef(t, ref) == InsertedRef(t) /\ Ref(t) = ref

\* Mutant: the function returns without Rollback.
Rollback_forgotten(t) ==
    tx' = [tx EXCEPT ![t].at = "leaked"] /\ UNCHANGED <<ledgerVars, started>>

\* defer tx.Rollback: nothing happened.
Rollback(t) == tx' = [tx EXCEPT ![t] = Idle] /\ UNCHANGED <<ledgerVars, started>>

\* tx.Commit: the writes become the table.
Commit(t) ==
    /\ tx[t].at = "commit"
    /\ available' = [u \in Users |-> [a \in Assets |-> Available(t, u, a)]]
    /\ frozen' = [u \in Users |-> [a \in Assets |-> Frozen(t, u, a)]]
    /\ LET c == tx[t].call IN
       Post(Ref(t), CASE c.op = "trade" -> c.settle.legs
                      [] c.op = "freeze" -> CollateralLegs(c.user, c.asset, -c.amount, c.amount)
                      [] OTHER -> CollateralLegs(c.user, c.asset, c.amount, -c.amount))
    /\ tx' = [tx EXCEPT ![t] = Idle]
    /\ UNCHANGED <<users, started, aborts>>
-----------------------------------------------------------------------------
(* The statements *)

\* Begin, after the handler's checks.
Begin(t) ==
    /\ tx[t].at = "idle" /\ started < MaxTxs
    /\ started' = started + 1
    /\ \/ \E m \in Moves : tx' = [tx EXCEPT ![t] = State("update", m, <<>>, <<>>)]
       \/ \E m \in Settles : tx' = [tx EXCEPT ![t] = State("exists", m, <<>>, <<>>)]
    /\ UNCHANGED <<ledgerVars, aborts>>

\* Mutant: Unfreeze credits available and leaves frozen alone.
Update_keepsFrozen(t) ==
    LET c == tx[t].call
        stmt(leg, da, df, minA, minF) ==
            [user |-> leg.user, asset |-> leg.asset, da |-> da, df |-> df, minA |-> minA, minF |-> minF]
    IN  CASE tx[t].at = "update" /\ c.op = "freeze"   -> stmt(c, -c.amount, c.amount, c.amount, 0)
          [] tx[t].at = "update" /\ c.op = "unfreeze" -> stmt(c, c.amount, 0, 0, c.amount)
          [] tx[t].at = "legs" ->
               LET leg == c.settle.legs[Len(tx[t].av) + 1] IN stmt(leg, leg.amount, 0, 0, 0)
          [] tx[t].at = "release" ->
               LET fr == c.settle.release[Len(tx[t].av) - Len(c.settle.legs) + 1]
               IN  stmt(fr, 0, -fr.amount, 0, fr.amount)

\* The UPDATE of balances a transaction makes next: the row, the changes and
\* what its WHERE clause asks for.
Update(t) ==
    LET c == tx[t].call
        stmt(leg, da, df, minA, minF) ==
            [user |-> leg.user, asset |-> leg.asset, da |-> da, df |-> df, minA |-> minA, minF |-> minF]
    IN  CASE tx[t].at = "update" /\ c.op = "freeze"   -> stmt(c, -c.amount, c.amount, c.amount, 0)
          [] tx[t].at = "update" /\ c.op = "unfreeze" -> stmt(c, c.amount, -c.amount, 0, c.amount)
          [] tx[t].at = "legs" ->
               LET leg == c.settle.legs[Len(tx[t].av) + 1] IN stmt(leg, leg.amount, 0, 0, 0)
          [] tx[t].at = "release" ->
               LET fr == c.settle.release[Len(tx[t].av) - Len(c.settle.legs) + 1]
               IN  stmt(fr, 0, -fr.amount, 0, fr.amount)

\* The loops over the legs and the releases.
Updates(t) ==
    \/ tx[t].at = "update"
    \/ tx[t].at = "legs" /\ Len(tx[t].av) < Len(tx[t].call.settle.legs)
    \/ /\ tx[t].at = "release"
       /\ Len(tx[t].av) < Len(tx[t].call.settle.legs) + Len(tx[t].call.settle.release)

Finds(t, s) ==
    /\ s.user \in users
    /\ Available(t, s.user, s.asset) >= s.minA
    /\ Frozen(t, s.user, s.asset) >= s.minF

\* CHECK (available >= 0), CHECK (frozen >= 0).
ChecksHold(t, s) ==
    Available(t, s.user, s.asset) + s.da >= 0 /\ Frozen(t, s.user, s.asset) + s.df >= 0

RowIsFree(t, s) == \A o \in Txs \ {t} : ~LocksRow(o, s.user, s.asset)

\* Mutant: a settlement may overdraw the account.
UpdateRow_overdraws(t) ==
    LET s == Update(t)
        change(n) == [user |-> s.user, asset |-> s.asset, amount |-> n]
    IN  /\ Updates(t) /\ Finds(t, s) /\ RowIsFree(t, s)
        /\ tx' = [tx EXCEPT ![t] = State(IF @.at = "update" THEN "insert" ELSE @.at, @.call,
                          Append(@.av, change(s.da)), Append(@.fr, change(s.df)))]
        /\ UNCHANGED <<ledgerVars, started, aborts>>

\* The row is found, free and within its constraints.
UpdateRow(t) ==
    LET s == Update(t)
        change(n) == [user |-> s.user, asset |-> s.asset, amount |-> n]
    IN  /\ Updates(t) /\ Finds(t, s) /\ RowIsFree(t, s) /\ ChecksHold(t, s)
        /\ tx' = [tx EXCEPT ![t] = State(IF @.at = "update" THEN "insert" ELSE @.at, @.call,
                          Append(@.av, change(s.da)), Append(@.fr, change(s.df)))]
        /\ UNCHANGED <<ledgerVars, started, aborts>>

\* No row is affected, or a CHECK fails: the function returns the error.
RefuseUpdate(t) ==
    /\ Updates(t)
    /\ LET s == Update(t) IN ~Finds(t, s) \/ (RowIsFree(t, s) /\ ~ChecksHold(t, s))
    /\ Rollback(t) /\ UNCHANGED aborts

\* The loops are done.
EndLoop(t) ==
    /\ tx[t].at \in {"legs", "release"} /\ ~Updates(t)
    /\ tx' = [tx EXCEPT ![t].at = IF @ = "legs" THEN "release" ELSE "verify"]
    /\ UNCHANGED <<ledgerVars, started, aborts>>

\* SELECT EXISTS of SettleTrade: a known reference commits at once.
SelectExists(t) ==
    /\ tx[t].at = "exists"
    /\ tx' = IF Ref(t) \in DOMAIN entries THEN [tx EXCEPT ![t] = Idle]
             ELSE [tx EXCEPT ![t].at = "insert"]
    /\ UNCHANGED <<ledgerVars, started, aborts>>

RefIsFree(t) == \A o \in Txs \ {t} : ~LocksRef(o, Ref(t))

\* Mutant: the reference is unique among committed rows only.
InsertRef_noWait(t) ==
    /\ tx[t].at = "insert" /\ Ref(t) \notin DOMAIN entries
    /\ tx' = [tx EXCEPT ![t].at = IF tx[t].call.op = "trade" THEN "legs" ELSE "commit"]
    /\ UNCHANGED <<ledgerVars, started, aborts>>

\* INSERT INTO ledger_transactions; insertCollateralLedger also inserts its
\* two entries.
InsertRef(t) ==
    /\ tx[t].at = "insert" /\ Ref(t) \notin DOMAIN entries /\ RefIsFree(t)
    /\ tx' = [tx EXCEPT ![t].at = IF tx[t].call.op = "trade" THEN "legs" ELSE "commit"]
    /\ UNCHANGED <<ledgerVars, started, aborts>>

\* UNIQUE (ref_type, ref_id) is violated.
RefuseRef(t) ==
    /\ tx[t].at = "insert" /\ Ref(t) \in DOMAIN entries
    /\ Rollback(t) /\ UNCHANGED aborts

\* verifyLedgerBalance.
Verify(t) ==
    /\ tx[t].at = "verify"
    /\ \/ /\ verifyLedgerBalance(tx[t].call.settle.legs)
          /\ tx' = [tx EXCEPT ![t].at = "commit"]
          /\ UNCHANGED <<ledgerVars, started>>
       \/ ~verifyLedgerBalance(tx[t].call.settle.legs) /\ Rollback(t)
    /\ UNCHANGED aborts
-----------------------------------------------------------------------------
(* Failures *)

\* t needs what o has locked.
WaitsFor(t, o) ==
    /\ t # o
    /\ \/ /\ Updates(t) /\ Finds(t, Update(t))
          /\ LocksRow(o, Update(t).user, Update(t).asset)
       \/ tx[t].at = "insert" /\ Ref(t) \notin DOMAIN entries /\ LocksRef(o, Ref(t))

\* In a circle everybody waits for somebody and is waited for.
Deadlocked(t) ==
    /\ \E o \in Txs : WaitsFor(t, o)
    /\ \E circle \in SUBSET Txs :
          /\ t \in circle
          /\ \A s \in circle : \E before, after \in circle :
                 WaitsFor(before, s) /\ WaitsFor(s, after)

\* deadlock_timeout: one of the circle is aborted.
DeadlockAbort(t) == Deadlocked(t) /\ Rollback(t) /\ UNCHANGED aborts

\* The request is cancelled or the connection lost before the commit.
Abort(t) ==
    /\ tx[t].at # "idle"
    /\ aborts < MaxAborts /\ aborts' = aborts + 1
    /\ Rollback(t)

TxCreateUser(u) == CreateUser(u) /\ UNCHANGED <<tx, started, aborts>>

TxStep(t) ==
    \/ UpdateRow(t) \/ RefuseUpdate(t) \/ EndLoop(t) \/ SelectExists(t)
    \/ InsertRef(t) \/ RefuseRef(t) \/ Verify(t) \/ Commit(t) \/ DeadlockAbort(t)

TxNext ==
    \/ \E t \in Txs : Begin(t) \/ TxStep(t) \/ Abort(t)
    \/ \E u \in Users : TxCreateUser(u)

TxSpec == TxInit /\ [][TxNext]_txVars
-----------------------------------------------------------------------------
(* Properties *)

\* However the statements of concurrent transactions interleave, wait, fail
\* and are aborted, what is committed is what the calls would have done one
\* after the other: every step is a step of Ledger or changes no table, so
\* that the conditions Ledger checks at once (conditional UPDATE, CHECK,
\* UNIQUE, verifyLedgerBalance) hold together at the commit.
ImplementsLedger == LedgerSpec

\* No set of transactions waits for itself, although settlements lock their
\* rows in the order of their legs: while one is open, some statement of some
\* transaction can be executed (and each has only so many).
OpenTransactionsMove ==
    (\E t \in Txs : tx[t].at # "idle") => \E t \in Txs : ENABLED TxStep(t)

\* The same by what stands before a transaction: its next statement finds no
\* row, or finds it free, or is none that waits; or it is in a circle.
CanStep(t) ==
    \/ Updates(t) /\ (~Finds(t, Update(t)) \/ RowIsFree(t, Update(t)))
    \/ tx[t].at \in {"legs", "release"} /\ ~Updates(t)
    \/ tx[t].at = "insert" /\ (Ref(t) \in DOMAIN entries \/ RefIsFree(t))
    \/ tx[t].at \in {"exists", "verify", "commit"}
    \/ Deadlocked(t)

NobodyIsStuck ==
    (\E t \in Txs : tx[t].at # "idle") => \E t \in Txs : CanStep(t)

\* What is committed, and what is open, between any two statements.
TxInv == TxTypeOK /\ TransactionsBalance /\ NobodyIsStuck
=============================================================================
