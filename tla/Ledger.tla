------------------------------- MODULE Ledger -------------------------------
(***************************************************************************)
(* The double-entry ledger of services/account-service: the balances,      *)
(* ledger_transactions and ledger_entries tables, and the store operations *)
(* that change them.  Each operation is one database transaction and is    *)
(* one step here: it commits as a whole, or it is rolled back and changes  *)
(* nothing.  A step stands for a committed call; the ...OK operators are   *)
(* the conditions under which a call commits, for the callers to branch    *)
(* on.                                                                     *)
(***************************************************************************)
EXTENDS Integers, Sequences, FiniteSets, Functions

CONSTANTS
    Users,      \* user ids
    Assets,     \* asset symbols
    RefIds,     \* reference ids of freezes and unfreezes (order ids)
    TradeIds,   \* reference ids of settlements
    Seeded,     \* users the migrations create
    Funding,    \* what a seeded user starts with, per asset
    Amounts,    \* amounts of a freeze or an unfreeze
    Settlements \* the legs and releases callers post to settle-trade

ASSUME UsersAssumption == IsFiniteSet(Users)
ASSUME SeededAssumption == Seeded \subseteq Users
ASSUME FundingAssumption == Funding \in [Assets -> Nat]
ASSUME AmountsAssumption == Amounts \subseteq Int

VARIABLES
    users,      \* rows of users; each has a balances row per asset
    available,  \* balances.available
    frozen,     \* balances.frozen
    entries     \* ledger_transactions -> their ledger_entries, in order

ledgerVars == <<users, available, frozen, entries>>

Leg == [user : Users, asset : Assets, amount : Int]

ASSUME SettlementsAssumption ==
    Settlements \subseteq [legs : Seq(Leg), release : Seq(Leg)]

\* What a settlement releases is what a fill has used: settleMatch, the only
\* caller that releases, posts its notional and quantity.  SettleTrade does
\* not look at the sign.
ASSUME ReleasesAssumption ==
    \A s \in Settlements : \A i \in DOMAIN s.release : s.release[i].amount >= 0

\* (ref_type, ref_id) of a ledger_transactions row: "<type>:<id>:freeze",
\* "<type>:<id>:unfreeze" or ("trade", id).
Refs == ({"freeze", "unfreeze"} \X RefIds) \cup ({"trade"} \X TradeIds)

\* The CHECK constraints of the balances table are the Nat of this type.
LedgerTypeOK ==
    /\ users \subseteq Users
    /\ available \in [Users -> [Assets -> Nat]]
    /\ frozen \in [Users -> [Assets -> Nat]]
    /\ DOMAIN entries \subseteq Refs
    /\ \A r \in DOMAIN entries : entries[r] \in Seq(Leg)

LedgerInit ==
    /\ users = Seeded
    /\ available = [u \in Users |-> [a \in Assets |->
                        IF u \in Seeded THEN Funding[a] ELSE 0]]
    /\ frozen = [u \in Users |-> [a \in Assets |-> 0]]
    /\ entries = [r \in {} |-> <<>>]

-----------------------------------------------------------------------------
(* Helpers *)

\* The sum of the first k legs that hit the row of user u and asset a.
RowSum(legs, k, u, a) ==
    SumFunctionOnSet([i \in 1..k |-> legs[i].amount],
                     {i \in 1..k : legs[i].user = u /\ legs[i].asset = a})

\* SUM(e.amount) GROUP BY asset, of verifyLedgerBalance.
AssetSum(legs, a) ==
    SumFunctionOnSet([i \in 1..Len(legs) |-> legs[i].amount],
                     {i \in 1..Len(legs) : legs[i].asset = a})

verifyLedgerBalance(legs) == \A a \in Assets : AssetSum(legs, a) = 0

\* insertCollateralLedger: both entries are posted to the same user and asset.
CollateralLegs(u, a, first, second) ==
    <<[user |-> u, asset |-> a, amount |-> first],
      [user |-> u, asset |-> a, amount |-> second]>>

Post(ref, legs) ==
    entries' = [r \in DOMAIN entries \cup {ref} |->
                    IF r = ref THEN legs ELSE entries[r]]

\* The legs orderflow.settleMatch posts for q base units at notional n, and
\* the frozen collateral it releases.
TradeLegs(buyer, seller, base, quote, q, n) ==
    <<[user |-> buyer, asset |-> quote, amount |-> -n],
      [user |-> buyer, asset |-> base, amount |-> q],
      [user |-> seller, asset |-> base, amount |-> -q],
      [user |-> seller, asset |-> quote, amount |-> n]>>

TradeRelease(buyer, seller, base, quote, q, n) ==
    <<[user |-> buyer, asset |-> quote, amount |-> n],
      [user |-> seller, asset |-> base, amount |-> q]>>

\* The legs of AccountClient.SettleBalanced (perpetual PnL and funding).
TransferLegs(user, house, asset, amount) ==
    <<[user |-> user, asset |-> asset, amount |-> amount],
      [user |-> house, asset |-> asset, amount |-> -amount]>>
-----------------------------------------------------------------------------
(* Operations *)

\* Freeze: the conditional UPDATE finds the row with enough available, and
\* the UNIQUE (ref_type, ref_id) of ledger_transactions is not violated.
FreezeOK(u, a, amount, ref) ==
    /\ amount > 0
    /\ u \in users
    /\ available[u][a] >= amount
    /\ <<"freeze", ref>> \notin DOMAIN entries

Freeze(u, a, amount, ref) ==
    /\ FreezeOK(u, a, amount, ref)
    /\ available' = [available EXCEPT ![u][a] = @ - amount]
    /\ frozen' = [frozen EXCEPT ![u][a] = @ + amount]
    /\ Post(<<"freeze", ref>>, CollateralLegs(u, a, -amount, amount))
    /\ UNCHANGED users

\* Mutant: without the frozen bound.
UnfreezeOK_unbounded(u, a, amount, ref) ==
    amount > 0 /\ u \in users /\ <<"unfreeze", ref>> \notin DOMAIN entries

\* Unfreeze: bounded by what the user has frozen, for whatever reason, and
\* committed at most once per reference.
UnfreezeOK(u, a, amount, ref) ==
    /\ amount > 0
    /\ u \in users
    /\ frozen[u][a] >= amount
    /\ <<"unfreeze", ref>> \notin DOMAIN entries

Unfreeze(u, a, amount, ref) ==
    /\ UnfreezeOK(u, a, amount, ref)
    /\ available' = [available EXCEPT ![u][a] = @ + amount]
    /\ frozen' = [frozen EXCEPT ![u][a] = @ - amount]
    /\ Post(<<"unfreeze", ref>>, CollateralLegs(u, a, amount, -amount))
    /\ UNCHANGED users

\* applyTradeLeg for each leg in turn: the row exists and the CHECK holds
\* after every statement.
LegsApply(legs) ==
    /\ \A k \in 1..Len(legs) : legs[k].user \in users
    /\ \A k \in 0..Len(legs), u \in Users, a \in Assets :
           available[u][a] + RowSum(legs, k, u, a) \in Nat

\* The releases in turn: each conditional UPDATE finds enough frozen.
ReleasesApply(release) ==
    /\ \A k \in 1..Len(release) : release[k].user \in users
    /\ \A k \in 0..Len(release), u \in Users, a \in Assets :
           frozen[u][a] - RowSum(release, k, u, a) \in Nat

\* SettleTrade with a reference that is not in the ledger yet.
SettleTradeOK(legs, release) ==
    /\ Len(legs) > 0
    /\ LegsApply(legs)
    /\ ReleasesApply(release)
    /\ verifyLedgerBalance(legs)

\* SettleTrade: a known reference commits without doing anything, a new one
\* posts the legs, moves available by them and frozen by the releases.
SettleTrade(id, legs, release) ==
    /\ <<"trade", id>> \notin DOMAIN entries
    /\ SettleTradeOK(legs, release)
    /\ available' = [u \in Users |-> [a \in Assets |->
                        available[u][a] + RowSum(legs, Len(legs), u, a)]]
    /\ frozen' = [u \in Users |-> [a \in Assets |->
                        frozen[u][a] - RowSum(release, Len(release), u, a)]]
    /\ Post(<<"trade", id>>, legs)
    /\ UNCHANGED users

\* CreateUser: a new user with a zero balance in every asset.
CreateUser(u) ==
    /\ u \notin users
    /\ users' = users \cup {u}
    /\ UNCHANGED <<available, frozen, entries>>

LedgerNext ==
    \/ \E u \in Users, a \in Assets, n \in Amounts, r \in RefIds : Freeze(u, a, n, r)
    \/ \E u \in Users, a \in Assets, n \in Amounts, r \in RefIds : Unfreeze(u, a, n, r)
    \/ \E id \in TradeIds, s \in Settlements : SettleTrade(id, s.legs, s.release)
    \/ \E u \in Users : CreateUser(u)

LedgerSpec == LedgerInit /\ [][LedgerNext]_ledgerVars
-----------------------------------------------------------------------------
(* Properties *)

\* Every posted transaction sums to zero per asset: docs/ledger-design.md,
\* "Each transaction must sum to **zero per asset** across all legs".
\* insertCollateralLedger posts without verifyLedgerBalance, SettleTrade
\* takes its legs from the caller.
TransactionsBalance ==
    \A r \in DOMAIN entries : verifyLedgerBalance(entries[r])

\* What exists of an asset, over all users.
Supply(a) == SumFunction([u \in Users |-> available[u][a] + frozen[u][a]])

\* No operation creates money: a retried call, a settlement with a bad leg
\* and an unfreeze of more than was frozen included.
SupplyNeverGrows == [][\A a \in Assets : Supply(a)' <= Supply(a)]_ledgerVars

\* A balance only moves together with a new ledger transaction, and a posted
\* transaction is never rewritten: a retry with the same reference moves
\* nothing twice ("`ledger_transactions`: idempotent by `(ref_type, ref_id)`").
MovesArePostedOnce ==
    [][/\ \A r \in DOMAIN entries : r \in DOMAIN entries' /\ entries'[r] = entries[r]
       /\ <<available, frozen>>' # <<available, frozen>>
            => DOMAIN entries' # DOMAIN entries]_ledgerVars

\* All that the ledger says happened to a balance.
Posted(u, a) ==
    SumFunction([r \in DOMAIN entries |-> RowSum(entries[r], Len(entries[r]), u, a)])

\* A balance is what the user started with plus the signed entries posted to
\* it: docs/ledger-design.md, "signed `amount` per user/asset".
BalancesFollowLedger ==
    \A u \in Users, a \in Assets :
        available[u][a] + frozen[u][a]
            = (IF u \in Seeded THEN Funding[a] ELSE 0) + Posted(u, a)
=============================================================================
