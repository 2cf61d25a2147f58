--------------------------- MODULE LedgerTxProofs ---------------------------
(***************************************************************************)
(* Proofs about Ledger and LedgerTx, for any users, assets, references,    *)
(* amounts, settlement requests and number of connections.                 *)
(*                                                                         *)
(* First the calls of Ledger: no balance ever goes negative, and a balance *)
(* only moves with a transaction posted for the first time.  Then that     *)
(* LedgerTx implements Ledger: whatever statements of concurrent           *)
(* transactions interleave, what is committed is what Freeze, Unfreeze and *)
(* SettleTrade of Ledger would have done at the commit, so that what holds *)
(* of Ledger holds of the committed tables.                                *)
(***************************************************************************)
EXTENDS LedgerTx, SumLemmas, TLAPS

\* Posting adds one transaction and rewrites none.
LEMMA PostProperties ==
    ASSUME NEW ref, NEW legs, Post(ref, legs)
    PROVE  /\ DOMAIN entries' = DOMAIN entries \cup {ref}
           /\ entries'[ref] = legs
           /\ \A r \in DOMAIN entries : r # ref => entries'[r] = entries[r]
  BY DEF Post

\* The two entries of a freeze or an unfreeze are legs.
LEMMA CollateralLegsType ==
    ASSUME NEW u \in Users, NEW a \in Assets, NEW m \in Int, NEW n \in Int
    PROVE  CollateralLegs(u, a, m, n) \in Seq(Leg)
  BY DEF CollateralLegs, Leg

\* Posting legs under a reference keeps the ledger tables well formed.
LEMMA PostType ==
    ASSUME LedgerTypeOK, NEW ref \in Refs, NEW legs \in Seq(Leg), Post(ref, legs)
    PROVE  /\ DOMAIN entries' \subseteq Refs
           /\ \A r \in DOMAIN entries' : entries'[r] \in Seq(Leg)
<1>1. /\ DOMAIN entries' = DOMAIN entries \cup {ref}
      /\ entries'[ref] = legs
      /\ \A r \in DOMAIN entries : r # ref => entries'[r] = entries[r]
  BY PostProperties
<1>2. DOMAIN entries \subseteq Refs /\ \A r \in DOMAIN entries : entries[r] \in Seq(Leg)
  BY DEF LedgerTypeOK
<1>3. ASSUME NEW r \in DOMAIN entries' PROVE entries'[r] \in Seq(Leg)
  <2>1. CASE r = ref
    BY <1>1, <2>1
  <2>2. CASE r # ref
    BY <1>1, <1>2, <2>2
  <2> QED BY <2>1, <2>2
<1> QED BY <1>1, <1>2, <1>3

\* A committed Freeze keeps both balances non-negative.
LEMMA FreezeType ==
    ASSUME LedgerTypeOK, NEW u \in Users, NEW a \in Assets, NEW n \in Amounts,
           NEW ref \in RefIds, Freeze(u, a, n, ref)
    PROVE  LedgerTypeOK'
<1>1. n \in Nat /\ -n \in Int
  BY AmountsAssumption DEF Freeze, FreezeOK
<1>2. available[u][a] \in Nat /\ frozen[u][a] \in Nat /\ available[u][a] >= n
  BY DEF LedgerTypeOK, Freeze, FreezeOK
<1>3. available' \in [Users -> [Assets -> Nat]]
  <2>1. available[u][a] - n \in Nat
    BY <1>1, <1>2
  <2> QED BY <2>1 DEF LedgerTypeOK, Freeze
<1>4. frozen' \in [Users -> [Assets -> Nat]]
  <2>1. frozen[u][a] + n \in Nat
    BY <1>1, <1>2
  <2> QED BY <2>1 DEF LedgerTypeOK, Freeze
<1>5. <<"freeze", ref>> \in Refs
  BY DEF Refs
<1>6. CollateralLegs(u, a, -n, n) \in Seq(Leg)
  BY <1>1, CollateralLegsType
<1>7. /\ DOMAIN entries' \subseteq Refs
      /\ \A r \in DOMAIN entries' : entries'[r] \in Seq(Leg)
  BY <1>5, <1>6, PostType DEF Freeze
<1> QED BY <1>3, <1>4, <1>7 DEF LedgerTypeOK, Freeze

\* A committed Unfreeze keeps both balances non-negative.
LEMMA UnfreezeType ==
    ASSUME LedgerTypeOK, NEW u \in Users, NEW a \in Assets, NEW n \in Amounts,
           NEW ref \in RefIds, Unfreeze(u, a, n, ref)
    PROVE  LedgerTypeOK'
<1>1. n \in Nat /\ -n \in Int
  BY AmountsAssumption DEF Unfreeze, UnfreezeOK
<1>2. available[u][a] \in Nat /\ frozen[u][a] \in Nat /\ frozen[u][a] >= n
  BY DEF LedgerTypeOK, Unfreeze, UnfreezeOK
<1>3. available' \in [Users -> [Assets -> Nat]]
  <2>1. available[u][a] + n \in Nat
    BY <1>1, <1>2
  <2> QED BY <2>1 DEF LedgerTypeOK, Unfreeze
<1>4. frozen' \in [Users -> [Assets -> Nat]]
  <2>1. frozen[u][a] - n \in Nat
    BY <1>1, <1>2
  <2> QED BY <2>1 DEF LedgerTypeOK, Unfreeze
<1>5. <<"unfreeze", ref>> \in Refs
  BY DEF Refs
<1>6. CollateralLegs(u, a, n, -n) \in Seq(Leg)
  BY <1>1, CollateralLegsType
<1>7. /\ DOMAIN entries' \subseteq Refs
      /\ \A r \in DOMAIN entries' : entries'[r] \in Seq(Leg)
  BY <1>5, <1>6, PostType DEF Unfreeze
<1> QED BY <1>3, <1>4, <1>7 DEF LedgerTypeOK, Unfreeze

\* A committed SettleTrade keeps every balance it touches non-negative.
LEMMA SettleTradeType ==
    ASSUME LedgerTypeOK, NEW id \in TradeIds, NEW s \in Settlements,
           SettleTrade(id, s.legs, s.release)
    PROVE  LedgerTypeOK'
<1>1. s.legs \in Seq(Leg) /\ s.release \in Seq(Leg)
  BY SettlementsAssumption
<1>2. Len(s.legs) \in 0..Len(s.legs) /\ Len(s.release) \in 0..Len(s.release)
  BY <1>1
<1>3. \A u \in Users, a \in Assets :
         available[u][a] + RowSum(s.legs, Len(s.legs), u, a) \in Nat
  BY <1>2 DEF SettleTrade, SettleTradeOK, LegsApply
<1>4. \A u \in Users, a \in Assets :
         frozen[u][a] - RowSum(s.release, Len(s.release), u, a) \in Nat
  BY <1>2 DEF SettleTrade, SettleTradeOK, ReleasesApply
<1>5. available' \in [Users -> [Assets -> Nat]] /\ frozen' \in [Users -> [Assets -> Nat]]
  BY <1>3, <1>4 DEF SettleTrade
<1>6. <<"trade", id>> \in Refs
  BY DEF Refs
<1>7. /\ DOMAIN entries' \subseteq Refs
      /\ \A r \in DOMAIN entries' : entries'[r] \in Seq(Leg)
  BY <1>1, <1>6, PostType DEF SettleTrade
<1> QED BY <1>5, <1>7 DEF LedgerTypeOK, SettleTrade

\* Balances stay non-negative and the ledger well formed: the conditional
\* UPDATEs and the CHECK constraints suffice for any request.
THEOREM LedgerTypeCorrect == LedgerSpec => []LedgerTypeOK
<1>1. LedgerInit => LedgerTypeOK
  BY SeededAssumption, FundingAssumption DEF LedgerInit, LedgerTypeOK
<1>2. LedgerTypeOK /\ [LedgerNext]_ledgerVars => LedgerTypeOK'
  <2> SUFFICES ASSUME LedgerTypeOK, [LedgerNext]_ledgerVars PROVE LedgerTypeOK'
    OBVIOUS
  <2>1. ASSUME NEW u \in Users, NEW a \in Assets, NEW n \in Amounts, NEW r \in RefIds,
               Freeze(u, a, n, r)
        PROVE  LedgerTypeOK'
    BY <2>1, FreezeType
  <2>2. ASSUME NEW u \in Users, NEW a \in Assets, NEW n \in Amounts, NEW r \in RefIds,
               Unfreeze(u, a, n, r)
        PROVE  LedgerTypeOK'
    BY <2>2, UnfreezeType
  <2>3. ASSUME NEW id \in TradeIds, NEW s \in Settlements,
               SettleTrade(id, s.legs, s.release)
        PROVE  LedgerTypeOK'
    BY <2>3, SettleTradeType
  <2>4. ASSUME NEW u \in Users, CreateUser(u) PROVE LedgerTypeOK'
    BY <2>4 DEF CreateUser, LedgerTypeOK
  <2>5. CASE UNCHANGED ledgerVars
    BY <2>5 DEF ledgerVars, LedgerTypeOK
  <2> QED BY <2>1, <2>2, <2>3, <2>4, <2>5 DEF LedgerNext
<1> QED BY <1>1, <1>2, PTL DEF LedgerSpec

\* Every move of a balance is a transaction posted for the first time, and
\* what is posted is never rewritten.
THEOREM LedgerMovesArePostedOnce == LedgerSpec => MovesArePostedOnce
<1> DEFINE A == /\ \A r \in DOMAIN entries : r \in DOMAIN entries' /\ entries'[r] = entries[r]
                /\ <<available, frozen>>' # <<available, frozen>>
                     => DOMAIN entries' # DOMAIN entries
<1>1. [LedgerNext]_ledgerVars => [A]_ledgerVars
  <2> SUFFICES ASSUME LedgerNext PROVE A
    OBVIOUS
  <2>1. ASSUME NEW ref, NEW legs, ref \notin DOMAIN entries, Post(ref, legs)
        PROVE  A
    BY <2>1, PostProperties
  <2>2. ASSUME NEW u \in Users, NEW a \in Assets, NEW n \in Amounts, NEW r \in RefIds,
               Freeze(u, a, n, r)
        PROVE  A
    BY <2>1, <2>2 DEF Freeze, FreezeOK
  <2>3. ASSUME NEW u \in Users, NEW a \in Assets, NEW n \in Amounts, NEW r \in RefIds,
               Unfreeze(u, a, n, r)
        PROVE  A
    BY <2>1, <2>3 DEF Unfreeze, UnfreezeOK
  <2>4. ASSUME NEW id \in TradeIds, NEW s \in Settlements,
               SettleTrade(id, s.legs, s.release)
        PROVE  A
    BY <2>1, <2>4 DEF SettleTrade
  <2>5. ASSUME NEW u \in Users, CreateUser(u) PROVE A
    BY <2>5 DEF CreateUser
  <2> QED BY <2>2, <2>3, <2>4, <2>5 DEF LedgerNext
<1> QED BY <1>1, PTL DEF LedgerSpec, MovesArePostedOnce
-----------------------------------------------------------------------------
(* Sums of legs *)

\* The two entries of a freeze or an unfreeze cancel out, in every row and in
\* every asset.
LEMMA CollateralLegsBalance ==
    ASSUME NEW u \in Users, NEW a \in Assets, NEW n \in Int, NEW m \in Int, m = -n,
           NEW v \in Users, NEW b \in Assets
    PROVE  /\ RowSum(CollateralLegs(u, a, m, n), 2, v, b) = 0
           /\ AssetSum(CollateralLegs(u, a, m, n), b) = 0
<1> DEFINE legs == CollateralLegs(u, a, m, n)
           f == [i \in 1..2 |-> legs[i].amount]
<1>1. /\ Len(legs) = 2
      /\ legs[1].user = u /\ legs[2].user = u
      /\ legs[1].asset = a /\ legs[2].asset = a
      /\ legs[1].amount = m /\ legs[2].amount = n
  BY DEF CollateralLegs
<1> HIDE DEF legs
<1>2. 1..2 = {1, 2}
  OBVIOUS
<1>3. f[1] = m /\ f[2] = n
  BY <1>1, <1>2
<1> HIDE DEF f
<1>4. SumFunctionOnSet(f, {1, 2}) = 0 /\ SumFunctionOnSet(f, {}) = 0
  <2>1. SumFunctionOnSet(f, {1, 2}) = f[1] + f[2]
    BY <1>3, SumTwo
  <2> QED BY <1>3, <2>1, SumEmpty
<1>5. RowSum(legs, 2, v, b) = 0
  <2>1. {i \in 1..2 : legs[i].user = v /\ legs[i].asset = b} \in {{1, 2}, {}}
    BY <1>1, <1>2
  <2>2. RowSum(legs, 2, v, b)
          = SumFunctionOnSet(f, {i \in 1..2 : legs[i].user = v /\ legs[i].asset = b})
    BY DEF RowSum, f
  <2> QED BY <1>4, <2>1, <2>2
<1>6. AssetSum(legs, b) = 0
  <2>1. {i \in 1..2 : legs[i].asset = b} \in {{1, 2}, {}}
    BY <1>1, <1>2
  <2>2. AssetSum(legs, b) = SumFunctionOnSet(f, {i \in 1..2 : legs[i].asset = b})
    BY <1>1 DEF AssetSum, f
  <2> QED BY <1>4, <2>1, <2>2
<1> QED BY <1>5, <1>6 DEF legs

\* No leg has been applied yet.
LEMMA RowSumOfNone ==
    ASSUME NEW legs, NEW u, NEW a
    PROVE  RowSum(legs, 0, u, a) = 0
<1>1. {i \in 1..0 : legs[i].user = u /\ legs[i].asset = a} = {}
  OBVIOUS
<1> QED BY <1>1, SumEmpty DEF RowSum

\* A row that no leg hits does not change.
LEMMA RowSumElsewhere ==
    ASSUME NEW legs, NEW k \in Nat, NEW u, NEW a,
           \A i \in 1..k : ~(legs[i].user = u /\ legs[i].asset = a)
    PROVE  RowSum(legs, k, u, a) = 0
<1>1. {i \in 1..k : legs[i].user = u /\ legs[i].asset = a} = {}
  OBVIOUS
<1> QED BY <1>1, SumEmpty DEF RowSum

\* The first k legs are the same.
SameUpTo(k, legs, others) == \A i \in 1..k : legs[i] = others[i]

\* Only the first k legs count.
LEMMA RowSumOfPrefix ==
    ASSUME NEW legs, NEW others, NEW k \in Nat, NEW u, NEW a,
           SameUpTo(k, legs, others)
    PROVE  RowSum(legs, k, u, a) = RowSum(others, k, u, a)
<1>1. [i \in 1..k |-> legs[i].amount] = [i \in 1..k |-> others[i].amount]
  BY DEF SameUpTo
<1>2. {i \in 1..k : legs[i].user = u /\ legs[i].asset = a}
        = {i \in 1..k : others[i].user = u /\ others[i].asset = a}
  BY DEF SameUpTo
<1> QED BY <1>1, <1>2 DEF RowSum

\* One more leg adds its amount to the row it hits.
LEMMA RowSumOfNext ==
    ASSUME NEW legs \in Seq(Leg), NEW k \in Nat, k < Len(legs), NEW u, NEW a
    PROVE  /\ RowSum(legs, k, u, a) \in Int
           /\ RowSum(legs, k + 1, u, a) = RowSum(legs, k, u, a)
                + (IF legs[k + 1].user = u /\ legs[k + 1].asset = a
                   THEN legs[k + 1].amount ELSE 0)
<1> DEFINE n == k + 1
           f == [i \in 1..k |-> legs[i].amount]
           g == [i \in 1..n |-> legs[i].amount]
           S == {i \in 1..k : legs[i].user = u /\ legs[i].asset = a}
           R == {i \in 1..n : legs[i].user = u /\ legs[i].asset = a}
<1>1. n \in Nat /\ 1..n = 1..k \cup {n} /\ n \notin 1..k /\ n \in 1..Len(legs)
  OBVIOUS
<1>2. \A i \in 1..n : legs[i] \in Leg
  BY <1>1
<1>3. /\ \A i \in S \cup {n} : g[i] \in Int
      /\ \A i \in S : f[i] = g[i]
      /\ g[n] = legs[n].amount
  BY <1>1, <1>2 DEF Leg
<1>4. IsFiniteSet(S)
  <2>1. IsFiniteSet(1..k)
    BY FS_Interval
  <2> QED BY <2>1, FS_Subset
<1>5. RowSum(legs, k, u, a) = SumFunctionOnSet(f, S)
  BY DEF RowSum
<1>6. RowSum(legs, n, u, a) = SumFunctionOnSet(g, R)
  BY DEF RowSum
<1>7. n \notin S
  BY <1>1
<1>8. R = IF legs[n].user = u /\ legs[n].asset = a THEN S \cup {n} ELSE S
  BY <1>1
<1> HIDE DEF f, g, S, R, n
<1>9. SumFunctionOnSet(g, S) = SumFunctionOnSet(f, S) /\ SumFunctionOnSet(g, S) \in Int
  BY <1>3, <1>4, SumEqual, SumIsInt
<1>10. SumFunctionOnSet(g, S \cup {n}) = SumFunctionOnSet(g, S) + g[n]
  BY <1>3, <1>4, <1>7, SumAdd
<1>11. RowSum(legs, n, u, a) = RowSum(legs, k, u, a)
         + (IF legs[n].user = u /\ legs[n].asset = a THEN legs[n].amount ELSE 0)
  <2>1. CASE legs[n].user = u /\ legs[n].asset = a
    BY <1>3, <1>5, <1>6, <1>8, <1>9, <1>10, <2>1
  <2>2. CASE ~(legs[n].user = u /\ legs[n].asset = a)
    BY <1>5, <1>6, <1>8, <1>9, <2>2
  <2> QED BY <2>1, <2>2
<1> QED BY <1>5, <1>9, <1>11 DEF n

\* What the legs do to the rows of an asset adds up to what they post to it.
LEMMA RowSumsAddUp ==
    ASSUME NEW legs \in Seq(Leg), NEW a \in Assets
    PROVE  /\ \A u \in Users : RowSum(legs, Len(legs), u, a) \in Int
           /\ AssetSum(legs, a) \in Int
           /\ SumFunctionOnSet([u \in Users |-> RowSum(legs, Len(legs), u, a)], Users)
                = AssetSum(legs, a)
<1> DEFINE n == Len(legs)
           f == [i \in 1..n |-> legs[i].amount]
           S == {i \in 1..n : legs[i].asset = a}
           Row(u) == {i \in S : legs[i].user = u}
           g == [u \in Users |-> RowSum(legs, n, u, a)]
<1>1. n \in Nat /\ \A i \in 1..n : legs[i] \in Leg /\ f[i] = legs[i].amount
  OBVIOUS
<1>2. \A i \in 1..n : legs[i].user \in Users /\ f[i] \in Int
  BY <1>1 DEF Leg
<1> HIDE DEF f
<1>3. IsFiniteSet(S)
  <2>1. IsFiniteSet(1..n)
    BY <1>1, FS_Interval
  <2> QED BY <2>1, FS_Subset
<1>4. \A u \in Users : RowSum(legs, n, u, a) = SumFunctionOnSet(f, Row(u))
  <2> TAKE u \in Users
  <2>1. {i \in 1..n : legs[i].user = u /\ legs[i].asset = a} = Row(u)
    OBVIOUS
  <2> QED BY <2>1 DEF RowSum, f
<1>5. AssetSum(legs, a) = SumFunctionOnSet(f, S)
  BY DEF AssetSum, f
<1>6. \A u \in Users : RowSum(legs, n, u, a) \in Int
  <2> TAKE u \in Users
  <2>1. IsFiniteSet(Row(u)) /\ \A i \in Row(u) : f[i] \in Int
    BY <1>2, <1>3, FS_Subset
  <2> QED BY <1>4, <2>1, SumIsInt
<1>7. SumFunctionOnSet(g, Users) = SumFunctionOnSet(f, S)
  <2>1. \A i \in S : f[i] \in Int
    BY <1>2
  <2> DEFINE part == [u \in Users |-> Row(u)]
  <2>2. /\ \A u \in Users : part[u] \in SUBSET S /\ g[u] = SumFunctionOnSet(f, part[u])
        /\ \A i \in S : \E u \in Users : i \in part[u]
        /\ \A u, v \in Users : u # v => part[u] \cap part[v] = {}
    BY <1>2, <1>4
  <2> HIDE DEF S, Row, g, part
  <2> QED BY <1>3, <2>1, <2>2, UsersAssumption, SumByPart
<1>8. AssetSum(legs, a) \in Int
  BY <1>2, <1>3, <1>5, SumIsInt
<1> QED BY <1>5, <1>6, <1>7, <1>8
-----------------------------------------------------------------------------
(* Every transaction balances *)

\* A step that posts balanced legs keeps the whole ledger balanced.
LEMMA PostBalance ==
    ASSUME TransactionsBalance, NEW ref, NEW legs, verifyLedgerBalance(legs), Post(ref, legs)
    PROVE  TransactionsBalance'
<1>1. /\ DOMAIN entries' = DOMAIN entries \cup {ref}
      /\ entries'[ref] = legs
      /\ \A r \in DOMAIN entries : r # ref => entries'[r] = entries[r]
  BY PostProperties
<1>2. ASSUME NEW r \in DOMAIN entries' PROVE verifyLedgerBalance(entries'[r])
  <2>1. CASE r = ref
    BY <1>1, <2>1
  <2>2. CASE r # ref
    BY <1>1, <2>2 DEF TransactionsBalance
  <2> QED BY <2>1, <2>2
<1> QED BY <1>2 DEF TransactionsBalance

\* Every transaction of the ledger sums to zero per asset: the two entries of
\* a freeze or an unfreeze by construction, the legs of a settlement because
\* verifyLedgerBalance refuses any others.
THEOREM LedgerTransactionsBalance == LedgerSpec => []TransactionsBalance
<1>1. LedgerInit => TransactionsBalance
  BY DEF LedgerInit, TransactionsBalance
<1>2. TransactionsBalance /\ [LedgerNext]_ledgerVars => TransactionsBalance'
  <2> SUFFICES ASSUME TransactionsBalance, [LedgerNext]_ledgerVars
               PROVE  TransactionsBalance'
    OBVIOUS
  <2>1. ASSUME NEW u \in Users, NEW a \in Assets, NEW m \in Int, NEW n \in Int, m = -n
        PROVE  verifyLedgerBalance(CollateralLegs(u, a, m, n))
    BY <2>1, CollateralLegsBalance DEF verifyLedgerBalance
  <2>2. ASSUME NEW u \in Users, NEW a \in Assets, NEW n \in Amounts, NEW r \in RefIds,
               Freeze(u, a, n, r) \/ Unfreeze(u, a, n, r)
        PROVE  TransactionsBalance'
    <3>1. n \in Int /\ -n \in Int /\ n = -(-n)
      BY AmountsAssumption
    <3>2. /\ verifyLedgerBalance(CollateralLegs(u, a, -n, n))
          /\ verifyLedgerBalance(CollateralLegs(u, a, n, -n))
      BY <2>1, <3>1
    <3>3. CASE Freeze(u, a, n, r)
      BY <3>2, <3>3, PostBalance DEF Freeze
    <3>4. CASE Unfreeze(u, a, n, r)
      BY <3>2, <3>4, PostBalance DEF Unfreeze
    <3> QED BY <2>2, <3>3, <3>4
  <2>3. ASSUME NEW id \in TradeIds, NEW s \in Settlements,
               SettleTrade(id, s.legs, s.release)
        PROVE  TransactionsBalance'
    BY <2>3, PostBalance DEF SettleTrade, SettleTradeOK
  <2>4. ASSUME NEW u \in Users, CreateUser(u) PROVE TransactionsBalance'
    BY <2>4 DEF CreateUser, TransactionsBalance
  <2>5. CASE UNCHANGED ledgerVars
    BY <2>5 DEF ledgerVars, TransactionsBalance
  <2> QED BY <2>2, <2>3, <2>4, <2>5 DEF LedgerNext
<1> QED BY <1>1, <1>2, PTL DEF LedgerSpec
-----------------------------------------------------------------------------
(* No operation creates money *)

\* A step that moves nothing between users changes no supply.
LEMMA SupplyUnchanged ==
    ASSUME NEW a \in Assets,
           \A u \in Users : available'[u][a] + frozen'[u][a] = available[u][a] + frozen[u][a]
    PROVE  Supply(a)' = Supply(a)
<1>1. [u \in Users |-> available'[u][a] + frozen'[u][a]]
        = [u \in Users |-> available[u][a] + frozen[u][a]]
  OBVIOUS
<1> QED BY <1>1 DEF Supply

\* A freeze moves between the two balances of one user.
LEMMA FreezeKeepsSupply ==
    ASSUME LedgerTypeOK, NEW u \in Users, NEW a \in Assets, NEW n \in Int, NEW ref,
           Freeze(u, a, n, ref), NEW b \in Assets
    PROVE  Supply(b)' = Supply(b)
<1>1. ASSUME NEW v \in Users
      PROVE  available'[v][b] + frozen'[v][b] = available[v][b] + frozen[v][b]
  <2>1. /\ available[v][b] \in Int /\ frozen[v][b] \in Int
        /\ available' = [available EXCEPT ![u][a] = @ - n]
        /\ frozen' = [frozen EXCEPT ![u][a] = @ + n]
    BY DEF LedgerTypeOK, Freeze
  <2> QED BY <2>1 DEF LedgerTypeOK
<1> QED BY <1>1, SupplyUnchanged

\* An unfreeze moves between the two balances of one user.
LEMMA UnfreezeKeepsSupply ==
    ASSUME LedgerTypeOK, NEW u \in Users, NEW a \in Assets, NEW n \in Int, NEW ref,
           Unfreeze(u, a, n, ref), NEW b \in Assets
    PROVE  Supply(b)' = Supply(b)
<1>1. ASSUME NEW v \in Users
      PROVE  available'[v][b] + frozen'[v][b] = available[v][b] + frozen[v][b]
  <2>1. /\ available[v][b] \in Int /\ frozen[v][b] \in Int
        /\ available' = [available EXCEPT ![u][a] = @ + n]
        /\ frozen' = [frozen EXCEPT ![u][a] = @ - n]
    BY DEF LedgerTypeOK, Unfreeze
  <2> QED BY <2>1 DEF LedgerTypeOK
<1> QED BY <1>1, SupplyUnchanged

\* A settlement moves its legs between users and takes its releases away.
LEMMA SettleTradeSupply ==
    ASSUME LedgerTypeOK, NEW id, NEW legs \in Seq(Leg), NEW release \in Seq(Leg),
           SettleTrade(id, legs, release), NEW a \in Assets
    PROVE  /\ AssetSum(release, a) \in Int /\ Supply(a) \in Int
           /\ Supply(a)' = Supply(a) - AssetSum(release, a)
<1> DEFINE old == [u \in Users |-> available[u][a] + frozen[u][a]]
           new == [u \in Users |-> available'[u][a] + frozen'[u][a]]
           in == [u \in Users |-> RowSum(legs, Len(legs), u, a)]
           out == [u \in Users |-> RowSum(release, Len(release), u, a)]
           both == [u \in Users |-> old[u] + in[u]]
<1>1. /\ \A u \in Users : in[u] \in Int
      /\ SumFunctionOnSet(in, Users) = AssetSum(legs, a)
  BY RowSumsAddUp
<1>2. /\ \A u \in Users : out[u] \in Int
      /\ AssetSum(release, a) \in Int
      /\ SumFunctionOnSet(out, Users) = AssetSum(release, a)
  BY RowSumsAddUp
<1>3. AssetSum(legs, a) = 0
  BY DEF SettleTrade, SettleTradeOK, verifyLedgerBalance
<1>4. ASSUME NEW u \in Users
      PROVE  /\ old[u] \in Int /\ new[u] \in Int
             /\ both[u] = old[u] + in[u]
             /\ both[u] = new[u] + out[u]
  <2> DEFINE i == RowSum(legs, Len(legs), u, a)
             o == RowSum(release, Len(release), u, a)
  <2>1. i \in Int /\ o \in Int
    BY <1>1, <1>2
  <2>2. available[u][a] \in Int /\ frozen[u][a] \in Int
    BY DEF LedgerTypeOK
  <2>3. available'[u][a] = available[u][a] + i /\ frozen'[u][a] = frozen[u][a] - o
    BY DEF SettleTrade
  <2> HIDE DEF i, o
  <2>4. /\ available'[u][a] + frozen'[u][a] \in Int
        /\ available[u][a] + frozen[u][a] + i = available'[u][a] + frozen'[u][a] + o
    BY <2>1, <2>2, <2>3
  <2> QED BY <2>2, <2>4 DEF i, o
<1>5. /\ Supply(a) = SumFunctionOnSet(old, Users)
      /\ Supply(a)' = SumFunctionOnSet(new, Users)
  BY DEF Supply, SumFunction
<1> HIDE DEF old, new, in, out, both
<1>6. /\ SumFunctionOnSet(both, Users) = SumFunctionOnSet(old, Users) + SumFunctionOnSet(in, Users)
      /\ SumFunctionOnSet(both, Users) = SumFunctionOnSet(new, Users) + SumFunctionOnSet(out, Users)
  BY <1>1, <1>2, <1>4, UsersAssumption, SumPlus
<1>7. SumFunctionOnSet(old, Users) \in Int /\ SumFunctionOnSet(new, Users) \in Int
  BY <1>4, UsersAssumption, SumIsInt
<1> QED BY <1>1, <1>2, <1>3, <1>5, <1>6, <1>7

\* Releases that are not negative add up to what is not negative.
LEMMA AssetSumIsNat ==
    ASSUME NEW legs \in Seq(Leg), NEW a \in Assets, \A i \in DOMAIN legs : legs[i].amount >= 0
    PROVE  AssetSum(legs, a) \in Nat
<1> DEFINE f == [i \in 1..Len(legs) |-> legs[i].amount]
           S == {i \in 1..Len(legs) : legs[i].asset = a}
<1>1. \A i \in S : f[i] \in Nat
  <2> TAKE i \in S
  <2>1. legs[i] \in Leg /\ i \in DOMAIN legs
    OBVIOUS
  <2> QED BY <2>1 DEF Leg
<1>2. IsFiniteSet(S)
  <2>1. IsFiniteSet(1..Len(legs))
    BY FS_Interval
  <2> QED BY <2>1, FS_Subset
<1>3. AssetSum(legs, a) = SumFunctionOnSet(f, S)
  BY DEF AssetSum
<1> HIDE DEF f, S
<1> QED BY <1>1, <1>2, <1>3, SumIsNat

\* No operation makes more of an asset than there was, whatever mix of calls,
\* refusals and retries: a settlement moves what it posts and takes its
\* releases out of frozen.
THEOREM LedgerSupplyNeverGrows == LedgerSpec => SupplyNeverGrows
<1> DEFINE A == \A a \in Assets : Supply(a)' <= Supply(a)
<1>1. LedgerTypeOK /\ [LedgerNext]_ledgerVars => [A]_ledgerVars
  <2> SUFFICES ASSUME LedgerTypeOK, LedgerNext, NEW b \in Assets
               PROVE  Supply(b)' <= Supply(b)
    OBVIOUS
  <2>0. Supply(b) \in Int
    <3> DEFINE f == [u \in Users |-> available[u][b] + frozen[u][b]]
    <3>1. \A u \in Users : f[u] \in Int
      BY DEF LedgerTypeOK
    <3>2. Supply(b) = SumFunctionOnSet(f, Users)
      BY DEF Supply, SumFunction
    <3> HIDE DEF f
    <3> QED BY <3>1, <3>2, UsersAssumption, SumIsInt
  <2>1. ASSUME NEW u \in Users, NEW a \in Assets, NEW n \in Amounts, NEW r \in RefIds,
               Freeze(u, a, n, r) \/ Unfreeze(u, a, n, r)
        PROVE  Supply(b)' = Supply(b)
    <3>1. n \in Int
      BY AmountsAssumption
    <3> QED BY <2>1, <3>1, FreezeKeepsSupply, UnfreezeKeepsSupply
  <2>2. ASSUME NEW id \in TradeIds, NEW s \in Settlements,
               SettleTrade(id, s.legs, s.release)
        PROVE  Supply(b)' <= Supply(b)
    <3>1. s.legs \in Seq(Leg) /\ s.release \in Seq(Leg)
      BY SettlementsAssumption
    <3>2. AssetSum(s.release, b) \in Nat
      BY <3>1, ReleasesAssumption, AssetSumIsNat
    <3>3. Supply(b)' = Supply(b) - AssetSum(s.release, b)
      BY <2>2, <3>1, SettleTradeSupply
    <3> QED BY <2>0, <3>2, <3>3
  <2>3. ASSUME NEW u \in Users, CreateUser(u) PROVE Supply(b)' = Supply(b)
    BY <2>3, SupplyUnchanged DEF CreateUser
  <2> QED BY <2>0, <2>1, <2>2, <2>3 DEF LedgerNext
<1> QED BY <1>1, LedgerTypeCorrect, PTL DEF LedgerSpec, SupplyNeverGrows
-----------------------------------------------------------------------------
(* LedgerTx: the invariant *)

Change(row, n) == [user |-> row.user, asset |-> row.asset, amount |-> n]

\* What the statements of a call do to available and to frozen, in order.
Rows(c) == Len(c.settle.legs) + Len(c.settle.release)
Released(c, i) == c.settle.release[i - Len(c.settle.legs)]

AvPlan(c) ==
    IF c.op = "trade"
    THEN [i \in 1..Rows(c) |-> IF i <= Len(c.settle.legs) THEN c.settle.legs[i]
                               ELSE Change(Released(c, i), 0)]
    ELSE <<Change(c, IF c.op = "freeze" THEN -c.amount ELSE c.amount)>>

FrPlan(c) ==
    IF c.op = "trade"
    THEN [i \in 1..Rows(c) |-> IF i <= Len(c.settle.legs) THEN Change(c.settle.legs[i], 0)
                               ELSE Change(Released(c, i), -Released(c, i).amount)]
    ELSE <<Change(c, IF c.op = "freeze" THEN c.amount ELSE -c.amount)>>

\* How far a transaction r has come at each stage.
AtStage(r) ==
    /\ r.at = "idle" => r = Idle
    /\ r.at = "update" => r.call \in Moves /\ Len(r.av) = 0
    /\ r.at = "exists" => r.call \in Settles /\ Len(r.av) = 0
    /\ r.at = "insert" => \/ r.call \in Moves /\ Len(r.av) = 1
                          \/ r.call \in Settles /\ Len(r.av) = 0
    /\ r.at = "legs" => r.call \in Settles /\ Len(r.av) <= Len(r.call.settle.legs)
    /\ r.at = "release" => r.call \in Settles /\ Len(r.av) >= Len(r.call.settle.legs)
    /\ r.at = "verify" => r.call \in Settles /\ Len(r.av) = Len(AvPlan(r.call))
    /\ r.at = "commit" => /\ r.call \in Moves \cup Settles
                          /\ Len(r.av) = Len(AvPlan(r.call))
                          /\ r.call \in Settles => verifyLedgerBalance(r.call.settle.legs)

\* It has executed its statements in order, each on a row of the users us.
OnPlan(r, us) ==
    r.at # "idle" =>
        /\ r.call \in Moves \cup Settles
        /\ Len(r.av) <= Len(AvPlan(r.call))
        /\ \A i \in 1..Len(r.av) : /\ r.av[i] = AvPlan(r.call)[i]
                                   /\ r.fr[i] = FrPlan(r.call)[i]
                                   /\ r.av[i].user \in us

\* After every statement both balances were covered by what is committed now.
Covered(r, av, fr) ==
    \A k \in 0..Len(r.av), u \in Users, a \in Assets :
        /\ av[u][a] + RowSum(r.av, k, u, a) \in Nat
        /\ fr[u][a] + RowSum(r.fr, k, u, a) \in Nat

HasWritten(r, u, a) == \E i \in 1..Len(r.av) : r.av[i].user = u /\ r.av[i].asset = a
HasInserted(r) == r.at \in {"legs", "release", "verify", "commit"}
RefOf(r) == <<r.call.op, r.call.ref>>

TxRecord ==
    [at : {"idle", "update", "exists", "insert", "legs", "release", "verify", "commit"},
     call : Moves \cup Settles \cup {<<>>}, av : Seq(Leg), fr : Seq(Leg)]

\* A transaction r that would find its rows and its reference at the commit.
Sound(r, us, av, fr, posted) ==
    /\ r \in TxRecord /\ Len(r.fr) = Len(r.av)
    /\ AtStage(r) /\ OnPlan(r, us) /\ Covered(r, av, fr)
    /\ HasInserted(r) => RefOf(r) \notin posted

\* Two transactions that have not written the same row or the same reference.
Apart(r, s) ==
    /\ \A u \in Users, a \in Assets : ~(HasWritten(r, u, a) /\ HasWritten(s, u, a))
    /\ ~(HasInserted(r) /\ HasInserted(s) /\ RefOf(r) = RefOf(s))

TxConsistent ==
    /\ LedgerTypeOK
    /\ tx \in [Txs -> TxRecord]
    /\ \A t \in Txs : Sound(tx[t], users, available, frozen, DOMAIN entries)
    /\ \A t, o \in Txs : t # o => Apart(tx[t], tx[o])
    /\ started \in 0..MaxTxs
    /\ aborts \in 0..MaxAborts

-----------------------------------------------------------------------------
(* Calls and plans *)

\* The fields of the two kinds of calls.
LEMMA CallFields ==
    /\ \A c \in Moves : /\ c.op \in {"freeze", "unfreeze"} /\ c.op # "trade"
                        /\ c.user \in Users /\ c.asset \in Assets
                        /\ c.amount \in Amounts /\ c.amount \in Int /\ c.amount > 0
                        /\ c.ref \in RefIds
    /\ \A c \in Settles : /\ c.op = "trade" /\ c.ref \in TradeIds
                          /\ c.settle \in Settlements
                          /\ c.settle.legs \in Seq(Leg) /\ c.settle.legs # <<>>
                          /\ c.settle.release \in Seq(Leg)
                          /\ Len(c.settle.legs) \in Nat /\ Len(c.settle.release) \in Nat
<1>1. ASSUME NEW c \in Moves
      PROVE  /\ c.op \in {"freeze", "unfreeze"} /\ c.op # "trade"
             /\ c.user \in Users /\ c.asset \in Assets
             /\ c.amount \in Amounts /\ c.amount \in Int /\ c.amount > 0
             /\ c.ref \in RefIds
  BY AmountsAssumption DEF Moves
<1>2. ASSUME NEW c \in Settles
      PROVE  /\ c.op = "trade" /\ c.ref \in TradeIds
             /\ c.settle \in Settlements /\ c.settle.legs # <<>>
  BY DEF Settles
<1>3. \A s \in Settlements : /\ s.legs \in Seq(Leg) /\ s.release \in Seq(Leg)
                              /\ Len(s.legs) \in Nat /\ Len(s.release) \in Nat
  BY SettlementsAssumption
<1> QED BY <1>1, <1>2, <1>3

\* A function on 1..n is a sequence.
LEMMA SeqOfLegs ==
    ASSUME NEW n \in Nat, NEW f \in [1..n -> Leg]
    PROVE  f \in Seq(Leg) /\ Len(f) = n
  OBVIOUS

\* Both plans are legs of the same length, on the same rows.
LEMMA PlanType ==
    ASSUME NEW c \in Moves \cup Settles
    PROVE  /\ AvPlan(c) \in Seq(Leg) /\ FrPlan(c) \in Seq(Leg)
           /\ Len(AvPlan(c)) = (IF c \in Moves THEN 1 ELSE Rows(c))
           /\ Len(FrPlan(c)) = Len(AvPlan(c))
           /\ \A i \in 1..Len(AvPlan(c)) : /\ FrPlan(c)[i].user = AvPlan(c)[i].user
                                           /\ FrPlan(c)[i].asset = AvPlan(c)[i].asset
<1>1. CASE c \in Moves
  <2>1. /\ Change(c, c.amount) \in Leg /\ Change(c, -c.amount) \in Leg
        /\ c.op \in {"freeze", "unfreeze"}
    BY <1>1, CallFields DEF Change, Leg
  <2>2. /\ AvPlan(c) = <<Change(c, IF c.op = "freeze" THEN -c.amount ELSE c.amount)>>
        /\ FrPlan(c) = <<Change(c, IF c.op = "freeze" THEN c.amount ELSE -c.amount)>>
    BY <2>1 DEF AvPlan, FrPlan
  <2>3. \A n, m : /\ Change(c, n).user = Change(c, m).user
                  /\ Change(c, n).asset = Change(c, m).asset
    BY DEF Change
  <2> QED BY <1>1, <2>1, <2>2, <2>3
<1>2. CASE c \in Settles
  <2> DEFINE legs == c.settle.legs
             release == c.settle.release
             av == [i \in 1..Rows(c) |-> IF i <= Len(legs) THEN legs[i]
                                         ELSE Change(Released(c, i), 0)]
             fr == [i \in 1..Rows(c) |-> IF i <= Len(legs) THEN Change(legs[i], 0)
                                         ELSE Change(Released(c, i), -Released(c, i).amount)]
  <2>1. /\ c.op = "trade" /\ c \notin Moves
        /\ legs \in Seq(Leg) /\ release \in Seq(Leg)
    BY <1>2, CallFields
  <2>2. AvPlan(c) = av /\ FrPlan(c) = fr
    BY <2>1 DEF AvPlan, FrPlan
  <2>3. /\ Len(legs) \in Nat /\ Len(release) \in Nat
        /\ Rows(c) = Len(legs) + Len(release) /\ Rows(c) \in Nat
    <3>1. Rows(c) = Len(legs) + Len(release)
      BY DEF Rows
    <3> HIDE DEF legs, release
    <3> QED BY <2>1, <3>1
  <2>4. ASSUME NEW i \in 1..Rows(c)
        PROVE  av[i] \in Leg /\ fr[i] \in Leg
               /\ fr[i].user = av[i].user /\ fr[i].asset = av[i].asset
    <3>1. CASE i <= Len(legs)
      <4>1. legs[i] \in Leg
        BY <2>1, <2>3, <3>1
      <4> QED BY <3>1, <4>1 DEF Leg, Change
    <3>2. CASE ~(i <= Len(legs))
      <4>1. i - Len(legs) \in 1..Len(release)
        <5> HIDE DEF legs, release
        <5> QED BY <2>3, <3>2
      <4>2. Released(c, i) \in Leg
        BY <2>1, <4>1 DEF Released
      <4> QED BY <3>2, <4>2 DEF Leg, Change
    <3> QED BY <3>1, <3>2
  <2>5. av \in Seq(Leg) /\ fr \in Seq(Leg) /\ Len(av) = Rows(c) /\ Len(fr) = Rows(c)
    <3>1. av \in [1..Rows(c) -> Leg] /\ fr \in [1..Rows(c) -> Leg]
      BY <2>4
    <3> HIDE DEF av, fr
    <3> QED BY <2>3, <3>1, SeqOfLegs
  <2> HIDE DEF av, fr
  <2> QED BY <2>1, <2>2, <2>4, <2>5
<1> QED BY <1>1, <1>2

\* The next UPDATE is the next row of the plan.
LEMMA UpdateIsPlanned ==
    ASSUME TxConsistent, NEW t \in Txs, Updates(t),
           NEW c, c = tx[t].call, NEW n, n = Len(tx[t].av)
    PROVE  /\ c \in Moves \cup Settles /\ n \in Nat
           /\ n + 1 \in 1..Len(AvPlan(c))
           /\ Change(Update(t), Update(t).da) = AvPlan(c)[n + 1]
           /\ Change(Update(t), Update(t).df) = FrPlan(c)[n + 1]
           /\ tx[t].at = "update" => c \in Moves /\ n = 0
           /\ tx[t].at = "legs" => c \in Settles /\ n + 1 <= Len(c.settle.legs)
           /\ tx[t].at = "release" => c \in Settles /\ n + 1 >= Len(c.settle.legs)
<1>0. /\ tx[t] \in TxRecord /\ AtStage(tx[t]) /\ n \in Nat
      /\ OnPlan(tx[t], users)
  BY DEF TxConsistent, Sound, TxRecord
<1>1. CASE tx[t].at = "update"
  <2>1. c \in Moves /\ n = 0
    BY <1>0, <1>1 DEF AtStage
  <2>2. Len(AvPlan(c)) = 1
    BY <2>1, PlanType
  <2>3. c.op \in {"freeze", "unfreeze"}
    BY <2>1, CallFields
  <2>4. /\ AvPlan(c)[1] = Change(c, IF c.op = "freeze" THEN -c.amount ELSE c.amount)
        /\ FrPlan(c)[1] = Change(c, IF c.op = "freeze" THEN c.amount ELSE -c.amount)
    BY <2>3 DEF AvPlan, FrPlan
  <2>5. /\ Update(t).user = c.user /\ Update(t).asset = c.asset
        /\ Update(t).da = IF c.op = "freeze" THEN -c.amount ELSE c.amount
        /\ Update(t).df = IF c.op = "freeze" THEN c.amount ELSE -c.amount
    <3>1. CASE c.op = "freeze"
      <4>1. Update(t) = [user |-> c.user, asset |-> c.asset, da |-> -c.amount,
                         df |-> c.amount, minA |-> c.amount, minF |-> 0]
        BY <1>1, <3>1 DEF Update
      <4> QED BY <3>1, <4>1
    <3>2. CASE c.op = "unfreeze"
      <4>1. Update(t) = [user |-> c.user, asset |-> c.asset, da |-> c.amount,
                         df |-> -c.amount, minA |-> 0, minF |-> c.amount]
        BY <1>1, <3>2 DEF Update
      <4> QED BY <3>2, <4>1
    <3> QED BY <2>3, <3>1, <3>2
  <2> QED BY <1>0, <1>1, <2>1, <2>2, <2>4, <2>5 DEF Change
<1>2. CASE tx[t].at \in {"legs", "release"}
  <2> DEFINE legs == c.settle.legs
             release == c.settle.release
  <2>1. c \in Settles
    BY <1>0, <1>2 DEF AtStage
  <2>2. /\ c.op = "trade" /\ c \notin Moves
        /\ legs \in Seq(Leg) /\ release \in Seq(Leg)
        /\ Len(legs) \in Nat /\ Len(release) \in Nat
    BY <2>1, CallFields
  <2>3. Len(AvPlan(c)) = Len(legs) + Len(release) /\ Rows(c) = Len(AvPlan(c))
    BY <2>1, <2>2, PlanType DEF Rows
  <2>4. /\ AvPlan(c) = [i \in 1..Rows(c) |-> IF i <= Len(legs) THEN legs[i]
                                              ELSE Change(Released(c, i), 0)]
        /\ FrPlan(c) = [i \in 1..Rows(c) |-> IF i <= Len(legs) THEN Change(legs[i], 0)
                                  ELSE Change(Released(c, i), -Released(c, i).amount)]
    BY <2>2 DEF AvPlan, FrPlan
  <2>5. CASE tx[t].at = "legs"
    <3>1. n < Len(legs)
      BY <2>5 DEF Updates
    <3>2. n + 1 \in 1..Rows(c) /\ n + 1 <= Len(legs)
      <4> HIDE DEF legs, release
      <4> QED BY <1>0, <2>2, <2>3, <3>1
    <3>3. AvPlan(c)[n + 1] = legs[n + 1] /\ FrPlan(c)[n + 1] = Change(legs[n + 1], 0)
      BY <2>4, <3>2
    <3>4. legs[n + 1] \in Leg
      BY <1>0, <2>2, <3>1
    <3>5. Update(t) = [user |-> legs[n + 1].user, asset |-> legs[n + 1].asset,
                       da |-> legs[n + 1].amount, df |-> 0, minA |-> 0, minF |-> 0]
      BY <2>5 DEF Update
    <3>6. /\ Change(Update(t), Update(t).da) = legs[n + 1]
          /\ Change(Update(t), Update(t).df) = Change(legs[n + 1], 0)
      <4> DEFINE up == Update(t)
                 leg == legs[n + 1]
      <4>1. up.user = leg.user /\ up.asset = leg.asset /\ up.da = leg.amount /\ up.df = 0
        BY <3>5
      <4>2. leg = [user |-> leg.user, asset |-> leg.asset, amount |-> leg.amount]
        BY <3>4 DEF Leg
      <4> HIDE DEF up, leg
      <4>3. Change(up, up.da) = leg /\ Change(up, up.df) = Change(leg, 0)
        BY <4>1, <4>2 DEF Change
      <4> QED BY <4>3 DEF up, leg
    <3>7. /\ Change(Update(t), Update(t).da) = AvPlan(c)[n + 1]
          /\ Change(Update(t), Update(t).df) = FrPlan(c)[n + 1]
      BY <3>3, <3>6
    <3>8. tx[t].at # "update" /\ tx[t].at # "release"
      BY <2>5
    <3> HIDE DEF legs, release
    <3> QED BY <2>1, <2>3, <3>2, <3>7, <3>8 DEF legs
  <2>6. CASE tx[t].at = "release"
    <3>1. n >= Len(legs) /\ n < Len(legs) + Len(release)
      BY <1>0, <2>6 DEF Updates, AtStage
    <3>2. n + 1 \in 1..Rows(c) /\ ~(n + 1 <= Len(legs)) /\ n + 1 >= Len(legs)
          /\ (n + 1) - Len(legs) = n - Len(legs) + 1
      <4> HIDE DEF legs, release
      <4> QED BY <1>0, <2>2, <2>3, <3>1
    <3> DEFINE fr == release[n - Len(legs) + 1]
    <3>3. Released(c, n + 1) = fr
      BY <3>2 DEF Released
    <3>4. /\ AvPlan(c)[n + 1] = Change(fr, 0)
          /\ FrPlan(c)[n + 1] = Change(fr, -fr.amount)
      <4> DEFINE m == n + 1
      <4>1. m \in 1..Rows(c) /\ ~(m <= Len(legs)) /\ Released(c, m) = fr
        BY <3>2, <3>3
      <4> HIDE DEF m, fr, legs
      <4>2. AvPlan(c)[m] = Change(Released(c, m), 0)
        BY <2>4, <4>1
      <4>3. FrPlan(c)[m] = Change(Released(c, m), -Released(c, m).amount)
        BY <2>4, <4>1
      <4> QED BY <4>1, <4>2, <4>3 DEF m
    <3>5. Update(t) = [user |-> fr.user, asset |-> fr.asset,
                       da |-> 0, df |-> -fr.amount, minA |-> 0, minF |-> fr.amount]
      BY <2>6 DEF Update
    <3>6. /\ Change(Update(t), Update(t).da) = Change(fr, 0)
          /\ Change(Update(t), Update(t).df) = Change(fr, -fr.amount)
      <4> DEFINE up == Update(t)
      <4> HIDE DEF fr
      <4>1. up.user = fr.user /\ up.asset = fr.asset /\ up.da = 0 /\ up.df = -fr.amount
        BY <3>5
      <4> HIDE DEF up
      <4>2. Change(up, up.da) = Change(fr, 0) /\ Change(up, up.df) = Change(fr, -fr.amount)
        BY <4>1 DEF Change
      <4> QED BY <4>2 DEF up
    <3>7. /\ Change(Update(t), Update(t).da) = AvPlan(c)[n + 1]
          /\ Change(Update(t), Update(t).df) = FrPlan(c)[n + 1]
      BY <3>4, <3>6
    <3>8. tx[t].at # "update" /\ tx[t].at # "legs"
      BY <2>6
    <3> HIDE DEF legs, release
    <3> QED BY <2>1, <2>3, <3>2, <3>7, <3>8 DEF legs
  <2> QED BY <1>2, <2>5, <2>6
<1> QED BY <1>1, <1>2 DEF Updates
-----------------------------------------------------------------------------
(* Steps that commit nothing *)

\* A step that changes no table and leaves t in a good state is a good step.
LEMMA StepOfOne ==
    ASSUME TxConsistent, NEW t \in Txs, NEW r,
           tx' = [tx EXCEPT ![t] = r], UNCHANGED ledgerVars,
           started' \in 0..MaxTxs, aborts' \in 0..MaxAborts,
           Sound(r, users, available, frozen, DOMAIN entries),
           \A o \in Txs \ {t} : Apart(r, tx[o])
    PROVE  TxConsistent'
<1>1. /\ users' = users /\ available' = available /\ frozen' = frozen /\ entries' = entries
      /\ tx' \in [Txs -> TxRecord]
      /\ tx'[t] = r /\ \A o \in Txs \ {t} : tx'[o] = tx[o]
  BY DEF TxConsistent, ledgerVars, Sound
<1>2. LedgerTypeOK'
  BY <1>1 DEF TxConsistent, LedgerTypeOK
<1>3. \A o \in Txs : Sound(tx'[o], users', available', frozen', DOMAIN entries')
  BY <1>1 DEF TxConsistent
<1>4. ASSUME NEW o \in Txs, NEW p \in Txs, o # p PROVE Apart(tx'[o], tx'[p])
  <2>1. CASE o = t
    BY <1>1, <1>4, <2>1
  <2>2. CASE p = t
    <3>1. Apart(r, tx[o])
      BY <1>4, <2>2
    <3> QED BY <1>1, <1>4, <2>2, <3>1 DEF Apart
  <2>3. CASE o # t /\ p # t
    BY <1>1, <1>4, <2>3 DEF TxConsistent
  <2> QED BY <2>1, <2>2, <2>3
<1> QED BY <1>1, <1>2, <1>3, <1>4 DEF TxConsistent

\* Nothing is written and nothing inserted: a fresh or a rolled back one.
LEMMA FreshIsSound ==
    ASSUME NEW us, NEW av \in [Users -> [Assets -> Nat]], NEW fr \in [Users -> [Assets -> Nat]],
           NEW posted, NEW r \in TxRecord, r.av = <<>>, r.fr = <<>>,
           AtStage(r), ~HasInserted(r), r.at # "idle" => r.call \in Moves \cup Settles
    PROVE  Sound(r, us, av, fr, posted) /\ \A s : Apart(r, s)
<1>1. Len(r.av) = 0 /\ Len(r.fr) = 0
  OBVIOUS
<1>2. OnPlan(r, us)
  BY <1>1, PlanType DEF OnPlan
<1>3. ASSUME NEW k \in 0..Len(r.av), NEW u \in Users, NEW a \in Assets
      PROVE  /\ av[u][a] + RowSum(r.av, k, u, a) \in Nat
             /\ fr[u][a] + RowSum(r.fr, k, u, a) \in Nat
  <2>1. k = 0
    BY <1>1
  <2>2. RowSum(r.av, k, u, a) = 0 /\ RowSum(r.fr, k, u, a) = 0
    BY <2>1, RowSumOfNone
  <2> QED BY <2>2
<1> QED BY <1>1, <1>2, <1>3 DEF Sound, Covered, Apart, HasWritten

\* Idle is such a state.
LEMMA IdleIsFresh ==
    /\ Idle \in TxRecord /\ Idle.av = <<>> /\ Idle.fr = <<>> /\ Idle.at = "idle"
    /\ AtStage(Idle) /\ ~HasInserted(Idle)
  BY DEF Idle, State, TxRecord, AtStage, HasInserted

\* Rollback, whatever it is called for.
LEMMA RollbackKeeps ==
    ASSUME TxConsistent, NEW t \in Txs, Rollback(t), aborts' \in 0..MaxAborts
    PROVE  TxConsistent'
<1>1. /\ Sound(Idle, users, available, frozen, DOMAIN entries)
      /\ \A s : Apart(Idle, s)
  BY IdleIsFresh, FreshIsSound DEF TxConsistent, LedgerTypeOK
<1>2. /\ tx' = [tx EXCEPT ![t] = Idle] /\ UNCHANGED ledgerVars
      /\ started' \in 0..MaxTxs
  BY DEF Rollback, TxConsistent
<1> QED BY <1>1, <1>2, StepOfOne

\* A step that moves t on to another statement without writing a row.
LEMMA StageStep ==
    ASSUME TxConsistent, NEW t \in Txs, tx[t].at # "idle", NEW at,
           tx' = [tx EXCEPT ![t].at = at], UNCHANGED <<ledgerVars, started, aborts>>,
           at \in {"insert", "legs", "release", "verify", "commit"},
           AtStage([tx[t] EXCEPT !.at = at]),
           at # "insert" => \/ HasInserted(tx[t])
                           \/ /\ Ref(t) \notin DOMAIN entries
                              /\ \A o \in Txs \ {t} : ~LocksRef(o, Ref(t))
    PROVE  TxConsistent'
<1> DEFINE r == [tx[t] EXCEPT !.at = at]
<1>1. /\ tx[t] \in TxRecord /\ tx \in [Txs -> TxRecord]
      /\ Sound(tx[t], users, available, frozen, DOMAIN entries)
      /\ started \in 0..MaxTxs /\ aborts \in 0..MaxAborts
  BY DEF TxConsistent
<1>2. /\ tx' = [tx EXCEPT ![t] = r]
      /\ r \in TxRecord /\ r.at = at /\ r.call = tx[t].call
      /\ r.av = tx[t].av /\ r.fr = tx[t].fr
  BY <1>1 DEF TxRecord
<1>3. RefOf(r) = Ref(t) /\ RefOf(tx[t]) = Ref(t)
  BY <1>2 DEF RefOf, Ref
<1> HIDE DEF r
<1>4. Sound(r, users, available, frozen, DOMAIN entries)
  <2>1. OnPlan(r, users) /\ Covered(r, available, frozen)
    BY <1>1, <1>2 DEF Sound, OnPlan, Covered
  <2>2. HasInserted(r) => RefOf(r) \notin DOMAIN entries
    BY <1>1, <1>2, <1>3 DEF Sound, HasInserted
  <2> QED BY <1>1, <1>2, <2>1, <2>2 DEF Sound, r
<1>5. ASSUME NEW o \in Txs \ {t} PROVE Apart(r, tx[o])
  <2>1. Apart(tx[t], tx[o])
    BY DEF TxConsistent
  <2>2. \A u, a : HasWritten(r, u, a) => HasWritten(tx[t], u, a)
    BY <1>2 DEF HasWritten
  <2>3. LocksRef(o, Ref(t)) <=> HasInserted(tx[o]) /\ RefOf(tx[o]) = Ref(t)
    BY DEF LocksRef, InsertedRef, Ref, HasInserted, RefOf
  <2>4. HasInserted(r) => \/ HasInserted(tx[t])
                          \/ ~LocksRef(o, Ref(t))
    BY <1>2 DEF HasInserted
  <2> QED BY <1>3, <2>1, <2>2, <2>3, <2>4 DEF Apart
<1> QED BY <1>1, <1>2, <1>4, <1>5, StepOfOne

\* EndLoop, SelectExists, InsertRef and Verify are such steps.
LEMMA EndLoopKeeps ==
    ASSUME TxConsistent, NEW t \in Txs, EndLoop(t)
    PROVE  TxConsistent'
<1> DEFINE at == IF tx[t].at = "legs" THEN "release" ELSE "verify"
           r == [tx[t] EXCEPT !.at = at]
           c == tx[t].call
           n == Len(tx[t].av)
<1>1. /\ tx[t] \in TxRecord /\ tx \in [Txs -> TxRecord] /\ AtStage(tx[t])
      /\ OnPlan(tx[t], users) /\ n \in Nat
  BY DEF TxConsistent, Sound, TxRecord
<1>2. tx[t].at \in {"legs", "release"} /\ ~Updates(t)
  BY DEF EndLoop
<1>3. tx' = [tx EXCEPT ![t].at = at] /\ UNCHANGED <<ledgerVars, started, aborts>>
  BY <1>1 DEF EndLoop
<1>4. r.at = at /\ r.call = c /\ r.av = tx[t].av
  BY <1>1 DEF TxRecord
<1>5. c \in Settles
  BY <1>1, <1>2 DEF AtStage
<1>6. /\ Len(c.settle.legs) \in Nat /\ Len(c.settle.release) \in Nat
      /\ n <= Len(AvPlan(c))
      /\ Len(AvPlan(c)) = Len(c.settle.legs) + Len(c.settle.release)
  <2>1. c.op = "trade" /\ c \notin Moves
    BY <1>5, CallFields
  <2> QED BY <1>1, <1>2, <1>5, <2>1, CallFields, PlanType DEF OnPlan, Rows
<1>7. AtStage(r)
  <2>1. CASE tx[t].at = "legs"
    <3>1. ~(n < Len(c.settle.legs))
      BY <1>2, <2>1 DEF Updates
    <3> QED BY <1>1, <1>4, <1>5, <1>6, <2>1, <3>1 DEF AtStage
  <2>2. CASE tx[t].at = "release"
    <3>1. ~(n < Len(c.settle.legs) + Len(c.settle.release))
      BY <1>2, <2>2 DEF Updates
    <3>2. n = Len(AvPlan(c))
      <4> DEFINE l == Len(c.settle.legs)
                 m == Len(c.settle.release)
                 p == Len(AvPlan(c))
      <4>1. n \in Nat /\ l \in Nat /\ m \in Nat /\ n <= p /\ p = l + m /\ ~(n < l + m)
        BY <1>1, <1>6, <3>1
      <4> HIDE DEF l, m, p, n
      <4> QED BY <4>1 DEF p
    <3> QED BY <1>4, <1>5, <2>2, <3>2 DEF AtStage
  <2> QED BY <1>2, <2>1, <2>2
<1>8. HasInserted(tx[t])
  BY <1>2 DEF HasInserted
<1> QED BY <1>2, <1>3, <1>7, <1>8, StageStep

\* The look-up of the reference keeps the invariant.
LEMMA SelectExistsKeeps ==
    ASSUME TxConsistent, NEW t \in Txs, SelectExists(t)
    PROVE  TxConsistent'
<1>1. /\ tx[t] \in TxRecord /\ tx \in [Txs -> TxRecord] /\ AtStage(tx[t])
      /\ started \in 0..MaxTxs /\ aborts \in 0..MaxAborts
  BY DEF TxConsistent, Sound
<1>2. CASE Ref(t) \in DOMAIN entries
  <2>1. Rollback(t) /\ aborts' \in 0..MaxAborts
    BY <1>1, <1>2 DEF SelectExists, Rollback
  <2> QED BY <2>1, RollbackKeeps
<1>3. CASE Ref(t) \notin DOMAIN entries
  <2>1. /\ tx' = [tx EXCEPT ![t].at = "insert"] /\ UNCHANGED <<ledgerVars, started, aborts>>
        /\ tx[t].at = "exists"
    BY <1>3 DEF SelectExists
  <2>2. AtStage([tx[t] EXCEPT !.at = "insert"])
    BY <1>1, <2>1 DEF AtStage, TxRecord
  <2> QED BY <2>1, <2>2, StageStep
<1> QED BY <1>2, <1>3

\* The insertion of the reference keeps the invariant.
LEMMA InsertRefKeeps ==
    ASSUME TxConsistent, NEW t \in Txs, InsertRef(t)
    PROVE  TxConsistent'
<1> DEFINE at == IF tx[t].call.op = "trade" THEN "legs" ELSE "commit"
           r == [tx[t] EXCEPT !.at = at]
           c == tx[t].call
<1>1. tx[t] \in TxRecord /\ tx \in [Txs -> TxRecord] /\ AtStage(tx[t])
  BY DEF TxConsistent, Sound
<1>2. /\ tx[t].at = "insert" /\ Ref(t) \notin DOMAIN entries
      /\ \A o \in Txs \ {t} : ~LocksRef(o, Ref(t))
      /\ tx' = [tx EXCEPT ![t].at = at] /\ UNCHANGED <<ledgerVars, started, aborts>>
  BY DEF InsertRef, RefIsFree
<1>3. r.at = at /\ r.call = c /\ r.av = tx[t].av
  BY <1>1 DEF TxRecord
<1>4. AtStage(r)
  <2>1. CASE c \in Moves /\ Len(tx[t].av) = 1
    <3>1. c.op # "trade" /\ c \notin Settles /\ Len(AvPlan(c)) = 1
      BY <2>1, CallFields, PlanType
    <3> QED BY <1>3, <2>1, <3>1 DEF AtStage
  <2>2. CASE c \in Settles /\ Len(tx[t].av) = 0
    <3>1. c.op = "trade" /\ Len(c.settle.legs) \in Nat
      BY <2>2, CallFields
    <3> QED BY <1>3, <2>2, <3>1 DEF AtStage
  <2> QED BY <1>1, <1>2, <2>1, <2>2 DEF AtStage
<1> QED BY <1>2, <1>4, StageStep

\* The check of the legs keeps the invariant.
LEMMA VerifyKeeps ==
    ASSUME TxConsistent, NEW t \in Txs, Verify(t)
    PROVE  TxConsistent'
<1>1. /\ tx[t] \in TxRecord /\ tx \in [Txs -> TxRecord] /\ AtStage(tx[t])
      /\ started \in 0..MaxTxs /\ aborts \in 0..MaxAborts /\ tx[t].at = "verify"
  BY DEF TxConsistent, Sound, Verify
<1>2. CASE verifyLedgerBalance(tx[t].call.settle.legs) /\ tx' = [tx EXCEPT ![t].at = "commit"]
           /\ UNCHANGED <<ledgerVars, started, aborts>>
  <2>1. AtStage([tx[t] EXCEPT !.at = "commit"])
    BY <1>1, <1>2 DEF AtStage, TxRecord
  <2>2. HasInserted(tx[t])
    BY <1>1 DEF HasInserted
  <2> QED BY <1>1, <1>2, <2>1, <2>2, StageStep
<1>3. CASE Rollback(t) /\ UNCHANGED aborts
  BY <1>1, <1>3, RollbackKeeps
<1> QED BY <1>2, <1>3 DEF Verify

\* Begin: the handler has accepted the call.
LEMMA BeginKeeps ==
    ASSUME TxConsistent, NEW t \in Txs, Begin(t)
    PROVE  TxConsistent'
<1>1. /\ tx[t] \in TxRecord /\ tx \in [Txs -> TxRecord]
      /\ started \in 0..MaxTxs /\ aborts \in 0..MaxAborts
  BY DEF TxConsistent
<1>2. started' \in 0..MaxTxs /\ aborts' \in 0..MaxAborts /\ UNCHANGED ledgerVars
  <2>1. started < MaxTxs /\ started' = started + 1 /\ UNCHANGED <<ledgerVars, aborts>>
    BY DEF Begin
  <2> QED BY <1>1, <2>1, LedgerTxAssumption
<1>3. ASSUME NEW m, NEW r, r = [at |-> "update", call |-> m, av |-> <<>>, fr |-> <<>>],
             m \in Moves, tx' = [tx EXCEPT ![t] = r]
      PROVE  TxConsistent'
  <2>1. /\ r \in TxRecord /\ r.av = <<>> /\ r.fr = <<>> /\ r.call = m
        /\ AtStage(r) /\ ~HasInserted(r)
    BY <1>3 DEF TxRecord, AtStage, HasInserted
  <2>2. /\ Sound(r, users, available, frozen, DOMAIN entries)
        /\ \A s : Apart(r, s)
    BY <1>3, <2>1, FreshIsSound DEF TxConsistent, LedgerTypeOK
  <2> QED BY <1>2, <1>3, <2>2, StepOfOne
<1>4. ASSUME NEW m, NEW r, r = [at |-> "exists", call |-> m, av |-> <<>>, fr |-> <<>>],
             m \in Settles, tx' = [tx EXCEPT ![t] = r]
      PROVE  TxConsistent'
  <2>1. /\ r \in TxRecord /\ r.av = <<>> /\ r.fr = <<>> /\ r.call = m
        /\ AtStage(r) /\ ~HasInserted(r)
    BY <1>4 DEF TxRecord, AtStage, HasInserted
  <2>2. /\ Sound(r, users, available, frozen, DOMAIN entries)
        /\ \A s : Apart(r, s)
    BY <1>4, <2>1, FreshIsSound DEF TxConsistent, LedgerTypeOK
  <2> QED BY <1>2, <1>4, <2>2, StepOfOne
<1> QED BY <1>3, <1>4 DEF Begin, State

\* A new user changes no transaction.
LEMMA TxCreateUserKeeps ==
    ASSUME TxConsistent, NEW v \in Users, TxCreateUser(v)
    PROVE  TxConsistent'
<1>1. /\ users' = users \cup {v} /\ UNCHANGED <<available, frozen, entries, tx, started, aborts>>
  BY DEF TxCreateUser, CreateUser
<1>2. LedgerTypeOK'
  BY <1>1 DEF TxConsistent, LedgerTypeOK
<1>3. ASSUME NEW t \in Txs PROVE Sound(tx[t], users', available, frozen, DOMAIN entries)
  <2>1. Sound(tx[t], users, available, frozen, DOMAIN entries)
    BY DEF TxConsistent
  <2> QED BY <1>1, <2>1 DEF Sound, OnPlan
<1> QED BY <1>1, <1>2, <1>3 DEF TxConsistent
\* One statement of a call: the row is free, and the balances stay covered.
LEMMA UpdateRowKeeps ==
    ASSUME TxConsistent, NEW t \in Txs, UpdateRow(t)
    PROVE  TxConsistent'
<1> DEFINE s == Update(t)
           c == tx[t].call
           n == Len(tx[t].av)
           da == Change(s, s.da)
           df == Change(s, s.df)
           at == IF tx[t].at = "update" THEN "insert" ELSE tx[t].at
           r == State(at, c, Append(tx[t].av, da), Append(tx[t].fr, df))
<1>1. /\ tx[t] \in TxRecord /\ tx \in [Txs -> TxRecord] /\ AtStage(tx[t])
      /\ OnPlan(tx[t], users) /\ Covered(tx[t], available, frozen)
      /\ tx[t].av \in Seq(Leg) /\ tx[t].fr \in Seq(Leg) /\ Len(tx[t].fr) = n /\ n \in Nat
      /\ HasInserted(tx[t]) => RefOf(tx[t]) \notin DOMAIN entries
      /\ started \in 0..MaxTxs /\ aborts \in 0..MaxAborts
  BY DEF TxConsistent, Sound, TxRecord
<1>2. /\ Updates(t) /\ Finds(t, s) /\ RowIsFree(t, s) /\ ChecksHold(t, s)
      /\ tx' = [tx EXCEPT ![t] = r] /\ UNCHANGED <<ledgerVars, started, aborts>>
  BY <1>1 DEF UpdateRow, Change
<1>3. /\ c \in Moves \cup Settles /\ n + 1 \in 1..Len(AvPlan(c))
      /\ da = AvPlan(c)[n + 1] /\ df = FrPlan(c)[n + 1]
      /\ tx[t].at = "update" => c \in Moves /\ n = 0
      /\ tx[t].at = "legs" => c \in Settles /\ n + 1 <= Len(c.settle.legs)
      /\ tx[t].at = "release" => c \in Settles /\ n + 1 >= Len(c.settle.legs)
  BY <1>2, UpdateIsPlanned
<1>4. da \in Leg /\ df \in Leg
  BY <1>3, PlanType
<1>5. /\ da.user = s.user /\ da.asset = s.asset /\ da.amount = s.da
      /\ df.user = s.user /\ df.asset = s.asset /\ df.amount = s.df
  BY DEF Change
<1>6. s.user \in users /\ s.user \in Users /\ s.asset \in Assets /\ s.da \in Int /\ s.df \in Int
  BY <1>2, <1>4, <1>5 DEF Finds, Leg
<1>7. tx[t].at \in {"update", "legs", "release"}
  BY <1>2 DEF Updates
<1> HIDE DEF s, da, df
<1>8. /\ r.at = at /\ r.call = c /\ r.av \in Seq(Leg) /\ r.fr \in Seq(Leg)
      /\ Len(r.av) = n + 1 /\ Len(r.fr) = n + 1
      /\ r.av[n + 1] = da /\ r.fr[n + 1] = df
      /\ \A i \in 1..n : r.av[i] = tx[t].av[i] /\ r.fr[i] = tx[t].fr[i]
  BY <1>1, <1>4 DEF State
<1>9. r \in TxRecord
  BY <1>1, <1>3, <1>7, <1>8 DEF State, TxRecord
<1> HIDE DEF r, c, n
<1>10. AtStage(r)
  BY <1>1, <1>3, <1>7, <1>8 DEF AtStage
<1>11. OnPlan(r, users)
  <2>1. \A i \in 1..n : /\ r.av[i] = AvPlan(c)[i] /\ r.fr[i] = FrPlan(c)[i]
                        /\ r.av[i].user \in users
    BY <1>1, <1>7, <1>8 DEF OnPlan, c, n
  <2>2. /\ r.av[n + 1] = AvPlan(c)[n + 1] /\ r.fr[n + 1] = FrPlan(c)[n + 1]
        /\ r.av[n + 1].user \in users
    BY <1>3, <1>5, <1>6, <1>8
  <2>3. \A i \in 1..(n + 1) : i \in 1..n \/ i = n + 1
    BY <1>1
  <2>4. Len(r.av) <= Len(AvPlan(c))
    BY <1>1, <1>3, <1>8
  <2> QED BY <1>3, <1>8, <2>1, <2>2, <2>3, <2>4 DEF OnPlan
<1>12. ASSUME NEW k \in 0..Len(r.av), NEW u \in Users, NEW a \in Assets
       PROVE  /\ available[u][a] + RowSum(r.av, k, u, a) \in Nat
              /\ frozen[u][a] + RowSum(r.fr, k, u, a) \in Nat
  <2>0. available[u][a] \in Int /\ frozen[u][a] \in Int
    BY DEF TxConsistent, LedgerTypeOK
  <2>1. ASSUME NEW j \in 0..n
        PROVE  /\ RowSum(r.av, j, u, a) = RowSum(tx[t].av, j, u, a)
               /\ RowSum(r.fr, j, u, a) = RowSum(tx[t].fr, j, u, a)
    <3> DEFINE av == tx[t].av
               fr == tx[t].fr
               av2 == r.av
               fr2 == r.fr
    <3>1. j \in Nat /\ \A i \in 1..j : i \in 1..n
      BY <1>1
    <3>2. SameUpTo(j, av2, av)
      BY <1>8, <3>1 DEF SameUpTo
    <3>3. SameUpTo(j, fr2, fr)
      BY <1>8, <3>1 DEF SameUpTo
    <3> HIDE DEF av, fr, av2, fr2
    <3>4. RowSum(av2, j, u, a) = RowSum(av, j, u, a)
      BY <3>1, <3>2, RowSumOfPrefix
    <3>5. RowSum(fr2, j, u, a) = RowSum(fr, j, u, a)
      BY <3>1, <3>3, RowSumOfPrefix
    <3> QED BY <3>4, <3>5 DEF av, fr, av2, fr2
  <2>2. ASSUME NEW j \in 0..n
        PROVE  /\ available[u][a] + RowSum(r.av, j, u, a) \in Nat
               /\ frozen[u][a] + RowSum(r.fr, j, u, a) \in Nat
    BY <1>1, <2>1 DEF Covered, n
  <2>3. CASE k \in 0..n
    BY <2>2, <2>3
  <2>4. CASE k = n + 1
    <3> DEFINE x == RowSum(r.av, n, u, a)
               y == RowSum(r.fr, n, u, a)
               b == available[u][a]
               f == frozen[u][a]
    <3>1. /\ x \in Int /\ y \in Int
          /\ RowSum(r.av, n + 1, u, a) = x + (IF s.user = u /\ s.asset = a THEN s.da ELSE 0)
          /\ RowSum(r.fr, n + 1, u, a) = y + (IF s.user = u /\ s.asset = a THEN s.df ELSE 0)
      <4>1. n < Len(r.av) /\ n < Len(r.fr)
        BY <1>1, <1>8
      <4> DEFINE av == r.av
                 fr == r.fr
      <4>2. av \in Seq(Leg) /\ fr \in Seq(Leg) /\ n \in Nat /\ av[n + 1] = da /\ fr[n + 1] = df
        BY <1>1, <1>8
      <4> HIDE DEF av, fr
      <4>3. /\ RowSum(av, n, u, a) \in Int
            /\ RowSum(av, n + 1, u, a) = RowSum(av, n, u, a)
                 + (IF da.user = u /\ da.asset = a THEN da.amount ELSE 0)
        BY <4>1, <4>2, RowSumOfNext DEF av
      <4>4. /\ RowSum(fr, n, u, a) \in Int
            /\ RowSum(fr, n + 1, u, a) = RowSum(fr, n, u, a)
                 + (IF df.user = u /\ df.asset = a THEN df.amount ELSE 0)
        BY <4>1, <4>2, RowSumOfNext DEF fr
      <4> QED BY <1>5, <4>3, <4>4 DEF av, fr
    <3>2. b \in Int /\ f \in Int /\ b + x \in Nat /\ f + y \in Nat
      BY <1>1, <2>0, <2>2
    <3>3. CASE s.user = u /\ s.asset = a
      <4>1. x = RowSum(tx[t].av, n, u, a) /\ y = RowSum(tx[t].fr, n, u, a)
        BY <1>1, <2>1
      <4> DEFINE v == s.da
                 w == s.df
      <4>2. (b + x) + v >= 0 /\ (f + y) + w >= 0 /\ v \in Int /\ w \in Int
        <5>1. Available(t, u, a) = b + x /\ Frozen(t, u, a) = f + y
          BY <1>1, <4>1 DEF Available, Frozen, n
        <5>2. Available(t, u, a) + v >= 0 /\ Frozen(t, u, a) + w >= 0
          BY <1>2, <3>3 DEF ChecksHold
        <5> HIDE DEF b, f, x, y
        <5> QED BY <1>6, <5>1, <5>2
      <4>3. b + (x + v) \in Nat /\ f + (y + w) \in Nat
        <5>1. x \in Int /\ y \in Int /\ v \in Int /\ w \in Int /\ b \in Int /\ f \in Int
          BY <3>1, <3>2, <4>2
        <5>2. (b + x) + v >= 0 /\ (f + y) + w >= 0
          BY <4>2
        <5> HIDE DEF x, y, b, f, v, w
        <5> QED BY <5>1, <5>2
      <4>4. RowSum(r.av, n + 1, u, a) = x + v /\ RowSum(r.fr, n + 1, u, a) = y + w
        <5> HIDE DEF x, y
        <5> QED BY <3>1, <3>3
      <4> HIDE DEF x, y, v, w
      <4> QED BY <2>4, <4>3, <4>4
    <3>4. CASE ~(s.user = u /\ s.asset = a)
      <4>1. RowSum(r.av, n + 1, u, a) = x /\ RowSum(r.fr, n + 1, u, a) = y
        <5> HIDE DEF x, y
        <5> QED BY <3>1, <3>4
      <4> QED BY <2>4, <3>2, <4>1
    <3> QED BY <3>3, <3>4
  <2> QED BY <1>1, <1>8, <2>3, <2>4
<1>13. RefOf(r) = RefOf(tx[t]) /\ (HasInserted(r) => HasInserted(tx[t]))
  BY <1>7, <1>8 DEF RefOf, HasInserted, c
<1>14. Sound(r, users, available, frozen, DOMAIN entries)
  BY <1>1, <1>8, <1>9, <1>10, <1>11, <1>12, <1>13 DEF Sound, Covered
<1>15. ASSUME NEW o \in Txs \ {t} PROVE Apart(r, tx[o])
  <2>1. Apart(tx[t], tx[o])
    BY DEF TxConsistent
  <2>2. ~HasWritten(tx[o], s.user, s.asset)
    BY <1>2 DEF RowIsFree, LocksRow, HasWritten
  <2>3. ASSUME NEW u \in Users, NEW a \in Assets, HasWritten(r, u, a), HasWritten(tx[o], u, a)
        PROVE  FALSE
    <3>1. PICK i \in 1..(n + 1) : r.av[i].user = u /\ r.av[i].asset = a
      BY <1>8, <2>3 DEF HasWritten
    <3>2. CASE i \in 1..n
      <4>1. HasWritten(tx[t], u, a)
        BY <1>8, <3>1, <3>2 DEF HasWritten, n
      <4> QED BY <2>1, <2>3, <4>1 DEF Apart
    <3>3. CASE i = n + 1
      BY <1>5, <1>8, <2>2, <2>3, <3>1, <3>3
    <3> QED BY <1>1, <3>2, <3>3
  <2> QED BY <1>13, <2>1, <2>3 DEF Apart
<1> QED BY <1>1, <1>2, <1>14, <1>15, StepOfOne
-----------------------------------------------------------------------------
(* The commit *)

\* Legs that move nothing.
LEMMA RowSumOfZeros ==
    ASSUME NEW legs, NEW k \in Nat, \A i \in 1..k : legs[i].amount = 0, NEW u, NEW a
    PROVE  RowSum(legs, k, u, a) = 0
<1> DEFINE S == {i \in 1..k : legs[i].user = u /\ legs[i].asset = a}
           f == [i \in 1..k |-> legs[i].amount]
<1>1. IsFiniteSet(S)
  <2>1. k \in Int
    OBVIOUS
  <2>2. IsFiniteSet(1..k)
    BY ONLY <2>1, FS_Interval
  <2> QED BY <2>2, FS_Subset
<1>2. \A i \in S : f[i] = 0
  OBVIOUS
<1>3. RowSum(legs, k, u, a) = SumFunctionOnSet(f, S)
  BY DEF RowSum
<1> HIDE DEF f, S
<1> QED BY <1>1, <1>2, <1>3, SumZero

\* After the first l legs come those of rest, the other way round.
TakesBack(legs, l, rest) ==
    /\ legs \in Seq(Leg) /\ rest \in Seq(Leg) /\ l \in Nat
    /\ Len(legs) = l + Len(rest)
    /\ \A j \in 1..Len(rest) : /\ legs[l + j].user = rest[j].user
                               /\ legs[l + j].asset = rest[j].asset
                               /\ legs[l + j].amount = -rest[j].amount

\* Legs that take back those of rest subtract their sum.
LEMMA RowSumOfTail ==
    ASSUME NEW legs, NEW rest, NEW l, TakesBack(legs, l, rest), NEW u, NEW a
    PROVE  \A j \in 0..Len(rest) :
              /\ RowSum(legs, l, u, a) \in Int /\ RowSum(rest, j, u, a) \in Int
              /\ RowSum(legs, l + j, u, a) = RowSum(legs, l, u, a) - RowSum(rest, j, u, a)
<1> DEFINE x(j) == RowSum(legs, l + j, u, a)
           y(j) == RowSum(rest, j, u, a)
           T == {j \in Nat : j <= Len(rest) => y(j) \in Int /\ x(0) \in Int /\ x(j) = x(0) - y(j)}
<1>0. /\ legs \in Seq(Leg) /\ rest \in Seq(Leg) /\ l \in Nat
      /\ Len(legs) = l + Len(rest)
      /\ \A j \in 1..Len(rest) : /\ legs[l + j].user = rest[j].user
                                 /\ legs[l + j].asset = rest[j].asset
                                 /\ legs[l + j].amount = -rest[j].amount
  BY DEF TakesBack
<1>1. l + 0 = l /\ Len(rest) \in Nat
  BY <1>0
<1>2. 0 \in T
  <2>1. y(0) = 0
    BY RowSumOfNone
  <2>2. x(0) \in Int
    <3>1. IsFiniteSet(1..l)
      <4>1. l \in Int /\ 1 \in Int
        BY <1>0
      <4> QED BY ONLY <4>1, FS_Interval
    <3>2. IsFiniteSet({i \in 1..l : legs[i].user = u /\ legs[i].asset = a})
      BY <3>1, FS_Subset
    <3>3. \A i \in 1..l : legs[i] \in Leg
      BY <1>0, <1>1
    <3>4. \A i \in {i \in 1..l : legs[i].user = u /\ legs[i].asset = a} :
             [i2 \in 1..l |-> legs[i2].amount][i] \in Int
      BY <3>3 DEF Leg
    <3>5. RowSum(legs, l, u, a) \in Int
      BY <3>2, <3>4, SumIsInt DEF RowSum
    <3> QED BY <1>1, <3>5
  <2> HIDE DEF x, y
  <2> QED BY <2>1, <2>2
<1>3. ASSUME NEW j \in Nat, j \in T PROVE j + 1 \in T
  <2> SUFFICES ASSUME j + 1 <= Len(rest)
               PROVE  y(j + 1) \in Int /\ x(0) \in Int /\ x(j + 1) = x(0) - y(j + 1)
    OBVIOUS
  <2>1. j < Len(rest) /\ l + j \in Nat /\ l + j < Len(legs) /\ (l + j) + 1 = l + (j + 1)
        /\ j + 1 \in 1..Len(rest)
    BY <1>0, <1>1
  <2> DEFINE h == rest[j + 1].user = u /\ rest[j + 1].asset = a
             d == rest[j + 1].amount
  <2>2. y(j) \in Int /\ x(0) \in Int /\ x(j) = x(0) - y(j)
    BY <1>3, <2>1
  <2>3. y(j + 1) = y(j) + (IF h THEN d ELSE 0)
    BY <1>0, <2>1, RowSumOfNext
  <2>4. d \in Int
    <3>1. rest[j + 1] \in Leg
      BY <1>0, <2>1
    <3> QED BY <3>1 DEF Leg
  <2>5. x(j + 1) = x(j) + (IF h THEN -d ELSE 0)
    <3>1. RowSum(legs, (l + j) + 1, u, a) = RowSum(legs, l + j, u, a)
             + (IF legs[(l + j) + 1].user = u /\ legs[(l + j) + 1].asset = a
                THEN legs[(l + j) + 1].amount ELSE 0)
      BY <1>0, <2>1, RowSumOfNext
    <3>2. /\ legs[l + (j + 1)].user = rest[j + 1].user
          /\ legs[l + (j + 1)].asset = rest[j + 1].asset
          /\ legs[l + (j + 1)].amount = -d
      BY <1>0, <2>1
    <3> QED BY <2>1, <3>1, <3>2
  <2> HIDE DEF x, y, h, d
  <2>6. CASE h
    BY <2>2, <2>3, <2>4, <2>5, <2>6
  <2>7. CASE ~h
    BY <2>2, <2>3, <2>5, <2>7
  <2> QED BY <2>6, <2>7
<1> HIDE DEF T
<1>4. Nat \subseteq T
  BY <1>2, <1>3, InductionOnNat
<1> QED BY <1>1, <1>4 DEF T
\* What is written when t commits: the whole plan, covered at every statement.
LEMMA AtCommit ==
    ASSUME TxConsistent, NEW t \in Txs, tx[t].at = "commit"
    PROVE  /\ tx[t].call \in Moves \cup Settles /\ Len(AvPlan(tx[t].call)) \in Nat
           /\ Len(tx[t].av) = Len(AvPlan(tx[t].call)) /\ Len(tx[t].fr) = Len(AvPlan(tx[t].call))
           /\ tx[t].av \in Seq(Leg) /\ tx[t].fr \in Seq(Leg)
           /\ \A i \in 1..Len(AvPlan(tx[t].call)) :
                   /\ tx[t].av[i] = AvPlan(tx[t].call)[i]
                   /\ tx[t].fr[i] = FrPlan(tx[t].call)[i]
                   /\ tx[t].av[i].user \in users
                   /\ tx[t].fr[i].user = tx[t].av[i].user
                   /\ tx[t].fr[i].asset = tx[t].av[i].asset
           /\ Covered(tx[t], available, frozen)
           /\ RefOf(tx[t]) \notin DOMAIN entries
           /\ HasInserted(tx[t])
           /\ tx[t].call \in Settles => verifyLedgerBalance(tx[t].call.settle.legs)
<1> DEFINE c == tx[t].call
           n == Len(AvPlan(c))
<1>1. /\ tx[t] \in TxRecord /\ AtStage(tx[t]) /\ OnPlan(tx[t], users)
      /\ Covered(tx[t], available, frozen) /\ Len(tx[t].fr) = Len(tx[t].av)
      /\ HasInserted(tx[t]) => RefOf(tx[t]) \notin DOMAIN entries
  BY DEF TxConsistent, Sound
<1>2. tx[t].av \in Seq(Leg) /\ tx[t].fr \in Seq(Leg)
  BY <1>1 DEF TxRecord
<1>3. /\ c \in Moves \cup Settles /\ Len(tx[t].av) = n
      /\ c \in Settles => verifyLedgerBalance(c.settle.legs)
  BY <1>1 DEF AtStage
<1>4. n \in Nat
  BY <1>2, <1>3
<1>5. ASSUME NEW i \in 1..n
      PROVE  /\ tx[t].av[i] = AvPlan(c)[i] /\ tx[t].fr[i] = FrPlan(c)[i]
             /\ tx[t].av[i].user \in users
             /\ tx[t].fr[i].user = tx[t].av[i].user
             /\ tx[t].fr[i].asset = tx[t].av[i].asset
  <2>1. /\ tx[t].av[i] = AvPlan(c)[i] /\ tx[t].fr[i] = FrPlan(c)[i]
        /\ tx[t].av[i].user \in users
    BY <1>1, <1>3 DEF OnPlan
  <2> QED BY <1>3, <2>1, PlanType
<1>6. HasInserted(tx[t])
  BY DEF HasInserted
<1> QED BY <1>1, <1>2, <1>3, <1>4, <1>5, <1>6

\* Commit posts the legs of the call.
LegsOf(c) ==
    CASE c.op = "trade" -> c.settle.legs
      [] c.op = "freeze" -> CollateralLegs(c.user, c.asset, -c.amount, c.amount)
      [] OTHER -> CollateralLegs(c.user, c.asset, c.amount, -c.amount)

\* The tables after a commit are well formed.
LEMMA CommitType ==
    ASSUME TxConsistent, NEW t \in Txs, Commit(t)
    PROVE  LedgerTypeOK'
<1> DEFINE c == tx[t].call
<1>1. /\ tx[t].at = "commit" /\ users' = users /\ Post(Ref(t), LegsOf(c))
      /\ available' = [u \in Users |-> [a \in Assets |-> Available(t, u, a)]]
      /\ frozen' = [u \in Users |-> [a \in Assets |-> Frozen(t, u, a)]]
  BY DEF Commit, LegsOf
<1>2. /\ c \in Moves \cup Settles /\ Covered(tx[t], available, frozen)
      /\ Len(tx[t].fr) = Len(tx[t].av) /\ Len(tx[t].av) \in Nat
  BY <1>1, AtCommit
<1>3. ASSUME NEW u \in Users, NEW a \in Assets
      PROVE  Available(t, u, a) \in Nat /\ Frozen(t, u, a) \in Nat
  <2>1. Len(tx[t].av) \in 0..Len(tx[t].av)
    BY <1>2
  <2> QED BY <1>2, <2>1 DEF Covered, Available, Frozen
<1>4. /\ available' \in [Users -> [Assets -> Nat]]
      /\ frozen' \in [Users -> [Assets -> Nat]]
  BY <1>1, <1>3
<1>5. Ref(t) \in Refs
  BY <1>2, CallFields DEF Ref, Refs
<1>6. LegsOf(c) \in Seq(Leg)
  <2>1. CASE c \in Moves
    <3>1. c.user \in Users /\ c.asset \in Assets /\ c.amount \in Int /\ -c.amount \in Int
          /\ c.op \in {"freeze", "unfreeze"}
      BY <2>1, CallFields
    <3>2. /\ CollateralLegs(c.user, c.asset, -c.amount, c.amount) \in Seq(Leg)
          /\ CollateralLegs(c.user, c.asset, c.amount, -c.amount) \in Seq(Leg)
      BY <3>1, CollateralLegsType
    <3> QED BY <3>1, <3>2 DEF LegsOf
  <2>2. CASE c \in Settles
    BY <2>2, CallFields DEF LegsOf
  <2> QED BY <1>2, <2>1, <2>2
<1>7. /\ DOMAIN entries' \subseteq Refs
      /\ \A r \in DOMAIN entries' : entries'[r] \in Seq(Leg)
  BY <1>1, <1>5, <1>6, PostType DEF TxConsistent
<1> QED BY <1>1, <1>4, <1>7 DEF LedgerTypeOK, TxConsistent

\* A commit changes no row that another transaction has written, and the
\* reference it adds is not theirs.
LEMMA CommitKeeps ==
    ASSUME TxConsistent, NEW t \in Txs, Commit(t)
    PROVE  TxConsistent'
<1> DEFINE c == tx[t].call
           n == Len(tx[t].av)
<1>1. /\ tx[t].at = "commit" /\ users' = users /\ Post(Ref(t), LegsOf(c))
      /\ available' = [u \in Users |-> [a \in Assets |-> Available(t, u, a)]]
      /\ frozen' = [u \in Users |-> [a \in Assets |-> Frozen(t, u, a)]]
      /\ tx' = [tx EXCEPT ![t] = Idle] /\ UNCHANGED <<started, aborts>>
  BY DEF Commit, LegsOf
<1>2. /\ n \in Nat /\ Len(tx[t].fr) = n /\ HasInserted(tx[t])
      /\ \A i \in 1..n : /\ tx[t].fr[i].user = tx[t].av[i].user
                         /\ tx[t].fr[i].asset = tx[t].av[i].asset
  BY <1>1, AtCommit
<1>3. LedgerTypeOK'
  BY CommitType
<1>4. /\ tx \in [Txs -> TxRecord] /\ tx' \in [Txs -> TxRecord]
      /\ tx'[t] = Idle /\ \A o \in Txs \ {t} : tx'[o] = tx[o]
  BY <1>1, IdleIsFresh DEF TxConsistent
<1>5. /\ Sound(Idle, users', available', frozen', DOMAIN entries')
      /\ \A s : Apart(Idle, s)
  BY <1>3, IdleIsFresh, FreshIsSound DEF LedgerTypeOK
<1>6. DOMAIN entries' = DOMAIN entries \cup {Ref(t)}
  BY <1>1, PostProperties
<1>7. ASSUME NEW o \in Txs \ {t} PROVE Sound(tx[o], users', available', frozen', DOMAIN entries')
  <2> DEFINE r == tx[o]
  <2>1. /\ Sound(r, users, available, frozen, DOMAIN entries)
        /\ Apart(tx[t], r)
    BY DEF TxConsistent
  <2>2. HasInserted(r) => RefOf(r) \notin DOMAIN entries'
    BY <1>2, <1>6, <2>1 DEF Sound, Apart, Ref, RefOf
  <2>3. Len(r.av) \in Nat /\ Len(r.fr) = Len(r.av)
    BY <2>1 DEF Sound, TxRecord
  <2>4. \A i \in 1..Len(r.av) : r.fr[i].user = r.av[i].user /\ r.fr[i].asset = r.av[i].asset
    <3>1. CASE r.at = "idle"
      <4>1. r = Idle
        BY <2>1, <3>1 DEF Sound, AtStage
      <4>2. Len(r.av) = 0
        BY <4>1 DEF Idle, State
      <4> QED BY <4>2
    <3>2. CASE r.at # "idle"
      <4> DEFINE av == AvPlan(r.call)
                 fr == FrPlan(r.call)
                 m == Len(r.av)
      <4>1. /\ r.call \in Moves \cup Settles /\ m <= Len(av)
            /\ \A i \in 1..m : r.av[i] = av[i] /\ r.fr[i] = fr[i]
        BY <2>1, <3>2 DEF Sound, OnPlan
      <4>2. /\ av \in Seq(Leg)
            /\ \A i \in 1..Len(av) : fr[i].user = av[i].user /\ fr[i].asset = av[i].asset
        BY <4>1, PlanType
      <4>3. \A i \in 1..m : i \in 1..Len(av)
        <5> HIDE DEF av, fr
        <5> QED BY <2>3, <4>1, <4>2
      <4> QED BY <4>1, <4>2, <4>3
    <3> QED BY <3>1, <3>2
  <2>5. ASSUME NEW k \in 0..Len(r.av), NEW u \in Users, NEW a \in Assets
        PROVE  /\ available'[u][a] + RowSum(r.av, k, u, a) \in Nat
               /\ frozen'[u][a] + RowSum(r.fr, k, u, a) \in Nat
    <3>0. /\ available[u][a] \in Nat /\ frozen[u][a] \in Nat
          /\ available'[u][a] \in Nat /\ frozen'[u][a] \in Nat
      BY <1>3 DEF TxConsistent, LedgerTypeOK
    <3>1. CASE HasWritten(tx[t], u, a)
      <4>1. ~HasWritten(r, u, a)
        BY <2>1, <3>1 DEF Apart
      <4>2. \A i \in 1..k : /\ ~(r.av[i].user = u /\ r.av[i].asset = a)
                            /\ ~(r.fr[i].user = u /\ r.fr[i].asset = a)
        <5>1. \A i \in 1..k : i \in 1..Len(r.av)
          BY <2>3
        <5> QED BY <2>4, <4>1, <5>1 DEF HasWritten
      <4>3. RowSum(r.av, k, u, a) = 0 /\ RowSum(r.fr, k, u, a) = 0
        <5>1. k \in Nat
          BY <2>3
        <5> QED BY <4>2, <5>1, RowSumElsewhere
      <4> QED BY <3>0, <4>3
    <3>2. CASE ~HasWritten(tx[t], u, a)
      <4>1. RowSum(tx[t].av, n, u, a) = 0 /\ RowSum(tx[t].fr, n, u, a) = 0
        BY <1>2, <3>2, RowSumElsewhere DEF HasWritten
      <4>2. available'[u][a] = available[u][a] /\ frozen'[u][a] = frozen[u][a]
        BY <1>1, <1>2, <3>0, <4>1 DEF Available, Frozen
      <4>3. /\ available[u][a] + RowSum(r.av, k, u, a) \in Nat
            /\ frozen[u][a] + RowSum(r.fr, k, u, a) \in Nat
        BY <2>1 DEF Sound, Covered
      <4> QED BY <4>2, <4>3
    <3> QED BY <3>1, <3>2
  <2> QED BY <1>1, <2>1, <2>2, <2>5 DEF Sound, Covered
<1>8. ASSUME NEW o \in Txs, NEW p \in Txs, o # p PROVE Apart(tx'[o], tx'[p])
  <2>1. CASE o = t
    BY <1>4, <1>5, <2>1
  <2>2. CASE p = t
    <3>1. Apart(Idle, tx[o])
      BY <1>5
    <3> QED BY <1>4, <1>8, <2>2, <3>1 DEF Apart
  <2>3. CASE o # t /\ p # t
    BY <1>4, <1>8, <2>3 DEF TxConsistent
  <2> QED BY <2>1, <2>2, <2>3
<1>9. \A o \in Txs : Sound(tx'[o], users', available', frozen', DOMAIN entries')
  BY <1>4, <1>5, <1>7
<1> QED BY <1>1, <1>3, <1>4, <1>8, <1>9 DEF TxConsistent
\* A table of balances g that differs from f in one row.
LEMMA OneRow ==
    ASSUME NEW f \in [Users -> [Assets -> Nat]], NEW g \in [Users -> [Assets -> Nat]],
           NEW u \in Users, NEW a \in Assets, NEW n,
           \A x \in Users, y \in Assets : g[x][y] = IF u = x /\ a = y THEN n ELSE f[x][y]
    PROVE  g = [f EXCEPT ![u][a] = n]
<1>1. \A x \in Users : g[x] \in [Assets -> Nat] /\ f[x] \in [Assets -> Nat]
  OBVIOUS
<1>2. g[u] = [f[u] EXCEPT ![a] = n]
  BY <1>1
<1>3. ASSUME NEW x \in Users, x # u PROVE g[x] = f[x]
  BY <1>1, <1>3
<1> QED BY <1>2, <1>3

\* The commit of a freeze or an unfreeze is the one of Ledger.
LEMMA MoveCommits ==
    ASSUME TxConsistent, NEW t \in Txs, Commit(t), tx[t].call \in Moves,
           NEW c, c = tx[t].call
    PROVE  \/ Freeze(c.user, c.asset, c.amount, c.ref)
           \/ Unfreeze(c.user, c.asset, c.amount, c.ref)
<1> DEFINE m == c.amount
           d == IF c.op = "freeze" THEN -m ELSE m
           av == tx[t].av
           fr == tx[t].fr
<1>1. /\ tx[t].at = "commit" /\ users' = users /\ Post(Ref(t), LegsOf(c))
      /\ available' = [u \in Users |-> [a \in Assets |-> Available(t, u, a)]]
      /\ frozen' = [u \in Users |-> [a \in Assets |-> Frozen(t, u, a)]]
  BY DEF Commit, LegsOf
<1>2. /\ c.op \in {"freeze", "unfreeze"} /\ c.op # "trade"
      /\ c.user \in Users /\ c.asset \in Assets /\ m \in Int /\ m > 0
      /\ Len(AvPlan(c)) = 1 /\ c \in Moves \cup Settles
  BY CallFields, PlanType
<1>3. /\ AvPlan(c)[1] = Change(c, d)
      /\ FrPlan(c)[1] = Change(c, IF c.op = "freeze" THEN m ELSE -m)
  BY <1>2 DEF AvPlan, FrPlan
<1>4. -d = IF c.op = "freeze" THEN m ELSE -m
  <2> HIDE DEF m
  <2> QED BY <1>2
<1>5. d \in Int
  <2> HIDE DEF m
  <2> QED BY <1>2
<1> HIDE DEF d, av, fr
<1>6. /\ Len(av) = 1 /\ Len(fr) = 1 /\ av \in Seq(Leg) /\ fr \in Seq(Leg)
      /\ av[1] = Change(c, d) /\ fr[1] = Change(c, -d) /\ c.user \in users
  <2>1. /\ Len(av) = 1 /\ Len(fr) = 1 /\ av \in Seq(Leg) /\ fr \in Seq(Leg)
        /\ av[1] = Change(c, d) /\ fr[1] = Change(c, -d) /\ av[1].user \in users
    <3>1. 1 \in 1..Len(AvPlan(c))
      BY <1>2
    <3>2. /\ Len(av) = 1 /\ Len(fr) = 1 /\ av \in Seq(Leg) /\ fr \in Seq(Leg)
          /\ av[1] = AvPlan(c)[1] /\ fr[1] = FrPlan(c)[1] /\ av[1].user \in users
      <4>1. /\ Len(av) = Len(AvPlan(c)) /\ Len(fr) = Len(AvPlan(c))
            /\ av \in Seq(Leg) /\ fr \in Seq(Leg)
            /\ \A i \in 1..Len(AvPlan(c)) : /\ av[i] = AvPlan(c)[i] /\ fr[i] = FrPlan(c)[i]
                                            /\ av[i].user \in users
        BY <1>1, AtCommit DEF av, fr
      <4> QED BY <1>2, <3>1, <4>1
    <3> QED BY <1>3, <1>4, <3>2
  <2> QED BY <2>1 DEF Change
<1>7. Covered(tx[t], available, frozen) /\ Ref(t) \notin DOMAIN entries
      /\ Ref(t) = <<c.op, c.ref>>
  BY <1>1, AtCommit DEF RefOf, Ref
<1>8. ASSUME NEW u \in Users, NEW a \in Assets
      PROVE  /\ RowSum(av, 1, u, a) = IF c.user = u /\ c.asset = a THEN d ELSE 0
             /\ RowSum(fr, 1, u, a) = IF c.user = u /\ c.asset = a THEN -d ELSE 0
  <2>1. 0 < Len(av) /\ 0 < Len(fr) /\ 0 + 1 = 1 /\ 0 \in Nat
    BY <1>6
  <2>2. /\ RowSum(av, 0 + 1, u, a) = RowSum(av, 0, u, a)
              + (IF av[0 + 1].user = u /\ av[0 + 1].asset = a THEN av[0 + 1].amount ELSE 0)
        /\ RowSum(fr, 0 + 1, u, a) = RowSum(fr, 0, u, a)
              + (IF fr[0 + 1].user = u /\ fr[0 + 1].asset = a THEN fr[0 + 1].amount ELSE 0)
    BY <1>6, <2>1, RowSumOfNext
  <2>3. RowSum(av, 0, u, a) = 0 /\ RowSum(fr, 0, u, a) = 0
    BY RowSumOfNone
  <2>4. /\ av[1].user = c.user /\ av[1].asset = c.asset /\ av[1].amount = d
        /\ fr[1].user = c.user /\ fr[1].asset = c.asset /\ fr[1].amount = -d
    BY <1>6 DEF Change
  <2>5. /\ RowSum(av, 1, u, a) = 0 + (IF c.user = u /\ c.asset = a THEN d ELSE 0)
        /\ RowSum(fr, 1, u, a) = 0 + (IF c.user = u /\ c.asset = a THEN -d ELSE 0)
    BY <2>1, <2>2, <2>3, <2>4
  <2> QED BY <1>5, <2>5
<1> DEFINE b == available[c.user][c.asset]
           f == frozen[c.user][c.asset]
<1>9. /\ available \in [Users -> [Assets -> Nat]] /\ frozen \in [Users -> [Assets -> Nat]]
      /\ b \in Nat /\ f \in Nat
  BY <1>2 DEF TxConsistent, LedgerTypeOK
<1>10. b + d >= 0 /\ f + (-d) >= 0
  <2>1. 1 \in 0..Len(tx[t].av)
    BY <1>6 DEF av
  <2>2. b + RowSum(av, 1, c.user, c.asset) \in Nat /\ f + RowSum(fr, 1, c.user, c.asset) \in Nat
    BY <1>2, <1>7, <2>1 DEF Covered, av, fr
  <2>3. RowSum(av, 1, c.user, c.asset) = d /\ RowSum(fr, 1, c.user, c.asset) = -d
    BY <1>2, <1>8
  <2> QED BY <2>2, <2>3
<1>11. ASSUME NEW u \in Users, NEW a \in Assets
       PROVE  /\ available'[u][a] = IF c.user = u /\ c.asset = a THEN b + d ELSE available[u][a]
              /\ frozen'[u][a] = IF c.user = u /\ c.asset = a THEN f + (-d) ELSE frozen[u][a]
  <2>1. /\ available'[u][a] = available[u][a] + RowSum(av, 1, u, a)
        /\ frozen'[u][a] = frozen[u][a] + RowSum(fr, 1, u, a)
    BY <1>1, <1>6 DEF Available, Frozen, av, fr
  <2>2. available[u][a] \in Nat /\ frozen[u][a] \in Nat
    BY <1>9
  <2>3. CASE c.user = u /\ c.asset = a
    BY <1>8, <2>1, <2>3
  <2>4. CASE ~(c.user = u /\ c.asset = a)
    BY <1>8, <2>1, <2>2, <2>4
  <2> QED BY <2>3, <2>4
<1>12. /\ available' = [available EXCEPT ![c.user][c.asset] = b + d]
       /\ frozen' = [frozen EXCEPT ![c.user][c.asset] = f + (-d)]
  <2>1. /\ available' \in [Users -> [Assets -> Nat]] /\ frozen' \in [Users -> [Assets -> Nat]]
    BY CommitType DEF LedgerTypeOK
  <2> DEFINE u == c.user
             a == c.asset
             nb == b + d
             nf == f + (-d)
  <2>2. \A x \in Users, y \in Assets :
           /\ available'[x][y] = IF u = x /\ a = y THEN nb ELSE available[x][y]
           /\ frozen'[x][y] = IF u = x /\ a = y THEN nf ELSE frozen[x][y]
    BY <1>11
  <2>3. u \in Users /\ a \in Assets
    BY <1>2
  <2> HIDE DEF b, f, u, a, nb, nf
  <2>4. available' = [available EXCEPT ![u][a] = nb]
    BY <1>9, <2>1, <2>2, <2>3, OneRow
  <2>5. frozen' = [frozen EXCEPT ![u][a] = nf]
    BY <1>9, <2>1, <2>2, <2>3, OneRow
  <2> QED BY <2>4, <2>5 DEF u, a, nb, nf
<1> HIDE DEF m
<1>13. CASE c.op = "freeze"
  <2>1. b + d = b - m /\ f + (-d) = f + m /\ b >= m
    <3> HIDE DEF b, f
    <3> QED BY <1>2, <1>9, <1>10, <1>13 DEF d
  <2>2. Post(<<"freeze", c.ref>>, CollateralLegs(c.user, c.asset, -c.amount, c.amount))
    BY <1>1, <1>2, <1>7, <1>13 DEF LegsOf
  <2>3. FreezeOK(c.user, c.asset, m, c.ref)
    BY <1>2, <1>6, <1>7, <1>13, <2>1 DEF FreezeOK
  <2>4. Freeze(c.user, c.asset, m, c.ref)
    BY <1>1, <1>12, <2>1, <2>2, <2>3 DEF Freeze, m
  <2> QED BY <2>4 DEF m
<1>14. CASE c.op = "unfreeze"
  <2>1. b + d = b + m /\ f + (-d) = f - m /\ f >= m
    <3> HIDE DEF b, f
    <3> QED BY <1>2, <1>9, <1>10, <1>14 DEF d
  <2>2. Post(<<"unfreeze", c.ref>>, CollateralLegs(c.user, c.asset, c.amount, -c.amount))
    BY <1>1, <1>2, <1>7, <1>14 DEF LegsOf
  <2>3. UnfreezeOK(c.user, c.asset, m, c.ref)
    BY <1>2, <1>6, <1>7, <1>14, <2>1 DEF UnfreezeOK
  <2>4. Unfreeze(c.user, c.asset, m, c.ref)
    BY <1>1, <1>12, <2>1, <2>2, <2>3 DEF Unfreeze, m
  <2> QED BY <2>4 DEF m
<1> QED BY <1>2, <1>13, <1>14
\* The commit of a settlement is the one of Ledger: its legs applied in turn,
\* then its releases, and both summed up are what the transaction wrote.
LEMMA SettlementCommits ==
    ASSUME TxConsistent, NEW t \in Txs, Commit(t), tx[t].call \in Settles
    PROVE  SettleTrade(tx[t].call.ref, tx[t].call.settle.legs, tx[t].call.settle.release)
<1> DEFINE c == tx[t].call
           legs == c.settle.legs
           release == c.settle.release
           l == Len(legs)
           k == Len(release)
           av == tx[t].av
           fr == tx[t].fr
           still == [i \in 1..k |-> Change(release[i], 0)]
<1>1. /\ tx[t].at = "commit" /\ users' = users /\ Post(Ref(t), LegsOf(c))
      /\ available' = [u \in Users |-> [a \in Assets |-> Available(t, u, a)]]
      /\ frozen' = [u \in Users |-> [a \in Assets |-> Frozen(t, u, a)]]
  BY DEF Commit, LegsOf
<1>2. /\ c.op = "trade" /\ c \notin Moves /\ c \in Moves \cup Settles
      /\ legs \in Seq(Leg) /\ legs # <<>> /\ release \in Seq(Leg)
      /\ l \in Nat /\ k \in Nat /\ Len(AvPlan(c)) = l + k /\ Rows(c) = l + k
  BY CallFields, PlanType DEF Rows
<1>3. /\ AvPlan(c) = [i \in 1..Rows(c) |-> IF i <= l THEN legs[i] ELSE Change(Released(c, i), 0)]
      /\ FrPlan(c) = [i \in 1..Rows(c) |-> IF i <= l THEN Change(legs[i], 0)
                                         ELSE Change(Released(c, i), -Released(c, i).amount)]
  BY <1>2 DEF AvPlan, FrPlan
<1>4. /\ Len(av) = l + k /\ Len(fr) = l + k /\ av \in Seq(Leg) /\ fr \in Seq(Leg)
      /\ \A i \in 1..(l + k) : /\ av[i] = AvPlan(c)[i] /\ fr[i] = FrPlan(c)[i]
                               /\ av[i].user \in users
      /\ Covered(tx[t], available, frozen) /\ Ref(t) \notin DOMAIN entries
      /\ verifyLedgerBalance(legs) /\ Ref(t) = <<"trade", c.ref>>
  BY <1>1, <1>2, AtCommit DEF RefOf, Ref
<1>5. \A i \in 1..k : release[i] \in Leg
  BY <1>2
<1>6. \A i \in 1..k : Released(c, l + i) = release[i]
  <2>1. ASSUME NEW i \in 1..k PROVE (l + i) - l = i
    <3> HIDE DEF l, k
    <3> QED BY <1>2
  <2> QED BY <2>1 DEF Released
<1> HIDE DEF l, k, legs, release, av, fr
<1>7. ASSUME NEW i \in 1..l
      PROVE  av[i] = legs[i] /\ fr[i] = Change(legs[i], 0) /\ legs[i].user \in users
  <2>1. i \in 1..(l + k) /\ i <= l
    BY <1>2
  <2> QED BY <1>2, <1>3, <1>4, <2>1
<1>8. ASSUME NEW i \in 1..k
      PROVE  /\ av[l + i] = Change(release[i], 0)
             /\ fr[l + i] = Change(release[i], -release[i].amount)
             /\ release[i].user \in users
  <2>1. l + i \in 1..(l + k) /\ ~(l + i <= l)
    BY <1>2
  <2>2. /\ av[l + i] = Change(release[i], 0)
        /\ fr[l + i] = Change(release[i], -release[i].amount)
        /\ av[l + i].user \in users
    BY <1>2, <1>3, <1>4, <1>6, <2>1
  <2> QED BY <2>2 DEF Change
<1>9. ASSUME NEW u, NEW a, NEW j \in 0..l
      PROVE  RowSum(av, j, u, a) = RowSum(legs, j, u, a) /\ RowSum(fr, j, u, a) = 0
  <2>1. j \in Nat /\ \A i \in 1..j : i \in 1..l
    BY <1>2
  <2>2. RowSum(av, j, u, a) = RowSum(legs, j, u, a)
    <3>1. SameUpTo(j, av, legs)
      BY <1>7, <2>1 DEF SameUpTo
    <3> QED BY <2>1, <3>1, RowSumOfPrefix
  <2>3. ASSUME NEW i \in 1..j PROVE fr[i].amount = 0
    <3>1. fr[i] = Change(legs[i], 0)
      BY <1>7, <2>1
    <3> QED BY <3>1 DEF Change
  <2> QED BY <2>1, <2>2, <2>3, RowSumOfZeros
<1>10. ASSUME NEW u, NEW a, NEW j \in 0..k
       PROVE  /\ RowSum(av, l + j, u, a) = RowSum(legs, l, u, a)
              /\ RowSum(fr, l + j, u, a) = 0 - RowSum(release, j, u, a)
              /\ RowSum(release, j, u, a) \in Int /\ RowSum(legs, l, u, a) \in Int
  <2>1. still \in Seq(Leg) /\ Len(still) = k
    <3>1. \A i \in 1..k : Change(release[i], 0) \in Leg
      BY <1>5 DEF Change, Leg
    <3>2. still \in [1..k -> Leg]
      BY <3>1
    <3> HIDE DEF still
    <3> QED BY <1>2, <3>2, SeqOfLegs
  <2>2. \A i \in 1..k : still[i].amount = 0
    BY DEF Change
  <2>3. ASSUME NEW i \in 1..k
        PROVE  /\ av[l + i].user = still[i].user /\ av[l + i].asset = still[i].asset
               /\ av[l + i].amount = -still[i].amount
    <3>1. av[l + i] = still[i]
      BY <1>8
    <3>2. -still[i].amount = still[i].amount
      BY <2>2
    <3> QED BY <3>1, <3>2
  <2>4. ASSUME NEW i \in 1..k
        PROVE  /\ fr[l + i].user = release[i].user
               /\ fr[l + i].asset = release[i].asset
               /\ fr[l + i].amount = -release[i].amount
    <3>1. fr[l + i] = Change(release[i], -release[i].amount)
      BY <1>8
    <3> QED BY <3>1 DEF Change
  <2>5. /\ Len(release) = k /\ Len(av) = l + Len(still) /\ Len(fr) = l + Len(release)
        /\ 1..k = 1..Len(still) /\ 1..k = 1..Len(release)
    BY <1>4, <2>1 DEF k
  <2> HIDE DEF still
  <2>6. /\ RowSum(av, l, u, a) \in Int
        /\ RowSum(av, l + j, u, a) = RowSum(av, l, u, a) - RowSum(still, j, u, a)
    <3>1. \A i \in 1..Len(still) : /\ av[l + i].user = still[i].user
                                   /\ av[l + i].asset = still[i].asset
                                   /\ av[l + i].amount = -still[i].amount
      BY <2>3, <2>5
    <3>2. \A i \in 0..Len(still) :
             /\ RowSum(av, l, u, a) \in Int
             /\ RowSum(av, l + i, u, a) = RowSum(av, l, u, a) - RowSum(still, i, u, a)
      <4>1. TakesBack(av, l, still)
        BY <1>2, <1>4, <2>1, <2>5, <3>1 DEF TakesBack
      <4> QED BY <4>1, RowSumOfTail
    <3> QED BY <2>1, <3>2
  <2>7. /\ RowSum(release, j, u, a) \in Int
        /\ RowSum(fr, l + j, u, a) = RowSum(fr, l, u, a) - RowSum(release, j, u, a)
    <3>1. \A i \in 1..Len(release) : /\ fr[l + i].user = release[i].user
                                     /\ fr[l + i].asset = release[i].asset
                                     /\ fr[l + i].amount = -release[i].amount
      BY <2>4, <2>5
    <3>2. \A i \in 0..Len(release) :
             /\ RowSum(release, i, u, a) \in Int
             /\ RowSum(fr, l + i, u, a) = RowSum(fr, l, u, a) - RowSum(release, i, u, a)
      <4>1. TakesBack(fr, l, release)
        BY <1>2, <1>4, <2>5, <3>1 DEF TakesBack
      <4> QED BY <4>1, RowSumOfTail
    <3> QED BY <2>5, <3>2
  <2>8. RowSum(still, j, u, a) = 0
    <3>1. j \in Nat /\ \A i \in 1..j : i \in 1..k
      BY <1>2
    <3> QED BY <2>2, <3>1, RowSumOfZeros
  <2>9. RowSum(av, l, u, a) = RowSum(legs, l, u, a) /\ RowSum(fr, l, u, a) = 0
    <3>1. l \in 0..l
      BY <1>2
    <3> QED BY <1>9, <3>1
  <2> QED BY <2>6, <2>7, <2>8, <2>9
<1>11. \A j \in 0..(l + k), u \in Users, a \in Assets :
          /\ available[u][a] + RowSum(av, j, u, a) \in Nat
          /\ frozen[u][a] + RowSum(fr, j, u, a) \in Nat
  BY <1>4 DEF Covered, av, fr
<1>12. LegsApply(legs)
  <2>1. \A i \in 1..Len(legs) : legs[i].user \in users
    BY <1>7 DEF l
  <2>2. ASSUME NEW j \in 0..Len(legs), NEW u \in Users, NEW a \in Assets
        PROVE  available[u][a] + RowSum(legs, j, u, a) \in Nat
    <3>1. j \in 0..l /\ j \in 0..(l + k)
      <4>1. j \in 0..l
        BY DEF l
      <4> QED BY <1>2, <4>1
    <3> QED BY <1>9, <1>11, <3>1
  <2> QED BY <2>1, <2>2 DEF LegsApply
<1>13. ASSUME NEW j \in 0..k, NEW u \in Users, NEW a \in Assets
       PROVE  /\ frozen[u][a] + RowSum(fr, l + j, u, a) = frozen[u][a] - RowSum(release, j, u, a)
              /\ frozen[u][a] - RowSum(release, j, u, a) \in Nat
  <2> DEFINE f == frozen[u][a]
             x == RowSum(release, j, u, a)
             y == RowSum(fr, l + j, u, a)
  <2>1. y = 0 - x /\ x \in Int
    BY <1>10
  <2>2. f \in Nat
    BY DEF TxConsistent, LedgerTypeOK
  <2>3. f + y \in Nat
    <3>1. l + j \in 0..(l + k)
      BY <1>2
    <3> QED BY <1>11, <3>1
  <2>4. f + y = f - x
    <3> HIDE DEF f, x, y
    <3> QED BY <2>1, <2>2
  <2>5. f - x \in Nat
    BY <2>3, <2>4
  <2> QED BY <2>4, <2>5
<1>14. ReleasesApply(release)
  <2>1. \A i \in 1..Len(release) : release[i].user \in users
    BY <1>8 DEF k
  <2> QED BY <1>13, <2>1 DEF ReleasesApply, k
<1>15. /\ available' = [u \in Users |-> [a \in Assets |->
                           available[u][a] + RowSum(legs, Len(legs), u, a)]]
       /\ frozen' = [u \in Users |-> [a \in Assets |->
                           frozen[u][a] - RowSum(release, Len(release), u, a)]]
  <2>1. ASSUME NEW u \in Users, NEW a \in Assets
        PROVE  /\ Available(t, u, a) = available[u][a] + RowSum(legs, Len(legs), u, a)
               /\ Frozen(t, u, a) = frozen[u][a] - RowSum(release, Len(release), u, a)
    <3>1. k \in 0..k
      BY <1>2
    <3>2. /\ Available(t, u, a) = available[u][a] + RowSum(av, l + k, u, a)
          /\ Frozen(t, u, a) = frozen[u][a] + RowSum(fr, l + k, u, a)
      BY <1>4 DEF Available, Frozen, av, fr
    <3> QED BY <1>10, <1>13, <3>1, <3>2 DEF l, k
  <2> QED BY <1>1, <2>1
<1>16. SettleTradeOK(legs, release)
  <2>1. Len(legs) > 0
    BY <1>2
  <2> QED BY <1>4, <1>12, <1>14, <2>1 DEF SettleTradeOK
<1>17. Post(<<"trade", c.ref>>, legs)
  BY <1>1, <1>2, <1>4 DEF LegsOf, legs
<1>18. SettleTrade(c.ref, legs, release)
  BY <1>1, <1>4, <1>15, <1>16, <1>17 DEF SettleTrade
<1> QED BY <1>18 DEF legs, release
-----------------------------------------------------------------------------
(* Transactions that wait for each other *)

\* In a finite set where everyone waits for another of the set, some wait in a
\* circle: everyone in it waits for one of it and is waited for by one of it.
LEMMA CircleExists ==
    ASSUME NEW W, IsFiniteSet(W), W # {}, NEW R,
           \A t \in W : \E o \in W : o # t /\ <<t, o>> \in R
    PROVE  \E C \in SUBSET W :
              /\ C # {}
              /\ \A s \in C : \E b, a \in C : <<b, s>> \in R /\ <<s, a>> \in R
<1> DEFINE Closed(C) == C # {} /\ \A t \in C : \E o \in C : o # t /\ <<t, o>> \in R
           Circle(C) == C # {} /\ \A s \in C : \E b, a \in C : <<b, s>> \in R /\ <<s, a>> \in R
           good == {n \in Nat : \A C \in SUBSET W :
                       Cardinality(C) <= n /\ Closed(C) => \E D \in SUBSET W : Circle(D)}
<1>0. \A C \in SUBSET W : IsFiniteSet(C) /\ Cardinality(C) \in Nat
  BY FS_Subset, FS_CardinalityType
<1>1. 0 \in good
  <2>1. \A C \in SUBSET W : Cardinality(C) <= 0 => C = {}
    BY <1>0, FS_EmptySet
  <2> QED BY <2>1
<1>2. ASSUME NEW n \in Nat, n \in good PROVE n + 1 \in good
  <2> SUFFICES ASSUME NEW C \in SUBSET W, Cardinality(C) <= n + 1, Closed(C)
               PROVE  \E D \in SUBSET W : Circle(D)
    <3> HIDE DEF Closed, Circle
    <3> QED OBVIOUS
  <2>1. CASE \A s \in C : \E b \in C : <<b, s>> \in R
    <3>1. Circle(C)
      BY <2>1
    <3> QED BY <3>1
  <2>2. CASE \E s \in C : \A b \in C : <<b, s>> \notin R
    <3>1. PICK s \in C : \A b \in C : <<b, s>> \notin R
      BY <2>2
    <3> DEFINE D == C \ {s}
    <3>2. D \in SUBSET W /\ Closed(D)
      <4>1. \A t \in C : \E o \in D : o # t /\ <<t, o>> \in R
        BY <3>1
      <4> QED BY <4>1
    <3>3. Cardinality(D) <= n
      <4>1. IsFiniteSet(C) /\ Cardinality(C) \in Nat
        BY <1>0
      <4>2. Cardinality(D) = Cardinality(C) - 1
        BY <4>1, FS_RemoveElement
      <4> QED BY <4>1, <4>2
    <3> HIDE DEF D, Closed, Circle
    <3> QED BY <1>2, <3>2, <3>3
  <2> QED BY <2>1, <2>2
<1>3. Cardinality(W) \in good
  <2> HIDE DEF good
  <2> QED BY <1>0, <1>1, <1>2, InductionOnNat
<1>4. Closed(W) /\ Cardinality(W) <= Cardinality(W) /\ W \in SUBSET W
  BY <1>0
<1>5. \E D \in SUBSET W : Circle(D)
  <2> HIDE DEF Closed, Circle
  <2> QED BY <1>3, <1>4
<1> QED BY <1>5

\* Only an open transaction holds locks.
LEMMA LocksAreOpen ==
    ASSUME TxConsistent, NEW o \in Txs
    PROVE  /\ \A u, a : LocksRow(o, u, a) => tx[o].at # "idle"
           /\ \A ref : LocksRef(o, ref) => tx[o].at # "idle"
<1>1. tx[o].at = "idle" => tx[o] = Idle
  BY DEF TxConsistent, Sound, AtStage
<1>2. tx[o].at = "idle" => Len(tx[o].av) = 0
  BY <1>1 DEF Idle, State
<1> QED BY <1>2 DEF LocksRow, LocksRef, InsertedRef

\* An open transaction that cannot step waits for another open one.
LEMMA StuckWaits ==
    ASSUME TxConsistent, NEW t \in Txs, tx[t].at # "idle", ~CanStep(t)
    PROVE  \E o \in Txs : tx[o].at # "idle" /\ o # t /\ WaitsFor(t, o)
<1>1. tx[t].at \in {"update", "exists", "insert", "legs", "release", "verify", "commit"}
  BY DEF TxConsistent, TxRecord
<1>2. CASE Updates(t)
  <2>1. Finds(t, Update(t)) /\ ~RowIsFree(t, Update(t))
    BY <1>2 DEF CanStep
  <2>2. PICK o \in Txs \ {t} : LocksRow(o, Update(t).user, Update(t).asset)
    BY <2>1 DEF RowIsFree
  <2>3. tx[o].at # "idle"
    BY <2>2, LocksAreOpen
  <2>4. WaitsFor(t, o)
    BY <1>2, <2>1, <2>2 DEF WaitsFor
  <2> QED BY <2>2, <2>3, <2>4
<1>3. CASE ~Updates(t)
  <2>1. tx[t].at = "insert" /\ Ref(t) \notin DOMAIN entries /\ ~RefIsFree(t)
    BY <1>1, <1>3 DEF CanStep, Updates
  <2>2. PICK o \in Txs \ {t} : LocksRef(o, Ref(t))
    BY <2>1 DEF RefIsFree
  <2>3. tx[o].at # "idle"
    BY <2>2, LocksAreOpen
  <2>4. WaitsFor(t, o)
    BY <2>1, <2>2 DEF WaitsFor
  <2> QED BY <2>2, <2>3, <2>4
<1> QED BY <1>2, <1>3

LEMMA SomebodySteps ==
    ASSUME TxConsistent
    PROVE  NobodyIsStuck
<1> SUFFICES ASSUME NEW t0 \in Txs, tx[t0].at # "idle", \A t \in Txs : ~CanStep(t)
             PROVE  FALSE
  BY DEF NobodyIsStuck
<1> DEFINE W == {t \in Txs : tx[t].at # "idle"}
           R == {p \in Txs \X Txs : WaitsFor(p[1], p[2])}
<1>1. IsFiniteSet(W) /\ W # {}
  <2>1. W \in SUBSET Txs /\ IsFiniteSet(Txs)
    BY LedgerTxAssumption
  <2> QED BY <2>1, FS_Subset
<1>2. \A t \in W : \E o \in W : o # t /\ <<t, o>> \in R
  <2> SUFFICES ASSUME NEW t \in W PROVE \E o \in W : o # t /\ <<t, o>> \in R
    OBVIOUS
  <2>1. PICK o \in Txs : tx[o].at # "idle" /\ o # t /\ WaitsFor(t, o)
    BY StuckWaits
  <2> QED BY <2>1
<1>3. \A t, o \in Txs : <<t, o>> \in R <=> WaitsFor(t, o)
  OBVIOUS
<1>4. PICK C \in SUBSET W :
         /\ C # {}
         /\ \A s \in C : \E b, a \in C : <<b, s>> \in R /\ <<s, a>> \in R
  <2> HIDE DEF W, R
  <2> QED BY <1>1, <1>2, CircleExists
<1>5. C \in SUBSET Txs /\ \A s \in C : \E b, a \in C : WaitsFor(b, s) /\ WaitsFor(s, a)
  <2>1. C \in SUBSET Txs
    OBVIOUS
  <2> HIDE DEF R
  <2> QED BY <1>3, <1>4, <2>1
<1>6. PICK t \in C : TRUE
  BY <1>4
<1>7. t \in Txs /\ Deadlocked(t)
  BY <1>5, <1>6 DEF Deadlocked
<1> QED BY <1>7 DEF CanStep
-----------------------------------------------------------------------------
(* The theorems *)

\* Every step of LedgerTx keeps the invariant and is a step of Ledger, or it
\* changes no table.
LEMMA TxStepKeeps ==
    ASSUME TxConsistent, [TxNext]_txVars
    PROVE  TxConsistent' /\ [LedgerNext]_ledgerVars
<1>1. CASE UNCHANGED txVars
  <2>1. UNCHANGED <<users, available, frozen, entries, tx, started, aborts>>
    BY <1>1 DEF txVars, ledgerVars
  <2>2. TxConsistent'
    BY <2>1 DEF TxConsistent, LedgerTypeOK
  <2> QED BY <2>1, <2>2 DEF ledgerVars
<1>2. ASSUME NEW t \in Txs, Begin(t) PROVE TxConsistent' /\ UNCHANGED ledgerVars
  BY <1>2, BeginKeeps DEF Begin
<1>3. ASSUME NEW t \in Txs, UpdateRow(t) PROVE TxConsistent' /\ UNCHANGED ledgerVars
  BY <1>3, UpdateRowKeeps DEF UpdateRow
<1>4. ASSUME NEW t \in Txs, Rollback(t), aborts' \in 0..MaxAborts
      PROVE  TxConsistent' /\ UNCHANGED ledgerVars
  BY <1>4, RollbackKeeps DEF Rollback
<1>5. aborts \in 0..MaxAborts /\ MaxAborts \in Nat
  BY LedgerTxAssumption DEF TxConsistent
<1>6. ASSUME NEW t \in Txs, RefuseUpdate(t) \/ RefuseRef(t) \/ DeadlockAbort(t)
      PROVE  TxConsistent' /\ UNCHANGED ledgerVars
  <2>1. Rollback(t) /\ aborts' = aborts
    BY <1>6 DEF RefuseUpdate, RefuseRef, DeadlockAbort
  <2> QED BY <1>4, <1>5, <2>1
<1>7. ASSUME NEW t \in Txs, Abort(t) PROVE TxConsistent' /\ UNCHANGED ledgerVars
  <2>1. Rollback(t) /\ aborts < MaxAborts /\ aborts' = aborts + 1
    BY <1>7 DEF Abort
  <2>2. aborts' \in 0..MaxAborts
    BY <1>5, <2>1
  <2> QED BY <1>4, <2>1, <2>2
<1>8. ASSUME NEW t \in Txs, EndLoop(t) PROVE TxConsistent' /\ UNCHANGED ledgerVars
  BY <1>8, EndLoopKeeps DEF EndLoop
<1>9. ASSUME NEW t \in Txs, SelectExists(t) PROVE TxConsistent' /\ UNCHANGED ledgerVars
  BY <1>9, SelectExistsKeeps DEF SelectExists
<1>10. ASSUME NEW t \in Txs, InsertRef(t) PROVE TxConsistent' /\ UNCHANGED ledgerVars
  BY <1>10, InsertRefKeeps DEF InsertRef
<1>11. ASSUME NEW t \in Txs, Verify(t) PROVE TxConsistent' /\ UNCHANGED ledgerVars
  BY <1>11, VerifyKeeps DEF Verify, Rollback
<1>12. ASSUME NEW t \in Txs, Commit(t) PROVE TxConsistent' /\ LedgerNext
  <2>1. tx[t].call \in Moves \cup Settles
    BY <1>12, AtCommit DEF Commit
  <2>2. CASE tx[t].call \in Moves
    <3>1. /\ tx[t].call.user \in Users /\ tx[t].call.asset \in Assets
          /\ tx[t].call.amount \in Amounts /\ tx[t].call.ref \in RefIds
      BY <2>2, CallFields
    <3>2. \/ Freeze(tx[t].call.user, tx[t].call.asset, tx[t].call.amount, tx[t].call.ref)
          \/ Unfreeze(tx[t].call.user, tx[t].call.asset, tx[t].call.amount, tx[t].call.ref)
      BY <1>12, <2>2, MoveCommits
    <3> QED BY <1>12, <3>1, <3>2, CommitKeeps DEF LedgerNext
  <2>3. CASE tx[t].call \in Settles
    <3>1. tx[t].call.ref \in TradeIds /\ tx[t].call.settle \in Settlements
      BY <2>3, CallFields
    <3>2. SettleTrade(tx[t].call.ref, tx[t].call.settle.legs, tx[t].call.settle.release)
      BY <1>12, <2>3, SettlementCommits
    <3> QED BY <1>12, <3>1, <3>2, CommitKeeps DEF LedgerNext
  <2> QED BY <2>1, <2>2, <2>3
<1>13. ASSUME NEW u \in Users, TxCreateUser(u) PROVE TxConsistent' /\ LedgerNext
  BY <1>13, TxCreateUserKeeps DEF TxCreateUser, LedgerNext
<1> QED BY <1>1, <1>2, <1>3, <1>6, <1>7, <1>8, <1>9, <1>10, <1>11, <1>12, <1>13
        DEF TxNext, TxStep

\* The inductive invariant: what an open transaction has written is covered
\* by what is committed, is its own, and is what its call asked for.
THEOREM TxIsConsistent == TxSpec => []TxConsistent
<1>1. TxInit => TxConsistent
  <2> SUFFICES ASSUME TxInit PROVE TxConsistent
    OBVIOUS
  <2>1. LedgerTypeOK
    BY SeededAssumption, FundingAssumption DEF TxInit, LedgerInit, LedgerTypeOK
  <2>2. \A t \in Txs : tx[t] = Idle
    BY DEF TxInit
  <2>3. tx \in [Txs -> TxRecord]
    BY IdleIsFresh DEF TxInit
  <2>4. /\ Sound(Idle, users, available, frozen, DOMAIN entries)
        /\ \A s : Apart(Idle, s)
    BY <2>1, IdleIsFresh, FreshIsSound DEF LedgerTypeOK
  <2> QED BY <2>1, <2>2, <2>3, <2>4, LedgerTxAssumption DEF TxConsistent, TxInit
<1>2. TxConsistent /\ [TxNext]_txVars => TxConsistent'
  BY TxStepKeeps
<1> QED BY <1>1, <1>2, PTL DEF TxSpec

\* The store implements the ledger: each statement of Freeze, Unfreeze and
\* SettleTrade changes no table, and each commit is the whole operation of
\* Ledger, whatever ran in between.
THEOREM StoreImplementsLedger == TxSpec => ImplementsLedger
<1>1. TxInit => LedgerInit
  BY DEF TxInit
<1>2. TxConsistent /\ [TxNext]_txVars => [LedgerNext]_ledgerVars
  BY TxStepKeeps
<1> QED BY <1>1, <1>2, TxIsConsistent, PTL DEF TxSpec, ImplementsLedger, LedgerSpec

\* Between any two statements the committed tables and the open transactions
\* are well typed, every posted trade balances, and no set of open
\* transactions waits for itself without one of them being in a circle that
\* deadlock detection breaks.
THEOREM StoreIsSafe == TxSpec => []TxInv
<1>1. TxConsistent => TxTypeOK
  <2> SUFFICES ASSUME TxConsistent PROVE TxTypeOK
    OBVIOUS
  <2>1. ASSUME NEW t \in Txs, tx[t].at # "idle" PROVE tx[t].call \in Moves \cup Settles
    BY <2>1 DEF TxConsistent, Sound, OnPlan
  <2>2. ASSUME NEW t \in Txs
        PROVE  /\ tx[t].at \in {"idle", "update", "exists", "insert", "legs",
                                "release", "verify", "commit"}
               /\ tx[t].av \in Seq(Leg) /\ tx[t].fr \in Seq(Leg)
    BY DEF TxConsistent, TxRecord
  <2> QED BY <2>1, <2>2 DEF TxTypeOK, TxConsistent
<1>2. TxConsistent => NobodyIsStuck
  BY SomebodySteps
<1> QED BY <1>1, <1>2, TxIsConsistent, StoreImplementsLedger, LedgerTransactionsBalance, PTL
        DEF ImplementsLedger, TxInv

\* Between any statements of concurrent transactions, no commit creates money
\* and no reference moves a balance twice.
THEOREM StoreKeepsSupply == TxSpec => SupplyNeverGrows /\ MovesArePostedOnce
  BY StoreImplementsLedger, LedgerSupplyNeverGrows, LedgerMovesArePostedOnce DEF ImplementsLedger
=============================================================================
