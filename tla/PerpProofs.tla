----------------------------- MODULE PerpProofs -----------------------------
(***************************************************************************)
(* Proofs about Perp, for every number of traders, requests, scans and     *)
(* funding runs and every interleaving of them: the tables stay well       *)
(* formed and report only settled transfers (PerpInv), the PnL of a        *)
(* position is paid at most once, and the balances are what the ledger     *)
(* says.                                                                   *)
(***************************************************************************)
EXTENDS Perp, SumLemmas, TLAPS

-----------------------------------------------------------------------------
(* Arithmetic *)

\* Products and sums of naturals are naturals.
LEMMA ProductType ==
    /\ \A m, n \in Nat : m * n \in Nat
    /\ \A m, n \in Int : m * n \in Int
  OBVIOUS

\* Rounded division stays within the naturals.
LEMMA DivType ==
    ASSUME NEW d \in Nat \ {0}
    PROVE  /\ \A n \in Nat : Div(n, d) \in Nat
           /\ \A n \in Int : Div(n, d) \in Int
<1>1. \A n \in Nat : (2 * n + d) \div (2 * d) \in Nat
  <2> SUFFICES ASSUME NEW n \in Nat PROVE (2 * n + d) \div (2 * d) \in Nat
    OBVIOUS
  <2> DEFINE x == 2 * n + d
             y == 2 * d
  <2>1. x \in Nat /\ y \in Nat /\ y > 0
    OBVIOUS
  <2> HIDE DEF x, y
  <2>2. x \div y \in Nat
    BY <2>1
  <2> QED BY <2>2 DEF x, y
<1>2. \A n \in Nat : Div(n, d) \in Nat
  BY <1>1 DEF Div
<1>3. ASSUME NEW n \in Int PROVE Div(n, d) \in Int
  <2>1. CASE n >= 0
    BY <1>2, <2>1
  <2>2. CASE ~(n >= 0)
    <3> DEFINE m == -n
    <3>1. m \in Nat /\ -2 * n = 2 * m
      BY <2>2
    <3>2. (2 * m + d) \div (2 * d) \in Nat
      BY <1>1, <3>1
    <3>3. Div(n, d) = -((-2 * n + d) \div (2 * d))
      BY <2>2 DEF Div
    <3>4. Div(n, d) = -((2 * m + d) \div (2 * d))
      BY <3>1, <3>3
    <3> DEFINE q == (2 * m + d) \div (2 * d)
    <3> HIDE DEF m, q
    <3>5. Div(n, d) = -q /\ q \in Nat
      BY <3>2, <3>4 DEF q
    <3> QED BY <3>5
  <2> QED BY <2>1, <2>2
<1> QED BY <1>2, <1>3

\* The result is off by half the divisor at most.
LEMMA DivRounds ==
    ASSUME NEW d \in Nat \ {0}, NEW n \in Nat
    PROVE  /\ Div(n, d) \in Nat /\ Div(n, d) * d \in Nat
           /\ 2 * n - 2 * (Div(n, d) * d) >= -d /\ 2 * n - 2 * (Div(n, d) * d) < d
<1> DEFINE q == Div(n, d)
           x == 2 * n + d
           y == 2 * d
           z == q * d
<1>1. q \in Nat /\ z \in Nat
  BY DivType, MulNat
<1>2. x \in Nat /\ y \in Nat /\ y > 0
  OBVIOUS
<1>3. q = x \div y
  BY DEF Div
<1> HIDE DEF q, x, y
<1>4. q * y <= x /\ x < q * y + y
  BY <1>2, <1>3, DivBounds
<1>5. q * y = 2 * z
  BY <1>1 DEF y
<1> HIDE DEF z
<1>6. 2 * z <= x /\ x < 2 * z + y
  BY <1>4, <1>5
<1>7. 2 * n - 2 * z >= -d /\ 2 * n - 2 * z < d
  BY <1>1, <1>6 DEF x, y
<1> QED BY <1>1, <1>7 DEF z, q

\* Nothing is lost when the divisor is a factor.
LEMMA DivWhole ==
    ASSUME NEW s \in Nat \ {0}, NEW m \in Nat
    PROVE  Div(m * s, s) = m
<1> DEFINE n == m * s
           q == Div(n, s)
           z == q * s
<1>1. n \in Nat
  BY MulNat
<1> HIDE DEF n
<1>2. q \in Nat /\ z \in Nat /\ 2 * n - 2 * z >= -s /\ 2 * n - 2 * z < s
  BY <1>1, DivRounds
<1> HIDE DEF q
<1>3. CASE q >= m + 1
  <2>1. (m + 1) * s <= z /\ (m + 1) * s = n + s
    BY <1>2, <1>3, MulMono DEF n
  <2> HIDE DEF z
  <2> QED BY <1>1, <1>2, <2>1
<1>4. CASE m >= q + 1
  <2>1. (q + 1) * s <= n /\ (q + 1) * s = z + s
    BY <1>2, <1>4, MulMono DEF n
  <2> HIDE DEF z
  <2> QED BY <1>1, <1>2, <2>1
<1> QED BY <1>2, <1>3, <1>4 DEF q, n

\* Differences of prices times sizes.
LEMMA Distribute ==
    ASSUME NEW x \in Int, NEW y \in Int, NEW c \in Int, NEW d \in Int
    PROVE  /\ x * c \in Int
           /\ (x - y) * c = x * c - y * c
           /\ x * (c + d) = x * c + x * d
           /\ x * (c - d) = x * c - x * d
  OBVIOUS

\* The value of a position, without differences of prices.
LEMMA ProfitIs ==
    ASSUME NEW side, NEW s \in Nat, NEW e \in Nat, NEW x \in Nat
    PROVE  UnrealizedPnL(side, s, e, x)
              = IF side = "SHORT" THEN e * s - x * s ELSE x * s - e * s
<1>1. (e - x) * s = e * s - x * s /\ (x - e) * s = x * s - e * s
  BY Distribute
<1> QED BY <1>1 DEF UnrealizedPnL

\* A position as two parts.
LEMMA ProfitOfParts ==
    ASSUME NEW side, NEW s \in Nat, NEW c \in Nat, NEW e \in Nat, NEW x \in Nat
    PROVE  /\ UnrealizedPnL(side, s, e, x) \in Int
           /\ UnrealizedPnL(side, s, e, x) - UnrealizedPnL(side, s - c, e, x)
                 = UnrealizedPnL(side, c, e, x)
<1> DEFINE p == e * s
           q == x * s
           r == e * c
           t == x * c
           d == s - c
<1>1. p \in Int /\ q \in Int /\ r \in Int /\ t \in Int /\ d \in Int
  BY Distribute
<1>2. (e - x) * s = p - q /\ (x - e) * s = q - p /\ (e - x) * c = r - t /\ (x - e) * c = t - r
  BY Distribute
<1>3. e * d = p - r /\ x * d = q - t
  BY Distribute
<1>4. (e - x) * d = e * d - x * d /\ (x - e) * d = x * d - e * d
  BY <1>1, Distribute
<1>5. /\ UnrealizedPnL(side, s, e, x) = IF side = "SHORT" THEN p - q ELSE q - p
      /\ UnrealizedPnL(side, c, e, x) = IF side = "SHORT" THEN r - t ELSE t - r
      /\ UnrealizedPnL(side, d, e, x)
           = IF side = "SHORT" THEN (p - r) - (q - t) ELSE (q - t) - (p - r)
  BY <1>2, <1>3, <1>4 DEF UnrealizedPnL
<1> DEFINE u == UnrealizedPnL(side, s, e, x)
           v == UnrealizedPnL(side, c, e, x)
           w == UnrealizedPnL(side, d, e, x)
<1>6. /\ u = IF side = "SHORT" THEN p - q ELSE q - p
      /\ v = IF side = "SHORT" THEN r - t ELSE t - r
      /\ w = IF side = "SHORT" THEN (p - r) - (q - t) ELSE (q - t) - (p - r)
  BY <1>5
<1> HIDE DEF p, q, r, t, u, v, w
<1>7. u \in Int /\ u - w = v
  BY <1>1, <1>6
<1> QED BY <1>6, <1>7 DEF u, v, w, d, p, q

\* The averaged entry price changes what the position is worth by half a unit
\* for each unit of its size at most, at any price.
LEMMA AveragingRounds ==
    ASSUME NEW side, NEW s \in Nat \ {0}, NEW e \in Nat, NEW a \in Nat, NEW m \in Nat,
           NEW x \in Nat,
           NEW error,
           error = UnrealizedPnL(side, s + a, WeightedEntryPrice(s, e, a, m), x)
                     - UnrealizedPnL(side, s, e, x) - UnrealizedPnL(side, a, m, x)
    PROVE  2 * error \in -(s + a)..(s + a)
<1> DEFINE d == s + a
           k == s * e
           l == a * m
           n == k + l
           w == Div(n, d)
           z == w * d
           p == x * s
           q == x * a
<1>1. /\ d \in Nat \ {0} /\ k \in Nat /\ l \in Nat /\ n \in Nat /\ p \in Nat /\ q \in Nat
      /\ k = e * s /\ l = m * a /\ x * d = p + q
  BY MulNat, Distribute
<1> HIDE DEF k, l
<1>2. n \in Nat
  BY <1>1
<1> HIDE DEF d, n
<1>3. w \in Nat /\ z \in Nat /\ 2 * n - 2 * z >= -d /\ 2 * n - 2 * z < d
  BY <1>1, <1>2, DivRounds
<1>4. WeightedEntryPrice(s, e, a, m) = w
  BY DEF WeightedEntryPrice, n, d, k, l
<1> HIDE DEF w
<1>5. UnrealizedPnL(side, d, w, x) = IF side = "SHORT" THEN z - x * d ELSE x * d - z
  <2>1. d \in Nat /\ w \in Nat
    BY <1>1, <1>3
  <2> HIDE DEF z, p, q
  <2>2. UnrealizedPnL(side, d, w, x) = IF side = "SHORT" THEN w * d - x * d ELSE x * d - w * d
    BY <2>1, ProfitIs
  <2> QED BY <2>2 DEF z
<1>6. UnrealizedPnL(side, s, e, x) = IF side = "SHORT" THEN k - p ELSE p - k
  <2>1. UnrealizedPnL(side, s, e, x) = IF side = "SHORT" THEN e * s - x * s ELSE x * s - e * s
    BY ProfitIs
  <2> QED BY <1>1, <2>1 DEF p, q, k, l
<1>7. UnrealizedPnL(side, a, m, x) = IF side = "SHORT" THEN l - q ELSE q - l
  <2>1. UnrealizedPnL(side, a, m, x) = IF side = "SHORT" THEN m * a - x * a ELSE x * a - m * a
    BY ProfitIs
  <2> QED BY <1>1, <2>1 DEF p, q, k, l
<1> DEFINE f == UnrealizedPnL(side, d, w, x)
           g == UnrealizedPnL(side, s, e, x)
           h == UnrealizedPnL(side, a, m, x)
<1>8. f = IF side = "SHORT" THEN z - (p + q) ELSE p + q - z
  <2> DEFINE y == x * d
  <2>1. f = (IF side = "SHORT" THEN z - y ELSE y - z) /\ y = p + q
    BY <1>1, <1>5
  <2>2. p \in Nat /\ q \in Nat /\ z \in Nat
    BY <1>1, <1>3
  <2> HIDE DEF f, z, p, q, y
  <2>3. CASE side = "SHORT"
    BY <2>1, <2>2, <2>3
  <2>4. CASE side # "SHORT"
    BY <2>1, <2>2, <2>4
  <2> QED BY <2>3, <2>4
<1>9. error = f - g - h
  BY <1>4 DEF d
<1>10. g = (IF side = "SHORT" THEN k - p ELSE p - k) /\ h = IF side = "SHORT" THEN l - q ELSE q - l
  BY <1>6, <1>7
<1> HIDE DEF z, p, q, f, g, h
<1>11. k \in Nat /\ l \in Nat /\ p \in Nat /\ q \in Nat /\ z \in Nat /\ n = k + l
  BY <1>1, <1>3 DEF n
<1>12. error = IF side = "SHORT" THEN z - n ELSE n - z
  BY <1>8, <1>9, <1>10, <1>11
<1>13. 2 * error >= -d /\ 2 * error <= d /\ error \in Int
  BY <1>1, <1>2, <1>3, <1>12
<1>14. 2 * error \in -d..d
  BY <1>1, <1>13
<1> QED BY <1>14 DEF d
-----------------------------------------------------------------------------
(* The account service *)

Accounts == Traders \cup {House}

\* The account's part of the invariant.
AccountConsistent == LedgerTypeOK /\ IsFiniteSet(DOMAIN entries) /\ PerpBalancesFollowLedger

\* The sum of the first legs of a row is an integer.
LEMMA RowSumType ==
    ASSUME NEW legs \in Seq(Leg), NEW k \in 0..Len(legs), NEW u, NEW a
    PROVE  RowSum(legs, k, u, a) \in Int
<1> DEFINE f == [i \in 1..k |-> legs[i].amount]
           S == {i \in 1..k : legs[i].user = u /\ legs[i].asset = a}
<1>1. IsFiniteSet(S)
  <2>1. k \in Int /\ 1 \in Int
    OBVIOUS
  <2>2. IsFiniteSet(1..k)
    BY ONLY <2>1, FS_Interval
  <2> QED BY <2>2, FS_Subset
<1>2. ASSUME NEW i \in S PROVE f[i] \in Int
  <2>1. legs[i] \in Leg
    OBVIOUS
  <2> QED BY <2>1 DEF Leg
<1>3. RowSum(legs, k, u, a) = SumFunctionOnSet(f, S)
  BY DEF RowSum
<1> HIDE DEF f, S
<1> QED BY <1>1, <1>2, <1>3, SumIsInt

\* Releases of nothing.
LEMMA RowSumOfNone == \A legs, u, a : RowSum(legs, 0, u, a) = 0
<1> TAKE legs, u, a
<1>1. {i \in 1..0 : legs[i].user = u /\ legs[i].asset = a} = {}
  OBVIOUS
<1> QED BY <1>1, SumEmpty DEF RowSum

\* The two entries of a freeze or an unfreeze cancel out.
LEMMA CollateralLegsCancel ==
    ASSUME NEW u \in Accounts, NEW m \in Int, NEW n \in Int, m = -n, NEW v
    PROVE  /\ CollateralLegs(u, USDT, m, n) \in Seq(Leg)
           /\ Len(CollateralLegs(u, USDT, m, n)) = 2
           /\ RowSum(CollateralLegs(u, USDT, m, n), 2, v, USDT) = 0
<1> DEFINE legs == CollateralLegs(u, USDT, m, n)
           f == [i \in 1..2 |-> legs[i].amount]
<1>1. /\ Len(legs) = 2 /\ legs \in Seq(Leg)
      /\ legs[1].user = u /\ legs[2].user = u
      /\ legs[1].asset = USDT /\ legs[2].asset = USDT
      /\ legs[1].amount = m /\ legs[2].amount = n
  BY DEF CollateralLegs, Leg, Accounts
<1> HIDE DEF legs
<1>2. 1..2 = {1, 2}
  OBVIOUS
<1>3. f[1] = m /\ f[2] = n
  BY <1>1, <1>2
<1> HIDE DEF f
<1>4. SumFunctionOnSet(f, {1, 2}) = 0 /\ SumFunctionOnSet(f, {}) = 0
  <2>1. SumFunctionOnSet(f, {1, 2}) = f[1] + f[2]
    <3>1. f[1] \in Int /\ f[2] \in Int /\ 1 # 2
      BY <1>3
    <3> QED BY ONLY <3>1, SumTwo
  <2> QED BY <1>3, <2>1, SumEmpty
<1>5. {i \in 1..2 : legs[i].user = v /\ legs[i].asset = USDT} \in {{1, 2}, {}}
  BY <1>1, <1>2
<1>6. RowSum(legs, 2, v, USDT)
        = SumFunctionOnSet(f, {i \in 1..2 : legs[i].user = v /\ legs[i].asset = USDT})
  BY DEF RowSum, f
<1> QED BY <1>1, <1>4, <1>5, <1>6 DEF legs

\* A transaction that moves each balance by what it posts.
LEMMA PostingKeeps ==
    ASSUME AccountConsistent, NEW ref \in Refs, ref \notin DOMAIN entries,
           NEW legs \in Seq(Leg), Post(ref, legs), users' = users,
           available' \in [Accounts -> [{USDT} -> Nat]],
           frozen' \in [Accounts -> [{USDT} -> Nat]],
           \A u \in Accounts :
              available'[u][USDT] + frozen'[u][USDT]
                 = available[u][USDT] + frozen[u][USDT] + RowSum(legs, Len(legs), u, USDT)
    PROVE  AccountConsistent' /\ DOMAIN entries' = DOMAIN entries \cup {ref}
<1> DEFINE D == DOMAIN entries
<1>1. /\ LedgerTypeOK /\ IsFiniteSet(D) /\ D \subseteq Refs
      /\ \A r \in D : entries[r] \in Seq(Leg)
      /\ available \in [Accounts -> [{USDT} -> Nat]]
      /\ frozen \in [Accounts -> [{USDT} -> Nat]]
      /\ users \subseteq Accounts
  BY DEF AccountConsistent, LedgerTypeOK, Accounts
<1>2. /\ DOMAIN entries' = D \cup {ref} /\ entries'[ref] = legs
      /\ \A r \in D : entries'[r] = entries[r]
  BY DEF Post
<1>3. LedgerTypeOK'
  BY <1>1, <1>2 DEF LedgerTypeOK, Accounts
<1>4. IsFiniteSet(DOMAIN entries')
  BY <1>1, <1>2, FS_AddElement
<1>5. ASSUME NEW u \in Accounts
      PROVE  available'[u][USDT] + frozen'[u][USDT] = Deposits[u] + Posted(u, USDT)'
  <2> DEFINE f == [r \in D |-> RowSum(entries[r], Len(entries[r]), u, USDT)]
             g == [r \in D \cup {ref} |-> RowSum(entries'[r], Len(entries'[r]), u, USDT)]
             x == RowSum(legs, Len(legs), u, USDT)
             E == D \cup {ref}
  <2>1. \A r \in D : f[r] \in Int /\ g[r] = f[r]
    <3>1. \A r \in D : Len(entries[r]) \in 0..Len(entries[r])
      BY <1>1
    <3> QED BY <1>1, <1>2, <3>1, RowSumType
  <2>2. x \in Int /\ g[ref] = x
    <3>1. Len(legs) \in 0..Len(legs)
      OBVIOUS
    <3> QED BY <1>2, <3>1, RowSumType
  <2>3. Posted(u, USDT) = SumFunctionOnSet(f, D)
    BY DEF Posted, SumFunction
  <2>4. Posted(u, USDT)' = SumFunctionOnSet(g, E)
    BY <1>2 DEF Posted, SumFunction
  <2> HIDE DEF f, g, x, D
  <2>5. SumFunctionOnSet(g, E) = SumFunctionOnSet(g, D) + x
    <3>1. ref \notin D
      BY DEF D
    <3> QED BY <1>1, <2>1, <2>2, <3>1, SumAdd
  <2>6. SumFunctionOnSet(g, D) = SumFunctionOnSet(f, D) /\ SumFunctionOnSet(f, D) \in Int
    BY <1>1, <2>1, SumEqual, SumIsInt
  <2>7. /\ available[u][USDT] + frozen[u][USDT] = Deposits[u] + Posted(u, USDT)
        /\ available'[u][USDT] + frozen'[u][USDT] = available[u][USDT] + frozen[u][USDT] + x
    BY DEF AccountConsistent, PerpBalancesFollowLedger, Accounts, x
  <2>8. Deposits[u] \in Nat
    BY PerpAssumption DEF Accounts
  <2> DEFINE p == Posted(u, USDT)
             q == Posted(u, USDT)'
             b == available[u][USDT] + frozen[u][USDT]
             c == available'[u][USDT] + frozen'[u][USDT]
             d == Deposits[u]
  <2>9. p \in Int /\ q = p + x /\ b = d + p /\ c = b + x /\ d \in Int
    BY <2>3, <2>4, <2>5, <2>6, <2>7, <2>8
  <2> HIDE DEF p, q, b, c, d
  <2>10. c = d + q
    BY <2>2, <2>9
  <2> QED BY <2>10 DEF c, d, q
<1> QED BY <1>2, <1>3, <1>4, <1>5 DEF AccountConsistent, PerpBalancesFollowLedger, Accounts

\* A committed freeze or unfreeze.
LEMMA MoveKeeps ==
    ASSUME AccountConsistent, NEW u \in Accounts, NEW n \in Int, NEW ref \in {"freeze", "position"} \X Reqs
    PROVE  /\ Freeze(u, USDT, n, ref)
                => /\ AccountConsistent'
                   /\ <<"freeze", ref>> \notin DOMAIN entries
                   /\ DOMAIN entries' = DOMAIN entries \cup {<<"freeze", ref>>}
           /\ Unfreeze(u, USDT, n, ref)
                => /\ AccountConsistent'
                   /\ <<"unfreeze", ref>> \notin DOMAIN entries
                   /\ DOMAIN entries' = DOMAIN entries \cup {<<"unfreeze", ref>>}
<1>1. /\ available \in [Accounts -> [{USDT} -> Nat]]
      /\ frozen \in [Accounts -> [{USDT} -> Nat]]
  BY DEF AccountConsistent, LedgerTypeOK, Accounts
<1>2. <<"freeze", ref>> \in Refs /\ <<"unfreeze", ref>> \in Refs
  BY DEF Refs
<1>3. ASSUME NEW d \in Int, NEW kind \in {"freeze", "unfreeze"}, <<kind, ref>> \notin DOMAIN entries,
             available' = [available EXCEPT ![u][USDT] = @ + d],
             frozen' = [frozen EXCEPT ![u][USDT] = @ - d],
             available[u][USDT] + d \in Nat, frozen[u][USDT] - d \in Nat,
             Post(<<kind, ref>>, CollateralLegs(u, USDT, d, -d)), users' = users
      PROVE  AccountConsistent' /\ DOMAIN entries' = DOMAIN entries \cup {<<kind, ref>>}
  <2> DEFINE legs == CollateralLegs(u, USDT, d, -d)
  <2>1. -d \in Int /\ d = -(-d)
    OBVIOUS
  <2>2. /\ legs \in Seq(Leg) /\ Len(legs) = 2
        /\ \A v : RowSum(legs, 2, v, USDT) = 0
    BY <2>1, CollateralLegsCancel
  <2> HIDE DEF legs
  <2>3. /\ available' \in [Accounts -> [{USDT} -> Nat]]
        /\ frozen' \in [Accounts -> [{USDT} -> Nat]]
    BY <1>1, <1>3
  <2>4. ASSUME NEW v \in Accounts
        PROVE  available'[v][USDT] + frozen'[v][USDT]
                 = available[v][USDT] + frozen[v][USDT] + RowSum(legs, Len(legs), v, USDT)
    <3> DEFINE a == available[v][USDT]
               f == frozen[v][USDT]
               a2 == available'[v][USDT]
               f2 == frozen'[v][USDT]
    <3>1. a \in Nat /\ f \in Nat
      BY <1>1
    <3>2. RowSum(legs, Len(legs), v, USDT) = 0
      BY <2>2
    <3>3. (a2 = a + d /\ f2 = f - d) \/ (a2 = a /\ f2 = f)
      BY <1>1, <1>3
    <3> HIDE DEF a, f, a2, f2
    <3>4. a2 + f2 = a + f + 0
      BY <3>1, <3>3
    <3> QED BY <3>2, <3>4 DEF a, f, a2, f2
  <2>5. <<kind, ref>> \in Refs
    BY <1>2
  <2>6. Post(<<kind, ref>>, legs)
    BY <1>3 DEF legs
  <2> QED BY <1>3, <2>2, <2>3, <2>4, <2>5, <2>6, PostingKeeps
<1>4. ASSUME Freeze(u, USDT, n, ref)
      PROVE  /\ AccountConsistent' /\ <<"freeze", ref>> \notin DOMAIN entries
             /\ DOMAIN entries' = DOMAIN entries \cup {<<"freeze", ref>>}
  <2> DEFINE d == -n
             a == available[u][USDT]
             f == frozen[u][USDT]
  <2>1. /\ n > 0 /\ a >= n /\ <<"freeze", ref>> \notin DOMAIN entries
        /\ available' = [available EXCEPT ![u][USDT] = a - n]
        /\ frozen' = [frozen EXCEPT ![u][USDT] = f + n]
        /\ Post(<<"freeze", ref>>, CollateralLegs(u, USDT, -n, n)) /\ users' = users
    BY <1>4 DEF Freeze, FreezeOK
  <2>2. a \in Nat /\ f \in Nat
    BY <1>1
  <2>3. d \in Int /\ -d = n
    OBVIOUS
  <2> HIDE DEF d, a, f
  <2>4. a - n = a + d /\ f + n = f - d /\ a + d \in Nat /\ f - d \in Nat
    BY <2>1, <2>2 DEF d
  <2>5. Post(<<"freeze", ref>>, CollateralLegs(u, USDT, d, -d))
    BY <2>1, <2>3 DEF d
  <2> QED BY <1>3, <2>1, <2>3, <2>4, <2>5 DEF a, f
<1>5. ASSUME Unfreeze(u, USDT, n, ref)
      PROVE  /\ AccountConsistent' /\ <<"unfreeze", ref>> \notin DOMAIN entries
             /\ DOMAIN entries' = DOMAIN entries \cup {<<"unfreeze", ref>>}
  <2> DEFINE a == available[u][USDT]
             f == frozen[u][USDT]
  <2>1. /\ n > 0 /\ f >= n /\ <<"unfreeze", ref>> \notin DOMAIN entries
        /\ available' = [available EXCEPT ![u][USDT] = a + n]
        /\ frozen' = [frozen EXCEPT ![u][USDT] = f - n]
        /\ Post(<<"unfreeze", ref>>, CollateralLegs(u, USDT, n, -n)) /\ users' = users
    BY <1>5 DEF Unfreeze, UnfreezeOK
  <2>2. a \in Nat /\ f \in Nat
    BY <1>1
  <2> HIDE DEF a, f
  <2>3. a + n \in Nat /\ f - n \in Nat
    BY <2>1, <2>2
  <2> QED BY <1>3, <2>1, <2>3 DEF a, f
<1> QED BY <1>4, <1>5

\* A committed transfer between a trader and the house.
LEMMA TransferKeeps ==
    ASSUME AccountConsistent, NEW trade \in {"pnl", "funding"} \X Reqs \X Nat,
           NEW pos, pos.user \in Traders, NEW n \in Int, SettleBalanced(trade, pos, n)
    PROVE  /\ AccountConsistent'
           /\ <<"trade", trade>> \notin DOMAIN entries
           /\ DOMAIN entries' = DOMAIN entries \cup {<<"trade", trade>>}
<1> DEFINE legs == TransferLegs(pos.user, House, USDT, n)
<1>1. /\ available \in [Accounts -> [{USDT} -> Nat]]
      /\ frozen \in [Accounts -> [{USDT} -> Nat]]
  BY DEF AccountConsistent, LedgerTypeOK, Accounts
<1>2. legs \in Seq(Leg)
  BY DEF TransferLegs, Leg
<1>3. /\ <<"trade", trade>> \notin DOMAIN entries /\ LegsApply(legs)
      /\ available' = [u \in Accounts |-> [a \in {USDT} |->
                           available[u][a] + RowSum(legs, Len(legs), u, a)]]
      /\ frozen' = [u \in Accounts |-> [a \in {USDT} |->
                           frozen[u][a] - RowSum(<<>>, Len(<<>>), u, a)]]
      /\ Post(<<"trade", trade>>, legs) /\ users' = users
  BY DEF SettleBalanced, SettleTrade, SettleTradeOK, Accounts
<1> HIDE DEF legs
<1>4. Len(legs) \in 0..Len(legs)
  BY <1>2
<1>5. ASSUME NEW u \in Accounts
      PROVE  /\ available'[u][USDT] = available[u][USDT] + RowSum(legs, Len(legs), u, USDT)
             /\ available'[u][USDT] \in Nat /\ frozen'[u][USDT] = frozen[u][USDT]
             /\ RowSum(legs, Len(legs), u, USDT) \in Int
             /\ available[u][USDT] \in Nat /\ frozen[u][USDT] \in Nat
  <2>1. available[u][USDT] + RowSum(legs, Len(legs), u, USDT) \in Nat
    BY <1>3, <1>4 DEF LegsApply, Accounts
  <2>2. RowSum(<<>>, Len(<<>>), u, USDT) = 0
    <3>1. Len(<<>>) = 0
      OBVIOUS
    <3> QED BY <3>1, RowSumOfNone
  <2>3. available[u][USDT] \in Nat /\ frozen[u][USDT] \in Nat
    BY <1>1
  <2>4. frozen'[u][USDT] = frozen[u][USDT] - 0
    BY <1>3, <2>2
  <2>5. RowSum(legs, Len(legs), u, USDT) \in Int
    BY <1>2, <1>4, RowSumType
  <2> QED BY <1>3, <2>1, <2>3, <2>4, <2>5
<1>6. /\ available' \in [Accounts -> [{USDT} -> Nat]]
      /\ frozen' \in [Accounts -> [{USDT} -> Nat]]
  BY <1>3, <1>5
<1>7. ASSUME NEW u \in Accounts
      PROVE  available'[u][USDT] + frozen'[u][USDT]
               = available[u][USDT] + frozen[u][USDT] + RowSum(legs, Len(legs), u, USDT)
  <2> DEFINE a == available[u][USDT]
             f == frozen[u][USDT]
             x == RowSum(legs, Len(legs), u, USDT)
             b == available'[u][USDT]
             g == frozen'[u][USDT]
  <2>1. b = a + x /\ g = f /\ a \in Nat /\ f \in Nat /\ x \in Int
    BY <1>5
  <2> HIDE DEF a, f, x, b, g
  <2>2. b + g = a + f + x
    BY <2>1
  <2> QED BY <2>2 DEF a, f, x, b, g
<1>8. <<"trade", trade>> \in Refs
  BY DEF Refs
<1> QED BY <1>2, <1>3, <1>6, <1>7, <1>8, PostingKeeps
-----------------------------------------------------------------------------
(* The invariant *)

Opening == {"position", "freeze", "upsert", "undo"}
Closing == {"mark", "unfreeze", "settle", "write"}
Stages == Ended \cup Opening \cup Closing
            \cup {"event", "scan", "liquidate", "fund", "pay", "record"}

PnLTrades == {"pnl"} \X Reqs \X Nat
FundingTrades == {"funding"} \X Reqs \X Nat
Trades == {"pnl", "funding"} \X Reqs \X Nat

RunRecord == [at : Stages, user : Traders \cup {None}, pos : Row \cup {None},
              mark : Nat, todo : SUBSET Row, trade : Trades \cup {None}]

Opens(p, q) == p \in Reqs /\ q[p].op = "open"

\* ClosePnL of a run r of p, with the payloads q.
SizeOf(p, r, q) ==
    IF p \in Reqs /\ q[p].size \in 1..r.pos.size THEN q[p].size ELSE r.pos.size
PnLOf(p, r, q) == RealizedPnL(r.pos.side, SizeOf(p, r, q), r.pos.entry, r.mark)

\* What a run has read and settled when it comes to each stage; D are the
\* references in the ledger.
Staged(p, r, q, D) ==
    /\ r.at \in Opening => /\ p \in Reqs /\ q[p].op = "open"
                           /\ q[p].leverage \in 1..MaxLeverage
    /\ r.at \in Closing => p \in Reqs \cup Scanners /\ ~Opens(p, q) /\ r.pos # None
    /\ r.at \in {"scan", "liquidate"} => p \in Scanners
    /\ r.at \in {"fund", "pay", "record"} => p \in Settlers
    /\ r.at = "liquidate" => r.user \in Traders
    /\ r.at \in {"pay", "event"} => r.pos # None
    /\ r.at = "event" => p \in Reqs \cup Scanners
    /\ r.at \in {"write", "event"} /\ ~Opens(p, q) =>
          /\ r.trade \in PnLTrades
          /\ PnLOf(p, r, q) # 0 => <<"trade", r.trade>> \in D
    /\ r.at = "record" => r.trade \in FundingTrades /\ <<"trade", r.trade>> \in D

\* A run settles the PnL of a position only after it has used up the one
\* release of its margin, and so at most once.
ReleaseOf(id) == <<"unfreeze", <<"position", id>>>>
IsPnL(i) == i[1] = "trade" /\ i[2][1] = "pnl"
PnLRefs(D, id) == {i \in D : IsPnL(i) /\ i[2][2] = id}

PaidOnce(rs, D) ==
    /\ \A p \in Procs : rs[p].at = "settle" =>
          ReleaseOf(rs[p].pos.id) \in D /\ PnLRefs(D, rs[p].pos.id) = {}
    /\ \A p, o \in Procs : rs[p].at = "settle" /\ rs[o].at = "settle"
                              /\ rs[p].pos.id = rs[o].pos.id => p = o
    /\ \A id \in Reqs : PnLRefs(D, id) # {} => ReleaseOf(id) \in D
    /\ \A id \in Reqs : \A i, j \in PnLRefs(D, id) : i = j

\* The tables of the perp store, the requests and the bounds.
TablesOK ==
    /\ mark \in Nat \ {0}
    /\ positions \in [Traders -> Row \cup {None}]
    /\ \A u \in Traders : positions[u] # None => positions[u].user = u
    /\ events \subseteq [type : {"OPEN"}, pnl : {0}, ref : Reqs]
         \cup [type : {"CLOSE", "LIQUIDATION"}, pnl : Int, ref : PnLTrades]
    /\ rates \in 0..MaxRates
    /\ payments \subseteq FundingTrades
    /\ req \in [Reqs -> Payloads]
    /\ ticks \in 0..MaxTicks
    /\ faults \in 0..MaxFaults

PerpConsistent ==
    /\ AccountConsistent
    /\ TablesOK
    /\ JournalIsSettled
    /\ run \in [Procs -> RunRecord]
    /\ \A p \in Procs : Staged(p, run[p], req, DOMAIN entries)
    /\ PaidOnce(run, DOMAIN entries)

\* The invariant contains the types.
LEMMA ConsistentIsTyped == PerpConsistent => PerpTypeOK
<1> SUFFICES ASSUME PerpConsistent PROVE PerpTypeOK
  OBVIOUS
<1>1. RunRecord = [at : Ended \cup {"position", "freeze", "upsert", "undo", "mark",
                                 "unfreeze", "settle", "write", "event", "scan",
                                 "liquidate", "fund", "pay", "record"},
                   user : Traders \cup {None}, pos : Row \cup {None},
                   mark : Nat, todo : SUBSET Row,
                   trade : ({"pnl", "funding"} \X Reqs \X Nat) \cup {None}]
  <2>1. Stages = Ended \cup {"position", "freeze", "upsert", "undo", "mark",
                             "unfreeze", "settle", "write", "event", "scan",
                             "liquidate", "fund", "pay", "record"}
    BY DEF Stages, Opening, Closing
  <2> QED BY <2>1 DEF RunRecord, Trades
<1> QED BY <1>1 DEF PerpConsistent, AccountConsistent, TablesOK, PerpTypeOK,
              PnLTrades, FundingTrades

\* The realised profit of the same journal is the same.
LEMMA SamePnL == \A p : ClosePnL(p) = PnLOf(p, run[p], req)
  BY DEF ClosePnL, CloseSize, PnLOf, SizeOf

\* A row is not None, and the fields of a row and of a request.
LEMMA Fields ==
    /\ \A row \in Row : /\ row # None /\ row.id \in Reqs /\ row.user \in Traders
                        /\ row.side \in PositionSides /\ row.size \in Nat \ {0}
                        /\ row.entry \in Nat /\ row.margin \in Nat \ {0}
    /\ \A r \in Payloads : /\ r.op \in {"open", "close"} /\ r.user \in Traders
                           /\ r.size \in Nat /\ r.leverage \in Nat
<1>1. \A row \in Row : row \in [id : Reqs, user : Traders, side : PositionSides,
                               size : Nat, entry : Nat, margin : Nat]
  BY DEF Row
<1>2. \A row \in Row : row # None
  BY <1>1, PerpAssumption
<1>3. \A r \in Payloads : r \in Payload
  BY PerpAssumption
<1> QED BY <1>2, <1>3 DEF Row, Payload
-----------------------------------------------------------------------------
(* Steps of one run *)

\* The other runs find what they rely on: the ledger only grows.
LEMMA StepOfOne ==
    ASSUME PerpConsistent, NEW p \in Procs, NEW r \in RunRecord,
           run' = [run EXCEPT ![p] = r], req' = req,
           AccountConsistent', DOMAIN entries \subseteq DOMAIN entries',
           TablesOK', JournalIsSettled', PaidOnce(run', DOMAIN entries'),
           Staged(p, r, req, DOMAIN entries')
    PROVE  PerpConsistent'
<1>1. /\ run' \in [Procs -> RunRecord] /\ run'[p] = r
      /\ \A o \in Procs \ {p} : run'[o] = run[o]
  BY DEF PerpConsistent
<1>2. ASSUME NEW o \in Procs PROVE Staged(o, run'[o], req', DOMAIN entries')
  <2>1. CASE o = p
    BY <1>1, <2>1
  <2>2. CASE o # p
    <3>1. Staged(o, run[o], req, DOMAIN entries) /\ run'[o] = run[o]
      BY <1>1, <2>2 DEF PerpConsistent
    <3> QED BY <3>1 DEF Staged
  <2> QED BY <2>1, <2>2
<1> QED BY <1>1, <1>2 DEF PerpConsistent

\* No release of margin is used up and no PnL is posted.
LEMMA PaidOnceKept ==
    ASSUME PerpConsistent, NEW p \in Procs, NEW r, r.at # "settle",
           run' = [run EXCEPT ![p] = r],
           NEW E, DOMAIN entries \subseteq E,
           \A i \in E : i \in DOMAIN entries \/ ~IsPnL(i)
    PROVE  PaidOnce(run', E)
<1> DEFINE D == DOMAIN entries
<1>1. /\ PaidOnce(run, D) /\ run'[p] = r
      /\ \A o \in Procs \ {p} : run'[o] = run[o]
  BY DEF PerpConsistent
<1>2. \A id : PnLRefs(E, id) = PnLRefs(D, id)
  BY DEF PnLRefs
<1>3. \A o \in Procs : run'[o].at = "settle" => run[o].at = "settle" /\ run'[o] = run[o]
  BY <1>1
<1> HIDE DEF D
<1> QED BY <1>1, <1>2, <1>3 DEF PaidOnce, D

\* A step that leaves the account service alone.
LEMMA AccountsStay ==
    ASSUME PerpConsistent, UNCHANGED accountVars
    PROVE  AccountConsistent' /\ entries' = entries
<1>1. UNCHANGED <<users, available, frozen, entries>>
  BY DEF accountVars
<1>2. LedgerTypeOK' /\ IsFiniteSet(DOMAIN entries')
  BY <1>1 DEF PerpConsistent, AccountConsistent, LedgerTypeOK
<1>3. PerpBalancesFollowLedger'
  BY <1>1 DEF PerpConsistent, AccountConsistent, PerpBalancesFollowLedger, Posted
<1> QED BY <1>1, <1>2, <1>3 DEF AccountConsistent

\* A step that reads, or fails: only the run changes.
LEMMA LocalStep ==
    ASSUME PerpConsistent, NEW p \in Procs, NEW r \in RunRecord,
           run' = [run EXCEPT ![p] = r], UNCHANGED <<accountVars, storeVars, req, ticks>>,
           faults' \in 0..MaxFaults, r.at # "settle",
           Staged(p, r, req, DOMAIN entries)
    PROVE  PerpConsistent'
<1>1. /\ UNCHANGED <<users, available, frozen, entries>>
      /\ UNCHANGED <<mark, positions, events, rates, payments, req, ticks>>
  BY DEF accountVars, storeVars
<1>2. AccountConsistent'
  BY AccountsStay
<1>3. TablesOK' /\ JournalIsSettled'
  BY <1>1 DEF PerpConsistent, TablesOK, JournalIsSettled
<1>4. PaidOnce(run', DOMAIN entries')
  BY <1>1, PaidOnceKept
<1> QED BY <1>1, <1>2, <1>3, <1>4, StepOfOne

\* A run with another stage.
At(r, at) == [r EXCEPT !.at = at]

\* The stages in which a run relies on nothing it has read.
Resting(p) == Ended \cup (IF p \in Scanners THEN {"scan"} ELSE {})
                    \cup (IF p \in Settlers THEN {"fund"} ELSE {})

\* What the invariant says of one run.
LEMMA RunFacts ==
    ASSUME PerpConsistent, NEW p \in Procs
    PROVE  /\ run[p] \in RunRecord /\ Staged(p, run[p], req, DOMAIN entries)
           /\ p \in Reqs => req[p] \in Payloads /\ req[p].user \in Traders
                            /\ req[p].size \in Nat /\ req[p].leverage \in Nat
                            /\ positions[req[p].user] \in Row \cup {None}
           /\ mark \in Nat \ {0} /\ faults \in 0..MaxFaults
  BY Fields DEF PerpConsistent, TablesOK

\* Goto changes the stage and nothing else.
LEMMA GotoRecord ==
    ASSUME PerpConsistent, NEW p \in Procs, NEW at \in Stages
    PROVE  /\ At(run[p], at) \in RunRecord /\ At(run[p], at).at = at
           /\ At(run[p], at).user = run[p].user /\ At(run[p], at).pos = run[p].pos
           /\ At(run[p], at).mark = run[p].mark /\ At(run[p], at).trade = run[p].trade
           /\ Goto(p, at) => run' = [run EXCEPT ![p] = At(run[p], at)]
<1>1. run[p] \in RunRecord /\ run \in [Procs -> RunRecord]
  BY DEF PerpConsistent
<1> QED BY <1>1 DEF At, RunRecord, Goto

\* OnError takes a run where it relies on nothing.
LEMMA ErrorRests ==
    ASSUME NEW p \in Procs
    PROVE  OnError(p) \in Resting(p) /\ "failed" \in Resting(p) /\ Resting(p) \subseteq Stages
  BY DEF OnError, Resting, Procs, Ended, Stages

\* A stage in which a run relies on nothing is consistent with anything.
LEMMA RestingIsStaged ==
    ASSUME NEW p \in Procs, NEW r, r.at \in Resting(p), NEW q, NEW D
    PROVE  Staged(p, r, q, D) /\ r.at # "settle"
  BY PerpAssumption DEF Staged, Resting, Ended, Opening, Closing, Procs

\* A call that fails, or a run that goes on with its next row.
LEMMA RestStep ==
    ASSUME PerpConsistent, NEW p \in Procs, NEW at \in Resting(p), Goto(p, at),
           UNCHANGED <<accountVars, storeVars, req, ticks>>, faults' \in 0..MaxFaults
    PROVE  PerpConsistent'
<1> DEFINE r == At(run[p], at)
<1>1. /\ r \in RunRecord /\ r.at = at /\ run' = [run EXCEPT ![p] = r]
  BY GotoRecord, ErrorRests
<1> HIDE DEF r
<1>2. Staged(p, r, req, DOMAIN entries) /\ r.at # "settle"
  BY <1>1, RestingIsStaged
<1> QED BY <1>1, <1>2, LocalStep
-----------------------------------------------------------------------------
(* Open *)

\* The payload is checked and the mark read.
LEMMA OpenReadMarkKeeps ==
    ASSUME PerpConsistent, NEW p \in Reqs, OpenReadMark(p)
    PROVE  PerpConsistent'
<1> DEFINE accepted == req[p].leverage \in 1..MaxLeverage /\ req[p].size > 0
           at == IF accepted THEN "position" ELSE "failed"
           r == [run[p] EXCEPT !.at = at, !.mark = mark]
<1>1. /\ p \in Procs /\ req[p].op = "open"
      /\ run' = [run EXCEPT ![p] = r]
      /\ UNCHANGED <<accountVars, storeVars, req, ticks>> /\ faults' = faults
  BY DEF OpenReadMark, Procs, PerpConsistent
<1>2. at \in {"position", "failed"} /\ (at = "position" => req[p].leverage \in 1..MaxLeverage)
  OBVIOUS
<1> HIDE DEF at
<1>3. r \in RunRecord /\ r.at = at
  BY <1>1, <1>2, RunFacts DEF RunRecord, Stages, Opening, Ended
<1> HIDE DEF r
<1>4. Staged(p, r, req, DOMAIN entries) /\ r.at # "settle"
  BY <1>1, <1>2, <1>3 DEF Staged, Opening, Closing
<1>5. faults' \in 0..MaxFaults
  BY <1>1, RunFacts
<1> QED BY <1>1, <1>3, <1>4, <1>5, LocalStep

\* The row to add to is read.
LEMMA OpenReadPositionKeeps ==
    ASSUME PerpConsistent, NEW p \in Reqs, OpenReadPosition(p)
    PROVE  PerpConsistent'
<1> DEFINE row == positions[req[p].user]
           at == IF row # None /\ row.side # req[p].side THEN "failed" ELSE "freeze"
           r == [run[p] EXCEPT !.pos = row, !.at = at]
<1>1. /\ p \in Procs /\ run[p].at = "position"
      /\ run' = [run EXCEPT ![p] = r]
      /\ UNCHANGED <<accountVars, storeVars, req, ticks>> /\ faults' = faults
  BY DEF OpenReadPosition, Procs, PerpConsistent
<1>2. at \in {"freeze", "failed"} /\ row \in Row \cup {None}
  BY <1>1, RunFacts
<1> HIDE DEF at, row
<1>3. r \in RunRecord /\ r.at = at
  BY <1>1, <1>2, RunFacts DEF RunRecord, Stages, Opening, Ended
<1> HIDE DEF r
<1>4. req[p].op = "open" /\ req[p].leverage \in 1..MaxLeverage
  BY <1>1, RunFacts DEF Staged, Opening
<1>5. Staged(p, r, req, DOMAIN entries) /\ r.at # "settle"
  BY <1>2, <1>3, <1>4 DEF Staged, Opening, Closing
<1>6. faults' \in 0..MaxFaults
  BY <1>1, RunFacts
<1> QED BY <1>1, <1>3, <1>5, <1>6, LocalStep

\* A call to the account service that commits: the ledger grows, the tables of
\* the perp store stay.
LEMMA AccountStep ==
    ASSUME PerpConsistent, NEW p \in Procs, NEW r \in RunRecord,
           run' = [run EXCEPT ![p] = r], UNCHANGED <<storeVars, req, ticks, faults>>,
           AccountConsistent', DOMAIN entries \subseteq DOMAIN entries',
           PaidOnce(run', DOMAIN entries'), Staged(p, r, req, DOMAIN entries')
    PROVE  PerpConsistent'
<1>1. UNCHANGED <<mark, positions, events, rates, payments, req, ticks, faults>>
  BY DEF storeVars
<1>2. TablesOK'
  BY <1>1 DEF PerpConsistent, TablesOK
<1>3. JournalIsSettled'
  BY <1>1 DEF PerpConsistent, JournalIsSettled
<1> QED BY <1>1, <1>2, <1>3, StepOfOne

\* The margin of what a request adds is a natural number.
LEMMA AddMarginType ==
    ASSUME PerpConsistent, NEW p \in Reqs, run[p].at \in Opening
    PROVE  addMargin(p) \in Nat
<1>1. p \in Procs
  BY DEF Procs
<1>2. req[p].size \in Nat /\ req[p].leverage \in Nat \ {0} /\ run[p].mark \in Nat
  <2>1. run[p].mark \in Nat
    BY <1>1, RunFacts DEF RunRecord
  <2>2. req[p].leverage \in 1..MaxLeverage
    BY <1>1, RunFacts DEF Staged
  <2>3. req[p].leverage # 0
    BY <2>2, PerpAssumption
  <2> QED BY <1>1, <2>1, <2>3, RunFacts
<1> DEFINE n == Notional(req[p].size, run[p].mark)
           l == req[p].leverage
<1>3. n \in Nat /\ l \in Nat \ {0}
  BY <1>2, ProductType DEF Notional
<1> HIDE DEF n, l
<1>4. Div(n, l) \in Nat
  BY <1>3, DivType
<1> QED BY <1>4 DEF addMargin, InitialMargin, n, l

\* The margin is frozen, or the request fails.
LEMMA OpenFreezeKeeps ==
    ASSUME PerpConsistent, NEW p \in Reqs, OpenFreeze(p)
    PROVE  PerpConsistent'
<1>1. /\ p \in Procs /\ run[p].at = "freeze" /\ "freeze" \in Opening
      /\ UNCHANGED <<storeVars, req, ticks, faults>>
  BY DEF OpenFreeze, Procs, Opening
<1>2. CASE Freeze(req[p].user, USDT, addMargin(p), <<"freeze", p>>) /\ Goto(p, "upsert")
  <2> DEFINE r == At(run[p], "upsert")
             ref == <<"freeze", <<"freeze", p>>>>
  <2>1. addMargin(p) \in Int
    BY <1>1, AddMarginType
  <2>2. req[p].user \in Accounts /\ <<"freeze", p>> \in {"freeze", "position"} \X Reqs
    BY <1>1, RunFacts DEF Accounts
  <2>3. /\ AccountConsistent' /\ DOMAIN entries' = DOMAIN entries \cup {ref}
    BY <1>2, <2>1, <2>2, MoveKeeps DEF PerpConsistent
  <2>4. /\ r \in RunRecord /\ r.at = "upsert" /\ run' = [run EXCEPT ![p] = r]
    BY <1>1, <1>2, GotoRecord DEF Stages, Opening
  <2> HIDE DEF r
  <2>5. PaidOnce(run', DOMAIN entries')
    <3>1. \A i \in DOMAIN entries' : i \in DOMAIN entries \/ ~IsPnL(i)
      BY <2>3 DEF IsPnL
    <3> QED BY <1>1, <2>3, <2>4, <3>1, PaidOnceKept
  <2>6. Staged(p, r, req, DOMAIN entries')
    BY <1>1, <2>4, RunFacts DEF Staged, Opening, Closing
  <2> QED BY <1>1, <2>3, <2>4, <2>5, <2>6, AccountStep
<1>3. CASE Goto(p, "failed") /\ UNCHANGED accountVars
  <2>1. faults' \in 0..MaxFaults
    BY <1>1, RunFacts
  <2> QED BY <1>1, <1>3, <2>1, ErrorRests, RestStep
<1> QED BY <1>2, <1>3 DEF OpenFreeze

\* The margin is given back, or an error is ignored.
LEMMA OpenUndoKeeps ==
    ASSUME PerpConsistent, NEW p \in Reqs, OpenUndo(p)
    PROVE  PerpConsistent'
<1>1. /\ p \in Procs /\ run[p].at = "undo" /\ "undo" \in Opening
      /\ Goto(p, "failed") /\ UNCHANGED <<storeVars, req, ticks, faults>>
  BY DEF OpenUndo, Procs, Opening
<1>2. CASE Unfreeze(req[p].user, USDT, addMargin(p), <<"freeze", p>>)
  <2> DEFINE r == At(run[p], "failed")
             ref == <<"unfreeze", <<"freeze", p>>>>
  <2>1. addMargin(p) \in Int
    BY <1>1, AddMarginType
  <2>2. req[p].user \in Accounts /\ <<"freeze", p>> \in {"freeze", "position"} \X Reqs
    BY <1>1, RunFacts DEF Accounts
  <2>3. /\ AccountConsistent' /\ DOMAIN entries' = DOMAIN entries \cup {ref}
    BY <1>2, <2>1, <2>2, MoveKeeps DEF PerpConsistent
  <2>4. /\ r \in RunRecord /\ r.at = "failed" /\ run' = [run EXCEPT ![p] = r]
    BY <1>1, GotoRecord DEF Stages, Ended
  <2> HIDE DEF r
  <2>5. PaidOnce(run', DOMAIN entries')
    <3>1. \A i \in DOMAIN entries' : i \in DOMAIN entries \/ ~IsPnL(i)
      BY <2>3 DEF IsPnL
    <3> QED BY <1>1, <2>3, <2>4, <3>1, PaidOnceKept
  <2>6. Staged(p, r, req, DOMAIN entries')
    BY <1>1, <2>4, ErrorRests, RestingIsStaged
  <2> QED BY <1>1, <2>3, <2>4, <2>5, <2>6, AccountStep
<1>3. CASE UNCHANGED accountVars
  <2>1. faults' \in 0..MaxFaults
    BY <1>1, RunFacts
  <2> QED BY <1>1, <1>3, <2>1, ErrorRests, RestStep
<1> QED BY <1>2, <1>3 DEF OpenUndo

\* Rows in the table.
LEMMA PositionsAreRows == PerpConsistent => Positions \subseteq Row
  BY DEF PerpConsistent, TablesOK, Positions

\* What Open writes is a row of the table.
LEMMA OpenedRowType ==
    ASSUME PerpConsistent, NEW p \in Reqs, run[p].at = "upsert", UpsertOK(OpenedRow(p))
    PROVE  OpenedRow(p) \in Row
<1> DEFINE row == OpenedRow(p)
           old == run[p].pos
           m == addMargin(p)
           s == req[p].size
           x == run[p].mark
<1>0. p \in Procs /\ run[p].at \in Opening /\ req[p].user \in Traders
  <2>1. p \in Procs
    BY DEF Procs
  <2> QED BY <2>1, RunFacts DEF Opening
<1>1. m \in Nat /\ s \in Nat /\ x \in Nat /\ old \in Row \cup {None}
  BY <1>0, AddMarginType, RunFacts DEF RunRecord
<1>2. row.side \in PositionSides /\ row.size > 0 /\ row.margin > 0
  BY DEF UpsertOK
<1>3. CASE old = None
  <2>1. row = [id |-> p, user |-> req[p].user, side |-> req[p].side,
               size |-> s, entry |-> x, margin |-> m]
    BY <1>3 DEF OpenedRow
  <2>2. s > 0 /\ m > 0 /\ req[p].side \in PositionSides
    BY <1>2, <2>1
  <2>3. row \in Row
    <3> HIDE DEF m, s, x, row
    <3> QED BY <1>0, <1>1, <2>1, <2>2 DEF Row
  <2> QED BY <2>3
<1>4. CASE old # None
  <2> DEFINE e == WeightedEntryPrice(old.size, old.entry, s, x)
             new == [old EXCEPT !.size = @ + s, !.entry = e, !.margin = @ + m]
  <2>1. row = new
    BY <1>4 DEF OpenedRow
  <2>2. old \in Row
    BY <1>1, <1>4
  <2>3. old.size \in Nat \ {0} /\ old.entry \in Nat /\ old.margin \in Nat \ {0}
    BY <2>2, Fields
  <2> HIDE DEF m, s, x, old
  <2>4. old.size + s \in Nat \ {0} /\ old.margin + m \in Nat \ {0}
    BY <1>1, <2>3
  <2>5. e \in Nat
    <3>1. old.size * old.entry \in Nat /\ s * x \in Nat
      BY <1>1, <2>3, ProductType
    <3> DEFINE n == old.size * old.entry + s * x
               d == old.size + s
    <3>2. n \in Nat /\ d \in Nat \ {0}
      BY <2>4, <3>1
    <3> HIDE DEF n, d
    <3>3. Div(n, d) \in Nat
      BY <3>2, DivType
    <3> QED BY <3>3 DEF WeightedEntryPrice, n, d
  <2> HIDE DEF e
  <2>6. new \in Row
    BY <2>2, <2>4, <2>5 DEF Row
  <2> QED BY <2>1, <2>6
<1> QED BY <1>3, <1>4

\* The row a request adds is written, or the margin has to be given back.
LEMMA OpenUpsertKeeps ==
    ASSUME PerpConsistent, NEW p \in Reqs, OpenUpsert(p)
    PROVE  PerpConsistent'
<1>1. /\ p \in Procs /\ run[p].at = "upsert" /\ "upsert" \in Opening
      /\ UNCHANGED <<accountVars, mark, events, rates, payments, req, ticks>>
  BY DEF OpenUpsert, Procs, Opening
<1>2. req[p].op = "open" /\ req[p].user \in Traders /\ faults \in 0..MaxFaults
  BY <1>1, RunFacts DEF Staged, Opening
<1>3. AccountConsistent' /\ entries' = entries
  BY <1>1, AccountsStay
<1>4. JournalIsSettled'
  BY <1>1, <1>3 DEF PerpConsistent, JournalIsSettled
<1>5. CASE /\ UpsertPosition(OpenedRow(p)) /\ UNCHANGED faults
           /\ run' = [run EXCEPT ![p].at = "event", ![p].pos = OpenedRow(p)]
  <2> DEFINE row == OpenedRow(p)
             r == [run[p] EXCEPT !.at = "event", !.pos = row]
  <2>1. row \in Row
    BY <1>1, <1>5, OpenedRowType DEF UpsertPosition
  <2>2. run' = [run EXCEPT ![p] = r]
    BY <1>1, <1>5 DEF PerpConsistent
  <2> HIDE DEF row
  <2>3. /\ r \in RunRecord /\ r.at = "event" /\ r.pos = row
    BY <1>1, <2>1, RunFacts DEF RunRecord, Stages
  <2> HIDE DEF r
  <2>4. TablesOK'
    <3>1. row.user \in Traders /\ positions \in [Traders -> Row \cup {None}]
      BY <2>1, Fields DEF PerpConsistent, TablesOK
    <3> DEFINE old == positions[row.user]
               new == IF old = None THEN row ELSE [row EXCEPT !.id = old.id]
    <3>2. positions' = [positions EXCEPT ![row.user] = new]
      BY <1>5, <3>1 DEF UpsertPosition, row
    <3>3. new \in Row /\ new.user = row.user
      BY <2>1, <3>1, Fields DEF Row
    <3> HIDE DEF new
    <3> QED BY <1>1, <1>5, <3>1, <3>2, <3>3 DEF PerpConsistent, TablesOK
  <2>5. PaidOnce(run', DOMAIN entries')
    BY <1>1, <1>3, <2>2, <2>3, PaidOnceKept
  <2>6. Staged(p, r, req, DOMAIN entries')
    <3>1. row # None
      BY <2>1, Fields
    <3> QED BY <1>2, <2>3, <3>1 DEF Staged, Opening, Closing, Opens
  <2> QED BY <1>1, <1>3, <1>4, <2>2, <2>3, <2>4, <2>5, <2>6, StepOfOne
<1>6. CASE /\ UNCHANGED faults \/ Fault
           /\ Goto(p, "undo") /\ UNCHANGED positions
  <2> DEFINE r == At(run[p], "undo")
  <2>1. /\ r \in RunRecord /\ r.at = "undo" /\ run' = [run EXCEPT ![p] = r]
    BY <1>1, <1>6, GotoRecord DEF Stages, Opening
  <2> HIDE DEF r
  <2>2. UNCHANGED <<accountVars, storeVars, req, ticks>>
    BY <1>1, <1>6 DEF storeVars
  <2>3. faults' \in 0..MaxFaults
    BY <1>2, <1>6, PerpAssumption DEF Fault
  <2>4. Staged(p, r, req, DOMAIN entries)
    BY <1>1, <2>1, RunFacts DEF Staged, Opening, Closing
  <2> QED BY <1>1, <2>1, <2>2, <2>3, <2>4, LocalStep
<1> QED BY <1>5, <1>6 DEF OpenUpsert
-----------------------------------------------------------------------------
(* Close and Liquidate *)

\* A row is read to be closed: by its trader, or by the scan.
LEMMA CloseReadPositionKeeps ==
    ASSUME PerpConsistent, NEW p \in Procs,
           \/ CloseReadPosition(p) /\ p \in Reqs
           \/ LiquidateReadPosition(p) /\ p \in Scanners
    PROVE  PerpConsistent'
<1> DEFINE user == IF p \in Reqs THEN req[p].user ELSE run[p].user
           row == positions[user]
           at == IF row # None THEN "mark" ELSE IF p \in Reqs THEN "failed" ELSE "scan"
           r == [run[p] EXCEPT !.pos = row, !.at = at]
<1>1. /\ ~Opens(p, req) /\ p \in Reqs \cup Scanners /\ user \in Traders
      /\ run' = [run EXCEPT ![p] = r]
      /\ UNCHANGED <<accountVars, storeVars, req, ticks>> /\ faults' = faults
  <2>1. CASE CloseReadPosition(p) /\ p \in Reqs
    BY <2>1, RunFacts DEF CloseReadPosition, PerpConsistent, Opens
  <2>2. CASE LiquidateReadPosition(p) /\ p \in Scanners
    <3>1. p \notin Reqs
      BY <2>2, PerpAssumption
    <3>2. run[p].user \in Traders
      BY <2>2, RunFacts DEF LiquidateReadPosition, Staged
    <3> QED BY <2>2, <3>1, <3>2 DEF LiquidateReadPosition, PerpConsistent, Opens
  <2> QED BY <2>1, <2>2
<1>2. row \in Row \cup {None}
  BY <1>1 DEF PerpConsistent, TablesOK
<1>3. at \in {"mark", "failed", "scan"} /\ (at = "mark" => row # None)
      /\ (at = "scan" => p \in Scanners)
  BY <1>1
<1> HIDE DEF at, row, user
<1>4. r \in RunRecord /\ r.at = at /\ r.pos = row
  BY <1>2, <1>3, RunFacts DEF RunRecord, Stages, Closing, Ended
<1> HIDE DEF r
<1>5. Staged(p, r, req, DOMAIN entries) /\ r.at # "settle"
  BY <1>1, <1>3, <1>4 DEF Staged, Opening, Closing
<1>6. faults' \in 0..MaxFaults
  BY <1>1, RunFacts
<1> QED BY <1>1, <1>4, <1>5, <1>6, LocalStep

\* The mark of the close is read.
LEMMA CloseReadMarkKeeps ==
    ASSUME PerpConsistent, NEW p \in Procs, CloseReadMark(p)
    PROVE  PerpConsistent'
<1> DEFINE r == [run[p] EXCEPT !.mark = mark, !.at = "unfreeze"]
<1>1. /\ run[p].at = "mark" /\ run' = [run EXCEPT ![p] = r]
      /\ UNCHANGED <<accountVars, storeVars, req, ticks>> /\ faults' = faults
  BY DEF CloseReadMark, PerpConsistent
<1>2. r \in RunRecord /\ r.at = "unfreeze" /\ r.pos = run[p].pos
  BY RunFacts DEF RunRecord, Stages, Closing
<1> HIDE DEF r
<1>3. Staged(p, r, req, DOMAIN entries)
  BY <1>1, <1>2, RunFacts DEF Staged, Opening, Closing
<1>4. faults' \in 0..MaxFaults
  BY <1>1, RunFacts
<1> QED BY <1>1, <1>2, <1>3, <1>4, LocalStep

\* What a close computes from the row it has read.
LEMMA CloseTypes ==
    ASSUME PerpConsistent, NEW p \in Procs, run[p].at \in Closing \cup {"event"},
           ~Opens(p, req)
    PROVE  /\ run[p].pos \in Row /\ p \in Reqs \cup Scanners
           /\ CloseSize(p) \in 1..run[p].pos.size
           /\ MarginRelease(p) \in Nat
           /\ ClosePnL(p) \in Int
<1> DEFINE pos == run[p].pos
           held == pos.size
           m == pos.margin
           e == pos.entry
           x == run[p].mark
           s == CloseSize(p)
<1>1. pos \in Row /\ p \in Reqs \cup Scanners /\ x \in Nat
  BY RunFacts DEF Staged, RunRecord, Closing
<1>2. held \in Nat \ {0} /\ m \in Nat /\ e \in Nat
  BY <1>1, Fields
<1>3. s = held \/ s \in 1..held
  BY DEF CloseSize
<1> HIDE DEF held, m, e, x, s
<1>4. s \in 1..held /\ s \in Nat
  BY <1>2, <1>3
<1>5. MarginRelease(p) \in Nat
  <2> DEFINE n == m * s
  <2>1. n \in Nat
    BY <1>2, <1>4, ProductType
  <2> HIDE DEF n
  <2>2. Div(n, held) \in Nat
    BY <1>2, <2>1, DivType
  <2> QED BY <2>2 DEF MarginRelease, n, m, s, held
<1>6. ClosePnL(p) \in Int
  <2>1. (e - x) * s \in Int /\ (x - e) * s \in Int
    <3> DEFINE c == e - x
               d == x - e
    <3>1. c \in Int /\ d \in Int /\ s \in Int
      BY <1>1, <1>2, <1>4 DEF x
    <3> HIDE DEF c, d
    <3>2. c * s \in Int /\ d * s \in Int
      BY <3>1, ProductType
    <3> QED BY <3>2 DEF c, d
  <2>2. ClosePnL(p) = IF pos.side = "SHORT" THEN (e - x) * s ELSE (x - e) * s
    BY DEF ClosePnL, RealizedPnL, UnrealizedPnL, e, x, s
  <2> QED BY <2>1, <2>2
<1> QED BY <1>1, <1>4, <1>5, <1>6 DEF s, held

\* The margin is released, once for each position id, or the close ends.
LEMMA CloseUnfreezeKeeps ==
    ASSUME PerpConsistent, NEW p \in Procs, CloseUnfreeze(p)
    PROVE  PerpConsistent'
<1>1. /\ run[p].at = "unfreeze" /\ "unfreeze" \in Closing
      /\ UNCHANGED <<storeVars, req, ticks, faults>>
  BY DEF CloseUnfreeze, Closing
<1>2. ~Opens(p, req) /\ run[p].pos # None
  BY <1>1, RunFacts DEF Staged
<1>3. CASE /\ Unfreeze(run[p].pos.user, USDT, MarginRelease(p), ReleaseRef(p))
           /\ Goto(p, "settle")
  <2> DEFINE r == At(run[p], "settle")
             id == run[p].pos.id
             D == DOMAIN entries
             E == DOMAIN entries'
  <2>1. /\ MarginRelease(p) \in Int /\ run[p].pos \in Row /\ p \in Reqs \cup Scanners
    BY <1>1, <1>2, CloseTypes
  <2>2. run[p].pos.user \in Accounts /\ id \in Reqs
        /\ ReleaseRef(p) \in {"freeze", "position"} \X Reqs
    BY <2>1, Fields DEF Accounts, ReleaseRef
  <2>3. AccountConsistent' /\ ReleaseOf(id) \notin D /\ E = D \cup {ReleaseOf(id)}
    BY <1>3, <2>1, <2>2, MoveKeeps DEF PerpConsistent, ReleaseRef, ReleaseOf
  <2>4. /\ r \in RunRecord /\ r.at = "settle" /\ r.pos = run[p].pos
        /\ run' = [run EXCEPT ![p] = r] /\ r = run'[p]
        /\ \A o \in Procs \ {p} : run'[o] = run[o]
    BY <1>3, GotoRecord DEF Stages, Closing, PerpConsistent
  <2> HIDE DEF r
  <2>5. PaidOnce(run', E)
    <3>1. \A i \in Reqs : PnLRefs(E, i) = PnLRefs(D, i)
      BY <2>3 DEF PnLRefs, IsPnL, ReleaseOf
    <3>2. PnLRefs(D, id) = {}
      BY <2>2, <2>3 DEF PerpConsistent, PaidOnce
    <3>3. ASSUME NEW o \in Procs, run'[o].at = "settle", o # p
          PROVE  /\ ReleaseOf(run'[o].pos.id) \in E /\ PnLRefs(E, run'[o].pos.id) = {}
                 /\ run'[o].pos.id # id
      <4>1. run'[o] = run[o] /\ run[o].at = "settle"
        BY <2>4, <3>3
      <4>2. /\ ReleaseOf(run[o].pos.id) \in D /\ PnLRefs(D, run[o].pos.id) = {}
        BY <4>1 DEF PerpConsistent, PaidOnce
      <4>3. run[o].pos.id \in Reqs
        BY <4>1, RunFacts, Fields DEF Staged, Closing, RunRecord
      <4> QED BY <2>3, <3>1, <4>1, <4>2, <4>3
    <3>4. ReleaseOf(run'[p].pos.id) \in E /\ PnLRefs(E, run'[p].pos.id) = {}
      BY <2>2, <2>3, <2>4, <3>1, <3>2
    <3>5. \A q, o \in Procs : run'[q].at = "settle" /\ run'[o].at = "settle"
                                /\ run'[q].pos.id = run'[o].pos.id => q = o
      <4> SUFFICES ASSUME NEW q \in Procs, NEW o \in Procs, q # o,
                          run'[q].at = "settle", run'[o].at = "settle"
                   PROVE  run'[q].pos.id # run'[o].pos.id
        OBVIOUS
      <4>1. CASE q = p
        BY <2>4, <3>3, <4>1
      <4>2. CASE o = p
        BY <2>4, <3>3, <4>2
      <4>3. CASE q # p /\ o # p
        BY <2>4, <4>3 DEF PerpConsistent, PaidOnce
      <4> QED BY <4>1, <4>2, <4>3
    <3>6. \A q \in Procs : run'[q].at = "settle" =>
             ReleaseOf(run'[q].pos.id) \in E /\ PnLRefs(E, run'[q].pos.id) = {}
      BY <3>3, <3>4
    <3>7. /\ \A i \in Reqs : PnLRefs(E, i) # {} => ReleaseOf(i) \in E
          /\ \A k \in Reqs : \A i, j \in PnLRefs(E, k) : i = j
      BY <2>3, <3>1 DEF PerpConsistent, PaidOnce
    <3> QED BY <3>5, <3>6, <3>7 DEF PaidOnce
  <2>6. Staged(p, r, req, E)
    BY <1>2, <2>1, <2>4 DEF Staged, Opening, Closing
  <2> QED BY <1>1, <2>3, <2>4, <2>5, <2>6, AccountStep
<1>4. CASE Goto(p, OnError(p)) /\ UNCHANGED accountVars
  <2>1. faults' \in 0..MaxFaults
    BY <1>1, RunFacts
  <2> QED BY <1>1, <1>4, <2>1, ErrorRests, RestStep
<1> QED BY <1>3, <1>4 DEF CloseUnfreeze

\* The uuid of a settlement.
LEMMA NewTradeType ==
    ASSUME PerpConsistent, NEW pos \in Row
    PROVE  /\ NewTrade("pnl", pos) \in PnLTrades /\ NewTrade("funding", pos) \in FundingTrades
           /\ NewTrade("pnl", pos)[1] = "pnl" /\ NewTrade("pnl", pos)[2] = pos.id
           /\ NewTrade("funding", pos)[1] = "funding"
<1>1. Cardinality(DOMAIN entries) \in Nat
  BY FS_CardinalityType DEF PerpConsistent, AccountConsistent
<1> QED BY <1>1, Fields DEF NewTrade, PnLTrades, FundingTrades

\* The PnL is posted, or there is none, or the close ends.
LEMMA CloseSettleKeeps ==
    ASSUME PerpConsistent, NEW p \in Procs, CloseSettle(p)
    PROVE  PerpConsistent'
<1> DEFINE pos == run[p].pos
           id == pos.id
           trade == NewTrade("pnl", pos)
           ref == <<"trade", trade>>
           r == [run[p] EXCEPT !.at = "write", !.trade = trade]
           D == DOMAIN entries
           E == DOMAIN entries'
<1>1. /\ run[p].at = "settle" /\ "settle" \in Closing
      /\ UNCHANGED <<storeVars, req, ticks, faults>>
  BY DEF CloseSettle, Closing
<1>2. ~Opens(p, req) /\ pos # None
  BY <1>1, RunFacts DEF Staged
<1>3. /\ pos \in Row /\ ClosePnL(p) \in Int /\ p \in Reqs \cup Scanners
      /\ pos.user \in Traders /\ id \in Reqs
  BY <1>1, <1>2, CloseTypes, Fields
<1>4. trade \in PnLTrades /\ trade \in Trades /\ trade[1] = "pnl" /\ trade[2] = id
  BY <1>3, NewTradeType DEF PnLTrades, Trades
<1>5. /\ r \in RunRecord /\ r.at = "write" /\ r.pos = pos /\ r.trade = trade
      /\ r.mark = run[p].mark /\ PnLOf(p, r, req) = ClosePnL(p)
  <2> HIDE DEF trade
  <2>1. r \in RunRecord /\ r.at = "write" /\ r.pos = pos /\ r.trade = trade
        /\ r.mark = run[p].mark
    BY <1>4, RunFacts DEF RunRecord, Stages, Closing
  <2> HIDE DEF r
  <2>2. PnLOf(p, r, req) = PnLOf(p, run[p], req)
    BY <2>1 DEF PnLOf, SizeOf
  <2> QED BY <2>1, <2>2, SamePnL
<1>6. ASSUME run' = [run EXCEPT ![p].at = "write", ![p].trade = trade]
      PROVE  /\ run' = [run EXCEPT ![p] = r] /\ run'[p] = r
             /\ \A o \in Procs \ {p} : run'[o] = run[o]
  BY <1>6 DEF PerpConsistent
<1>7. CASE /\ SettleBalanced(trade, pos, ClosePnL(p))
           /\ run' = [run EXCEPT ![p].at = "write", ![p].trade = trade]
  <2>1. run' = [run EXCEPT ![p] = r] /\ run'[p] = r /\ \A o \in Procs \ {p} : run'[o] = run[o]
    BY <1>6, <1>7
  <2>2. trade \in {"pnl", "funding"} \X Reqs \X Nat
    BY <1>4 DEF Trades
  <2> HIDE DEF trade, r
  <2>3. AccountConsistent' /\ ref \notin D /\ E = D \cup {ref}
    BY <1>3, <1>7, <2>2, TransferKeeps DEF PerpConsistent
  <2>4. PaidOnce(run', E)
    <3>1. /\ ReleaseOf(id) \in D /\ PnLRefs(D, id) = {}
          /\ \A o \in Procs \ {p} : run[o].at = "settle" => run[o].pos.id # id
      BY <1>1 DEF PerpConsistent, PaidOnce
    <3>2. IsPnL(ref) /\ ref[2][2] = id
      BY <1>4 DEF IsPnL
    <3>3. PnLRefs(E, id) = {ref}
      BY <2>3, <3>1, <3>2 DEF PnLRefs
    <3>4. \A i : i # id => PnLRefs(E, i) = PnLRefs(D, i)
      BY <2>3, <3>2 DEF PnLRefs
    <3>5. \A o \in Procs : run'[o].at = "settle" => o # p /\ run'[o] = run[o]
                              /\ run[o].at = "settle" /\ run[o].pos.id # id
      BY <1>5, <2>1, <3>1
    <3>6. \A o \in Procs : run'[o].at = "settle" =>
             ReleaseOf(run'[o].pos.id) \in E /\ PnLRefs(E, run'[o].pos.id) = {}
      BY <2>3, <3>4, <3>5 DEF PerpConsistent, PaidOnce
    <3>7. \A q, o \in Procs : run'[q].at = "settle" /\ run'[o].at = "settle"
                                /\ run'[q].pos.id = run'[o].pos.id => q = o
      BY <3>5 DEF PerpConsistent, PaidOnce
    <3>8. \A i \in Reqs : PnLRefs(E, i) # {} => ReleaseOf(i) \in E
      BY <2>3, <3>1, <3>4 DEF PerpConsistent, PaidOnce
    <3>9. \A k \in Reqs : \A i, j \in PnLRefs(E, k) : i = j
      BY <3>3, <3>4 DEF PerpConsistent, PaidOnce
    <3> QED BY <3>6, <3>7, <3>8, <3>9 DEF PaidOnce
  <2>5. Staged(p, r, req, E)
    <3>1. <<"trade", r.trade>> \in E
      BY <1>5, <2>3
    <3> QED BY <1>2, <1>3, <1>4, <1>5, <3>1 DEF Staged, Opening, Closing
  <2> QED BY <1>1, <1>5, <2>1, <2>3, <2>4, <2>5, AccountStep
<1>8. CASE /\ ClosePnL(p) = 0 /\ UNCHANGED accountVars
           /\ run' = [run EXCEPT ![p].at = "write", ![p].trade = trade]
  <2>1. run' = [run EXCEPT ![p] = r]
    BY <1>6, <1>8
  <2> HIDE DEF r
  <2>2. Staged(p, r, req, D)
    BY <1>2, <1>3, <1>4, <1>5, <1>8 DEF Staged, Opening, Closing
  <2>3. faults' \in 0..MaxFaults
    BY <1>1, RunFacts
  <2> QED BY <1>1, <1>5, <1>8, <2>1, <2>2, <2>3, LocalStep
<1>9. CASE Goto(p, OnError(p)) /\ UNCHANGED accountVars
  <2>1. faults' \in 0..MaxFaults
    BY <1>1, RunFacts
  <2> QED BY <1>1, <1>9, <2>1, ErrorRests, RestStep
<1> QED BY <1>7, <1>8, <1>9 DEF CloseSettle

\* The row a partial close leaves.
RestRow(p) ==
    [run[p].pos EXCEPT !.size = @ - CloseSize(p), !.margin = @ - MarginRelease(p)]

LEMMA RestRowType ==
    ASSUME PerpConsistent, NEW p \in Procs, run[p].at \in Closing \cup {"event"},
           ~Opens(p, req), UpsertOK(RestRow(p))
    PROVE  RestRow(p) \in Row /\ RestRow(p).user = run[p].pos.user
<1> DEFINE pos == run[p].pos
           rest == RestRow(p)
           s == CloseSize(p)
           m == MarginRelease(p)
<1>1. pos \in Row /\ s \in 1..pos.size /\ m \in Nat
  BY CloseTypes
<1>2. rest = [pos EXCEPT !.size = pos.size - s, !.margin = pos.margin - m]
  BY DEF RestRow
<1> HIDE DEF s, m, rest
<1>3. /\ rest.size > 0 /\ rest.margin > 0
      /\ rest.size = pos.size - s /\ rest.margin = pos.margin - m /\ rest.user = pos.user
  BY <1>1, <1>2 DEF UpsertOK, Row, rest
<1>4. pos.size \in Nat /\ pos.margin \in Nat
  BY <1>1, Fields
<1>5. pos.size - s \in Nat \ {0} /\ pos.margin - m \in Nat \ {0}
  BY <1>1, <1>3, <1>4
<1>6. rest \in Row
  BY <1>1, <1>2, <1>5 DEF Row
<1> QED BY <1>3, <1>6 DEF rest

\* The row is deleted, or the rest of it written, or the close ends.
LEMMA CloseWriteKeeps ==
    ASSUME PerpConsistent, NEW p \in Procs, CloseWrite(p)
    PROVE  PerpConsistent'
<1> DEFINE pos == run[p].pos
           rest == [pos EXCEPT !.size = @ - CloseSize(p), !.margin = @ - MarginRelease(p)]
           r == At(run[p], "event")
<1>1. /\ run[p].at = "write" /\ "write" \in Closing
      /\ UNCHANGED <<accountVars, mark, events, rates, payments, req, ticks, faults>>
  BY DEF CloseWrite, Closing
<1>2. ~Opens(p, req) /\ pos # None /\ p \in Reqs \cup Scanners
  BY <1>1, RunFacts DEF Staged
<1>3. pos \in Row /\ CloseSize(p) \in 1..pos.size /\ MarginRelease(p) \in Nat
  BY <1>1, <1>2, CloseTypes
<1>4. /\ r \in RunRecord /\ r.at = "event" /\ r.pos = pos /\ r.trade = run[p].trade
      /\ r.mark = run[p].mark
      /\ Goto(p, "event") => run' = [run EXCEPT ![p] = r]
  BY GotoRecord DEF Stages
<1> HIDE DEF r
<1>5. ASSUME positions' \in [Traders -> Row \cup {None}],
             \A u \in Traders : positions'[u] # None => positions'[u].user = u,
             Goto(p, "event")
      PROVE  PerpConsistent'
  <2>1. AccountConsistent' /\ entries' = entries
    BY <1>1, AccountsStay
  <2>2. TablesOK' /\ JournalIsSettled'
    BY <1>1, <1>5, <2>1 DEF PerpConsistent, TablesOK, JournalIsSettled
  <2>3. PnLOf(p, r, req) = PnLOf(p, run[p], req)
    BY <1>4 DEF PnLOf, SizeOf
  <2>4. Staged(p, r, req, DOMAIN entries')
    BY <1>1, <1>2, <1>4, <2>1, <2>3, RunFacts DEF Staged, Opening, Closing
  <2>5. PaidOnce(run', DOMAIN entries')
    BY <1>4, <1>5, <2>1, PaidOnceKept
  <2> QED BY <1>1, <1>4, <1>5, <2>1, <2>2, <2>4, <2>5, StepOfOne
<1>6. /\ positions \in [Traders -> Row \cup {None}] /\ pos.user \in Traders
      /\ \A u \in Traders : positions[u] # None => positions[u].user = u
  BY <1>3, Fields DEF PerpConsistent, TablesOK
<1>7. CASE DeletePosition(pos.user) /\ Goto(p, "event")
  BY <1>5, <1>6, <1>7 DEF DeletePosition
<1>8. CASE rest.size # 0 /\ UpsertPosition(rest) /\ Goto(p, "event")
  <2>1. rest \in Row /\ rest.user = pos.user
    BY <1>1, <1>2, <1>8, RestRowType DEF UpsertPosition, RestRow, Closing
  <2> DEFINE old == positions[pos.user]
             new == IF old = None THEN rest ELSE [rest EXCEPT !.id = old.id]
  <2>2. positions' = [positions EXCEPT ![pos.user] = new]
    BY <1>6, <1>8, <2>1 DEF UpsertPosition
  <2> HIDE DEF rest
  <2>3. new \in Row /\ new.user = pos.user
    BY <1>6, <2>1, Fields DEF Row
  <2> HIDE DEF new
  <2>4. /\ positions' \in [Traders -> Row \cup {None}]
        /\ \A u \in Traders : positions'[u] # None => positions'[u].user = u
    BY <1>6, <2>2, <2>3
  <2> QED BY <1>5, <1>8, <2>4
<1>9. CASE Goto(p, OnError(p)) /\ UNCHANGED positions
  <2>1. faults' \in 0..MaxFaults /\ UNCHANGED <<accountVars, storeVars, req, ticks>>
    BY <1>1, <1>9, RunFacts DEF storeVars
  <2> QED BY <1>9, <2>1, ErrorRests, RestStep
<1>10. \/ DeletePosition(pos.user) /\ Goto(p, "event")
       \/ rest.size # 0 /\ UpsertPosition(rest) /\ Goto(p, "event")
       \/ Goto(p, OnError(p)) /\ UNCHANGED positions
  BY DEF CloseWrite
<1> QED BY <1>7, <1>8, <1>9, <1>10

\* The event reports what has been settled.
LEMMA InsertEventKeeps ==
    ASSUME PerpConsistent, NEW p \in Procs, InsertEvent(p)
    PROVE  PerpConsistent'
<1> DEFINE at == IF p \in Reqs THEN "done" ELSE "scan"
           r == At(run[p], at)
           e == EventRow(p)
<1>1. /\ run[p].at = "event" /\ Goto(p, at)
      /\ UNCHANGED <<accountVars, mark, positions, rates, payments, req, ticks>>
      /\ \/ events' = events \cup {e} /\ UNCHANGED faults
         \/ UNCHANGED events /\ Fault
  BY DEF InsertEvent
<1>2. p \in Reqs \cup Scanners /\ run[p].pos # None /\ run[p].pos \in Row
  BY <1>1, RunFacts DEF Staged, RunRecord
<1>3. at \in Resting(p)
  BY <1>2 DEF Resting, Ended
<1>4. AccountConsistent' /\ entries' = entries
  BY <1>1, AccountsStay
<1>5. faults' \in 0..MaxFaults
  BY <1>1, RunFacts, PerpAssumption DEF Fault
<1>6. /\ e \in [type : {"OPEN"}, pnl : {0}, ref : Reqs]
                \cup [type : {"CLOSE", "LIQUIDATION"}, pnl : Int, ref : PnLTrades]
      /\ e.pnl # 0 => <<"trade", e.ref>> \in DOMAIN entries
  <2>1. CASE Opens(p, req)
    BY <1>2, <2>1, Fields DEF EventRow, Opens
  <2>2. CASE ~Opens(p, req)
    <3>1. ClosePnL(p) \in Int
      BY <1>1, <2>2, CloseTypes
    <3>2. /\ run[p].trade \in PnLTrades
          /\ ClosePnL(p) # 0 => <<"trade", run[p].trade>> \in DOMAIN entries
      BY <1>1, <2>2, RunFacts, SamePnL DEF Staged
    <3> QED BY <2>2, <3>1, <3>2 DEF EventRow, Opens
  <2> QED BY <2>1, <2>2
<1> HIDE DEF e, at
<1>7. TablesOK'
  BY <1>1, <1>5, <1>6 DEF PerpConsistent, TablesOK
<1>8. JournalIsSettled'
  BY <1>1, <1>4, <1>6 DEF PerpConsistent, JournalIsSettled
<1>9. /\ r \in RunRecord /\ r.at = at /\ run' = [run EXCEPT ![p] = r]
  BY <1>1, <1>3, GotoRecord, ErrorRests
<1> HIDE DEF r
<1>10. Staged(p, r, req, DOMAIN entries') /\ r.at # "settle"
  BY <1>3, <1>9, RestingIsStaged
<1>11. PaidOnce(run', DOMAIN entries')
  BY <1>4, <1>9, <1>10, PaidOnceKept
<1> QED BY <1>1, <1>4, <1>7, <1>8, <1>9, <1>10, <1>11, StepOfOne
-----------------------------------------------------------------------------
(* The scan and the funding run *)

\* All rows are listed.
LEMMA ScanListKeeps ==
    ASSUME PerpConsistent, NEW s \in Scanners, ScanList(s)
    PROVE  PerpConsistent'
<1> DEFINE r == [run[s] EXCEPT !.at = "scan", !.todo = Positions]
<1>1. /\ s \in Procs /\ run' = [run EXCEPT ![s] = r]
      /\ UNCHANGED <<accountVars, storeVars, req, ticks>> /\ faults' = faults
  BY DEF ScanList, Procs, PerpConsistent
<1>2. r \in RunRecord /\ r.at = "scan"
  BY <1>1, RunFacts, PositionsAreRows DEF RunRecord, Stages
<1> HIDE DEF r
<1>3. Staged(s, r, req, DOMAIN entries) /\ r.at # "settle"
  BY <1>1, <1>2, RestingIsStaged DEF Resting
<1>4. faults' \in 0..MaxFaults
  BY <1>1, RunFacts
<1> QED BY <1>1, <1>2, <1>3, <1>4, LocalStep

\* The next row is found at risk, or not.
LEMMA ScanCheckKeeps ==
    ASSUME PerpConsistent, NEW s \in Scanners, ScanCheck(s)
    PROVE  PerpConsistent'
<1>1. PICK pos \in run[s].todo :
         run' = [run EXCEPT ![s].at = IF LiquidationRisk(pos, mark) THEN "liquidate" ELSE "scan",
                            ![s].user = pos.user, ![s].todo = @ \ {pos}]
  BY DEF ScanCheck
<1> DEFINE at == IF LiquidationRisk(pos, mark) THEN "liquidate" ELSE "scan"
           r == [run[s] EXCEPT !.at = at, !.user = pos.user, !.todo = @ \ {pos}]
<1>2. /\ s \in Procs /\ run' = [run EXCEPT ![s] = r]
      /\ UNCHANGED <<accountVars, storeVars, req, ticks>> /\ faults' = faults
  BY <1>1 DEF ScanCheck, Procs, PerpConsistent
<1>3. at \in {"scan", "liquidate"}
  OBVIOUS
<1>4. pos \in Row /\ pos.user \in Traders
  <2>1. run[s].todo \subseteq Row
    BY <1>2, RunFacts DEF RunRecord
  <2> QED BY <1>1, <2>1, Fields
<1> HIDE DEF at
<1>5. r \in RunRecord /\ r.at = at /\ r.user = pos.user
  BY <1>2, <1>3, <1>4, RunFacts DEF RunRecord, Stages
<1> HIDE DEF r
<1>6. Staged(s, r, req, DOMAIN entries) /\ r.at # "settle"
  BY <1>3, <1>4, <1>5 DEF Staged, Opening, Closing
<1>7. faults' \in 0..MaxFaults
  BY <1>2, RunFacts
<1> QED BY <1>2, <1>5, <1>6, <1>7, LocalStep

\* The rate is recorded and all rows are listed.
LEMMA FundListKeeps ==
    ASSUME PerpConsistent, NEW f \in Settlers, FundList(f)
    PROVE  PerpConsistent'
<1> DEFINE r == [run[f] EXCEPT !.at = "fund", !.todo = Positions]
<1>1. /\ f \in Procs /\ run' = [run EXCEPT ![f] = r]
      /\ rates < MaxRates /\ rates' = rates + 1
      /\ UNCHANGED <<accountVars, mark, positions, events, payments, req, ticks, faults>>
  BY DEF FundList, Procs, PerpConsistent
<1>2. r \in RunRecord /\ r.at = "fund"
  BY <1>1, RunFacts, PositionsAreRows DEF RunRecord, Stages
<1> HIDE DEF r
<1>3. AccountConsistent' /\ entries' = entries
  BY <1>1, AccountsStay
<1>4. Staged(f, r, req, DOMAIN entries') /\ r.at # "settle"
  BY <1>1, <1>2, RestingIsStaged DEF Resting
<1>5. rates' \in 0..MaxRates
  BY <1>1, PerpAssumption DEF PerpConsistent, TablesOK
<1>6. TablesOK' /\ JournalIsSettled'
  BY <1>1, <1>3, <1>5 DEF PerpConsistent, TablesOK, JournalIsSettled
<1>7. PaidOnce(run', DOMAIN entries')
  BY <1>1, <1>3, <1>4, PaidOnceKept
<1> QED BY <1>1, <1>2, <1>3, <1>4, <1>6, <1>7, StepOfOne

\* The next row and the mark are read.
LEMMA FundReadMarkKeeps ==
    ASSUME PerpConsistent, NEW f \in Settlers, FundReadMark(f)
    PROVE  PerpConsistent'
<1>1. PICK pos \in run[f].todo :
         run' = [run EXCEPT ![f].pos = pos, ![f].mark = mark, ![f].todo = @ \ {pos},
                    ![f].at = IF FundingPayment(pos.side, pos.size, mark) = 0
                              THEN "fund" ELSE "pay"]
  BY DEF FundReadMark
<1> DEFINE at == IF FundingPayment(pos.side, pos.size, mark) = 0 THEN "fund" ELSE "pay"
           r == [run[f] EXCEPT !.pos = pos, !.mark = mark, !.todo = @ \ {pos}, !.at = at]
<1>2. /\ f \in Procs /\ run' = [run EXCEPT ![f] = r]
      /\ UNCHANGED <<accountVars, storeVars, req, ticks>> /\ faults' = faults
  BY <1>1 DEF FundReadMark, Procs, PerpConsistent
<1>3. at \in {"fund", "pay"}
  OBVIOUS
<1>4. pos \in Row /\ pos # None
  <2>1. run[f].todo \subseteq Row
    BY <1>2, RunFacts DEF RunRecord
  <2> QED BY <1>1, <2>1, Fields
<1> HIDE DEF at
<1>5. r \in RunRecord /\ r.at = at /\ r.pos = pos
  BY <1>2, <1>3, <1>4, RunFacts DEF RunRecord, Stages
<1> HIDE DEF r
<1>6. Staged(f, r, req, DOMAIN entries) /\ r.at # "settle"
  BY <1>3, <1>4, <1>5 DEF Staged, Opening, Closing
<1>7. faults' \in 0..MaxFaults
  BY <1>2, RunFacts
<1> QED BY <1>2, <1>5, <1>6, <1>7, LocalStep

\* The payment is posted, or the trader skipped.
LEMMA FundSettleKeeps ==
    ASSUME PerpConsistent, NEW f \in Settlers, FundSettle(f)
    PROVE  PerpConsistent'
<1> DEFINE pos == run[f].pos
           payment == FundingPayment(pos.side, pos.size, run[f].mark)
           trade == NewTrade("funding", pos)
           ref == <<"trade", trade>>
           r == [run[f] EXCEPT !.at = "record", !.trade = trade]
<1>1. /\ f \in Procs /\ run[f].at = "pay" /\ UNCHANGED <<storeVars, req, ticks, faults>>
  BY DEF FundSettle, Procs
<1>2. pos \in Row /\ pos.user \in Traders /\ pos.size \in Nat /\ run[f].mark \in Nat
  BY <1>1, RunFacts, Fields DEF Staged, RunRecord
<1>3. trade \in FundingTrades /\ trade \in Trades /\ trade[1] = "funding"
  BY <1>2, NewTradeType DEF FundingTrades, Trades
<1>4. CASE /\ SettleBalanced(trade, pos, payment)
           /\ run' = [run EXCEPT ![f].at = "record", ![f].trade = trade]
  <2>1. payment \in Int
    <3> DEFINE n == pos.size * run[f].mark
    <3>1. n \in Int
      BY <1>2, ProductType
    <3> HIDE DEF n
    <3>2. Div(n, FundingDen) \in Int
      BY <3>1, DivType, PerpAssumption
    <3> QED BY <3>2 DEF FundingPayment, Notional, n
  <2>2. trade \in {"pnl", "funding"} \X Reqs \X Nat
    BY <1>3 DEF Trades
  <2>3. run' = [run EXCEPT ![f] = r]
    BY <1>1, <1>4 DEF PerpConsistent
  <2> HIDE DEF trade, payment
  <2>4. r \in RunRecord /\ r.at = "record" /\ r.trade = trade
    BY <1>1, <1>3, RunFacts DEF RunRecord, Stages
  <2> HIDE DEF r
  <2>5. AccountConsistent' /\ DOMAIN entries' = DOMAIN entries \cup {ref}
    BY <1>2, <1>4, <2>1, <2>2, TransferKeeps DEF PerpConsistent
  <2>6. PaidOnce(run', DOMAIN entries')
    <3>1. \A i \in DOMAIN entries' : i \in DOMAIN entries \/ ~IsPnL(i)
      BY <1>3, <2>5 DEF IsPnL
    <3> QED BY <1>1, <2>3, <2>4, <2>5, <3>1, PaidOnceKept
  <2>7. Staged(f, r, req, DOMAIN entries')
    BY <1>3, <2>4, <2>5 DEF Staged, Opening, Closing
  <2> QED BY <1>1, <2>3, <2>4, <2>5, <2>6, <2>7, AccountStep
<1>5. CASE Goto(f, "fund") /\ UNCHANGED accountVars
  <2>1. faults' \in 0..MaxFaults /\ "fund" \in Resting(f)
    BY <1>1, RunFacts DEF Resting
  <2> QED BY <1>1, <1>5, <2>1, RestStep
<1> QED BY <1>4, <1>5 DEF FundSettle

\* The payment is recorded after it was posted.
LEMMA FundRecordKeeps ==
    ASSUME PerpConsistent, NEW f \in Settlers, FundRecord(f)
    PROVE  PerpConsistent'
<1> DEFINE r == At(run[f], "fund")
           t == run[f].trade
<1>1. /\ f \in Procs /\ run[f].at = "record" /\ Goto(f, "fund")
      /\ UNCHANGED <<accountVars, mark, positions, events, rates, req, ticks>>
      /\ \/ payments' = payments \cup {t} /\ UNCHANGED faults
         \/ UNCHANGED payments /\ Fault
  BY DEF FundRecord, Procs
<1>2. t \in FundingTrades /\ <<"trade", t>> \in DOMAIN entries
  BY <1>1, RunFacts DEF Staged
<1>3. AccountConsistent' /\ entries' = entries
  BY <1>1, AccountsStay
<1>4. faults' \in 0..MaxFaults
  BY <1>1, RunFacts, PerpAssumption DEF Fault
<1>5. TablesOK'
  BY <1>1, <1>2, <1>4 DEF PerpConsistent, TablesOK
<1>6. JournalIsSettled'
  BY <1>1, <1>2, <1>3 DEF PerpConsistent, JournalIsSettled
<1>7. "fund" \in Resting(f)
  BY DEF Resting
<1>8. r \in RunRecord /\ r.at = "fund" /\ run' = [run EXCEPT ![f] = r]
  BY <1>1, <1>7, GotoRecord, ErrorRests
<1> HIDE DEF r
<1>9. Staged(f, r, req, DOMAIN entries') /\ r.at # "settle"
  BY <1>1, <1>7, <1>8, RestingIsStaged
<1>10. PaidOnce(run', DOMAIN entries')
  BY <1>1, <1>3, <1>8, <1>9, PaidOnceKept
<1> QED BY <1>1, <1>3, <1>5, <1>6, <1>8, <1>9, <1>10, StepOfOne
-----------------------------------------------------------------------------
(* The rest *)

\* A run ends or is abandoned: it forgets what it has read.
LEMMA RunEndKeeps ==
    ASSUME PerpConsistent, NEW p \in Procs, LoopEnd(p) \/ Abandon(p)
    PROVE  PerpConsistent'
<1>1. PICK r \in {Idle, [Idle EXCEPT !.at = "failed"]} : run' = [run EXCEPT ![p] = r]
  BY DEF LoopEnd, Abandon
<1>2. /\ UNCHANGED <<accountVars, storeVars, req, ticks>> /\ faults' \in 0..MaxFaults
  BY RunFacts, PerpAssumption DEF LoopEnd, Abandon, Fault
<1>3. r \in RunRecord /\ r.at \in Resting(p)
  BY DEF Idle, RunRecord, Stages, Ended, Resting
<1> QED BY <1>1, <1>2, <1>3, RestingIsStaged, LocalStep

\* The mark moves.
LEMMA MarkTickKeeps ==
    ASSUME PerpConsistent, MarkTick
    PROVE  PerpConsistent'
<1>1. /\ ticks < MaxTicks /\ ticks' = ticks + 1 /\ mark' \in Nat \ {0}
      /\ UNCHANGED <<accountVars, positions, events, rates, payments, req, run, faults>>
  BY PerpAssumption DEF MarkTick
<1>2. AccountConsistent' /\ entries' = entries
  BY <1>1, AccountsStay
<1>3. ticks' \in 0..MaxTicks
  BY <1>1, PerpAssumption DEF PerpConsistent, TablesOK
<1>4. TablesOK' /\ JournalIsSettled'
  BY <1>1, <1>2, <1>3 DEF PerpConsistent, TablesOK, JournalIsSettled
<1> QED BY <1>1, <1>2, <1>4 DEF PerpConsistent, PaidOnce

\* Nothing has happened yet.
LEMMA InitIsConsistent == PerpInit => PerpConsistent
<1> SUFFICES ASSUME PerpInit PROVE PerpConsistent
  OBVIOUS
<1>1. DOMAIN entries = {}
  BY DEF PerpInit
<1>2. LedgerTypeOK
  BY <1>1, PerpAssumption DEF PerpInit, LedgerTypeOK
<1>3. PerpBalancesFollowLedger
  <2> SUFFICES ASSUME NEW u \in Accounts
               PROVE  available[u][USDT] + frozen[u][USDT] = Deposits[u] + Posted(u, USDT)
    BY DEF PerpBalancesFollowLedger, Accounts
  <2>1. Posted(u, USDT) = 0
    BY <1>1, SumEmpty DEF Posted, SumFunction
  <2>2. available[u][USDT] = Deposits[u] /\ frozen[u][USDT] = 0 /\ Deposits[u] \in Nat
    BY PerpAssumption DEF PerpInit, Accounts
  <2> QED BY <2>1, <2>2
<1>4. AccountConsistent
  BY <1>1, <1>2, <1>3, FS_EmptySet DEF AccountConsistent
<1>5. TablesOK
  BY PerpAssumption DEF PerpInit, TablesOK
<1>6. JournalIsSettled
  BY DEF PerpInit, JournalIsSettled
<1>7. Idle \in RunRecord /\ Idle.at = "idle"
  BY DEF Idle, RunRecord, Stages, Ended
<1>8. run \in [Procs -> RunRecord] /\ \A p \in Procs : run[p].at = "idle"
  BY <1>7 DEF PerpInit
<1>9. \A p \in Procs : Staged(p, run[p], req, DOMAIN entries)
  BY <1>8, RestingIsStaged DEF Resting, Ended
<1>10. PaidOnce(run, DOMAIN entries)
  BY <1>1, <1>8 DEF PaidOnce, PnLRefs
<1> QED BY <1>4, <1>5, <1>6, <1>8, <1>9, <1>10 DEF PerpConsistent

\* Every step preserves the invariant.
LEMMA StepIsConsistent == PerpConsistent /\ [PerpNext]_perpVars => PerpConsistent'
<1> SUFFICES ASSUME PerpConsistent, [PerpNext]_perpVars PROVE PerpConsistent'
  OBVIOUS
<1>1. ASSUME NEW p \in Procs, CloseStep(p) PROVE PerpConsistent'
  BY <1>1, CloseReadMarkKeeps, CloseUnfreezeKeeps, CloseSettleKeeps, CloseWriteKeeps,
     InsertEventKeeps DEF CloseStep
<1>2. ASSUME NEW p \in Reqs, ReqStep(p) PROVE PerpConsistent'
  <2>1. p \in Procs
    BY DEF Procs
  <2>2. CASE CloseReadPosition(p)
    BY <2>1, <2>2, CloseReadPositionKeeps
  <2>3. CASE CloseStep(p)
    BY <1>1, <2>1, <2>3
  <2>4. CASE OpenReadMark(p) \/ OpenReadPosition(p) \/ OpenFreeze(p)
    BY <2>4, OpenReadMarkKeeps, OpenReadPositionKeeps, OpenFreezeKeeps
  <2>5. CASE OpenUpsert(p) \/ OpenUndo(p)
    BY <2>5, OpenUpsertKeeps, OpenUndoKeeps
  <2> QED BY <1>2, <2>2, <2>3, <2>4, <2>5 DEF ReqStep
<1>3. ASSUME NEW s \in Scanners, ScanList(s) \/ ScanStep(s) PROVE PerpConsistent'
  <2>1. s \in Procs
    BY DEF Procs
  <2> QED BY <1>1, <1>3, <2>1, ScanListKeeps, ScanCheckKeeps, CloseReadPositionKeeps,
             RunEndKeeps DEF ScanStep
<1>4. ASSUME NEW f \in Settlers, FundList(f) \/ FundStep(f) PROVE PerpConsistent'
  <2>1. f \in Procs
    BY DEF Procs
  <2> QED BY <1>4, <2>1, FundListKeeps, FundReadMarkKeeps, FundSettleKeeps, FundRecordKeeps,
             RunEndKeeps DEF FundStep
<1>5. CASE UNCHANGED perpVars
  <2>1. /\ UNCHANGED <<accountVars, storeVars, req, run, ticks, faults>>
        /\ UNCHANGED <<mark, positions, events, rates, payments>>
    BY <1>5 DEF perpVars, storeVars
  <2>2. AccountConsistent' /\ entries' = entries
    BY <2>1, AccountsStay
  <2> QED BY <2>1, <2>2 DEF PerpConsistent, TablesOK, JournalIsSettled, PaidOnce
<1> QED BY <1>2, <1>3, <1>4, <1>5, RunEndKeeps, MarkTickKeeps DEF PerpNext
-----------------------------------------------------------------------------
(* One run at a time *)

\* Requests, scans and funding runs do not overlap.
OneAtATime ==
    \A p, o \in Procs : run[p].at \notin Ended /\ run[o].at \notin Ended => p = o

\* What a run has read is in the table still.
Current(p, r, q, P) ==
    /\ r.at \in {"freeze", "upsert", "undo"} =>
          r.pos = P[q[p].user] /\ (r.pos # None => r.pos.side = q[p].side)
    /\ r.at \in Closing => r.pos = P[r.pos.user]

\* A close that comes to the table has posted its PnL, and nothing if it is 0.
Posting(p, r, q, E) ==
    r.at = "write" =>
        LET ref == <<"trade", r.trade>>
        IN  IF PnLOf(p, r, q) = 0 THEN ref \notin DOMAIN E
            ELSE ref \in DOMAIN E /\ E[ref][1].amount = PnLOf(p, r, q)

\* The number of a settlement is the size of the ledger it was posted to.
Numbered(D) == \A i \in D : i[1] = "trade" => i[2][3] < Cardinality(D)

SerialConsistent ==
    /\ OneAtATime
    /\ \A p \in Procs : Current(p, run[p], req, positions)
    /\ \A p \in Procs : Posting(p, run[p], req, entries)
    /\ Numbered(DOMAIN entries)

\* What is frozen besides the margins of the table, while run p is half-way.
MarginOf(row) == IF row = None THEN 0 ELSE row.margin
AddOf(p, r, q) == InitialMargin(Notional(q[p].size, r.mark), q[p].leverage)
FreedOf(p, r, q) == Div(r.pos.margin * SizeOf(p, r, q), r.pos.size)

Pending(p, r, q, u) ==
    IF r.at \in {"upsert", "undo"} /\ u = q[p].user THEN AddOf(p, r, q)
    ELSE IF r.at \in {"settle", "write"} /\ u = r.pos.user THEN -FreedOf(p, r, q)
    ELSE 0

Balanced(p, r, q, P, F) ==
    \A u \in Traders : F[u][USDT] = MarginOf(P[u]) + Pending(p, r, q, u)

\* The margin of an open is given back once, by the request that froze it.
GivenBack(p) == <<"unfreeze", <<"freeze", p>>>>

MarginConsistent ==
    /\ Quiet => \A u \in Traders : frozen[u][USDT] = MarginOf(positions[u])
    /\ \A p \in Procs :
          run[p].at \notin Ended => Balanced(p, run[p], req, positions, frozen)
    /\ \A p \in Procs :
          run[p].at \in {"upsert", "undo"} => AddOf(p, run[p], req) > 0
    /\ \A p \in Reqs : GivenBack(p) \in DOMAIN entries => run[p].at = "failed"
    /\ users = Accounts

\* Acts(p) is what run p may do next.
Acts(p) ==
    \/ p \in Reqs /\ ReqStep(p)
    \/ p \in Scanners /\ (ScanList(p) \/ ScanStep(p))
    \/ p \in Settlers /\ (FundList(p) \/ FundStep(p))
    \/ Abandon(p)

\* The stages in which a run relies on no row of the table.
Free == Ended \cup {"position", "event", "scan", "liquidate", "fund", "pay", "record"}

\* A step of a run changes its own state; before it the run is in flight, or
\* there is room for it.
LEMMA RunMoves ==
    ASSUME PerpConsistent, NEW p \in Procs, Acts(p)
    PROVE  /\ run[p].at \notin Ended \/ Starts(p)
           /\ req' = req
           /\ \A o \in Procs \ {p} : run'[o] = run[o]
<1>1. run \in [Procs -> RunRecord]
  BY DEF PerpConsistent
<1>2. CASE OpenReadMark(p) \/ OpenReadPosition(p) \/ OpenFreeze(p) \/ OpenUpsert(p) \/ OpenUndo(p)
  BY <1>1, <1>2 DEF OpenReadMark, OpenReadPosition, OpenFreeze, OpenUpsert, OpenUndo,
                    Goto, Starts, Ended
<1>3. CASE CloseReadPosition(p) \/ LiquidateReadPosition(p) \/ CloseStep(p)
  BY <1>1, <1>3 DEF CloseReadPosition, LiquidateReadPosition, CloseStep, CloseReadMark,
                    CloseUnfreeze, CloseSettle, CloseWrite, InsertEvent, Goto, Starts, Ended
<1>4. CASE ScanList(p) \/ ScanCheck(p) \/ FundList(p) \/ FundReadMark(p) \/ FundSettle(p)
           \/ FundRecord(p) \/ LoopEnd(p) \/ Abandon(p)
  BY <1>1, <1>4 DEF ScanList, ScanCheck, FundList, FundReadMark, FundSettle, FundRecord,
                    LoopEnd, Abandon, Goto, Starts, Ended
<1> QED BY <1>2, <1>3, <1>4 DEF Acts, ReqStep, ScanStep, FundStep

\* With room for one, nobody else is in flight.
LEMMA Alone ==
    ASSUME PerpConsistent, OneAtATime, MaxInFlight = 1, NEW p \in Procs, Acts(p)
    PROVE  \A o \in Procs \ {p} : run[o].at \in Ended /\ run'[o] = run[o]
<1>1. SUFFICES ASSUME NEW o \in Procs \ {p}, run[o].at \notin Ended PROVE FALSE
  BY RunMoves
<1>2. CASE run[p].at \notin Ended
  BY <1>1, <1>2 DEF OneAtATime
<1>3. CASE Starts(p)
  <2>1. {q \in Procs : run[q].at \notin Ended} = {o}
    BY <1>1 DEF OneAtATime
  <2>2. InFlight = 1
    BY <2>1, FS_Singleton DEF InFlight
  <2> QED BY <1>3, <2>2 DEF Starts
<1> QED BY <1>2, <1>3, RunMoves

\* What is left to show of a step of run p.
LEMMA SerialStep ==
    ASSUME PerpConsistent, SerialConsistent, MaxInFlight = 1, NEW p \in Procs, Acts(p),
           Current(p, run'[p], req, positions'), Posting(p, run'[p], req, entries'),
           Numbered(DOMAIN entries')
    PROVE  SerialConsistent'
<1>1. \A o \in Procs \ {p} : run[o].at \in Ended /\ run'[o] = run[o]
  BY Alone DEF SerialConsistent
<1>2. req' = req
  BY RunMoves
<1>3. OneAtATime'
  BY <1>1 DEF OneAtATime
<1>4. ASSUME NEW o \in Procs
      PROVE  Current(o, run'[o], req', positions') /\ Posting(o, run'[o], req', entries')
  <2>1. CASE o = p
    BY <1>2, <2>1
  <2>2. CASE o # p
    BY <1>1, <2>2 DEF Current, Posting, Closing, Ended
  <2> QED BY <2>1, <2>2
<1> QED BY <1>3, <1>4 DEF SerialConsistent

\* In a free stage there is nothing to show.
LEMMA FreeFits ==
    ASSUME NEW p, NEW r, r.at \in Free, NEW q, NEW P, NEW E
    PROVE  Current(p, r, q, P) /\ Posting(p, r, q, E)
  BY DEF Current, Posting, Closing, Free, Ended

\* The steps that end in a free stage.
LEMMA FreeSteps ==
    ASSUME PerpConsistent, NEW p \in Procs,
           \/ OpenReadMark(p) \/ OpenUndo(p) \/ CloseWrite(p) \/ InsertEvent(p)
           \/ ScanList(p) \/ ScanCheck(p) \/ FundList(p) \/ FundReadMark(p)
           \/ FundSettle(p) \/ FundRecord(p) \/ LoopEnd(p) \/ Abandon(p)
    PROVE  run'[p].at \in Free
<1>1. run \in [Procs -> RunRecord] /\ run[p] \in RunRecord
  BY DEF PerpConsistent
<1>2. CASE OpenReadMark(p) \/ OpenUndo(p) \/ CloseWrite(p) \/ InsertEvent(p)
  BY <1>1, <1>2 DEF OpenReadMark, OpenUndo, CloseWrite, InsertEvent, Goto, OnError,
                    RunRecord, Free, Ended
<1>3. CASE ScanList(p) \/ ScanCheck(p) \/ FundList(p) \/ FundReadMark(p)
  <2>1. CASE ScanList(p) \/ FundList(p)
    BY <1>1, <2>1 DEF ScanList, FundList, RunRecord, Free, Ended
  <2>2. CASE ScanCheck(p)
    <3>1. \E pos : run' = [run EXCEPT
                   ![p].at = IF LiquidationRisk(pos, mark) THEN "liquidate" ELSE "scan",
                   ![p].user = pos.user, ![p].todo = @ \ {pos}]
      BY <2>2 DEF ScanCheck
    <3>2. run'[p].at \in {"liquidate", "scan"}
      BY <1>1, <3>1 DEF RunRecord
    <3> QED BY <3>2 DEF Free
  <2>3. CASE FundReadMark(p)
    <3>1. \E pos : run' = [run EXCEPT
                   ![p].pos = pos, ![p].mark = mark, ![p].todo = @ \ {pos},
                   ![p].at = IF FundingPayment(pos.side, pos.size, mark) = 0
                             THEN "fund" ELSE "pay"]
      BY <2>3 DEF FundReadMark
    <3>2. run'[p].at \in {"fund", "pay"}
      BY <1>1, <3>1 DEF RunRecord
    <3> QED BY <3>2 DEF Free
  <2> QED BY <1>3, <2>1, <2>2, <2>3
<1>4. CASE FundSettle(p) \/ FundRecord(p) \/ LoopEnd(p) \/ Abandon(p)
  BY <1>1, <1>4 DEF FundSettle, FundRecord, LoopEnd, Abandon, Goto, Idle, RunRecord, Free, Ended
<1> QED BY <1>2, <1>3, <1>4

\* The steps that read a row, or go on with the row they have read.
LEMMA ReadingSteps ==
    ASSUME PerpConsistent, SerialConsistent, NEW p \in Procs,
           \/ OpenReadPosition(p) \/ OpenFreeze(p) \/ OpenUpsert(p)
           \/ CloseReadPosition(p) /\ p \in Reqs
           \/ LiquidateReadPosition(p) \/ CloseReadMark(p) \/ CloseUnfreeze(p)
    PROVE  Current(p, run'[p], req, positions') /\ Posting(p, run'[p], req, entries')
<1>1. run \in [Procs -> RunRecord] /\ run[p] \in RunRecord
  BY DEF PerpConsistent
<1>2. Current(p, run[p], req, positions)
  BY DEF SerialConsistent
<1>3. CASE OpenReadPosition(p)
  BY <1>1, <1>3 DEF OpenReadPosition, storeVars, RunRecord, Current, Posting, Closing
<1>4. CASE OpenFreeze(p)
  <2>1. /\ positions' = positions /\ run'[p].at \in {"upsert", "failed"}
        /\ run'[p].pos = run[p].pos /\ run[p].at = "freeze"
    BY <1>1, <1>4 DEF OpenFreeze, Goto, storeVars, RunRecord
  <2> QED BY <1>2, <2>1 DEF Current, Posting, Closing
<1>5. CASE OpenUpsert(p)
  <2>1. CASE run' = [run EXCEPT ![p].at = "event", ![p].pos = OpenedRow(p)]
    <3>1. run'[p].at \in Free
      BY <1>1, <2>1 DEF RunRecord, Free
    <3> QED BY <3>1, FreeFits
  <2>2. CASE Goto(p, "undo") /\ UNCHANGED positions
    <3>1. /\ run'[p].at = "undo" /\ run'[p].pos = run[p].pos /\ run[p].at = "upsert"
      BY <1>1, <1>5, <2>2 DEF OpenUpsert, Goto, RunRecord
    <3> QED BY <1>2, <2>2, <3>1 DEF Current, Posting, Closing
  <2> QED BY <1>5, <2>1, <2>2 DEF OpenUpsert
<1>6. CASE CloseReadPosition(p) /\ p \in Reqs
  <2>1. /\ positions' = positions /\ run'[p].at \in {"mark", "failed"}
        /\ run'[p].pos = positions[req[p].user]
        /\ run'[p].at = "mark" => run'[p].pos # None
    BY <1>1, <1>6 DEF CloseReadPosition, storeVars, RunRecord
  <2>2. req[p].user \in Traders /\ \A u \in Traders : positions[u] # None => positions[u].user = u
    BY <1>6, RunFacts DEF PerpConsistent, TablesOK
  <2> QED BY <2>1, <2>2 DEF Current, Posting, Closing
<1>7. CASE LiquidateReadPosition(p)
  <2>1. /\ positions' = positions /\ run'[p].at \in {"mark", "scan"}
        /\ run'[p].pos = positions[run[p].user]
        /\ run'[p].at = "mark" => run'[p].pos # None
    BY <1>1, <1>7 DEF LiquidateReadPosition, storeVars, RunRecord
  <2>2. run[p].user \in Traders /\ \A u \in Traders : positions[u] # None => positions[u].user = u
    BY <1>7, RunFacts DEF PerpConsistent, TablesOK, LiquidateReadPosition, Staged
  <2> QED BY <2>1, <2>2 DEF Current, Posting, Closing
<1>8. CASE CloseReadMark(p)
  <2>1. /\ positions' = positions /\ run'[p].at = "unfreeze"
        /\ run'[p].pos = run[p].pos /\ run[p].at = "mark"
    BY <1>1, <1>8 DEF CloseReadMark, storeVars, RunRecord
  <2> QED BY <1>2, <2>1 DEF Current, Posting, Closing
<1>9. CASE CloseUnfreeze(p)
  <2>1. /\ positions' = positions /\ run'[p].at \in {"settle", "failed", "scan", "fund"}
        /\ run'[p].pos = run[p].pos /\ run[p].at = "unfreeze"
    BY <1>1, <1>9 DEF CloseUnfreeze, Goto, OnError, storeVars, RunRecord
  <2> QED BY <1>2, <2>1 DEF Current, Posting, Closing
<1> QED BY <1>3, <1>4, <1>5, <1>6, <1>7, <1>8, <1>9

\* The PnL is posted under a number no settlement has had yet.
LEMMA SettleFits ==
    ASSUME PerpConsistent, SerialConsistent, NEW p \in Procs, CloseSettle(p)
    PROVE  Current(p, run'[p], req, positions') /\ Posting(p, run'[p], req, entries')
<1> DEFINE pos == run[p].pos
           trade == NewTrade("pnl", pos)
           ref == <<"trade", trade>>
<1>1. run \in [Procs -> RunRecord] /\ run[p] \in RunRecord
  BY DEF PerpConsistent
<1>2. run[p].at = "settle" /\ positions' = positions
  BY DEF CloseSettle, storeVars
<1>3. pos = positions[pos.user]
  BY <1>2 DEF SerialConsistent, Current, Closing
<1>4. CASE run'[p].at \in Free
  BY <1>4, FreeFits
<1>5. ASSUME run' = [run EXCEPT ![p].at = "write", ![p].trade = trade]
      PROVE  /\ run'[p].at = "write" /\ run'[p].pos = pos /\ run'[p].trade = trade
             /\ Current(p, run'[p], req, positions')
             /\ PnLOf(p, run'[p], req) = ClosePnL(p)
  <2> HIDE DEF trade
  <2>1. /\ run'[p].at = "write" /\ run'[p].pos = pos /\ run'[p].trade = trade
        /\ run'[p].mark = run[p].mark
    BY <1>1, <1>5 DEF RunRecord
  <2>2. Current(p, run'[p], req, positions')
    BY <1>2, <1>3, <2>1 DEF Current, Closing
  <2>3. PnLOf(p, run'[p], req) = PnLOf(p, run[p], req)
    BY <2>1 DEF PnLOf, SizeOf
  <2> QED BY <2>1, <2>2, <2>3, SamePnL
<1>6. CASE /\ ClosePnL(p) # 0 /\ SettleBalanced(trade, pos, ClosePnL(p))
           /\ run' = [run EXCEPT ![p].at = "write", ![p].trade = trade]
  <2>1. Post(ref, TransferLegs(pos.user, House, USDT, ClosePnL(p)))
    BY <1>6 DEF SettleBalanced, SettleTrade
  <2>2. ref \in DOMAIN entries' /\ entries'[ref][1].amount = ClosePnL(p)
    BY <2>1 DEF Post, TransferLegs
  <2> HIDE DEF trade
  <2> QED BY <1>5, <1>6, <2>2 DEF Posting
<1>7. CASE /\ ClosePnL(p) = 0 /\ UNCHANGED accountVars
           /\ run' = [run EXCEPT ![p].at = "write", ![p].trade = trade]
  <2>1. entries' = entries
    BY <1>7 DEF accountVars
  <2>2. Cardinality(DOMAIN entries) \in Nat
    BY FS_CardinalityType DEF PerpConsistent, AccountConsistent
  <2>3. ref \notin DOMAIN entries
    <3> DEFINE n == Cardinality(DOMAIN entries)
    <3>1. ref[1] = "trade" /\ ref[2][3] = n
      BY DEF NewTrade
    <3>2. Numbered(DOMAIN entries)
      BY DEF SerialConsistent
    <3> HIDE DEF ref
    <3>3. ref \in DOMAIN entries => n < n
      BY <3>1, <3>2 DEF Numbered
    <3> HIDE DEF n
    <3> QED BY <2>2, <3>3 DEF n
  <2> HIDE DEF trade
  <2> QED BY <1>5, <1>7, <2>1, <2>3 DEF Posting
<1>8. run'[p].at \in Free \/ ~Goto(p, OnError(p))
  BY <1>1 DEF Goto, OnError, RunRecord, Free, Ended
<1> QED BY <1>4, <1>6, <1>7, <1>8 DEF CloseSettle

\* One reference at most is posted in a step: a settlement with the size of the
\* ledger as its number, the release of an open by the request itself.
LEMMA LedgerGrows ==
    ASSUME PerpConsistent, NEW p \in Procs, Acts(p)
    PROVE  \/ entries' = entries
           \/ \E ref : /\ ref \notin DOMAIN entries
                       /\ DOMAIN entries' = DOMAIN entries \cup {ref}
                       /\ ref[1] = "trade" => ref[2][3] = Cardinality(DOMAIN entries)
                       /\ \A o : ref = GivenBack(o) => o = p /\ OpenUndo(p)
<1> DEFINE New == \E ref : /\ ref \notin DOMAIN entries
                           /\ DOMAIN entries' = DOMAIN entries \cup {ref}
                           /\ ref[1] = "trade" => ref[2][3] = Cardinality(DOMAIN entries)
                           /\ \A o : ref = GivenBack(o) => o = p /\ OpenUndo(p)
                       /\ \A o : ref = GivenBack(o) => o = p /\ OpenUndo(p)
<1>1. CASE UNCHANGED accountVars
  BY <1>1 DEF accountVars
<1>2. CASE p \in Reqs /\ (OpenFreeze(p) \/ OpenUndo(p)) /\ ~UNCHANGED accountVars
  <2>1. /\ addMargin(p) \in Int /\ req[p].user \in Accounts
        /\ <<"freeze", p>> \in {"freeze", "position"} \X Reqs
    BY <1>2, AddMarginType, RunFacts DEF OpenFreeze, OpenUndo, Opening, Accounts
  <2>2. CASE OpenFreeze(p)
    <3>1. Freeze(req[p].user, USDT, addMargin(p), <<"freeze", p>>)
      BY <1>2, <2>2 DEF OpenFreeze
    <3>2. /\ <<"freeze", <<"freeze", p>>>> \notin DOMAIN entries
          /\ DOMAIN entries' = DOMAIN entries \cup {<<"freeze", <<"freeze", p>>>>}
      BY <2>1, <3>1, MoveKeeps DEF PerpConsistent
    <3> QED BY <3>2 DEF GivenBack
  <2>3. CASE OpenUndo(p)
    <3>1. Unfreeze(req[p].user, USDT, addMargin(p), <<"freeze", p>>)
      BY <1>2, <2>3 DEF OpenUndo
    <3>2. /\ <<"unfreeze", <<"freeze", p>>>> \notin DOMAIN entries
          /\ DOMAIN entries' = DOMAIN entries \cup {<<"unfreeze", <<"freeze", p>>>>}
      BY <2>1, <3>1, MoveKeeps DEF PerpConsistent
    <3> QED BY <2>3, <3>2 DEF GivenBack
  <2> QED BY <1>2, <2>2, <2>3
<1>3. CASE CloseUnfreeze(p) /\ ~UNCHANGED accountVars
  <2>1. run[p].at = "unfreeze" /\ Unfreeze(run[p].pos.user, USDT, MarginRelease(p), ReleaseRef(p))
    BY <1>3 DEF CloseUnfreeze
  <2>2. MarginRelease(p) \in Int /\ run[p].pos \in Row
    <3>1. run[p].at \in Closing \cup {"event"} /\ ~Opens(p, req)
      BY <2>1, RunFacts DEF Staged, Closing
    <3> QED BY <3>1, CloseTypes
  <2>3. run[p].pos.user \in Accounts /\ ReleaseRef(p) \in {"freeze", "position"} \X Reqs
    BY <2>2, Fields DEF Accounts, ReleaseRef
  <2>4. /\ <<"unfreeze", ReleaseRef(p)>> \notin DOMAIN entries
        /\ DOMAIN entries' = DOMAIN entries \cup {<<"unfreeze", ReleaseRef(p)>>}
    BY <2>1, <2>2, <2>3, MoveKeeps DEF PerpConsistent
  <2> QED BY <2>4 DEF ReleaseRef, GivenBack
<1>4. ASSUME NEW kind \in {"pnl", "funding"}, NEW pos \in Row, NEW n \in Int,
             SettleBalanced(NewTrade(kind, pos), pos, n)
      PROVE  New
  <2> DEFINE trade == NewTrade(kind, pos)
  <2>1. trade \in {"pnl", "funding"} \X Reqs \X Nat /\ trade[3] = Cardinality(DOMAIN entries)
    <3>1. Cardinality(DOMAIN entries) \in Nat
      BY FS_CardinalityType DEF PerpConsistent, AccountConsistent
    <3> QED BY <3>1, Fields DEF NewTrade
  <2>2. pos.user \in Traders
    BY Fields
  <2> HIDE DEF trade
  <2>3. /\ <<"trade", trade>> \notin DOMAIN entries
        /\ DOMAIN entries' = DOMAIN entries \cup {<<"trade", trade>>}
    BY <1>4, <2>1, <2>2, TransferKeeps DEF PerpConsistent, trade
  <2>4. <<"trade", trade>>[2][3] = Cardinality(DOMAIN entries)
    BY <2>1
  <2> QED BY <2>3, <2>4 DEF GivenBack
<1>5. CASE CloseSettle(p) /\ ~UNCHANGED accountVars
  <2>1. run[p].at = "settle" /\ SettleBalanced(NewTrade("pnl", run[p].pos), run[p].pos, ClosePnL(p))
    BY <1>5 DEF CloseSettle
  <2>2. ClosePnL(p) \in Int /\ run[p].pos \in Row
    <3>1. run[p].at \in Closing \cup {"event"} /\ ~Opens(p, req)
      BY <2>1, RunFacts DEF Staged, Closing
    <3> QED BY <3>1, CloseTypes
  <2> QED BY <1>4, <2>1, <2>2
<1>6. CASE FundSettle(p) /\ ~UNCHANGED accountVars
  <2> DEFINE n == FundingPayment(run[p].pos.side, run[p].pos.size, run[p].mark)
  <2>1. run[p].at = "pay" /\ SettleBalanced(NewTrade("funding", run[p].pos), run[p].pos, n)
    BY <1>6 DEF FundSettle
  <2>2. run[p].pos \in Row /\ run[p].pos.size \in Nat /\ run[p].mark \in Nat
    BY <2>1, RunFacts, Fields DEF Staged, RunRecord
  <2>3. n \in Int
    <3> DEFINE m == run[p].pos.size * run[p].mark
    <3>1. m \in Int
      BY <2>2, ProductType
    <3> HIDE DEF m
    <3>2. Div(m, FundingDen) \in Int
      BY <3>1, DivType, PerpAssumption
    <3> QED BY <3>2 DEF FundingPayment, Notional, m
  <2> HIDE DEF n
  <2> QED BY <1>4, <2>1, <2>2, <2>3
<1>7. \/ UNCHANGED accountVars
      \/ p \in Reqs /\ (OpenFreeze(p) \/ OpenUndo(p))
      \/ CloseUnfreeze(p) \/ CloseSettle(p) \/ FundSettle(p)
  BY DEF Acts, ReqStep, ScanStep, FundStep, CloseStep, OpenReadMark, OpenReadPosition,
         OpenUpsert, CloseReadPosition, LiquidateReadPosition, CloseReadMark, CloseWrite,
         InsertEvent, ScanList, ScanCheck, FundList, FundReadMark, FundRecord, LoopEnd, Abandon
<1> QED BY <1>1, <1>2, <1>3, <1>5, <1>6, <1>7

\* The numbers stay below the size of the ledger.
LEMMA NumbersStay ==
    ASSUME PerpConsistent, Numbered(DOMAIN entries), NEW p \in Procs, Acts(p)
    PROVE  Numbered(DOMAIN entries')
<1> DEFINE D == DOMAIN entries
           E == DOMAIN entries'
<1>1. CASE entries' = entries
  BY <1>1
<1>2. CASE entries' # entries
  <2>1. PICK ref : ref \notin D /\ E = D \cup {ref} /\ (ref[1] = "trade" => ref[2][3] = Cardinality(D))
    BY <1>2, LedgerGrows
  <2>2. IsFiniteSet(D) /\ Cardinality(D) \in Nat
    BY FS_CardinalityType DEF PerpConsistent, AccountConsistent
  <2>3. Cardinality(E) = Cardinality(D) + 1
    BY <2>1, <2>2, FS_AddElement
  <2>4. ASSUME NEW i \in D, i[1] = "trade" PROVE i[2][3] \in Nat
    <3>1. i \in Refs
      BY DEF PerpConsistent, AccountConsistent, LedgerTypeOK
    <3> QED BY <2>4, <3>1 DEF Refs
  <2> DEFINE c == Cardinality(D)
             e == Cardinality(E)
  <2>5. c \in Nat /\ e = c + 1 /\ (\A i \in D : i[1] = "trade" => i[2][3] < c)
    BY <2>2, <2>3 DEF Numbered
  <2> HIDE DEF c, e
  <2>6. ASSUME NEW i \in E, i[1] = "trade" PROVE i[2][3] < e
    <3>1. CASE i \in D
      <4> DEFINE n == i[2][3]
      <4>1. n \in Nat /\ n < c
        BY <2>4, <2>5, <2>6, <3>1
      <4> HIDE DEF n
      <4>2. n < e
        BY <2>5, <4>1
      <4> QED BY <4>2 DEF n
    <3>2. CASE i = ref
      <4>1. i[2][3] = c
        BY <2>1, <2>6, <3>2 DEF c
      <4> QED BY <2>5, <4>1
    <3> QED BY <2>1, <2>6, <3>1, <3>2
  <2>7. Numbered(E)
    <3> HIDE DEF E
    <3> QED BY <2>6 DEF Numbered, e
  <2> QED BY <2>7
<1> QED BY <1>1, <1>2

\* Every step of a run keeps what one run at a time can rely on.
LEMMA SerialIsConsistent ==
    ASSUME PerpConsistent, SerialConsistent, MaxInFlight = 1, [PerpNext]_perpVars
    PROVE  SerialConsistent'
<1>1. ASSUME NEW p \in Procs, Acts(p) PROVE SerialConsistent'
  <2>1. Current(p, run'[p], req, positions') /\ Posting(p, run'[p], req, entries')
    <3>1. CASE \/ OpenReadPosition(p) \/ OpenFreeze(p) \/ OpenUpsert(p)
               \/ CloseReadPosition(p) /\ p \in Reqs
               \/ LiquidateReadPosition(p) \/ CloseReadMark(p) \/ CloseUnfreeze(p)
      BY <3>1, ReadingSteps
    <3>2. CASE CloseSettle(p)
      BY <3>2, SettleFits
    <3>3. CASE \/ OpenReadMark(p) \/ OpenUndo(p) \/ CloseWrite(p) \/ InsertEvent(p)
               \/ ScanList(p) \/ ScanCheck(p) \/ FundList(p) \/ FundReadMark(p)
               \/ FundSettle(p) \/ FundRecord(p) \/ LoopEnd(p) \/ Abandon(p)
      BY <3>3, FreeSteps, FreeFits
    <3> QED BY <1>1, <3>1, <3>2, <3>3 DEF Acts, ReqStep, ScanStep, FundStep, CloseStep
  <2>2. Numbered(DOMAIN entries')
    BY <1>1, NumbersStay DEF SerialConsistent
  <2> QED BY <1>1, <2>1, <2>2, SerialStep
<1>2. CASE MarkTick \/ UNCHANGED perpVars
  <2>1. UNCHANGED <<run, req, positions, entries>>
    BY <1>2 DEF MarkTick, perpVars, accountVars, storeVars
  <2> QED BY <2>1 DEF SerialConsistent, OneAtATime
<1>3. (\E p \in Procs : Acts(p)) \/ MarkTick \/ UNCHANGED perpVars
  BY DEF PerpNext, Acts, Procs
<1> QED BY <1>1, <1>2, <1>3

\* At first nobody is in flight.
LEMMA InitIsSerial == PerpInit => SerialConsistent
<1> SUFFICES ASSUME PerpInit PROVE SerialConsistent
  OBVIOUS
<1>1. \A p \in Procs : run[p].at = "idle"
  BY DEF PerpInit, Idle
<1>2. DOMAIN entries = {}
  BY DEF PerpInit
<1>3. OneAtATime
  BY <1>1 DEF OneAtATime, Ended
<1>4. \A p \in Procs : Current(p, run[p], req, positions) /\ Posting(p, run[p], req, entries)
  BY <1>1, FreeFits DEF Free, Ended
<1>5. Numbered(DOMAIN entries)
  BY <1>2 DEF Numbered
<1> QED BY <1>3, <1>4, <1>5 DEF SerialConsistent

\* Only Open's UpsertPosition and the write of closeSize take a run to its event.
LEMMA WhoWrites ==
    ASSUME PerpConsistent, PerpNext, NEW p \in Procs, run'[p].at = "event"
    PROVE  /\ run[p].at = "upsert" => p \in Reqs /\ OpenUpsert(p)
           /\ run[p].at = "write" => CloseWrite(p)
<1>1. SUFFICES ASSUME run[p].at \in {"upsert", "write"}
               PROVE  \/ p \in Reqs /\ OpenUpsert(p) /\ run[p].at = "upsert"
                      \/ CloseWrite(p) /\ run[p].at = "write"
  OBVIOUS
<1>2. Acts(p)
  <2>1. PICK o \in Procs : Acts(o)
    <3>1. (\E o \in Procs : Acts(o)) \/ MarkTick
      BY DEF PerpNext, Acts, Procs
    <3>2. CASE MarkTick
      BY <1>1, <3>2 DEF MarkTick
    <3> QED BY <3>1, <3>2
  <2>2. CASE o # p
    BY <1>1, <2>1, <2>2, RunMoves
  <2> QED BY <2>1, <2>2
<1>3. run \in [Procs -> RunRecord]
  BY DEF PerpConsistent
<1>4. CASE \/ OpenReadMark(p) \/ OpenReadPosition(p) \/ OpenFreeze(p) \/ OpenUndo(p)
           \/ CloseReadPosition(p) \/ LiquidateReadPosition(p) \/ CloseReadMark(p)
           \/ CloseUnfreeze(p) \/ CloseSettle(p) \/ InsertEvent(p)
  BY <1>1, <1>4 DEF OpenReadMark, OpenReadPosition, OpenFreeze, OpenUndo, CloseReadPosition,
                    LiquidateReadPosition, CloseReadMark, CloseUnfreeze, CloseSettle,
                    InsertEvent, Starts
<1>5. CASE \/ ScanList(p) \/ ScanCheck(p) \/ FundList(p) \/ FundReadMark(p) \/ FundSettle(p)
           \/ FundRecord(p) \/ LoopEnd(p)
  BY <1>1, <1>5 DEF ScanList, ScanCheck, FundList, FundReadMark, FundSettle, FundRecord,
                    LoopEnd, Starts
<1>6. CASE Abandon(p)
  BY <1>3, <1>6 DEF Abandon, Idle
<1>7. CASE p \in Reqs /\ OpenUpsert(p)
  BY <1>7 DEF OpenUpsert
<1>8. CASE CloseWrite(p)
  BY <1>8 DEF CloseWrite
<1> QED BY <1>2, <1>4, <1>5, <1>6, <1>7, <1>8
        DEF Acts, ReqStep, ScanStep, FundStep, CloseStep

\* The row Open writes keeps the value of what was there.
LEMMA OpenedKeepsPnL ==
    ASSUME PerpConsistent, SerialConsistent, NEW p \in Reqs, OpenUpsert(p),
           run'[p].at = "event", NEW price \in Marks
    PROVE  LET u == req[p].user
               added == UnrealizedPnL(req[p].side, req[p].size, run[p].mark, price)
               error == PnLAt(u, price)' - PnLAt(u, price) - added
           IN  2 * error \in -positions'[u].size..positions'[u].size
<1> DEFINE u == req[p].user
           old == run[p].pos
           a == req[p].size
           m == run[p].mark
           side == req[p].side
           row == OpenedRow(p)
           new == positions'[u]
           b == UnrealizedPnL(side, a, m, price)
<1>1. /\ p \in Procs /\ run[p].at = "upsert" /\ req' = req
      /\ run \in [Procs -> RunRecord]
  BY DEF OpenUpsert, Procs, PerpConsistent
<1>2. /\ u \in Traders /\ a \in Nat /\ m \in Nat /\ old \in Row \cup {None} /\ price \in Nat
      /\ positions \in [Traders -> Row \cup {None}]
  BY <1>1, RunFacts, PerpAssumption DEF RunRecord, PerpConsistent, TablesOK
<1>3. old = positions[u] /\ (old # None => old.side = side)
  BY <1>1 DEF SerialConsistent, Current
<1>4. UpsertPosition(row) /\ row \in Row
  <2>1. CASE Goto(p, "undo")
    BY <1>1, <2>1, GotoRecord DEF Stages, Opening
  <2> QED BY <1>1, <2>1, OpenedRowType DEF OpenUpsert, UpsertPosition
<1>5. row.user = u
  <2>1. CASE old = None
    BY <2>1 DEF OpenedRow
  <2>2. CASE old # None
    <3>1. old \in Row /\ old.user = u
      BY <1>2, <1>3, <2>2 DEF PerpConsistent, TablesOK
    <3> QED BY <2>2, <3>1 DEF OpenedRow, Row
  <2> QED BY <2>1, <2>2
<1>6. new = IF old = None THEN row ELSE [row EXCEPT !.id = old.id]
  BY <1>2, <1>3, <1>4, <1>5 DEF UpsertPosition
<1>7. b \in Int
  BY <1>2, ProfitOfParts
<1>8. CASE old = None
  <2>1. /\ new = [id |-> p, user |-> u, side |-> side, size |-> a, entry |-> m,
                  margin |-> addMargin(p)]
    BY <1>6, <1>8 DEF OpenedRow
  <2>2. new # None
    BY <1>4, <1>6, <1>8, Fields
  <2>3. PnLAt(u, price) = 0
    BY <1>3, <1>8 DEF PnLAt
  <2>4. PnLAt(u, price)' = b
    BY <1>1, <2>1, <2>2 DEF PnLAt
  <2> DEFINE error == PnLAt(u, price)' - PnLAt(u, price) - b
  <2>5. error = 0 /\ new.size = a
    <3> HIDE DEF b
    <3> QED BY <1>7, <2>1, <2>3, <2>4
  <2> HIDE DEF error
  <2>6. 2 * error \in -a..a
    BY <1>2, <2>5
  <2> QED BY <2>5, <2>6 DEF error
<1>9. CASE old # None
  <2> DEFINE s == old.size
             e == old.entry
             w == WeightedEntryPrice(s, e, a, m)
             d == UnrealizedPnL(side, s, e, price)
             f == UnrealizedPnL(side, s + a, w, price)
  <2>1. old \in Row /\ s \in Nat \ {0} /\ e \in Nat
    BY <1>2, <1>9, Fields
  <2>2. /\ row = [old EXCEPT !.size = s + a, !.entry = w, !.margin = @ + addMargin(p)]
    BY <1>9 DEF OpenedRow
  <2>3. row.side = side /\ row.size = s + a /\ row.entry = w
    <3> HIDE DEF row, s, w
    <3> QED BY <1>3, <1>9, <2>1, <2>2 DEF Row
  <2>4. new.side = side /\ new.size = s + a /\ new.entry = w /\ new # None
    <3>1. new.side = row.side /\ new.size = row.size /\ new.entry = row.entry /\ new \in Row
      <4> HIDE DEF row, s, w
      <4> QED BY <1>4, <1>6, <1>9, <2>1 DEF Row
    <3> QED BY <2>3, <3>1, Fields
  <2>5. PnLAt(u, price) = d /\ PnLAt(u, price)' = f
    <3> HIDE DEF d, f, s, e, w
    <3> QED BY <1>1, <1>3, <1>9, <2>4 DEF PnLAt, d, f, s, e
  <2> DEFINE error == PnLAt(u, price)' - PnLAt(u, price) - b
  <2>6. error = f - d - b
    BY <2>5
  <2> HIDE DEF error
  <2>7. 2 * error \in -(s + a)..(s + a)
    <3> HIDE DEF s, e, a, m, side
    <3> QED BY <1>2, <2>1, <2>6, AveragingRounds
  <2> QED BY <2>4, <2>7 DEF error
<1> QED BY <1>8, <1>9

\* What a close takes off the row is what it has posted.
LEMMA WriteTakesPnL ==
    ASSUME PerpConsistent, SerialConsistent, NEW p \in Procs, CloseWrite(p),
           run'[p].at = "event"
    PROVE  LET u == run[p].pos.user
               ref == <<"trade", run[p].trade>>
           IN  PnLAt(u, run[p].mark) - PnLAt(u, run[p].mark)'
                 = IF ref \in DOMAIN entries THEN entries[ref][1].amount ELSE 0
<1> DEFINE pos == run[p].pos
           u == pos.user
           x == run[p].mark
           c == CloseSize(p)
           s == pos.size
           e == pos.entry
           ref == <<"trade", run[p].trade>>
           rest == [pos EXCEPT !.size = @ - c, !.margin = @ - MarginRelease(p)]
<1>1. run[p].at = "write" /\ ~Opens(p, req)
  BY RunFacts DEF CloseWrite, Staged, Closing
<1>2. pos \in Row /\ c \in 1..s /\ u \in Traders /\ s \in Nat \ {0} /\ e \in Nat
  BY <1>1, CloseTypes, Fields DEF Closing
<1>3. x \in Nat /\ positions \in [Traders -> Row \cup {None}]
  BY RunFacts DEF RunRecord, PerpConsistent, TablesOK
<1>4. pos = positions[u] /\ pos # None
  BY <1>1, <1>2, Fields DEF SerialConsistent, Current, Closing
<1>5. ClosePnL(p) = UnrealizedPnL(pos.side, c, e, x)
  BY DEF ClosePnL, RealizedPnL
<1>6. PnLAt(u, x) = UnrealizedPnL(pos.side, s, e, x)
  BY <1>4 DEF PnLAt
<1>7. /\ IF rest.size = 0 THEN DeletePosition(u) ELSE UpsertPosition(rest)
      /\ Goto(p, "event")
  <2>1. CASE Goto(p, OnError(p))
    <3>1. run'[p].at = OnError(p)
      BY <2>1 DEF Goto, PerpConsistent, RunRecord
    <3> QED BY <3>1 DEF OnError
  <2> QED BY <2>1 DEF CloseWrite
<1>8. run'[p].pos = pos /\ run'[p].mark = x
  BY <1>7, GotoRecord DEF Stages, PerpConsistent
<1>9. /\ rest.size = s - c /\ rest.side = pos.side /\ rest.entry = e /\ rest.user = u
      /\ [rest EXCEPT !.id = pos.id].size = s - c
      /\ [rest EXCEPT !.id = pos.id].side = pos.side
      /\ [rest EXCEPT !.id = pos.id].entry = e
  <2> HIDE DEF c
  <2> QED BY <1>2 DEF Row
<1>10. PnLAt(u, x) - PnLAt(u, x)' = ClosePnL(p)
  <2>1. CASE rest.size = 0
    <3>1. positions'[u] = None
      BY <1>2, <1>3, <1>7, <2>1 DEF DeletePosition
    <3>2. PnLAt(u, x)' = 0
      BY <1>8, <3>1 DEF PnLAt
    <3>3. c = s
      <4> HIDE DEF c, s, rest
      <4> QED BY <1>2, <1>9, <2>1
    <3>4. UnrealizedPnL(pos.side, s, e, x) \in Int
      BY <1>2, <1>3, ProfitOfParts
    <3> HIDE DEF c, s, e, x
    <3> QED BY <1>5, <1>6, <3>2, <3>3, <3>4 DEF s, e
  <2>2. CASE rest.size # 0
    <3> DEFINE new == [rest EXCEPT !.id = pos.id]
    <3>1. positions'[u] = new
      <4> HIDE DEF rest
      <4> QED BY <1>2, <1>3, <1>4, <1>7, <1>9, <2>2 DEF UpsertPosition
    <3>2. new # None
      <4>1. rest \in Row
        BY <1>1, <1>7, <2>2, RestRowType DEF UpsertPosition, RestRow, Closing
      <4> HIDE DEF rest
      <4>2. new \in Row
        BY <1>2, <4>1, Fields DEF Row
      <4> QED BY <4>2, Fields
    <3>3. PnLAt(u, x)' = UnrealizedPnL(pos.side, s - c, e, x)
      <4> HIDE DEF rest, c
      <4> QED BY <1>8, <1>9, <3>1, <3>2 DEF PnLAt
    <3>4. UnrealizedPnL(pos.side, s, e, x) - UnrealizedPnL(pos.side, s - c, e, x)
            = UnrealizedPnL(pos.side, c, e, x)
      <4>1. c \in Nat /\ s \in Nat
        BY <1>2
      <4> HIDE DEF c, s, e, x
      <4> QED BY <1>2, <1>3, <4>1, ProfitOfParts
    <3> QED BY <1>5, <1>6, <3>3, <3>4
  <2> QED BY <2>1, <2>2
<1>11. ClosePnL(p) = IF ref \in DOMAIN entries THEN entries[ref][1].amount ELSE 0
  BY <1>1, SamePnL DEF SerialConsistent, Posting
<1> QED BY <1>10, <1>11
-----------------------------------------------------------------------------
(* Margins *)

\* Before its step, the run that moves balances the books.
LEMMA BalancedBefore ==
    ASSUME PerpConsistent, OneAtATime, MarginConsistent, MaxInFlight = 1,
           NEW p \in Procs, Acts(p)
    PROVE  Balanced(p, run[p], req, positions, frozen)
<1>1. CASE run[p].at \notin Ended
  BY <1>1 DEF MarginConsistent
<1>2. CASE run[p].at \in Ended
  <2>1. Quiet
    BY <1>2, Alone DEF Quiet
  <2>2. \A u \in Traders : frozen[u][USDT] = MarginOf(positions[u]) /\ frozen[u][USDT] \in Nat
    BY <2>1 DEF MarginConsistent, PerpConsistent, AccountConsistent, LedgerTypeOK
  <2>3. \A u : Pending(p, run[p], req, u) = 0
    BY <1>2 DEF Pending, Ended
  <2> QED BY <2>2, <2>3 DEF Balanced
<1> QED BY <1>1, <1>2

\* What is left to show of a step of run p.
LEMMA MarginStep ==
    ASSUME PerpConsistent, PerpConsistent', OneAtATime, MarginConsistent, MaxInFlight = 1,
           NEW p \in Procs, Acts(p), users' = users,
           Balanced(p, run'[p], req, positions', frozen'),
           run'[p].at \in {"upsert", "undo"} => AddOf(p, run'[p], req) > 0
    PROVE  MarginConsistent'
<1>1. /\ \A o \in Procs \ {p} : run'[o].at \in Ended /\ run'[o] = run[o]
      /\ req' = req
  BY Alone, RunMoves
<1>2. Quiet' => \A u \in Traders : frozen'[u][USDT] = MarginOf(positions'[u])
  <2> SUFFICES ASSUME Quiet', NEW u \in Traders
               PROVE  frozen'[u][USDT] = MarginOf(positions'[u])
    OBVIOUS
  <2>1. run'[p].at \in Ended
    BY DEF Quiet
  <2>2. Pending(p, run'[p], req, u) = 0
    BY <2>1 DEF Pending, Ended
  <2>3. frozen'[u][USDT] = MarginOf(positions'[u]) + 0
    BY <2>2 DEF Balanced
  <2>4. MarginOf(positions'[u]) \in Nat
    BY Fields DEF PerpConsistent, TablesOK, MarginOf
  <2> DEFINE m == MarginOf(positions'[u])
  <2> HIDE DEF m
  <2>5. frozen'[u][USDT] = m
    BY <2>3, <2>4 DEF m
  <2> QED BY <2>5 DEF m
<1>3. ASSUME NEW o \in Procs, run'[o].at \notin Ended
      PROVE  /\ Balanced(o, run'[o], req', positions', frozen')
             /\ run'[o].at \in {"upsert", "undo"} => AddOf(o, run'[o], req') > 0
  BY <1>1, <1>3
<1>4. \A o \in Procs : run'[o].at \in {"upsert", "undo"} => run'[o].at \notin Ended
  BY DEF Ended
<1>5. ASSUME NEW o \in Reqs, GivenBack(o) \in DOMAIN entries' PROVE run'[o].at = "failed"
  <2>0. o \in Procs
    BY DEF Procs
  <2>1. CASE GivenBack(o) \in DOMAIN entries
    <3>1. run[o].at = "failed"
      BY <2>1 DEF MarginConsistent
    <3>2. o # p
      BY <3>1, RunMoves DEF Starts, Ended
    <3> QED BY <1>1, <2>0, <3>1, <3>2
  <2>2. CASE GivenBack(o) \notin DOMAIN entries
    <3>1. o = p /\ OpenUndo(p)
      <4>1. entries' # entries
        BY <1>5, <2>2
      <4>2. PICK ref : /\ DOMAIN entries' = DOMAIN entries \cup {ref}
                       /\ \A q : ref = GivenBack(q) => q = p /\ OpenUndo(p)
        BY <4>1, LedgerGrows
      <4>3. ref = GivenBack(o)
        BY <1>5, <2>2, <4>2
      <4> QED BY <4>2, <4>3
    <3>2. run'[p].at = "failed"
      BY <3>1, GotoRecord DEF OpenUndo, Stages, Ended, PerpConsistent
    <3> QED BY <3>1, <3>2
  <2> QED BY <2>1, <2>2
<1>6. users' = Accounts
  BY DEF MarginConsistent
<1> QED BY <1>2, <1>3, <1>4, <1>5, <1>6 DEF MarginConsistent

\* A step between stages in which nothing is pending.
LEMMA NothingPends ==
    ASSUME PerpConsistent, NEW p \in Procs,
           Balanced(p, run[p], req, positions, frozen),
           run[p].at \notin {"upsert", "undo", "settle", "write"},
           run'[p].at \notin {"upsert", "undo", "settle", "write"},
           positions' = positions,
           \A u \in Traders : frozen'[u][USDT] = frozen[u][USDT]
    PROVE  Balanced(p, run'[p], req, positions', frozen')
  BY DEF Balanced, Pending

\* A transfer leaves what is frozen alone.
LEMMA TransferFreezesNothing ==
    ASSUME PerpConsistent, NEW trade, NEW pos, NEW n, SettleBalanced(trade, pos, n)
    PROVE  \A u \in Traders : frozen'[u][USDT] = frozen[u][USDT]
<1>1. frozen' = [u \in Accounts |-> [a \in {USDT} |->
                      frozen[u][a] - RowSum(<<>>, Len(<<>>), u, a)]]
  BY DEF SettleBalanced, SettleTrade, Accounts
<1>2. ASSUME NEW u \in Traders PROVE frozen'[u][USDT] = frozen[u][USDT]
  <2> DEFINE f == frozen[u][USDT]
  <2>1. f \in Nat
    BY DEF PerpConsistent, AccountConsistent, LedgerTypeOK
  <2>2. frozen'[u][USDT] = f - RowSum(<<>>, Len(<<>>), u, USDT)
    BY <1>1 DEF Accounts
  <2>3. RowSum(<<>>, Len(<<>>), u, USDT) = 0
    <3>1. Len(<<>>) = 0
      OBVIOUS
    <3> QED BY <3>1, RowSumOfNone
  <2> HIDE DEF f
  <2>4. frozen'[u][USDT] = f
    BY <2>1, <2>2, <2>3
  <2> QED BY <2>4 DEF f
<1> QED BY <1>2

\* What a freeze or an unfreeze does to what is frozen.
LEMMA FrozenMoves ==
    ASSUME PerpConsistent, NEW u \in Accounts, NEW n \in Int, NEW ref
    PROVE  /\ Freeze(u, USDT, n, ref)
                => /\ n > 0 /\ users' = users
                   /\ \A v \in Traders : frozen'[v][USDT]
                          = IF v = u THEN frozen[v][USDT] + n ELSE frozen[v][USDT]
           /\ Unfreeze(u, USDT, n, ref)
                => /\ n > 0 /\ users' = users
                   /\ \A v \in Traders : frozen'[v][USDT]
                          = IF v = u THEN frozen[v][USDT] - n ELSE frozen[v][USDT]
<1>1. frozen \in [Accounts -> [{USDT} -> Nat]]
  BY DEF PerpConsistent, AccountConsistent, LedgerTypeOK, Accounts
<1>2. Freeze(u, USDT, n, ref)
        => /\ n > 0 /\ users' = users
           /\ \A v \in Traders : frozen'[v][USDT]
                  = IF v = u THEN frozen[v][USDT] + n ELSE frozen[v][USDT]
  BY <1>1 DEF Freeze, FreezeOK, Accounts
<1>3. Unfreeze(u, USDT, n, ref)
        => /\ n > 0 /\ users' = users
           /\ \A v \in Traders : frozen'[v][USDT]
                  = IF v = u THEN frozen[v][USDT] - n ELSE frozen[v][USDT]
  BY <1>1 DEF Unfreeze, UnfreezeOK, Accounts
<1> QED BY <1>2, <1>3

\* The numbers of a trader.
LEMMA MarginTypes ==
    ASSUME PerpConsistent, NEW u \in Traders
    PROVE  MarginOf(positions[u]) \in Nat /\ frozen[u][USDT] \in Nat
<1>1. positions[u] \in Row \cup {None}
  BY DEF PerpConsistent, TablesOK
<1>2. MarginOf(positions[u]) \in Nat
  BY <1>1, Fields DEF MarginOf
<1> QED BY <1>2 DEF PerpConsistent, AccountConsistent, LedgerTypeOK

\* Open freezes the margin of what it adds.
LEMMA OpenFreezeBalances ==
    ASSUME PerpConsistent, NEW p \in Reqs, OpenFreeze(p),
           Balanced(p, run[p], req, positions, frozen)
    PROVE  /\ Balanced(p, run'[p], req, positions', frozen') /\ users' = users
           /\ run'[p].at \in {"upsert", "undo"} => AddOf(p, run'[p], req) > 0
<1>1. p \in Procs /\ run[p].at = "freeze" /\ positions' = positions
  BY DEF OpenFreeze, Procs, storeVars
<1>2. CASE Freeze(req[p].user, USDT, addMargin(p), <<"freeze", p>>) /\ Goto(p, "upsert")
  <2> DEFINE m == addMargin(p)
  <2>1. m \in Nat
    BY <1>1, AddMarginType DEF Opening
  <2>2. req[p].user \in Traders /\ req[p].user \in Accounts
    BY <1>1, RunFacts DEF Accounts
  <2>3. /\ m > 0 /\ users' = users
        /\ \A v \in Traders : frozen'[v][USDT]
              = IF v = req[p].user THEN frozen[v][USDT] + m ELSE frozen[v][USDT]
    BY <1>2, <2>1, <2>2, FrozenMoves
  <2>4. run'[p].at = "upsert" /\ AddOf(p, run'[p], req) = m
    BY <1>1, <1>2, GotoRecord DEF Stages, Opening, AddOf, addMargin, PerpConsistent
  <2> HIDE DEF m
  <2>5. ASSUME NEW v \in Traders
        PROVE  frozen'[v][USDT] = MarginOf(positions'[v]) + Pending(p, run'[p], req, v)
    <3> DEFINE a == MarginOf(positions[v])
               f == frozen[v][USDT]
    <3>1. a \in Nat /\ f \in Nat
      BY MarginTypes
    <3>2. f = a + 0
      BY <1>1 DEF Balanced, Pending
    <3>3. Pending(p, run'[p], req, v) = IF v = req[p].user THEN m ELSE 0
      BY <2>4 DEF Pending
    <3>4. frozen'[v][USDT] = IF v = req[p].user THEN f + m ELSE f
      BY <2>3
    <3> HIDE DEF a, f
    <3>5. frozen'[v][USDT] = a + Pending(p, run'[p], req, v)
      BY <2>1, <3>1, <3>2, <3>3, <3>4
    <3> QED BY <1>1, <3>5 DEF a
  <2> QED BY <2>3, <2>4, <2>5 DEF Balanced
<1>3. CASE Goto(p, "failed") /\ UNCHANGED accountVars
  <2>1. run'[p].at = "failed"
    BY <1>1, <1>3, GotoRecord DEF Stages, Ended, PerpConsistent
  <2>2. UNCHANGED <<users, frozen>>
    BY <1>3 DEF accountVars
  <2> QED BY <1>1, <2>1, <2>2, NothingPends
<1> QED BY <1>2, <1>3 DEF OpenFreeze

\* The margin is in the row, or has to be given back.
LEMMA OpenUpsertBalances ==
    ASSUME PerpConsistent, SerialConsistent, MarginConsistent, NEW p \in Reqs, OpenUpsert(p),
           Balanced(p, run[p], req, positions, frozen)
    PROVE  /\ Balanced(p, run'[p], req, positions', frozen') /\ users' = users
           /\ run'[p].at \in {"upsert", "undo"} => AddOf(p, run'[p], req) > 0
<1> DEFINE u == req[p].user
           m == addMargin(p)
           row == OpenedRow(p)
           old == run[p].pos
<1>1. /\ p \in Procs /\ run[p].at = "upsert" /\ frozen' = frozen /\ users' = users
      /\ run \in [Procs -> RunRecord]
  BY DEF OpenUpsert, Procs, accountVars, PerpConsistent
<1>2. /\ m \in Nat /\ u \in Traders /\ m > 0 /\ m = AddOf(p, run[p], req)
      /\ old = positions[u] /\ old \in Row \cup {None}
      /\ positions \in [Traders -> Row \cup {None}]
  <2>1. m \in Nat /\ m = AddOf(p, run[p], req)
    BY <1>1, AddMarginType DEF Opening, AddOf, addMargin
  <2>2. AddOf(p, run[p], req) > 0
    BY <1>1 DEF MarginConsistent
  <2>3. u \in Traders /\ old = positions[u] /\ positions \in [Traders -> Row \cup {None}]
    BY <1>1, RunFacts DEF SerialConsistent, Current, PerpConsistent, TablesOK
  <2> HIDE DEF m
  <2> QED BY <2>1, <2>2, <2>3
<1>3. CASE UpsertPosition(row) /\ run' = [run EXCEPT ![p].at = "event", ![p].pos = row]
  <2>1. run'[p].at = "event"
    <3> HIDE DEF row
    <3> QED BY <1>1, <1>3 DEF RunRecord
  <2>2. row \in Row
    BY <1>1, <1>3, OpenedRowType DEF UpsertPosition
  <2>3. row.user = u /\ row.margin = MarginOf(old) + m
    <3>1. CASE old = None
      <4>1. row.user = u /\ row.margin = m
        BY <3>1 DEF OpenedRow
      <4>2. MarginOf(old) = 0
        BY <3>1 DEF MarginOf
      <4> HIDE DEF m, row, old
      <4> QED BY <1>2, <4>1, <4>2
    <3>2. CASE old # None
      <4>1. old \in Row /\ old.user = u
        BY <1>2, <3>2 DEF PerpConsistent, TablesOK
      <4>2. row.user = old.user /\ row.margin = old.margin + m
        <5> HIDE DEF m
        <5> QED BY <3>2, <4>1 DEF OpenedRow, Row, m
      <4> QED BY <3>2, <4>1, <4>2 DEF MarginOf
    <3> QED BY <3>1, <3>2
  <2> HIDE DEF row
  <2>4. /\ \A v \in Traders \ {u} : positions'[v] = positions[v]
        /\ MarginOf(positions'[u]) = row.margin
    <3>1. positions' = [positions EXCEPT ![u] =
                           IF old = None THEN row ELSE [row EXCEPT !.id = old.id]]
      BY <1>2, <1>3, <2>3 DEF UpsertPosition
    <3>2. positions'[u] = IF old = None THEN row ELSE [row EXCEPT !.id = old.id]
      BY <1>2, <3>1
    <3>3. positions'[u] \in Row /\ positions'[u].margin = row.margin
      BY <1>2, <2>2, <3>2, Fields DEF Row
    <3>4. positions'[u] # None
      BY <3>3, Fields
    <3> QED BY <1>2, <3>1, <3>3, <3>4 DEF MarginOf
  <2>5. ASSUME NEW v \in Traders
        PROVE  frozen'[v][USDT] = MarginOf(positions'[v]) + Pending(p, run'[p], req, v)
    <3> DEFINE a == MarginOf(positions[v])
               b == MarginOf(positions'[v])
               f == frozen[v][USDT]
    <3>1. a \in Nat /\ f \in Nat
      BY MarginTypes
    <3>2. f = a + (IF v = u THEN m ELSE 0)
      BY <1>1, <1>2 DEF Balanced, Pending
    <3>3. Pending(p, run'[p], req, v) = 0
      BY <2>1 DEF Pending
    <3>4. b = IF v = u THEN a + m ELSE a
      BY <1>2, <2>3, <2>4
    <3> HIDE DEF a, b, f, m
    <3>5. f = b + 0
      BY <1>2, <3>1, <3>2, <3>4
    <3> QED BY <1>1, <3>3, <3>5 DEF b, f
  <2> QED BY <1>1, <2>1, <2>5 DEF Balanced
<1>4. CASE Goto(p, "undo") /\ UNCHANGED positions
  <2>1. run'[p].at = "undo" /\ run'[p].mark = run[p].mark
    BY <1>1, <1>4, GotoRecord DEF Stages, Opening, PerpConsistent
  <2>2. AddOf(p, run'[p], req) = AddOf(p, run[p], req)
    BY <2>1 DEF AddOf
  <2>3. \A v : Pending(p, run'[p], req, v) = Pending(p, run[p], req, v)
    BY <1>1, <2>1, <2>2 DEF Pending
  <2> HIDE DEF m
  <2> QED BY <1>1, <1>2, <1>4, <2>2, <2>3 DEF Balanced
<1> QED BY <1>3, <1>4 DEF OpenUpsert

\* The margin of an open that failed is given back: nothing is in its way.
LEMMA OpenUndoBalances ==
    ASSUME PerpConsistent, MarginConsistent, NEW p \in Reqs, OpenUndo(p),
           Balanced(p, run[p], req, positions, frozen)
    PROVE  /\ Balanced(p, run'[p], req, positions', frozen') /\ users' = users
           /\ run'[p].at \in {"upsert", "undo"} => AddOf(p, run'[p], req) > 0
<1> DEFINE u == req[p].user
           m == addMargin(p)
<1>1. /\ p \in Procs /\ run[p].at = "undo" /\ positions' = positions /\ Goto(p, "failed")
  BY DEF OpenUndo, Procs, storeVars
<1>2. run'[p].at = "failed"
  BY <1>1, GotoRecord DEF Stages, Ended, PerpConsistent
<1>3. m \in Nat /\ m > 0 /\ m = AddOf(p, run[p], req) /\ u \in Traders
  <2>1. m \in Nat /\ m = AddOf(p, run[p], req) /\ u \in Traders
    BY <1>1, AddMarginType, RunFacts DEF Opening, AddOf, addMargin
  <2>2. AddOf(p, run[p], req) > 0
    BY <1>1 DEF MarginConsistent
  <2> HIDE DEF m
  <2> QED BY <2>1, <2>2
<1>4. ASSUME NEW v \in Traders
      PROVE  frozen[v][USDT] = MarginOf(positions[v]) + (IF v = u THEN m ELSE 0)
  BY <1>1, <1>3 DEF Balanced, Pending
<1>5. UnfreezeOK(u, USDT, m, <<"freeze", p>>)
  <2>1. <<"unfreeze", <<"freeze", p>>>> \notin DOMAIN entries
    BY <1>1 DEF MarginConsistent, GivenBack
  <2>2. u \in users
    BY <1>3 DEF MarginConsistent, Accounts
  <2>3. frozen[u][USDT] >= m
    <3> DEFINE a == MarginOf(positions[u])
               f == frozen[u][USDT]
    <3>1. a \in Nat /\ f = a + m
      BY <1>3, <1>4, MarginTypes
    <3> HIDE DEF a, f, m
    <3>2. f >= m
      BY <1>3, <3>1
    <3> QED BY <3>2 DEF f
  <2> HIDE DEF m
  <2> QED BY <1>3, <2>1, <2>2, <2>3 DEF UnfreezeOK
<1>6. Unfreeze(u, USDT, m, <<"freeze", p>>)
  BY <1>5 DEF OpenUndo
<1>7. /\ users' = users
      /\ \A v \in Traders : frozen'[v][USDT]
            = IF v = u THEN frozen[v][USDT] - m ELSE frozen[v][USDT]
  <2>1. u \in Accounts /\ m \in Int
    BY <1>3 DEF Accounts
  <2> HIDE DEF m, u
  <2> QED BY <1>6, <2>1, FrozenMoves
<1>8. ASSUME NEW v \in Traders
      PROVE  frozen'[v][USDT] = MarginOf(positions'[v]) + Pending(p, run'[p], req, v)
  <2> DEFINE a == MarginOf(positions[v])
             f == frozen[v][USDT]
             g == frozen'[v][USDT]
  <2>1. a \in Nat /\ f \in Nat
    BY MarginTypes
  <2>2. f = a + (IF v = u THEN m ELSE 0) /\ g = IF v = u THEN f - m ELSE f
    BY <1>4, <1>7
  <2>3. Pending(p, run'[p], req, v) = 0
    BY <1>2 DEF Pending
  <2> HIDE DEF a, f, g, m
  <2>4. g = a + 0
    BY <1>3, <2>1, <2>2
  <2> QED BY <1>1, <2>3, <2>4 DEF a, g
<1> QED BY <1>2, <1>7, <1>8 DEF Balanced

\* What a close frees, and what its row keeps.
LEMMA FreedIs == \A p : MarginRelease(p) = FreedOf(p, run[p], req)
  BY DEF MarginRelease, CloseSize, FreedOf, SizeOf

\* A close gives the margin of its share back before it touches the row.
LEMMA CloseUnfreezeBalances ==
    ASSUME PerpConsistent, NEW p \in Procs, CloseUnfreeze(p),
           Balanced(p, run[p], req, positions, frozen)
    PROVE  /\ Balanced(p, run'[p], req, positions', frozen') /\ users' = users
           /\ run'[p].at \notin {"upsert", "undo"}
<1> DEFINE u == run[p].pos.user
           m == MarginRelease(p)
<1>1. run[p].at = "unfreeze" /\ positions' = positions /\ ~Opens(p, req)
  BY RunFacts DEF CloseUnfreeze, storeVars, Staged, Closing
<1>2. u \in Traders /\ u \in Accounts /\ m \in Nat /\ m \in Int
  BY <1>1, CloseTypes, Fields DEF Closing, Accounts
<1>3. CASE Unfreeze(u, USDT, m, ReleaseRef(p)) /\ Goto(p, "settle")
  <2>1. /\ run'[p].at = "settle" /\ run'[p].pos = run[p].pos
    BY <1>3, GotoRecord DEF Stages, Closing, PerpConsistent
  <2>2. FreedOf(p, run'[p], req) = m
    <3>1. FreedOf(p, run'[p], req) = FreedOf(p, run[p], req)
      BY <2>1 DEF FreedOf, SizeOf
    <3> QED BY <3>1, FreedIs
  <2> HIDE DEF m
  <2>3. /\ users' = users
        /\ \A v \in Traders : frozen'[v][USDT]
              = IF v = u THEN frozen[v][USDT] - m ELSE frozen[v][USDT]
    <3> HIDE DEF u
    <3> QED BY <1>2, <1>3, FrozenMoves
  <2>4. ASSUME NEW v \in Traders
        PROVE  frozen'[v][USDT] = MarginOf(positions'[v]) + Pending(p, run'[p], req, v)
    <3> DEFINE a == MarginOf(positions[v])
               f == frozen[v][USDT]
               g == frozen'[v][USDT]
    <3>1. a \in Nat /\ f \in Nat
      BY MarginTypes
    <3>2. f = a + 0
      BY <1>1 DEF Balanced, Pending
    <3>3. Pending(p, run'[p], req, v) = IF v = u THEN -m ELSE 0
      BY <2>1, <2>2 DEF Pending
    <3>4. g = IF v = u THEN f - m ELSE f
      BY <2>3
    <3> HIDE DEF a, f, g, u
    <3>5. g = a + Pending(p, run'[p], req, v)
      BY <1>2, <3>1, <3>2, <3>3, <3>4
    <3> QED BY <1>1, <3>5 DEF a, g
  <2> QED BY <2>1, <2>3, <2>4 DEF Balanced
<1>4. CASE Goto(p, OnError(p)) /\ UNCHANGED accountVars
  <2>1. run'[p].at \in {"failed", "scan", "fund"}
    BY <1>4, GotoRecord DEF OnError, Stages, Ended, PerpConsistent
  <2>2. UNCHANGED <<users, frozen>>
    BY <1>4 DEF accountVars
  <2> QED BY <1>1, <2>1, <2>2, NothingPends
<1> QED BY <1>3, <1>4 DEF CloseUnfreeze

\* The PnL moves what is available, if the loss can be paid.
LEMMA CloseSettleBalances ==
    ASSUME PerpConsistent, NEW p \in Procs, CloseSettle(p), ClosesGoThrough,
           Balanced(p, run[p], req, positions, frozen)
    PROVE  /\ Balanced(p, run'[p], req, positions', frozen') /\ users' = users
           /\ run'[p].at \notin {"upsert", "undo"}
<1> DEFINE pos == run[p].pos
           trade == NewTrade("pnl", pos)
<1>1. /\ run[p].at = "settle" /\ positions' = positions
      /\ run \in [Procs -> RunRecord] /\ run[p] \in RunRecord
  BY DEF CloseSettle, storeVars, PerpConsistent
<1>2. p \in Reqs \cup Scanners
  BY <1>1, RunFacts DEF Staged, Closing
<1>3. ClosePnL(p) # 0 => SettleBalancedOK(pos, ClosePnL(p))
  BY <1>1, <1>2 DEF ClosesGoThrough
<1>4. run' = [run EXCEPT ![p].at = "write", ![p].trade = trade]
  BY <1>3 DEF CloseSettle
<1>5. users' = users /\ \A u \in Traders : frozen'[u][USDT] = frozen[u][USDT]
  <2>1. CASE ClosePnL(p) # 0 /\ SettleBalanced(trade, pos, ClosePnL(p))
    <3>1. users' = users
      BY <2>1 DEF SettleBalanced, SettleTrade
    <3> QED BY <2>1, <3>1, TransferFreezesNothing
  <2>2. CASE UNCHANGED accountVars
    BY <2>2 DEF accountVars
  <2> QED BY <1>3, <2>1, <2>2 DEF CloseSettle
<1>6. run'[p].at = "write" /\ run'[p].pos = pos
  <2> HIDE DEF trade
  <2> QED BY <1>1, <1>4 DEF RunRecord
<1>7. FreedOf(p, run'[p], req) = FreedOf(p, run[p], req)
  BY <1>6 DEF FreedOf, SizeOf
<1>8. \A v : Pending(p, run'[p], req, v) = Pending(p, run[p], req, v)
  BY <1>1, <1>6, <1>7 DEF Pending
<1> QED BY <1>1, <1>5, <1>6, <1>8 DEF Balanced

\* The row loses the margin that was given back.
LEMMA CloseWriteBalances ==
    ASSUME PerpConsistent, SerialConsistent, NEW p \in Procs, CloseWrite(p), ClosesGoThrough,
           Balanced(p, run[p], req, positions, frozen)
    PROVE  /\ Balanced(p, run'[p], req, positions', frozen') /\ users' = users
           /\ run'[p].at \notin {"upsert", "undo"}
<1> DEFINE pos == run[p].pos
           u == pos.user
           c == CloseSize(p)
           m == MarginRelease(p)
           s == pos.size
           w == pos.margin
           rest == [pos EXCEPT !.size = @ - c, !.margin = @ - m]
<1>1. /\ run[p].at = "write" /\ ~Opens(p, req) /\ p \in Reqs \cup Scanners
      /\ users' = users /\ frozen' = frozen
  BY RunFacts DEF CloseWrite, Staged, Closing, accountVars
<1>2. /\ pos \in Row /\ c \in 1..s /\ m \in Nat /\ u \in Traders
      /\ s \in Nat \ {0} /\ w \in Nat \ {0} /\ pos.side \in PositionSides
  BY <1>1, CloseTypes, Fields DEF Closing
<1>3. positions \in [Traders -> Row \cup {None}] /\ pos = positions[u] /\ pos # None
  BY <1>1, <1>2, Fields DEF SerialConsistent, Current, Closing, PerpConsistent, TablesOK
<1>4. c < s => m < w
  BY <1>1 DEF ClosesGoThrough
<1>5. /\ rest.size = s - c /\ rest.margin = w - m /\ rest.side = pos.side /\ rest.user = u
  <2> HIDE DEF c, m
  <2> QED BY <1>2 DEF Row
<1>6. rest.size > 0 => UpsertOK(rest)
  <2>1. rest.size > 0 => c < s
    <3> HIDE DEF c, s, rest
    <3> QED BY <1>2, <1>5
  <2>2. c < s => rest.margin > 0
    <3> HIDE DEF m, w, rest, c, s
    <3> QED BY <1>2, <1>4, <1>5
  <2> HIDE DEF rest, c, s, m, w
  <2> QED BY <1>2, <1>5, <2>1, <2>2 DEF UpsertOK
<1>7. /\ IF rest.size = 0 THEN DeletePosition(u) ELSE UpsertPosition(rest)
      /\ Goto(p, "event")
  BY <1>6 DEF CloseWrite
<1>8. run'[p].at = "event"
  BY <1>7, GotoRecord DEF Stages, PerpConsistent
<1>9. /\ \A v \in Traders \ {u} : positions'[v] = positions[v]
      /\ MarginOf(positions'[u]) = w - m
  <2>1. CASE rest.size = 0
    <3>1. positions' = [positions EXCEPT ![u] = None]
      BY <1>7, <2>1 DEF DeletePosition
    <3>2. MarginOf(positions'[u]) = 0
      BY <1>2, <1>3, <3>1 DEF MarginOf
    <3>3. m = w
      <4>1. c = s
        <5> HIDE DEF c, s, rest
        <5> QED BY <1>2, <1>5, <2>1
      <4>2. m = Div(w * s, s)
        BY <4>1 DEF MarginRelease
      <4> HIDE DEF m, w, s
      <4> QED BY <1>2, <4>2, DivWhole
    <3> HIDE DEF m, w
    <3> QED BY <1>2, <1>3, <3>1, <3>2, <3>3
  <2>2. CASE rest.size # 0
    <3>1. rest \in Row
      BY <1>1, <1>7, <2>2, RestRowType DEF UpsertPosition, RestRow, Closing
    <3> HIDE DEF rest
    <3>2. positions' = [positions EXCEPT ![u] = [rest EXCEPT !.id = pos.id]]
      BY <1>3, <1>5, <1>7, <2>2 DEF UpsertPosition
    <3>3. [rest EXCEPT !.id = pos.id] \in Row /\ [rest EXCEPT !.id = pos.id].margin = rest.margin
      BY <1>2, <3>1, Fields DEF Row
    <3>4. positions'[u] = [rest EXCEPT !.id = pos.id]
      BY <1>2, <1>3, <3>2
    <3>5. MarginOf(positions'[u]) = rest.margin
      BY <3>3, <3>4, Fields DEF MarginOf
    <3> QED BY <1>3, <1>5, <3>2, <3>5
  <2> QED BY <2>1, <2>2
<1>10. MarginOf(positions[u]) = w
  BY <1>3 DEF MarginOf
<1>11. FreedOf(p, run[p], req) = m
  BY FreedIs
<1>12. ASSUME NEW v \in Traders
       PROVE  frozen'[v][USDT] = MarginOf(positions'[v]) + Pending(p, run'[p], req, v)
  <2> DEFINE a == MarginOf(positions[v])
             b == MarginOf(positions'[v])
             f == frozen[v][USDT]
  <2> HIDE DEF m, w
  <2>1. a \in Nat /\ f \in Nat
    BY MarginTypes
  <2>2. f = a + (IF v = u THEN -m ELSE 0)
    BY <1>1, <1>11 DEF Balanced, Pending
  <2>3. Pending(p, run'[p], req, v) = 0
    BY <1>8 DEF Pending
  <2>4. b = IF v = u THEN a - m ELSE a
    BY <1>9, <1>10
  <2> HIDE DEF a, b, f, u
  <2>5. f = b + 0
    BY <1>2, <2>1, <2>2, <2>4
  <2> QED BY <1>1, <2>3, <2>5 DEF b, f
<1> QED BY <1>1, <1>8, <1>12 DEF Balanced

\* The steps that move neither a margin nor what is frozen.
LEMMA OtherStepsBalance ==
    ASSUME PerpConsistent, NEW p \in Procs,
           \/ OpenReadMark(p) \/ OpenReadPosition(p) \/ CloseReadPosition(p)
           \/ LiquidateReadPosition(p) \/ CloseReadMark(p) \/ InsertEvent(p)
           \/ ScanList(p) \/ ScanCheck(p) \/ FundList(p) \/ FundReadMark(p)
           \/ FundSettle(p) \/ FundRecord(p) \/ LoopEnd(p),
           Balanced(p, run[p], req, positions, frozen)
    PROVE  /\ Balanced(p, run'[p], req, positions', frozen') /\ users' = users
           /\ run'[p].at \notin {"upsert", "undo"}
<1> DEFINE held == {"upsert", "undo", "settle", "write"}
<1>1. run \in [Procs -> RunRecord] /\ run[p] \in RunRecord
  BY DEF PerpConsistent
<1>2. /\ run[p].at \notin held /\ positions' = positions
      /\ users' = users /\ \A u \in Traders : frozen'[u][USDT] = frozen[u][USDT]
  <2>1. CASE \/ OpenReadMark(p) \/ OpenReadPosition(p) \/ CloseReadPosition(p)
             \/ LiquidateReadPosition(p) \/ CloseReadMark(p) \/ InsertEvent(p)
    BY <2>1 DEF OpenReadMark, OpenReadPosition, CloseReadPosition, LiquidateReadPosition,
                CloseReadMark, InsertEvent, Starts, accountVars, storeVars
  <2>2. CASE \/ ScanList(p) \/ ScanCheck(p) \/ FundList(p) \/ FundReadMark(p)
             \/ FundRecord(p) \/ LoopEnd(p)
    BY <2>2 DEF ScanList, ScanCheck, FundList, FundReadMark, FundRecord, LoopEnd,
                Starts, accountVars, storeVars
  <2>3. CASE FundSettle(p)
    <3> DEFINE pos == run[p].pos
               payment == FundingPayment(pos.side, pos.size, run[p].mark)
    <3>1. run[p].at = "pay" /\ positions' = positions
      BY <2>3 DEF FundSettle, storeVars
    <3>2. CASE SettleBalanced(NewTrade("funding", pos), pos, payment)
      <4>1. users' = users
        BY <3>2 DEF SettleBalanced, SettleTrade
      <4> QED BY <3>1, <3>2, <4>1, TransferFreezesNothing
    <3>3. CASE UNCHANGED accountVars
      BY <3>1, <3>3 DEF accountVars
    <3> QED BY <2>3, <3>2, <3>3 DEF FundSettle
  <2> QED BY <2>1, <2>2, <2>3
<1>3. run'[p].at \notin held
  <2>1. CASE \/ OpenReadMark(p) \/ InsertEvent(p) \/ ScanList(p) \/ ScanCheck(p) \/ FundList(p)
             \/ FundReadMark(p) \/ FundSettle(p) \/ FundRecord(p) \/ LoopEnd(p)
    BY <2>1, FreeSteps DEF Free, Ended
  <2>2. CASE \/ OpenReadPosition(p) \/ CloseReadPosition(p) \/ LiquidateReadPosition(p)
             \/ CloseReadMark(p)
    BY <1>1, <2>2 DEF OpenReadPosition, CloseReadPosition, LiquidateReadPosition,
                      CloseReadMark, RunRecord
  <2> QED BY <2>1, <2>2
<1> HIDE DEF held
<1>4. Balanced(p, run'[p], req, positions', frozen')
  BY <1>2, <1>3, NothingPends DEF held
<1> QED BY <1>2, <1>3, <1>4 DEF held

\* With one run at a time, no fault and no close that fails after it has given
\* its margin back, every step balances what is frozen.
LEMMA MarginIsConsistent ==
    ASSUME PerpConsistent, PerpConsistent', SerialConsistent, MarginConsistent,
           ClosesGoThrough, faults = 0, faults' = 0, MaxInFlight = 1, [PerpNext]_perpVars
    PROVE  MarginConsistent'
<1>1. ASSUME NEW p \in Procs, Acts(p) PROVE MarginConsistent'
  <2>1. Balanced(p, run[p], req, positions, frozen)
    BY <1>1, BalancedBefore DEF SerialConsistent
  <2>2. ~Abandon(p)
    BY DEF Abandon, Fault
  <2>3. /\ Balanced(p, run'[p], req, positions', frozen') /\ users' = users
        /\ run'[p].at \in {"upsert", "undo"} => AddOf(p, run'[p], req) > 0
    <3>1. CASE p \in Reqs /\ (OpenFreeze(p) \/ OpenUpsert(p) \/ OpenUndo(p))
      BY <2>1, <3>1, OpenFreezeBalances, OpenUpsertBalances, OpenUndoBalances
    <3>2. CASE CloseUnfreeze(p) \/ CloseSettle(p) \/ CloseWrite(p)
      BY <2>1, <3>2, CloseUnfreezeBalances, CloseSettleBalances, CloseWriteBalances
    <3>3. CASE \/ OpenReadMark(p) \/ OpenReadPosition(p) \/ CloseReadPosition(p)
               \/ LiquidateReadPosition(p) \/ CloseReadMark(p) \/ InsertEvent(p)
               \/ ScanList(p) \/ ScanCheck(p) \/ FundList(p) \/ FundReadMark(p)
               \/ FundSettle(p) \/ FundRecord(p) \/ LoopEnd(p)
      BY <2>1, <3>3, OtherStepsBalance
    <3> QED BY <1>1, <2>2, <3>1, <3>2, <3>3 DEF Acts, ReqStep, ScanStep, FundStep, CloseStep
  <2> QED BY <1>1, <2>3, MarginStep DEF SerialConsistent
<1>2. CASE MarkTick \/ UNCHANGED perpVars
  <2>1. UNCHANGED <<users, frozen, entries, positions, req, run>>
    BY <1>2 DEF MarkTick, perpVars, accountVars, storeVars
  <2>2. Quiet' = Quiet
    BY <2>1 DEF Quiet
  <2> QED BY <2>1, <2>2 DEF MarginConsistent, Balanced, Pending, AddOf, FreedOf, SizeOf
<1>3. (\E p \in Procs : Acts(p)) \/ MarkTick \/ UNCHANGED perpVars
  BY DEF PerpNext, Acts, Procs
<1> QED BY <1>1, <1>2, <1>3

LEMMA InitIsBalanced == PerpInit => MarginConsistent
<1> SUFFICES ASSUME PerpInit PROVE MarginConsistent
  OBVIOUS
<1>1. \A p \in Procs : run[p].at = "idle"
  BY DEF PerpInit, Idle
<1>2. \A u \in Traders : frozen[u][USDT] = 0 /\ positions[u] = None
  BY DEF PerpInit
<1>3. DOMAIN entries = {} /\ users = Accounts
  BY DEF PerpInit, Accounts
<1> QED BY <1>1, <1>2, <1>3 DEF MarginConsistent, MarginOf, Ended
-----------------------------------------------------------------------------
(* Theorems *)

\* In every reachable state the ledger, the tables and what each run has read
\* fit together: the inductive invariant.
THEOREM PerpIsConsistent == PerpSpec => []PerpConsistent
<1> QED BY InitIsConsistent, StepIsConsistent, PTL DEF PerpSpec

\* However requests, scans and funding runs overlap, fail and stop half-way
\* (perpservice.go), the tables stay well formed, and perp_events and
\* funding_payments report only transfers the ledger has posted.
THEOREM JournalNeverAhead == PerpSpec => []PerpInv
<1>1. PerpConsistent => PerpInv
  BY ConsistentIsTyped DEF PerpInv, PerpConsistent
<1> QED BY <1>1, PerpIsConsistent, PTL

\* closeSize pays the PnL of a position at most once, whoever closes it and
\* however often it is retried.
THEOREM PnLIsPaidOnce == PerpSpec => []PnLRealisedOnce
<1>1. PerpConsistent => PnLRealisedOnce
  <2> SUFFICES ASSUME PerpConsistent,
                      NEW i \in DOMAIN entries, NEW j \in DOMAIN entries,
                      i[1] = "trade", j[1] = "trade", i[2][1] = "pnl", j[2][1] = "pnl",
                      i[2][2] = j[2][2]
               PROVE  i = j
    BY DEF PnLRealisedOnce
  <2>1. i \in PnLRefs(DOMAIN entries, i[2][2]) /\ j \in PnLRefs(DOMAIN entries, i[2][2])
    BY DEF PnLRefs, IsPnL
  <2>2. i[2][2] \in Reqs
    <3>1. i \in Refs
      BY DEF PerpConsistent, AccountConsistent, LedgerTypeOK
    <3> QED BY <3>1 DEF Refs
  <2> QED BY <2>1, <2>2 DEF PerpConsistent, PaidOnce
<1> QED BY <1>1, PerpIsConsistent, PTL

\* Over any mix of margins, PnL and funding, in any interleaving, a balance is
\* what the user started with plus the entries posted to him.
THEOREM PerpBalancesAreLedger == PerpSpec => []PerpBalancesFollowLedger
<1>1. PerpConsistent => PerpBalancesFollowLedger
  BY DEF PerpConsistent, AccountConsistent
<1> QED BY <1>1, PerpIsConsistent, PTL

\* One run at a time: what Open adds to a position changes its value at no
\* price but by what the added size is worth, up to half a unit for each unit
\* of the position's size (perps.WeightedEntryPrice).
THEOREM AddingIsExact ==
    ASSUME MaxInFlight = 1
    PROVE  PerpSpec => AddingKeepsPnL
<1> DEFINE Adds == \A p \in Reqs, price \in Marks :
          run[p].at = "upsert" /\ run'[p].at = "event" =>
            LET u == req[p].user
                added == UnrealizedPnL(req[p].side, req[p].size, run[p].mark, price)
                error == PnLAt(u, price)' - PnLAt(u, price) - added
            IN  2 * error \in -positions'[u].size..positions'[u].size
<1>1. ASSUME PerpConsistent, SerialConsistent, [PerpNext]_perpVars PROVE [Adds]_perpVars
  <2>1. SUFFICES ASSUME PerpNext PROVE Adds
    BY <1>1
  <2>2. SUFFICES ASSUME NEW p \in Reqs, NEW price \in Marks,
                        run[p].at = "upsert", run'[p].at = "event"
                 PROVE  LET u == req[p].user
                            added == UnrealizedPnL(req[p].side, req[p].size, run[p].mark, price)
                            error == PnLAt(u, price)' - PnLAt(u, price) - added
                        IN  2 * error \in -positions'[u].size..positions'[u].size
    OBVIOUS
  <2>3. p \in Procs
    BY DEF Procs
  <2>4. OpenUpsert(p)
    BY <1>1, <2>1, <2>2, <2>3, WhoWrites
  <2> QED BY <1>1, <2>2, <2>4, OpenedKeepsPnL
<1>2. PerpConsistent /\ SerialConsistent /\ [PerpNext]_perpVars => SerialConsistent'
  BY SerialIsConsistent
<1>3. AddingKeepsPnL <=> [][Adds]_perpVars
  BY DEF AddingKeepsPnL
<1> HIDE DEF Adds
<1> QED BY <1>1, <1>2, <1>3, InitIsSerial, PerpIsConsistent, PTL DEF PerpSpec

\* One run at a time: the PnL a position loses when closeSize writes what is
\* left of it is what was posted to the trader, for whole and partial closes
\* and liquidations.
THEOREM ClosesPayTheirShare ==
    ASSUME MaxInFlight = 1
    PROVE  PerpSpec => CloseRealisesItsShare
<1> DEFINE Pays == \A p \in Reqs \cup Scanners :
          run[p].at = "write" /\ run'[p].at = "event" =>
            LET u == run[p].pos.user
                ref == <<"trade", run[p].trade>>
            IN  PnLAt(u, run[p].mark) - PnLAt(u, run[p].mark)'
                  = IF ref \in DOMAIN entries THEN entries[ref][1].amount ELSE 0
<1>1. ASSUME PerpConsistent, SerialConsistent, [PerpNext]_perpVars PROVE [Pays]_perpVars
  <2>1. SUFFICES ASSUME PerpNext PROVE Pays
    BY <1>1
  <2>2. SUFFICES ASSUME NEW p \in Reqs \cup Scanners,
                        run[p].at = "write", run'[p].at = "event"
                 PROVE  LET u == run[p].pos.user
                            ref == <<"trade", run[p].trade>>
                        IN  PnLAt(u, run[p].mark) - PnLAt(u, run[p].mark)'
                              = IF ref \in DOMAIN entries THEN entries[ref][1].amount ELSE 0
    OBVIOUS
  <2>3. p \in Procs
    BY DEF Procs
  <2>4. CloseWrite(p)
    BY <1>1, <2>1, <2>2, <2>3, WhoWrites
  <2> QED BY <1>1, <2>2, <2>3, <2>4, WriteTakesPnL
<1>2. PerpConsistent /\ SerialConsistent /\ [PerpNext]_perpVars => SerialConsistent'
  BY SerialIsConsistent
<1>3. CloseRealisesItsShare <=> [][Pays]_perpVars
  BY DEF CloseRealisesItsShare
<1> HIDE DEF Pays
<1> QED BY <1>1, <1>2, <1>3, InitIsSerial, PerpIsConsistent, PTL DEF PerpSpec

\* One run at a time, no fault, and no close that fails once it has given its
\* margin back (closeSize has no way back from there): between runs a trader's
\* frozen USDT is the margin of his position, and his balance follows the ledger.
THEOREM MarginsAreFrozen ==
    ASSUME MaxInFlight = 1
    PROVE  PerpSpec /\ [](faults = 0 /\ ClosesGoThrough) => []BalancesAddUp
<1>1. ASSUME PerpConsistent, PerpConsistent', SerialConsistent, MarginConsistent,
             (faults = 0 /\ ClosesGoThrough), (faults = 0 /\ ClosesGoThrough)',
             [PerpNext]_perpVars
      PROVE  MarginConsistent'
  <2>1. faults = 0 /\ ClosesGoThrough /\ faults' = 0
    BY <1>1
  <2> QED BY <1>1, <2>1, MarginIsConsistent
<1>2. PerpConsistent /\ SerialConsistent /\ [PerpNext]_perpVars => SerialConsistent'
  BY SerialIsConsistent
<1>3. PerpConsistent /\ MarginConsistent => BalancesAddUp
  BY DEF PerpConsistent, AccountConsistent, MarginConsistent, MarginOf,
         BalancesAddUp, MarginIsFrozen
<1> QED BY <1>1, <1>2, <1>3, InitIsSerial, InitIsBalanced, PerpIsConsistent, PTL DEF PerpSpec
=============================================================================
