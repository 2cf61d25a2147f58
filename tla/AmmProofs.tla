----------------------------- MODULE AmmProofs ------------------------------
(***************************************************************************)
(* Theorems about Amm, for any users, funding, fee, minimum liquidity and  *)
(* width of the reserves.                                                  *)
(*                                                                         *)
(* The numbers are multiplied everywhere, so each inequality the code's    *)
(* rounding rests on is a lemma about naturals, and the actions are left   *)
(* with saying which naturals they are.                                    *)
(***************************************************************************)
EXTENDS Amm, SumLemmas

-----------------------------------------------------------------------------
(* Math.sqrt *)

\* One step of Newton's iteration for the root of y.
Newton(y, x) == (y \div x + x) \div 2

\* f is what the loop returns, for the values of x in D.
IsRootLoop(f, y, D) == f = [x \in D |-> IF Newton(y, x) < x THEN f[Newton(y, x)] ELSE x]

\* The iteration stays among the numbers up to y.
LEMMA NewtonIsBounded ==
    ASSUME NEW y \in Nat, NEW x \in 1..y
    PROVE  Newton(y, x) \in 1..y
<1> DEFINE q == y \div x
<1>1. q \in Nat /\ q * x <= y /\ y < q * x + x
  BY DivBounds
<1>2. q >= 1
  <2> HIDE DEF q
  <2>1. CASE q = 0
    BY <1>1, <2>1
  <2> QED BY <1>1, <2>1
<1>3. q <= y
  <2> HIDE DEF q
  <2>1. q * 1 <= q * x
    BY <1>1, MulMono
  <2> QED BY <1>1, <2>1
<1>4. (q + x) \div 2 \in 1..y
  <2> HIDE DEF q
  <2> QED BY <1>1, <1>2, <1>3
<1> QED BY <1>4 DEF Newton

\* The loop ends: x falls in every round, so there is such a function.
LEMMA RootLoopExists ==
    ASSUME NEW y \in Nat
    PROVE  \E f : IsRootLoop(f, y, 1..y)
<1> DEFINE good == {n \in Nat : n <= y => \E f : IsRootLoop(f, y, 1..n)}
<1>1. 0 \in good
  <2>1. IsRootLoop([x \in 1..0 |-> 0], y, 1..0)
    BY DEF IsRootLoop
  <2> QED BY <2>1
<1>2. ASSUME NEW n \in Nat, n \in good PROVE n + 1 \in good
  <2> SUFFICES ASSUME n + 1 <= y PROVE \E f : IsRootLoop(f, y, 1..(n + 1))
    OBVIOUS
  <2>1. PICK f : IsRootLoop(f, y, 1..n)
    BY <1>2
  <2> DEFINE g == [x \in 1..(n + 1) |-> IF Newton(y, x) < x THEN f[Newton(y, x)] ELSE x]
  <2>2. ASSUME NEW x \in 1..(n + 1), Newton(y, x) < x
        PROVE  Newton(y, x) \in 1..n
    <3>1. x \in 1..y
      OBVIOUS
    <3> QED BY <2>2, <3>1, NewtonIsBounded
  <2>3. ASSUME NEW x \in 1..n PROVE g[x] = f[x]
    BY <2>1 DEF IsRootLoop
  <2>4. g = [x \in 1..(n + 1) |-> IF Newton(y, x) < x THEN g[Newton(y, x)] ELSE x]
    BY <2>2, <2>3
  <2> QED BY <2>4 DEF IsRootLoop
<1>3. y \in good
  <2> HIDE DEF good
  <2> QED BY <1>1, <1>2, InductionOnNat
<1> QED BY <1>3

\* Newton's step from above the root does not pass below it.
LEMMA NewtonStaysAbove ==
    ASSUME NEW y \in Nat, NEW x \in 1..y
    PROVE  y < (Newton(y, x) + 1) * (Newton(y, x) + 1)
<1> DEFINE q == y \div x
           n == (q + x) \div 2
<1>1. q \in Nat /\ q * x <= y /\ y < q * x + x
  BY DivBounds
<1>2. n \in Nat /\ 2 * n + 1 >= q + x
  <2> HIDE DEF q
  <2> QED BY <1>1
<1>3. y < (n + 1) * (n + 1)
  <2> HIDE DEF q, n
  <2> DEFINE s == q + 1 + x
  <2>1. s \in Nat /\ s <= 2 * (n + 1)
    BY <1>1, <1>2
  <2>2. s * s <= (2 * (n + 1)) * (2 * (n + 1))
    <3> HIDE DEF s
    <3> QED BY <1>2, <2>1, MulMono
  <2>3. (2 * (n + 1)) * (2 * (n + 1)) = 4 * ((n + 1) * (n + 1))
    BY <1>2
  <2>4. 4 * ((q + 1) * x) <= s * s
    <3> DEFINE d == (q + 1) - x
    <3>1. s * s = d * d + 4 * ((q + 1) * x)
      BY <1>1
    <3>2. d \in Int
      BY <1>1
    <3>3. d * d >= 0
      <4> HIDE DEF d
      <4> QED BY <3>2
    <3>4. (q + 1) * x \in Int /\ d * d \in Int
      BY <1>1
    <3> HIDE DEF d, s
    <3> QED BY <3>1, <3>3, <3>4
  <2>5. (q + 1) * x = q * x + x /\ (q + 1) * x \in Nat /\ (n + 1) * (n + 1) \in Nat
    BY <1>1, <1>2
  <2>6. s * s \in Nat
    BY <2>1, MulNat
  <2> HIDE DEF s
  <2> QED BY <1>1, <2>2, <2>3, <2>4, <2>5, <2>6
<1> QED BY <1>3 DEF Newton

\* When the iteration stops falling it is at or below the root.
LEMMA NewtonStops ==
    ASSUME NEW y \in Nat, NEW x \in 1..y, ~(Newton(y, x) < x)
    PROVE  x * x <= y
<1> DEFINE q == y \div x
<1>1. q \in Nat /\ q * x <= y
  BY DivBounds
<1>2. q >= x
  <2>1. ~((q + x) \div 2 < x)
    BY DEF Newton
  <2> HIDE DEF q
  <2> QED BY <1>1, <2>1
<1> HIDE DEF q
<1>3. x * x <= q * x
  BY <1>1, <1>2, MulMono
<1> QED BY <1>1, <1>3

\* Math.sqrt is the integer square root.
LEMMA SqrtIsRoot ==
    ASSUME NEW y \in Nat
    PROVE  /\ sqrt(y) \in Nat
           /\ sqrt(y) * sqrt(y) <= y
           /\ y < (sqrt(y) + 1) * (sqrt(y) + 1)
<1>1. CASE y <= 3
  <2>1. sqrt(y) = IF y = 0 THEN 0 ELSE 1
    BY <1>1 DEF sqrt, minOf
  <2> QED BY <1>1, <2>1
<1>2. CASE y > 3
  <2>1. sqrt(y) = (CHOOSE f : IsRootLoop(f, y, 1..y))[y \div 2 + 1]
    BY <1>2 DEF sqrt, IsRootLoop, Newton
  <2>2. PICK f : IsRootLoop(f, y, 1..y) /\ sqrt(y) = f[y \div 2 + 1]
    BY <2>1, RootLoopExists
  <2> DEFINE IsRoot(r) == r \in Nat /\ r * r <= y /\ y < (r + 1) * (r + 1)
             good == {n \in Nat : \A x \in 1..y :
                         x <= n /\ y < (x + 1) * (x + 1) => IsRoot(f[x])}
  <2>3. 0 \in good
    OBVIOUS
  <2>4. ASSUME NEW n \in Nat, n \in good PROVE n + 1 \in good
    <3> SUFFICES ASSUME NEW x \in 1..y, x <= n + 1, y < (x + 1) * (x + 1)
                 PROVE  IsRoot(f[x])
      OBVIOUS
    <3>1. f[x] = IF Newton(y, x) < x THEN f[Newton(y, x)] ELSE x
      BY <2>2 DEF IsRootLoop
    <3>2. CASE Newton(y, x) < x
      <4>1. Newton(y, x) \in 1..y /\ Newton(y, x) <= n
        BY <3>2, NewtonIsBounded
      <4>2. IsRoot(f[Newton(y, x)])
        BY <2>4, <4>1, NewtonStaysAbove
      <4> QED BY <3>1, <3>2, <4>2
    <3>3. CASE ~(Newton(y, x) < x)
      BY <3>1, <3>3, NewtonStops
    <3> QED BY <3>2, <3>3
  <2>5. y \in good
    <3> HIDE DEF good
    <3> QED BY <2>3, <2>4, InductionOnNat
  <2> DEFINE x == y \div 2 + 1
  <2>6. x \in 1..y /\ 2 * x >= y + 1
    BY <1>2
  <2>7. y < (x + 1) * (x + 1)
    <3> HIDE DEF x
    <3>1. 2 * (x + 1) <= (x + 1) * (x + 1)
      BY <2>6, MulMono
    <3> QED BY <2>6, <3>1
  <2>8. IsRoot(f[x])
    <3> HIDE DEF x, IsRoot
    <3> QED BY <2>5, <2>6, <2>7
  <2> QED BY <2>2, <2>8
<1> QED BY <1>1, <1>2
-----------------------------------------------------------------------------
(* The inequalities behind the four kinds of step.  r, q: reserves before    *)
(* and after; s, t: shares before and after.                                 *)

\* If each reserve falls no faster than the shares, a share keeps its value.
LEMMA ShareKept ==
    ASSUME NEW r0 \in Nat, NEW r1 \in Nat, NEW q0 \in Nat, NEW q1 \in Nat,
           NEW s \in Nat, NEW t \in Nat, r0 * t <= q0 * s, r1 * t <= q1 * s
    PROVE  r0 * r1 * t * t <= q0 * q1 * s * s
<1>1. (r0 * t) * (r1 * t) <= (q0 * s) * (q1 * s)
  BY MulNat, MulMono
<1>2. (r0 * t) * (r1 * t) = r0 * r1 * t * t /\ (q0 * s) * (q1 * s) = q0 * q1 * s * s
  BY MulFour
<1> QED BY <1>1, <1>2

\* mint: the liquidity n is at most the share of the deposit a.
LEMMA MintKeepsShare ==
    ASSUME NEW r \in Nat, NEW a \in Nat, NEW s \in Nat, NEW n \in Nat, r > 0,
           n <= (a * s) \div r
    PROVE  r * (s + n) <= (r + a) * s
<1> DEFINE v == (a * s) \div r
<1>1. a * s \in Nat
  BY MulNat
<1>2. v \in Nat /\ v * r <= a * s
  BY <1>1, DivBounds
<1>3. n * r <= v * r
  <2>1. n <= v
    OBVIOUS
  <2> HIDE DEF v
  <2> QED BY <1>2, <2>1, MulMono
<1>4. v * r \in Nat /\ n * r \in Nat
  <2> HIDE DEF v
  <2> QED BY <1>2, MulNat
<1>5. n * r <= a * s
  <2> HIDE DEF v
  <2> QED BY <1>1, <1>2, <1>3, <1>4
<1>6. r * (s + n) = r * s + n * r /\ (r + a) * s = r * s + a * s
  OBVIOUS
<1> QED BY <1>5, <1>6

\* burn: what leaves is at most the share n of the balance b, and less than it.
LEMMA BurnKeepsShare ==
    ASSUME NEW r \in Nat, NEW b \in Nat, NEW s \in Nat, NEW n \in Nat,
           r > 0, r <= b, n < s
    PROVE  /\ (n * b) \div s \in Nat
           /\ (n * b) \div s < b
           /\ r * (s - n) <= (b - (n * b) \div s) * s
<1> DEFINE v == (n * b) \div s
<1>1. n * b \in Nat
  BY MulNat
<1>2. v \in Nat /\ v * s <= n * b
  BY <1>1, DivBounds
<1>3. n * b < b * s
  <2>1. (n + 1) * b <= s * b
    BY MulMono
  <2>2. (n + 1) * b = n * b + b /\ s * b = b * s /\ b * s \in Nat
    OBVIOUS
  <2> QED BY <1>1, <2>1, <2>2
<1>4. v < b
  <2> HIDE DEF v
  <2>1. v * s \in Nat /\ b * s \in Nat
    BY <1>2, MulNat
  <2>2. v * s < b * s
    BY <1>1, <1>2, <1>3, <2>1
  <2> QED BY <1>2, <2>2, MulCancelStrict
<1>5. r * (s - n) <= b * (s - n)
  BY MulMono
<1>6. b * (s - n) = b * s - n * b /\ (b - v) * s = b * s - v * s
  <2> HIDE DEF v
  <2> QED BY <1>2
<1>7. r * (s - n) <= (b - v) * s
  <2> HIDE DEF v
  <2>1. v * s \in Nat /\ b * s \in Nat /\ r * (s - n) \in Int
    BY <1>2, MulNat
  <2> QED BY <1>1, <1>2, <1>5, <1>6, <2>1
<1> QED BY <1>2, <1>4, <1>7

\* swap: the balance b less the fee on what came in, n, is not negative.
LEMMA AdjustedIsNat ==
    ASSUME NEW b \in Nat, NEW n \in Nat, n <= b,
           NEW f \in Nat, NEW d \in Nat, f < d
    PROVE  b * d - n * f \in Nat /\ b * d - n * f <= b * d
<1>1. n * f <= b * d
  BY MulMono
<1>2. n * f \in Nat /\ b * d \in Nat
  BY MulNat
<1> QED BY <1>1, <1>2

\* swap: the K check on the adjusted balances x and y holds of the balances.
LEMMA SwapKeepsProduct ==
    ASSUME NEW r0 \in Nat, NEW r1 \in Nat, NEW q0 \in Nat, NEW q1 \in Nat, NEW d \in Nat,
           d > 0, NEW x \in Nat, NEW y \in Nat, x <= q0 * d, y <= q1 * d,
           x * y >= r0 * r1 * d * d
    PROVE  r0 * r1 <= q0 * q1
<1>1. q0 * d \in Nat /\ q1 * d \in Nat /\ r0 * r1 \in Nat /\ q0 * q1 \in Nat /\ d * d \in Nat
  BY MulNat
<1>2. x * y <= (q0 * d) * (q1 * d)
  BY <1>1, MulMono
<1>3. (q0 * d) * (q1 * d) = (q0 * q1) * (d * d) /\ r0 * r1 * d * d = (r0 * r1) * (d * d)
  OBVIOUS
<1>4. d * d > 0
  BY MulPositive
<1>5. (r0 * r1) * (d * d) <= (q0 * q1) * (d * d)
  <2>1. x * y \in Nat /\ (r0 * r1) * (d * d) \in Nat /\ (q0 * q1) * (d * d) \in Nat
    BY <1>1, MulNat
  <2> QED BY <1>2, <1>3, <2>1
<1> QED BY <1>1, <1>4, <1>5, MulCancel
-----------------------------------------------------------------------------
(* Rounding of the router's formula *)

\* What getAmountOut returns, and its rounding: g is FeeDen - FeeNum.
LEMMA AmountOutBounds ==
    ASSUME NEW n \in Nat, NEW ri \in Nat, NEW ro \in Nat, ri > 0
    PROVE  LET g == FeeDen - FeeNum
               t == getAmountOut(n, ri, ro)
           IN  /\ g \in Nat /\ g > 0 /\ g <= FeeDen /\ FeeDen \in Nat
               /\ t \in Nat
               /\ t * (ri * FeeDen + n * g) <= (n * g) * ro
<1> DEFINE g == FeeDen - FeeNum
           w == n * g
           c == ri * FeeDen + w
           t == (w * ro) \div c
<1>1. g \in Nat /\ g > 0 /\ g <= FeeDen /\ FeeDen \in Nat /\ FeeDen > 0
  BY AmmAssumption
<1>2. w \in Nat /\ ri * FeeDen \in Nat /\ ri * FeeDen > 0
  <2> HIDE DEF g
  <2> QED BY <1>1, MulNat, MulPositive
<1>3. w * ro \in Nat /\ c \in Nat /\ c > 0
  <2> HIDE DEF w
  <2> QED BY <1>2, MulNat
<1>4. t \in Nat /\ t * c <= w * ro
  <2> HIDE DEF w, c
  <2> QED BY <1>3, DivBounds
<1>5. getAmountOut(n, ri, ro) = t
  BY DEF getAmountOut
<1> HIDE DEF t
<1> QED BY <1>1, <1>4, <1>5

\* The output is less than the reserve it comes from.
LEMMA AmountOutIsLess ==
    ASSUME NEW n \in Nat, NEW ri \in Nat, NEW ro \in Nat, ri > 0, ro > 0
    PROVE  getAmountOut(n, ri, ro) < ro
<1> DEFINE g == FeeDen - FeeNum
           w == n * g
           a == ri * FeeDen
           t == getAmountOut(n, ri, ro)
<1>1. g \in Nat /\ g > 0 /\ FeeDen \in Nat /\ FeeDen > 0 /\ t \in Nat /\ t * (a + w) <= w * ro
  BY AmountOutBounds, AmmAssumption
<1>2. w \in Nat /\ a \in Nat /\ a > 0
  <2> HIDE DEF g
  <2> QED BY <1>1, MulNat, MulPositive
<1> HIDE DEF g, w, a, t
<1>3. w * ro < ro * (a + w)
  <2>1. ro * (a + w) = ro * a + w * ro /\ ro * a > 0 /\ ro * a \in Nat /\ w * ro \in Nat
    BY <1>2, MulNat, MulPositive
  <2> QED BY <2>1
<1>4. t * (a + w) < ro * (a + w)
  <2>1. t * (a + w) \in Nat /\ w * ro \in Nat /\ ro * (a + w) \in Nat
    BY <1>1, <1>2, MulNat
  <2> QED BY <1>1, <1>3, <2>1
<1>5. t < ro
  BY <1>1, <1>2, <1>4, MulCancelStrict
<1> QED BY <1>5 DEF t

\* The adjusted balances after an output from the formula pass the K check:
\* x is that of the token put in, y that of the token taken out.
LEMMA QuotePassesK ==
    ASSUME NEW ri \in Nat, NEW ro \in Nat, NEW d \in Nat, NEW w \in Nat, NEW t \in Nat,
           t <= ro, t * (ri * d + w) <= w * ro,
           NEW x \in Nat, NEW y \in Nat, ri * d + w <= x, (ro - t) * d <= y
    PROVE  ri * ro * d * d <= x * y
<1> DEFINE a == ri * d
<1>1. a \in Nat
  BY MulNat
<1>2. (a + w) * ((ro - t) * d) <= x * y
  <2>1. (ro - t) * d \in Nat
    BY MulNat
  <2> QED BY <1>1, <2>1, MulMono
<1>3. (a + w) * ((ro - t) * d) = ((a + w) * ro - t * (a + w)) * d
  <2> HIDE DEF a
  <2> QED BY <1>1
<1>4. a * ro <= (a + w) * ro - t * (a + w)
  <2>1. (a + w) * ro = a * ro + w * ro
    BY <1>1
  <2>2. t * (a + w) \in Nat /\ a * ro \in Nat /\ w * ro \in Nat
    BY <1>1, MulNat
  <2> HIDE DEF a
  <2> QED BY <2>1, <2>2 DEF a
<1>5. (a * ro) * d <= ((a + w) * ro - t * (a + w)) * d
  <2>1. (a + w) * ro - t * (a + w) \in Nat /\ a * ro \in Nat
    <3>1. (a + w) * ro \in Nat /\ t * (a + w) \in Nat /\ a * ro \in Nat
      BY <1>1, MulNat
    <3> HIDE DEF a
    <3> QED BY <1>4, <3>1
  <2> HIDE DEF a
  <2> QED BY <1>4, <2>1, MulMono
<1>6. (a * ro) * d = ri * ro * d * d
  OBVIOUS
<1>7. /\ (a * ro) * d \in Int
      /\ ((a + w) * ro - t * (a + w)) * d \in Int
      /\ x * y \in Int
  BY <1>1
<1> HIDE DEF a
<1> QED BY <1>2, <1>3, <1>5, <1>6, <1>7

\* There and back: t is the first output, b the second.
LEMMA ThereAndBack ==
    ASSUME NEW n \in Nat, NEW ri \in Nat, NEW ro \in Nat, NEW d \in Nat, NEW g \in Nat,
           NEW t \in Nat, NEW b \in Nat, g > 0, g <= d, t > 0, t < ro,
           t * (ri * d + n * g) <= (n * g) * ro,
           b * ((ro - t) * d + t * g) <= (t * g) * (ri + n)
    PROVE  b <= n
<1> DEFINE u == ro - t
           c == u * d + t * g
<1>1. u \in Nat /\ u > 0 /\ d > 0
  OBVIOUS
<1>2. (t * ri) * d <= (n * u) * d
  <2>1. (t * ri) * d + t * (n * g) = t * (ri * d + n * g)
    OBVIOUS
  <2>2. (n * g) * ro = (n * g) * u + t * (n * g)
    OBVIOUS
  <2>3. (n * g) * u <= (n * u) * d
    <3>1. (n * u) * g <= (n * u) * d
      <4>1. n * u \in Nat
        BY <1>1, MulNat
      <4> QED BY <4>1, MulMono
    <3>2. (n * g) * u = (n * u) * g
      BY <1>1
    <3> QED BY <3>1, <3>2
  <2>4. /\ (t * ri) * d \in Nat /\ t * (n * g) \in Nat
        /\ (n * g) * u \in Nat /\ (n * u) * d \in Nat
    BY <1>1, MulNat
  <2> HIDE DEF u
  <2> QED BY <2>1, <2>2, <2>3, <2>4
<1>3. (t * ri) * g <= (n * u) * d
  <2>1. t * ri \in Nat
    BY MulNat
  <2>2. (t * ri) * g <= (t * ri) * d
    BY <2>1, MulMono
  <2>3. (t * ri) * g \in Nat /\ (t * ri) * d \in Nat /\ (n * u) * d \in Nat
    BY <1>1, <2>1, MulNat
  <2> HIDE DEF u
  <2> QED BY <1>2, <2>2, <2>3
<1>4. (t * g) * (ri + n) < (n + 1) * c
  <2>1. (n + 1) * c = (n * u) * d + u * d + (n * t) * g + t * g
    OBVIOUS
  <2>2. (t * g) * (ri + n) = (t * ri) * g + (n * t) * g
    OBVIOUS
  <2>3. u * d > 0 /\ u * d \in Nat /\ t * g \in Nat /\ (n * t) * g \in Nat
        /\ (n * u) * d \in Nat /\ (t * ri) * g \in Nat
    BY <1>1, MulNat, MulPositive
  <2> HIDE DEF u, c
  <2> QED BY <1>3, <2>1, <2>2, <2>3
<1>5. b * c < (n + 1) * c
  <2>1. c \in Nat
    BY <1>1, MulNat
  <2>2. b * c \in Nat /\ (n + 1) * c \in Nat /\ (t * g) * (ri + n) \in Nat
    <3> HIDE DEF c
    <3>1. t * g \in Nat
      BY MulNat
    <3> QED BY <2>1, <3>1, MulNat
  <2>3. b * c <= (t * g) * (ri + n)
    OBVIOUS
  <2> HIDE DEF c
  <2> QED BY <1>4, <2>2, <2>3
<1>6. c \in Nat
  BY <1>1, MulNat
<1>7. b < n + 1
  <2> HIDE DEF c
  <2> QED BY <1>5, <1>6, MulCancelStrict
<1> QED BY <1>7
-----------------------------------------------------------------------------
(* Transfers *)

Bals == [Tokens -> [Holders -> Nat]]

\* What a transfer leaves.
LEMMA MoveMoves ==
    ASSUME NEW b \in Bals, NEW i \in Tokens, NEW from \in Holders, NEW to \in Holders,
           NEW n \in Nat, n <= b[i][from]
    PROVE  /\ Move(b, i, from, to, n) \in Bals
           /\ \A j \in Tokens \ {i} : Move(b, i, from, to, n)[j] = b[j]
           /\ Move(b, i, from, to, n)[i][from] = IF to = from THEN b[i][from] ELSE b[i][from] - n
           /\ Move(b, i, from, to, n)[i][to] = IF to = from THEN b[i][to] ELSE b[i][to] + n
<1> DEFINE c == b[i]
           v == c[from]
           d == [c EXCEPT ![from] = v - n]
           e == [d EXCEPT ![to] = d[to] + n]
<1>1. c \in [Holders -> Nat] /\ v \in Nat /\ n <= v
  BY DEF Bals
<1>2. v - n \in Nat
  <2> HIDE DEF v
  <2> QED BY <1>1
<1>3. d \in [Holders -> Nat]
  <2> HIDE DEF v, c
  <2> QED BY <1>1, <1>2
<1>4. d[to] \in Nat /\ d[to] + n \in Nat
  <2>1. d[to] \in Nat
    <3> HIDE DEF d
    <3> QED BY <1>3
  <2> HIDE DEF d
  <2> QED BY <2>1
<1>5. e \in [Holders -> Nat]
  <2> HIDE DEF d
  <2> QED BY <1>3, <1>4
<1>6. Move(b, i, from, to, n) = [b EXCEPT ![i] = e]
  <2> DEFINE paid == [b EXCEPT ![i] = d]
  <2>1. Move(b, i, from, to, n) = [paid EXCEPT ![i] = [paid[i] EXCEPT ![to] = paid[i][to] + n]]
    BY DEF Move
  <2>2. paid[i] = d
    <3> HIDE DEF d
    <3> QED BY DEF Bals
  <2>3. [paid EXCEPT ![i] = e] = [b EXCEPT ![i] = e]
    <3> HIDE DEF d, e
    <3> QED BY DEF Bals
  <2> QED BY <2>1, <2>2, <2>3
<1>7. d[from] = v - n
  <2> HIDE DEF v, c
  <2> QED BY <1>1
<1>8. e[from] = IF to = from THEN v ELSE v - n
  <2>1. CASE to = from
    <3>1. e[from] = d[from] + n
      <4> HIDE DEF d
      <4> QED BY <1>3, <2>1
    <3> HIDE DEF d, e, v
    <3> QED BY <1>1, <1>7, <2>1, <3>1
  <2>2. CASE to # from
    <3>1. e[from] = d[from]
      <4> HIDE DEF d
      <4> QED BY <1>3, <2>2
    <3> QED BY <1>7, <2>2, <3>1
  <2> QED BY <2>1, <2>2
<1>9. e[to] = IF to = from THEN c[to] ELSE c[to] + n
  <2>1. CASE to = from
    BY <1>8, <2>1
  <2>2. CASE to # from
    <3>1. e[to] = d[to] + n
      <4> HIDE DEF d
      <4> QED BY <1>3
    <3>2. d[to] = c[to]
      <4> HIDE DEF v, c
      <4> QED BY <1>1, <2>2
    <3> QED BY <2>2, <3>1, <3>2
  <2> QED BY <2>1, <2>2
<1>10. [b EXCEPT ![i] = e] \in Bals
  <2> HIDE DEF e
  <2> QED BY <1>5 DEF Bals
<1>11. [b EXCEPT ![i] = e][i] = e /\ \A j \in Tokens \ {i} : [b EXCEPT ![i] = e][j] = b[j]
  <2> HIDE DEF e
  <2> QED BY DEF Bals
<1> HIDE DEF e
<1> QED BY <1>6, <1>8, <1>9, <1>10, <1>11

\* Both tokens, out of or into the pair.
LEMMA PayBoth ==
    ASSUME NEW b \in Bals, NEW from \in Holders, NEW to \in Holders, NEW m \in Nat, NEW n \in Nat,
           m <= b[0][from], n <= b[1][from]
    PROVE  LET c == Move(Move(b, 0, from, to, m), 1, from, to, n)
           IN  /\ c \in Bals
               /\ c[0][from] = IF to = from THEN b[0][from] ELSE b[0][from] - m
               /\ c[1][from] = IF to = from THEN b[1][from] ELSE b[1][from] - n
               /\ c[0][to] = IF to = from THEN b[0][to] ELSE b[0][to] + m
               /\ c[1][to] = IF to = from THEN b[1][to] ELSE b[1][to] + n
<1> DEFINE d == Move(b, 0, from, to, m)
           c == Move(d, 1, from, to, n)
<1>0. 0 \in Tokens /\ 1 \in Tokens /\ 0 \in Tokens \ {1} /\ 1 \in Tokens \ {0}
  BY DEF Tokens
<1>1. /\ d \in Bals
      /\ d[1] = b[1]
      /\ d[0][from] = IF to = from THEN b[0][from] ELSE b[0][from] - m
      /\ d[0][to] = IF to = from THEN b[0][to] ELSE b[0][to] + m
  BY <1>0, MoveMoves
<1> HIDE DEF d
<1>2. n <= d[1][from]
  BY <1>1
<1>3. /\ c \in Bals
      /\ c[0] = d[0]
      /\ c[1][from] = IF to = from THEN d[1][from] ELSE d[1][from] - n
      /\ c[1][to] = IF to = from THEN d[1][to] ELSE d[1][to] + n
  BY <1>0, <1>1, <1>2, MoveMoves
<1> HIDE DEF c
<1>4. /\ c \in Bals
      /\ c[0][from] = IF to = from THEN b[0][from] ELSE b[0][from] - m
      /\ c[1][from] = IF to = from THEN b[1][from] ELSE b[1][from] - n
      /\ c[0][to] = IF to = from THEN b[0][to] ELSE b[0][to] + m
      /\ c[1][to] = IF to = from THEN b[1][to] ELSE b[1][to] + n
  BY <1>1, <1>3
<1> QED BY <1>4 DEF d, c
-----------------------------------------------------------------------------
(* The liquidity token *)

Owners == Holders \cup {Zero}
Shares == [Owners -> Nat]

LEMMA OwnersFinite ==
    /\ IsFiniteSet(Owners) /\ Pair \in Holders /\ Pair \in Owners /\ Zero \in Owners
    /\ Zero \notin Holders /\ Pair # Zero
<1>1. IsFiniteSet(Users \cup {Pair})
  BY AmmAssumption, FS_AddElement
<1>2. IsFiniteSet((Users \cup {Pair}) \cup {Zero})
  BY <1>1, FS_AddElement
<1> QED BY <1>2, AmmAssumption DEF Owners, Holders

\* One owner's shares change: the sum changes as much.
LEMMA SharesChange ==
    ASSUME NEW l \in Shares, NEW k \in Shares, NEW h \in Owners,
           \A o \in Owners \ {h} : k[o] = l[o]
    PROVE  /\ SumFunctionOnSet(k, Owners) = SumFunctionOnSet(l, Owners) + (k[h] - l[h])
           /\ SumFunctionOnSet(l, Owners) \in Nat /\ SumFunctionOnSet(k, Owners) \in Nat
<1>1. \A o \in Owners : l[o] \in Nat /\ k[o] \in Nat
  BY DEF Shares
<1>2. \A o \in Owners : l[o] \in Int /\ k[o] \in Int
  BY <1>1
<1>3. IsFiniteSet(Owners)
  BY OwnersFinite
<1>4. SumFunctionOnSet(k, Owners) = SumFunctionOnSet(l, Owners) + (k[h] - l[h])
  BY <1>2, <1>3, SumChange
<1>5. SumFunctionOnSet(l, Owners) \in Nat /\ SumFunctionOnSet(k, Owners) \in Nat
  BY <1>1, <1>3, SumIsNat
<1> QED BY <1>4, <1>5

\* One owner gets n shares.
LEMMA SharesSet ==
    ASSUME NEW l \in Shares, NEW h \in Owners, NEW n \in Nat
    PROVE  LET k == [l EXCEPT ![h] = n]
           IN  /\ k \in Shares /\ k[h] = n /\ \A o \in Owners \ {h} : k[o] = l[o]
               /\ SumFunctionOnSet(k, Owners) = SumFunctionOnSet(l, Owners) + (n - l[h])
               /\ SumFunctionOnSet(l, Owners) \in Nat /\ SumFunctionOnSet(k, Owners) \in Nat
<1> DEFINE k == [l EXCEPT ![h] = n]
<1>1. k \in Shares /\ k[h] = n /\ \A o \in Owners \ {h} : k[o] = l[o]
  BY DEF Shares
<1> HIDE DEF k
<1>2. /\ SumFunctionOnSet(k, Owners) = SumFunctionOnSet(l, Owners) + (k[h] - l[h])
      /\ SumFunctionOnSet(l, Owners) \in Nat /\ SumFunctionOnSet(k, Owners) \in Nat
  BY <1>1, SharesChange
<1> QED BY <1>1, <1>2 DEF k

\* The shares sent to the pair: the sum stays, and the locked ones too.
LEMMA SharesSent ==
    ASSUME NEW l \in Shares, NEW u \in Users, NEW n \in Nat, n <= l[u]
    PROVE  LET k == [[l EXCEPT ![u] = @ - n] EXCEPT ![Pair] = @ + n]
           IN  k \in Shares /\ k[Zero] = l[Zero]
               /\ SumFunctionOnSet(k, Owners) = SumFunctionOnSet(l, Owners)
<1> DEFINE x == l[u]
           j == [l EXCEPT ![u] = x - n]
           y == j[Pair]
           k == [j EXCEPT ![Pair] = y + n]
           S(f) == SumFunctionOnSet(f, Owners)
<1>0. u \in Owners /\ u # Pair /\ u # Zero
  BY AmmAssumption DEF Owners, Holders
<1>1. x \in Nat /\ x - n \in Nat
  <2>1. x \in Nat /\ n <= x
    BY <1>0 DEF Shares
  <2> HIDE DEF x
  <2> QED BY <2>1
<1>2. j \in Shares /\ j[Zero] = l[Zero] /\ S(j) = S(l) + ((x - n) - x) /\ S(l) \in Nat
  <2>1. j \in Shares /\ (\A o \in Owners \ {u} : j[o] = l[o])
        /\ S(j) = S(l) + ((x - n) - l[u]) /\ S(l) \in Nat
    BY <1>0, <1>1, SharesSet
  <2> QED BY <1>0, <2>1, OwnersFinite
<1> HIDE DEF j
<1>3. y \in Nat /\ y + n \in Nat
  <2>1. y \in Nat
    BY <1>2, OwnersFinite DEF Shares
  <2> HIDE DEF y
  <2> QED BY <2>1
<1>4. k \in Shares /\ k[Zero] = j[Zero] /\ S(k) = S(j) + ((y + n) - y) /\ S(j) \in Nat
  <2>1. k \in Shares /\ (\A o \in Owners \ {Pair} : k[o] = j[o])
        /\ S(k) = S(j) + ((y + n) - j[Pair]) /\ S(j) \in Nat
    <3>1. Pair \in Owners /\ j \in Shares /\ y + n \in Nat
      BY <1>2, <1>3, OwnersFinite
    <3> QED BY <3>1, SharesSet
  <2> QED BY <2>1, OwnersFinite
<1>5. S(k) = S(l)
  <2> DEFINE a == S(l)
             b == S(j)
             c == S(k)
  <2>1. a \in Nat /\ b = a + ((x - n) - x) /\ c = b + ((y + n) - y)
    BY <1>2, <1>4
  <2>2. c = a
    <3> HIDE DEF a, b, c, x, y
    <3> QED BY <1>1, <1>3, <2>1
  <2> QED BY <2>2
<1>6. k = [[l EXCEPT ![u] = @ - n] EXCEPT ![Pair] = @ + n]
  BY DEF j
<1> HIDE DEF k
<1> QED BY <1>2, <1>4, <1>5, <1>6

\* No two owners have more than all of them.
LEMMA SharesBound ==
    ASSUME NEW l \in Shares, NEW h \in Owners, NEW o \in Owners, h # o
    PROVE  l[h] \in Nat /\ l[o] \in Nat /\ l[h] + l[o] <= SumFunctionOnSet(l, Owners)
<1> DEFINE a == l[h]
           b == l[o]
           S == SumFunctionOnSet(l, Owners)
           T == SumFunctionOnSet(l, Owners \ {h})
           U == SumFunctionOnSet(l, (Owners \ {h}) \ {o})
<1>1. a \in Nat /\ b \in Nat /\ \A p \in Owners : l[p] \in Int /\ l[p] \in Nat
  BY DEF Shares
<1>2. IsFiniteSet(Owners \ {h}) /\ IsFiniteSet((Owners \ {h}) \ {o})
  BY OwnersFinite, FS_RemoveElement
<1>3. S = a + T
  BY <1>1, OwnersFinite, SumRemove
<1>4. T = b + U
  <2>1. o \in Owners \ {h} /\ \A p \in Owners \ {h} : l[p] \in Int
    BY <1>1
  <2> QED BY <1>2, <2>1, SumRemove
<1>5. U \in Nat
  BY <1>1, <1>2, SumIsNat
<1>6. a + b <= S
  <2> HIDE DEF a, b, S, T, U
  <2> QED BY <1>1, <1>3, <1>4, <1>5
<1> QED BY <1>1, <1>6
-----------------------------------------------------------------------------
(* The functions of the pair keep the pool and the value of a share *)

LEMMA TokensAre == 0 \in Tokens /\ 1 \in Tokens /\ \A i \in Tokens : i = 0 \/ i = 1
BY DEF Tokens

\* The step of ShareValueNeverFalls.
ShareStep ==
    supply > 0 =>
        reserve'[0] * reserve'[1] * supply * supply >= reserve[0] * reserve[1] * supply' * supply'

\* What the invariant says, in the shape the lemmas above take it.
LEMMA PoolFacts ==
    ASSUME AmmInv
    PROVE  /\ bal \in Bals /\ lp \in Shares /\ supply \in Nat
           /\ \A i \in Tokens : /\ reserve[i] \in Nat /\ bal[i][Pair] \in Nat
                                /\ reserve[i] <= bal[i][Pair]
           /\ supply = SumFunctionOnSet(lp, Owners)
           /\ supply > 0 => lp[Zero] = MinLiquidity /\ reserve[0] > 0 /\ reserve[1] > 0
           /\ supply = 0 => lp[Zero] = 0
           /\ MinLiquidity \in Nat /\ MinLiquidity > 0
<1>1. bal \in Bals /\ lp \in Shares /\ supply \in Nat
  BY DEF AmmInv, AmmTypeOK, Bals, Shares, Owners
<1>2. \A i \in Tokens : reserve[i] \in 0..MaxReserve
  BY DEF AmmInv, AmmTypeOK
<1>3. MaxReserve \in Nat /\ MinLiquidity \in Nat /\ MinLiquidity > 0
  BY AmmAssumption
<1>4. \A i \in Tokens : reserve[i] \in Nat /\ bal[i][Pair] \in Nat
  <2>1. \A n \in 0..MaxReserve : n \in Nat
    BY <1>3
  <2> QED BY <1>1, <1>2, <2>1, OwnersFinite DEF Bals
<1>5. supply = SumFunctionOnSet(lp, Owners)
  BY DEF AmmInv, PoolIsBacked, Owners
<1>6. supply = 0 => lp[Zero] = 0
  <2>1. /\ lp[Zero] \in Nat /\ lp[Pair] \in Nat
        /\ lp[Zero] + lp[Pair] <= SumFunctionOnSet(lp, Owners)
    BY <1>1, OwnersFinite, SharesBound
  <2> DEFINE a == lp[Zero]
             b == lp[Pair]
  <2>2. a \in Nat /\ b \in Nat /\ a + b <= supply
    BY <1>5, <2>1
  <2>3. supply = 0 => a = 0
    <3> HIDE DEF a, b
    <3> QED BY <1>1, <2>2
  <2> QED BY <2>3
<1>7. \A i \in Tokens : reserve[i] <= bal[i][Pair]
  <2>1. \A i \in Tokens : bal[i][Pair] >= reserve[i]
    BY DEF AmmInv, PoolIsBacked
  <2> SUFFICES ASSUME NEW i \in Tokens PROVE reserve[i] <= bal[i][Pair]
    OBVIOUS
  <2> DEFINE r == reserve[i]
             b == bal[i][Pair]
  <2>2. r \in Nat /\ b \in Nat /\ b >= r
    BY <1>4, <2>1
  <2>3. r <= b
    <3> HIDE DEF r, b
    <3> QED BY <2>2
  <2> QED BY <2>3
<1>8. supply > 0 => lp[Zero] = MinLiquidity /\ reserve[0] > 0 /\ reserve[1] > 0
  BY DEF AmmInv, PoolIsBacked
<1> QED BY <1>1, <1>3, <1>4, <1>5, <1>6, <1>7, <1>8

\* The invariant after a call that updates the reserves to the balances b.
LEMMA PoolAfter ==
    ASSUME NEW b \in Bals, Update(b), bal' = b, created' \in BOOLEAN,
           NEW l \in Shares, lp' = l, NEW s \in Nat, supply' = s,
           s = SumFunctionOnSet(l, Owners),
           s > 0 => l[Zero] = MinLiquidity /\ b[0][Pair] > 0 /\ b[1][Pair] > 0
    PROVE  /\ AmmInv'
           /\ reserve'[0] = b[0][Pair] /\ reserve'[1] = b[1][Pair]
<1>1. /\ reserve' = [i \in Tokens |-> b[i][Pair]]
      /\ \A i \in Tokens : b[i][Pair] \in Nat /\ b[i][Pair] <= MaxReserve
  BY OwnersFinite DEF Update, Bals
<1>2. \A i \in Tokens : reserve'[i] = b[i][Pair]
  BY <1>1
<1>3. \A i \in Tokens : b[i][Pair] \in 0..MaxReserve /\ b[i][Pair] >= b[i][Pair]
  <2> SUFFICES ASSUME NEW i \in Tokens
               PROVE  b[i][Pair] \in 0..MaxReserve /\ b[i][Pair] >= b[i][Pair]
    OBVIOUS
  <2> DEFINE c == b[i][Pair]
  <2>1. c \in Nat /\ c <= MaxReserve
    BY <1>1
  <2>2. c \in 0..MaxReserve /\ c >= c
    <3> HIDE DEF c
    <3> QED BY <2>1, AmmAssumption
  <2> QED BY <2>2
<1>4. AmmTypeOK'
  <2>1. reserve' \in [Tokens -> 0..MaxReserve]
    BY <1>1, <1>3
  <2> QED BY <2>1 DEF AmmTypeOK, Bals, Shares, Owners
<1>5. PoolIsBacked'
  <2>1. \A i \in Tokens : bal'[i][Pair] >= reserve'[i]
    BY <1>2, <1>3
  <2>2. supply' = SumFunctionOnSet(lp', Holders \cup {Zero})
    BY DEF Owners
  <2>3. supply' > 0 => lp'[Zero] = MinLiquidity /\ reserve'[0] > 0 /\ reserve'[1] > 0
    BY <1>2, TokensAre
  <2> QED BY <2>1, <2>2, <2>3 DEF PoolIsBacked
<1> QED BY <1>2, <1>4, <1>5, TokensAre DEF AmmInv

\* The liquidity of a deposit.
LEMMA MintedIs ==
    ASSUME NEW a0 \in Nat, NEW a1 \in Nat, NEW a, a[0] = a0, a[1] = a1,
           NEW r0 \in Nat, NEW r1 \in Nat, reserve[0] = r0, reserve[1] = r1,
           supply \in Nat, supply > 0 => r0 > 0 /\ r1 > 0, Minted(a) > 0
    PROVE  /\ Minted(a) \in Nat
           /\ supply = 0 => a0 > 0 /\ a1 > 0
           /\ supply > 0 => /\ Minted(a) <= (a0 * supply) \div r0
                            /\ Minted(a) <= (a1 * supply) \div r1
<1>1. CASE supply = 0
  <2> DEFINE k == a0 * a1
             q == sqrt(k)
  <2>1. Minted(a) = q - MinLiquidity
    BY <1>1 DEF Minted
  <2>2. k \in Nat
    BY MulNat
  <2>3. q \in Nat /\ q * q <= k
    <3> HIDE DEF k
    <3> QED BY <2>2, SqrtIsRoot
  <2>4. MinLiquidity \in Nat /\ MinLiquidity > 0
    BY AmmAssumption
  <2>5. q - MinLiquidity \in Nat /\ q > 0
    <3> HIDE DEF q
    <3> QED BY <2>1, <2>3, <2>4
  <2>6. k > 0
    <3> HIDE DEF k, q
    <3>1. q * q > 0 /\ q * q \in Nat
      BY <2>3, <2>5, MulPositive, MulNat
    <3> QED BY <2>2, <2>3, <3>1
  <2>7. a0 > 0 /\ a1 > 0
    <3>1. CASE a0 = 0
      BY <2>6, <3>1
    <3>2. CASE a1 = 0
      BY <2>6, <3>2
    <3> QED BY <3>1, <3>2
  <2> QED BY <1>1, <2>1, <2>5, <2>7
<1>2. CASE supply > 0
  <2> DEFINE p == (a0 * supply) \div r0
             q == (a1 * supply) \div r1
  <2>1. p \in Nat /\ q \in Nat
    <3>1. a0 * supply \in Nat /\ a1 * supply \in Nat
      BY MulNat
    <3> QED BY <1>2, <3>1, DivBounds
  <2>2. Minted(a) = IF p < q THEN p ELSE q
    BY <1>2 DEF Minted, minOf
  <2>3. Minted(a) \in Nat /\ Minted(a) <= p /\ Minted(a) <= q
    <3> HIDE DEF p, q
    <3> QED BY <2>1, <2>2
  <2> QED BY <1>2, <2>3
<1> QED BY <1>1, <1>2

\* mint.
LEMMA MintStep ==
    ASSUME AmmInv, NEW b \in Bals, \A i \in Tokens : bal[i][Pair] <= b[i][Pair],
           NEW to \in Holders, mint(b, to), created' \in BOOLEAN
    PROVE  AmmInv' /\ ShareStep
<1> DEFINE s == supply
           r0 == reserve[0]
           r1 == reserve[1]
           b0 == b[0][Pair]
           b1 == b[1][Pair]
           a0 == b0 - r0
           a1 == b1 - r1
           a == [i \in Tokens |-> b[i][Pair] - reserve[i]]
           n == Minted(a)
           locked == IF s = 0 THEN MinLiquidity ELSE 0
           z == lp[Zero]
           l1 == [lp EXCEPT ![Zero] = z + locked]
           y == l1[to]
           l2 == [l1 EXCEPT ![to] = y + n]
<1>1. /\ n > 0
      /\ lp' = l2
      /\ supply' = s + locked + n
      /\ Update(b)
      /\ bal' = b
  BY DEF mint
<1>2. /\ lp \in Shares /\ s \in Nat /\ r0 \in Nat /\ r1 \in Nat
      /\ s = SumFunctionOnSet(lp, Owners)
      /\ s > 0 => z = MinLiquidity /\ r0 > 0 /\ r1 > 0
      /\ s = 0 => z = 0
      /\ MinLiquidity \in Nat /\ MinLiquidity > 0
  BY PoolFacts, TokensAre
<1>3. b0 \in Nat /\ b1 \in Nat /\ r0 <= b0 /\ r1 <= b1
  <2> DEFINE c0 == bal[0][Pair]
             c1 == bal[1][Pair]
  <2>1. c0 \in Nat /\ c1 \in Nat /\ r0 <= c0 /\ r1 <= c1 /\ c0 <= b0 /\ c1 <= b1
    BY PoolFacts, TokensAre
  <2>2. b0 \in Nat /\ b1 \in Nat
    BY TokensAre, OwnersFinite DEF Bals
  <2> HIDE DEF b0, b1, r0, r1, c0, c1
  <2> QED BY <1>2, <2>1, <2>2
<1>4. a0 \in Nat /\ a1 \in Nat /\ b0 = r0 + a0 /\ b1 = r1 + a1
  <2> HIDE DEF b0, b1, r0, r1
  <2> QED BY <1>2, <1>3
<1>5. a[0] = a0 /\ a[1] = a1
  BY TokensAre
<1>6. /\ n \in Nat
      /\ s = 0 => a0 > 0 /\ a1 > 0
      /\ s > 0 => n <= (a0 * s) \div r0 /\ n <= (a1 * s) \div r1
  <2> HIDE DEF a0, a1, a
  <2> QED BY <1>1, <1>2, <1>4, <1>5, MintedIs
<1>7. locked \in Nat /\ z \in Nat /\ z + locked \in Nat
  <2>1. z \in Nat
    BY <1>2, OwnersFinite DEF Shares
  <2>2. locked \in Nat
    BY <1>2
  <2> HIDE DEF z, locked
  <2> QED BY <2>1, <2>2
<1>8. /\ l1 \in Shares /\ l1[Zero] = z + locked
      /\ SumFunctionOnSet(l1, Owners) = s + ((z + locked) - z)
  <2>1. Zero \in Owners /\ lp \in Shares
    BY <1>2, OwnersFinite
  <2>2. /\ l1 \in Shares /\ l1[Zero] = z + locked
        /\ SumFunctionOnSet(l1, Owners) = SumFunctionOnSet(lp, Owners) + ((z + locked) - lp[Zero])
    BY <1>7, <2>1, SharesSet
  <2> QED BY <1>2, <2>2
<1> HIDE DEF l1, n, locked
<1>9. y \in Nat /\ y + n \in Nat /\ to \in Owners /\ to # Zero
  <2>1. to \in Owners /\ to # Zero
    BY OwnersFinite DEF Owners
  <2>2. y \in Nat
    BY <1>8, <2>1 DEF Shares
  <2> HIDE DEF y
  <2> QED BY <1>6, <2>1, <2>2
<1>10. /\ l2 \in Shares /\ l2[Zero] = z + locked
       /\ SumFunctionOnSet(l2, Owners) = SumFunctionOnSet(l1, Owners) + ((y + n) - y)
  <2>1. /\ l2 \in Shares /\ \A o \in Owners \ {to} : l2[o] = l1[o]
        /\ SumFunctionOnSet(l2, Owners) = SumFunctionOnSet(l1, Owners) + ((y + n) - l1[to])
    BY <1>8, <1>9, SharesSet
  <2>2. Zero \in Owners \ {to}
    BY <1>9, OwnersFinite
  <2> QED BY <1>8, <2>1, <2>2
<1>11. SumFunctionOnSet(l2, Owners) = s + locked + n /\ s + locked + n \in Nat
  <2> DEFINE S1 == SumFunctionOnSet(l1, Owners)
             S2 == SumFunctionOnSet(l2, Owners)
  <2>1. S1 = s + ((z + locked) - z) /\ S2 = S1 + ((y + n) - y)
    BY <1>8, <1>10
  <2> HIDE DEF S1, S2, y, z, s
  <2>2. S2 = s + locked + n /\ s + locked + n \in Nat
    BY <1>2, <1>6, <1>7, <1>9, <2>1
  <2> QED BY <2>2 DEF S2
<1>12. z + locked = MinLiquidity /\ b0 > 0 /\ b1 > 0
  <2>1. CASE s = 0
    <3>1. z = 0 /\ locked = MinLiquidity /\ a0 > 0 /\ a1 > 0
      BY <1>2, <1>6, <2>1 DEF locked
    <3> HIDE DEF z, a0, a1, b0, b1, r0, r1
    <3> QED BY <1>2, <1>4, <3>1
  <2>2. CASE s > 0
    <3>1. z = MinLiquidity /\ locked = 0 /\ r0 > 0 /\ r1 > 0
      BY <1>2, <2>2 DEF locked
    <3> HIDE DEF z, b0, b1, r0, r1
    <3> QED BY <1>2, <1>3, <3>1
  <2> HIDE DEF z
  <2> QED BY <1>2, <2>1, <2>2
<1>13. /\ AmmInv'
       /\ reserve'[0] = b0 /\ reserve'[1] = b1
  <2> DEFINE t == s + locked + n
  <2>1. /\ Update(b) /\ bal' = b /\ l2 \in Shares /\ lp' = l2 /\ t \in Nat /\ supply' = t
        /\ t = SumFunctionOnSet(l2, Owners)
        /\ l2[Zero] = MinLiquidity /\ b[0][Pair] > 0 /\ b[1][Pair] > 0
    BY <1>1, <1>10, <1>11, <1>12
  <2> HIDE DEF t, l2
  <2> QED BY <2>1, PoolAfter
<1>14. ASSUME s > 0 PROVE b0 * b1 * s * s >= r0 * r1 * (s + n) * (s + n)
  <2>1. r0 * (s + n) <= (r0 + a0) * s /\ r1 * (s + n) <= (r1 + a1) * s
    <3> HIDE DEF a0, a1, r0, r1, s
    <3> QED BY <1>2, <1>4, <1>6, <1>14, MintKeepsShare
  <2>2. r0 * (s + n) <= b0 * s /\ r1 * (s + n) <= b1 * s /\ s + n \in Nat
    <3> HIDE DEF a0, a1, r0, r1, b0, b1, s
    <3>1. r0 + a0 = b0 /\ r1 + a1 = b1
      BY <1>4
    <3>2. r0 * (s + n) <= b0 * s /\ r1 * (s + n) <= b1 * s
      BY <2>1, <3>1
    <3>3. s + n \in Nat
      BY <1>2, <1>6
    <3> QED BY <3>2, <3>3
  <2>3. r0 * r1 * (s + n) * (s + n) <= b0 * b1 * s * s
    <3> DEFINE t == s + n
    <3>1. t \in Nat /\ r0 * t <= b0 * s /\ r1 * t <= b1 * s
      BY <2>2
    <3>2. r0 * r1 * t * t <= b0 * b1 * s * s
      <4> HIDE DEF t, r0, r1, b0, b1, s
      <4> QED BY <1>2, <1>3, <3>1, ShareKept
    <3> QED BY <3>2
  <2>4. b0 * b1 * s * s \in Nat /\ r0 * r1 * (s + n) * (s + n) \in Nat
    <3> HIDE DEF r0, r1, b0, b1, s
    <3> QED BY <1>2, <1>3, <2>2, MulNat
  <2> HIDE DEF r0, r1, b0, b1, s
  <2> QED BY <2>3, <2>4
<1>15. ShareStep
  <2> SUFFICES ASSUME s > 0
               PROVE  reserve'[0] * reserve'[1] * s * s >= r0 * r1 * supply' * supply'
    BY DEF ShareStep
  <2>1. supply' = s + n
    <3>1. supply' = s + locked + n /\ locked = 0
      BY <1>1, <1>2 DEF locked
    <3> HIDE DEF s
    <3> QED BY <1>2, <1>6, <3>1
  <2> HIDE DEF r0, r1, b0, b1, s
  <2> QED BY <1>13, <1>14, <2>1
<1> QED BY <1>13, <1>15
\* burn, with the shares l after some were sent to the pair.
LEMMA BurnStep ==
    ASSUME AmmInv, NEW l \in Shares, l[Zero] = lp[Zero],
           SumFunctionOnSet(l, Owners) = supply, NEW to \in Holders, burn(l, to)
    PROVE  AmmInv' /\ ShareStep
<1> DEFINE s == supply
           n == l[Pair]
           r0 == reserve[0]
           r1 == reserve[1]
           b0 == bal[0][Pair]
           b1 == bal[1][Pair]
           m0 == (n * b0) \div s
           m1 == (n * b1) \div s
           c == Move(Move(bal, 0, Pair, to, m0), 1, Pair, to, m1)
           q0 == c[0][Pair]
           q1 == c[1][Pair]
           k == [l EXCEPT ![Pair] = 0]
<1>1. /\ s > 0
      /\ lp' = k
      /\ supply' = s - n
      /\ Update(c)
      /\ bal' = c
      /\ created' = created
  BY DEF burn
<1>2. /\ bal \in Bals /\ lp \in Shares /\ s \in Nat
      /\ r0 \in Nat /\ r1 \in Nat /\ b0 \in Nat /\ b1 \in Nat
      /\ r0 <= b0 /\ r1 <= b1
      /\ lp[Zero] = MinLiquidity /\ r0 > 0 /\ r1 > 0
      /\ MinLiquidity \in Nat /\ MinLiquidity > 0
  BY <1>1, PoolFacts, TokensAre
<1>3. n \in Nat /\ MinLiquidity + n <= s
  <2>1. l[Zero] \in Nat /\ l[Pair] \in Nat
        /\ l[Zero] + l[Pair] <= SumFunctionOnSet(l, Owners)
    BY OwnersFinite, SharesBound
  <2> QED BY <1>2, <2>1
<1>4. n < s /\ s - n \in Nat
  <2> HIDE DEF n, s
  <2> QED BY <1>2, <1>3
<1>5. /\ m0 \in Nat /\ m0 < b0 /\ r0 * (s - n) <= (b0 - m0) * s
      /\ m1 \in Nat /\ m1 < b1 /\ r1 * (s - n) <= (b1 - m1) * s
  <2> HIDE DEF n, s, r0, r1, b0, b1
  <2> QED BY <1>2, <1>3, <1>4, BurnKeepsShare
<1> HIDE DEF m0, m1
<1>6. /\ c \in Bals
      /\ q0 = IF to = Pair THEN b0 ELSE b0 - m0
      /\ q1 = IF to = Pair THEN b1 ELSE b1 - m1
  <2>1. m0 <= bal[0][Pair] /\ m1 <= bal[1][Pair] /\ Pair \in Holders
    <3>1. m0 <= b0 /\ m1 <= b1
      <4> HIDE DEF b0, b1
      <4> QED BY <1>2, <1>5
    <3> QED BY <3>1, OwnersFinite
  <2>2. bal \in Bals /\ m0 \in Nat /\ m1 \in Nat
    BY <1>2, <1>5
  <2> QED BY <2>1, <2>2, PayBoth
<1> HIDE DEF c
<1>7. q0 \in Nat /\ q1 \in Nat /\ b0 - m0 <= q0 /\ b1 - m1 <= q1 /\ q0 > 0 /\ q1 > 0
      /\ b0 - m0 \in Nat /\ b1 - m1 \in Nat
  <2> HIDE DEF b0, b1, q0, q1
  <2> QED BY <1>2, <1>5, <1>6
<1>8. /\ k \in Shares /\ k[Zero] = MinLiquidity
      /\ SumFunctionOnSet(k, Owners) = s - n
  <2>1. Pair \in Owners /\ Zero \in Owners \ {Pair}
    BY OwnersFinite
  <2>2. /\ k \in Shares /\ \A o \in Owners \ {Pair} : k[o] = l[o]
        /\ SumFunctionOnSet(k, Owners) = SumFunctionOnSet(l, Owners) + (0 - l[Pair])
    <3>1. k \in Shares /\ k[Pair] = 0 /\ \A o \in Owners \ {Pair} : k[o] = l[o]
      BY <2>1 DEF Shares
    <3> HIDE DEF k
    <3>2. SumFunctionOnSet(k, Owners) = SumFunctionOnSet(l, Owners) + (k[Pair] - l[Pair])
      BY <2>1, <3>1, SharesChange
    <3> QED BY <3>1, <3>2
  <2>3. s + (0 - n) = s - n
    <3> HIDE DEF n, s
    <3> QED BY <1>2, <1>3
  <2> QED BY <1>2, <2>1, <2>2, <2>3
<1>9. AmmInv' /\ reserve'[0] = q0 /\ reserve'[1] = q1
  <2> DEFINE t == s - n
  <2>1. /\ Update(c) /\ bal' = c /\ k \in Shares /\ lp' = k /\ t \in Nat /\ supply' = t
        /\ t = SumFunctionOnSet(k, Owners)
        /\ k[Zero] = MinLiquidity /\ c[0][Pair] > 0 /\ c[1][Pair] > 0
    BY <1>1, <1>4, <1>7, <1>8
  <2>2. created' \in BOOLEAN /\ c \in Bals
    BY <1>1, <1>6 DEF AmmInv, AmmTypeOK
  <2> HIDE DEF t, k
  <2> QED BY <2>1, <2>2, PoolAfter
<1>10. r0 * (s - n) <= q0 * s /\ r1 * (s - n) <= q1 * s
  <2> DEFINE t == s - n
             p0 == b0 - m0
             p1 == b1 - m1
  <2>1. p0 \in Nat /\ p1 \in Nat /\ p0 <= q0 /\ p1 <= q1 /\ t \in Nat
        /\ r0 * t <= p0 * s /\ r1 * t <= p1 * s
    BY <1>4, <1>5, <1>7
  <2>2. r0 * t <= q0 * s /\ r1 * t <= q1 * s
    <3> HIDE DEF t, p0, p1, q0, q1, r0, r1, s
    <3>1. p0 * s <= q0 * s /\ p1 * s <= q1 * s
      BY <1>2, <1>7, <2>1, MulMono
    <3>2. /\ p0 * s \in Nat /\ q0 * s \in Nat /\ r0 * t \in Nat
          /\ p1 * s \in Nat /\ q1 * s \in Nat /\ r1 * t \in Nat
      BY <1>2, <1>7, <2>1, MulNat
    <3> QED BY <2>1, <3>1, <3>2
  <2> QED BY <2>2
<1>11. q0 * q1 * s * s >= r0 * r1 * (s - n) * (s - n)
  <2> DEFINE t == s - n
  <2>1. t \in Nat /\ r0 * t <= q0 * s /\ r1 * t <= q1 * s
    BY <1>4, <1>10
  <2>2. q0 * q1 * s * s >= r0 * r1 * t * t
    <3> HIDE DEF t, q0, q1, r0, r1, s
    <3>1. r0 * r1 * t * t <= q0 * q1 * s * s
      BY <1>2, <1>7, <2>1, ShareKept
    <3>2. r0 * r1 * t * t \in Nat /\ q0 * q1 * s * s \in Nat
      BY <1>2, <1>7, <2>1, MulNat
    <3> QED BY <3>1, <3>2
  <2> QED BY <2>2
<1>12. ShareStep
  <2> HIDE DEF q0, q1
  <2> QED BY <1>1, <1>9, <1>11 DEF ShareStep
<1> QED BY <1>9, <1>12

\* swap, with the balances b after some were sent to the pair.
LEMMA SwapStep ==
    ASSUME AmmInv, NEW b \in Bals, \A i \in Tokens : bal[i][Pair] <= b[i][Pair],
           NEW out, out[0] \in Nat, out[1] \in Nat, NEW to \in Holders, swap(b, out, to)
    PROVE  AmmInv' /\ ShareStep
<1> DEFINE r0 == reserve[0]
           r1 == reserve[1]
           o0 == out[0]
           o1 == out[1]
           b0 == b[0][Pair]
           b1 == b[1][Pair]
           c == Move(Move(b, 0, Pair, to, o0), 1, Pair, to, o1)
           q0 == c[0][Pair]
           q1 == c[1][Pair]
           n0 == IF q0 > r0 - o0 THEN q0 - (r0 - o0) ELSE 0
           n1 == IF q1 > r1 - o1 THEN q1 - (r1 - o1) ELSE 0
           x == q0 * FeeDen - n0 * FeeNum
           y == q1 * FeeDen - n1 * FeeNum
<1>1. /\ created
      /\ o0 < r0 /\ o1 < r1
      /\ x * y >= r0 * r1 * FeeDen * FeeDen
      /\ Update(c)
      /\ bal' = c
      /\ created' = created /\ lp' = lp /\ supply' = supply
  BY DEF swap, SwapOK
<1>2. /\ lp \in Shares /\ supply \in Nat /\ r0 \in Nat /\ r1 \in Nat
      /\ supply = SumFunctionOnSet(lp, Owners)
      /\ supply > 0 => lp[Zero] = MinLiquidity
  BY PoolFacts, TokensAre
<1>3. b0 \in Nat /\ b1 \in Nat /\ r0 <= b0 /\ r1 <= b1
  <2> DEFINE c0 == bal[0][Pair]
             c1 == bal[1][Pair]
  <2>1. c0 \in Nat /\ c1 \in Nat /\ r0 <= c0 /\ r1 <= c1 /\ c0 <= b0 /\ c1 <= b1
    BY PoolFacts, TokensAre
  <2>2. b0 \in Nat /\ b1 \in Nat
    BY TokensAre, OwnersFinite DEF Bals
  <2> HIDE DEF b0, b1, r0, r1, c0, c1
  <2> QED BY <1>2, <2>1, <2>2
<1>4. o0 \in Nat /\ o1 \in Nat /\ o0 < b0 /\ o1 < b1
  <2>1. o0 \in Nat /\ o1 \in Nat
    OBVIOUS
  <2> HIDE DEF b0, b1, r0, r1, o0, o1
  <2> QED BY <1>1, <1>2, <1>3, <2>1
<1>5. /\ c \in Bals
      /\ q0 = IF to = Pair THEN b0 ELSE b0 - o0
      /\ q1 = IF to = Pair THEN b1 ELSE b1 - o1
  <2>1. o0 <= b[0][Pair] /\ o1 <= b[1][Pair] /\ Pair \in Holders
    <3>1. o0 <= b0 /\ o1 <= b1
      <4> HIDE DEF b0, b1, o0, o1
      <4> QED BY <1>3, <1>4
    <3> QED BY <3>1, OwnersFinite
  <2> HIDE DEF o0, o1
  <2> QED BY <1>4, <2>1, PayBoth
<1> HIDE DEF c
<1>6. q0 \in Nat /\ q1 \in Nat /\ q0 > 0 /\ q1 > 0
  <2> HIDE DEF b0, b1, o0, o1, q0, q1
  <2> QED BY <1>3, <1>4, <1>5
<1>7. AmmInv' /\ reserve'[0] = q0 /\ reserve'[1] = q1
  <2>1. /\ Update(c) /\ bal' = c /\ c \in Bals /\ lp \in Shares /\ lp' = lp
        /\ supply \in Nat /\ supply' = supply
        /\ supply = SumFunctionOnSet(lp, Owners)
        /\ supply > 0 => lp[Zero] = MinLiquidity /\ c[0][Pair] > 0 /\ c[1][Pair] > 0
    BY <1>1, <1>2, <1>5, <1>6
  <2>2. created' \in BOOLEAN
    BY <1>1 DEF AmmInv, AmmTypeOK
  <2> QED BY <2>1, <2>2, PoolAfter
<1>8. n0 \in Nat /\ n1 \in Nat /\ n0 <= q0 /\ n1 <= q1
  <2> HIDE DEF o0, o1, q0, q1, r0, r1
  <2> QED BY <1>1, <1>2, <1>4, <1>6
<1>9. FeeNum \in Nat /\ FeeDen \in Nat /\ FeeNum < FeeDen /\ FeeDen > 0
  BY AmmAssumption
<1>10. x \in Nat /\ y \in Nat /\ x <= q0 * FeeDen /\ y <= q1 * FeeDen
  <2> HIDE DEF n0, n1, q0, q1
  <2> QED BY <1>6, <1>8, <1>9, AdjustedIsNat
<1>11. r0 * r1 <= q0 * q1
  <2> HIDE DEF x, y, q0, q1, r0, r1
  <2> QED BY <1>1, <1>2, <1>6, <1>9, <1>10, SwapKeepsProduct
<1>12. q0 * q1 * supply * supply >= r0 * r1 * supply * supply
  <2> DEFINE p == r0 * r1
             q == q0 * q1
             s == supply * supply
  <2>1. p \in Nat /\ q \in Nat /\ s \in Nat
    <3> HIDE DEF q0, q1, r0, r1
    <3> QED BY <1>2, <1>6, MulNat
  <2>2. p <= q
    BY <1>11
  <2>3. p * s <= q * s /\ p * s \in Nat /\ q * s \in Nat
    <3> HIDE DEF p, q, s
    <3> QED BY <2>1, <2>2, MulMono, MulNat
  <2>4. p * s = r0 * r1 * supply * supply /\ q * s = q0 * q1 * supply * supply
    <3> HIDE DEF q0, q1, r0, r1
    <3> QED BY <1>2, <1>6
  <2> HIDE DEF p, q, s, q0, q1, r0, r1
  <2> QED BY <2>3, <2>4
<1>13. ShareStep
  <2> HIDE DEF q0, q1
  <2> QED BY <1>1, <1>7, <1>12 DEF ShareStep
<1> QED BY <1>7, <1>13
-----------------------------------------------------------------------------
(* The transactions *)

\* A token sent to the pair leaves the pair no poorer.
LEMMA TokenSent ==
    ASSUME NEW b \in Bals, NEW u \in Users, NEW i \in Tokens, NEW n \in Nat, CanMove(b, i, u, n)
    PROVE  /\ Move(b, i, u, Pair, n) \in Bals
           /\ \A j \in Tokens : b[j][Pair] <= Move(b, i, u, Pair, n)[j][Pair]
           /\ \A j \in Tokens \ {i} : Move(b, i, u, Pair, n)[j] = b[j]
<1> DEFINE c == Move(b, i, u, Pair, n)
<1>0. u \in Holders /\ Pair \in Holders /\ u # Pair
  BY AmmAssumption DEF Holders
<1>1. n <= b[i][u]
  <2> DEFINE x == b[i][u]
  <2>1. x \in Nat /\ x >= n
    BY <1>0 DEF CanMove, Bals
  <2>2. n <= x
    <3> HIDE DEF x
    <3> QED BY <2>1
  <2> QED BY <2>2
<1>2. /\ c \in Bals
      /\ \A j \in Tokens \ {i} : c[j] = b[j]
      /\ c[i][Pair] = b[i][Pair] + n
  BY <1>0, <1>1, MoveMoves
<1> HIDE DEF c
<1>3. ASSUME NEW j \in Tokens PROVE b[j][Pair] <= c[j][Pair]
  <2> DEFINE x == b[j][Pair]
             y == c[j][Pair]
  <2>1. x \in Nat
    BY <1>0 DEF Bals
  <2>2. y = x \/ y = x + n
    BY <1>2
  <2>3. x <= y
    <3> HIDE DEF x, y
    <3> QED BY <2>1, <2>2
  <2> QED BY <2>3
<1> QED BY <1>2, <1>3 DEF c

\* Both tokens sent to the pair, in balances that allow it.
LEMMA BothSent ==
    ASSUME NEW b \in Bals, NEW u \in Users, NEW m \in Nat, NEW n \in Nat,
           CanMove(b, 0, u, m), CanMove(b, 1, u, n)
    PROVE  LET c == Move(Move(b, 0, u, Pair, m), 1, u, Pair, n)
           IN  c \in Bals /\ \A j \in Tokens : b[j][Pair] <= c[j][Pair]
<1> DEFINE d == Move(b, 0, u, Pair, m)
           c == Move(d, 1, u, Pair, n)
<1>1. /\ d \in Bals
      /\ \A j \in Tokens : b[j][Pair] <= d[j][Pair]
      /\ d[1] = b[1]
  <2>1. 0 \in Tokens /\ 1 \in Tokens \ {0}
    BY DEF Tokens
  <2> QED BY <2>1, TokenSent
<1> HIDE DEF d
<1>2. CanMove(d, 1, u, n)
  BY <1>1 DEF CanMove
<1>3. c \in Bals /\ \A j \in Tokens : d[j][Pair] <= c[j][Pair]
  BY <1>1, <1>2, TokensAre, TokenSent
<1> HIDE DEF c
<1>4. ASSUME NEW j \in Tokens PROVE b[j][Pair] <= c[j][Pair]
  <2> DEFINE x == b[j][Pair]
             y == d[j][Pair]
             z == c[j][Pair]
  <2>1. x \in Nat /\ y \in Nat /\ z \in Nat /\ x <= y /\ y <= z
    BY <1>1, <1>3, OwnersFinite DEF Bals
  <2>2. x <= z
    <3> HIDE DEF x, y, z
    <3> QED BY <2>1
  <2> QED BY <2>2
<1> QED BY <1>3, <1>4 DEF c, d

\* What _addLiquidity deposits are amounts.
LEMMA DepositsAreAmounts ==
    ASSUME NEW want \in [Tokens -> Amounts], NEW least \in [Tokens -> Minimums],
           NEW got \in Deposits(want, least)
    PROVE  got[0] \in Nat /\ got[1] \in Nat
<1>1. want \in [Tokens -> Nat] /\ least \in [Tokens -> Nat]
  BY AmmAssumption
<1>2. CASE got = want
  BY <1>1, <1>2, TokensAre
<1>3. CASE got # want
  <2>1. PICK short \in Tokens :
           \E n \in least[short]..want[short] : got = [want EXCEPT ![short] = n]
    BY <1>3, TokensAre DEF Deposits
  <2> PICK n \in least[short]..want[short] : got = [want EXCEPT ![short] = n]
    BY <2>1
  <2>2. n \in Nat
    <3> DEFINE lo == least[short]
               hi == want[short]
    <3>1. lo \in Nat /\ hi \in Nat /\ n \in lo..hi
      BY <1>1
    <3> HIDE DEF lo, hi
    <3> QED BY <3>1
  <2>3. got \in [Tokens -> Nat]
    BY <1>1, <2>2
  <2> QED BY <2>3, TokensAre
<1> QED BY <1>2, <1>3

\* The pair's liquidity token and reserves stay, and the pair gets no poorer.
LEMMA StrayTransfer ==
    ASSUME AmmInv, bal' \in Bals, \A i \in Tokens : bal[i][Pair] <= bal'[i][Pair],
           lp' \in Shares, lp'[Zero] = lp[Zero],
           SumFunctionOnSet(lp', Owners) = SumFunctionOnSet(lp, Owners),
           created' \in BOOLEAN, reserve' = reserve, supply' = supply
    PROVE  AmmInv' /\ ShareStep
<1>1. AmmTypeOK'
  BY DEF AmmInv, AmmTypeOK, Bals, Shares, Owners
<1>2. PoolIsBacked'
  <2>1. ASSUME NEW i \in Tokens PROVE bal'[i][Pair] >= reserve'[i]
    <3> DEFINE r == reserve[i]
               x == bal[i][Pair]
               y == bal'[i][Pair]
    <3>1. r \in Nat /\ x \in Nat /\ y \in Nat /\ r <= x /\ x <= y
      BY PoolFacts, OwnersFinite DEF Bals
    <3>2. y >= r
      <4> HIDE DEF r, x, y
      <4> QED BY <3>1
    <3> QED BY <3>2
  <2>2. supply' = SumFunctionOnSet(lp', Holders \cup {Zero})
    BY DEF Owners, AmmInv, PoolIsBacked
  <2>3. supply' > 0 => lp'[Zero] = MinLiquidity /\ reserve'[0] > 0 /\ reserve'[1] > 0
    BY DEF AmmInv, PoolIsBacked
  <2> QED BY <2>1, <2>2, <2>3 DEF PoolIsBacked
<1>3. ShareStep
  <2> DEFINE k == reserve[0] * reserve[1] * supply * supply
  <2>1. k \in Nat
    <3> DEFINE r0 == reserve[0]
               r1 == reserve[1]
    <3>1. r0 \in Nat /\ r1 \in Nat /\ supply \in Nat
      BY PoolFacts, TokensAre
    <3>2. r0 * r1 * supply * supply \in Nat
      <4> HIDE DEF r0, r1
      <4> QED BY <3>1, MulNat
    <3> QED BY <3>2
  <2>2. k >= k
    <3> HIDE DEF k
    <3> QED BY <2>1
  <2> QED BY <2>2 DEF ShareStep
<1> QED BY <1>1, <1>2, <1>3 DEF AmmInv

\* Every transaction.
LEMMA AmmStep ==
    ASSUME AmmInv, [AmmNext]_ammVars
    PROVE  AmmInv' /\ ShareStep
<1> DEFINE Kept == AmmInv' /\ ShareStep
<1>0. /\ bal \in Bals /\ lp \in Shares /\ created \in BOOLEAN
      /\ \A i \in Tokens : bal[i][Pair] <= bal[i][Pair]
  <2>1. \A i \in Tokens : bal[i][Pair] \in Nat
    BY PoolFacts
  <2>2. ASSUME NEW i \in Tokens PROVE bal[i][Pair] <= bal[i][Pair]
    <3> DEFINE x == bal[i][Pair]
    <3>1. x \in Nat
      BY <2>1
    <3>2. x <= x
      <4> HIDE DEF x
      <4> QED BY <3>1
    <3> QED BY <3>2
  <2> QED BY <2>2, PoolFacts DEF AmmInv, AmmTypeOK
<1>1. CASE createPair
  BY <1>0, <1>1, StrayTransfer DEF createPair
<1>2. ASSUME NEW u \in Users, NEW want \in [Tokens -> Amounts], NEW least \in [Tokens -> Minimums],
             addLiquidity(u, want, least)
      PROVE  Kept
  <2>1. PICK got \in Deposits(want, least) :
           /\ \A i \in Tokens : CanMove(bal, i, u, got[i])
           /\ mint(Move(Move(bal, 0, u, Pair, got[0]), 1, u, Pair, got[1]), u)
           /\ created' = TRUE
    BY <1>2 DEF addLiquidity
  <2> DEFINE m == got[0]
             n == got[1]
             b == Move(Move(bal, 0, u, Pair, m), 1, u, Pair, n)
  <2>2. m \in Nat /\ n \in Nat /\ CanMove(bal, 0, u, m) /\ CanMove(bal, 1, u, n)
    BY <2>1, TokensAre, DepositsAreAmounts
  <2>3. b \in Bals /\ \A i \in Tokens : bal[i][Pair] <= b[i][Pair]
    <3> HIDE DEF m, n
    <3> QED BY <1>0, <2>2, BothSent
  <2>4. mint(b, u) /\ u \in Holders /\ created' \in BOOLEAN
    BY <2>1 DEF Holders
  <2> HIDE DEF b
  <2> QED BY <2>3, <2>4, MintStep
<1>3. ASSUME NEW u \in Users, NEW n \in Amounts, NEW least \in [Tokens -> Minimums],
             removeLiquidity(u, n, least)
      PROVE  Kept
  <2> DEFINE l == [[lp EXCEPT ![u] = @ - n] EXCEPT ![Pair] = @ + n]
  <2>1. lp[u] >= n /\ burn(l, u)
    BY <1>3 DEF removeLiquidity
  <2>2. n \in Nat /\ n <= lp[u] /\ u \in Holders
    <3> DEFINE x == lp[u]
    <3>1. x \in Nat /\ n \in Nat /\ x >= n
      BY <1>0, <2>1, AmmAssumption DEF Shares, Owners, Holders
    <3>2. n <= x
      <4> HIDE DEF x
      <4> QED BY <3>1
    <3> QED BY <3>1, <3>2 DEF Holders
  <2>3. l \in Shares /\ l[Zero] = lp[Zero]
        /\ SumFunctionOnSet(l, Owners) = SumFunctionOnSet(lp, Owners)
    BY <1>0, <2>2, SharesSent
  <2>4. supply = SumFunctionOnSet(lp, Owners)
    BY PoolFacts
  <2> HIDE DEF l
  <2> QED BY <2>1, <2>2, <2>3, <2>4, BurnStep
<1>4. ASSUME NEW u \in Users, NEW i \in Tokens, NEW n \in Amounts, NEW least \in Minimums,
             swapExactTokensForTokens(u, i, n, least)
      PROVE  Kept
  <2> DEFINE t == getAmountOut(n, reserve[i], reserve[Other(i)])
             out == [j \in Tokens |-> IF j = i THEN 0 ELSE t]
             b == Move(bal, i, u, Pair, n)
  <2>1. /\ reserve[0] > 0 /\ reserve[1] > 0
        /\ CanMove(bal, i, u, n) /\ swap(b, out, u)
    BY <1>4 DEF swapExactTokensForTokens
  <2>2. n \in Nat
    BY AmmAssumption
  <2>3. b \in Bals /\ \A j \in Tokens : bal[j][Pair] <= b[j][Pair]
    BY <1>0, <2>1, <2>2, TokenSent
  <2>4. t \in Nat
    <3>1. Other(i) \in Tokens
      BY TokensAre DEF Other
    <3>2. reserve[i] \in Nat /\ reserve[Other(i)] \in Nat /\ reserve[i] > 0
      BY <2>1, <3>1, PoolFacts, TokensAre
    <3> QED BY <2>2, <3>2, AmountOutBounds
  <2>5. out[0] \in Nat /\ out[1] \in Nat
    <3> HIDE DEF t
    <3> QED BY <2>4, TokensAre
  <2>6. u \in Holders
    BY DEF Holders
  <2> HIDE DEF b, out
  <2> QED BY <2>1, <2>3, <2>5, <2>6, SwapStep
<1>5. ASSUME NEW u \in Users, NEW n \in Amounts, SendLiquidity(u, n)
      PROVE  Kept
  <2> DEFINE l == [[lp EXCEPT ![u] = @ - n] EXCEPT ![Pair] = @ + n]
  <2>1. lp[u] >= n /\ lp' = l /\ created' = created /\ bal' = bal
        /\ reserve' = reserve /\ supply' = supply
    BY <1>5 DEF SendLiquidity
  <2>2. n \in Nat /\ n <= lp[u]
    <3> DEFINE x == lp[u]
    <3>1. x \in Nat /\ n \in Nat /\ x >= n
      BY <1>0, <2>1, AmmAssumption DEF Shares, Owners, Holders
    <3>2. n <= x
      <4> HIDE DEF x
      <4> QED BY <3>1
    <3> QED BY <3>1, <3>2
  <2>3. l \in Shares /\ l[Zero] = lp[Zero]
        /\ SumFunctionOnSet(l, Owners) = SumFunctionOnSet(lp, Owners)
    BY <1>0, <2>2, SharesSent
  <2> HIDE DEF l
  <2> QED BY <1>0, <2>1, <2>3, StrayTransfer
<1>6. ASSUME NEW u \in Users, NEW i \in Tokens, NEW n \in Amounts, SendToken(u, i, n)
      PROVE  Kept
  <2> DEFINE b == Move(bal, i, u, Pair, n)
  <2>1. CanMove(bal, i, u, n) /\ bal' = b /\ created' = created
        /\ reserve' = reserve /\ lp' = lp /\ supply' = supply
    BY <1>6 DEF SendToken
  <2>2. n \in Nat
    BY AmmAssumption
  <2>3. b \in Bals /\ \A j \in Tokens : bal[j][Pair] <= b[j][Pair]
    BY <1>0, <2>1, <2>2, TokenSent
  <2> HIDE DEF b
  <2> QED BY <1>0, <2>1, <2>3, StrayTransfer
<1>7. ASSUME NEW to \in Holders, mint(bal, to), UNCHANGED created
      PROVE  Kept
  BY <1>0, <1>7, MintStep
<1>8. ASSUME NEW to \in Holders, burn(lp, to)
      PROVE  Kept
  <2>1. supply = SumFunctionOnSet(lp, Owners)
    BY PoolFacts
  <2> QED BY <1>0, <1>8, <2>1, BurnStep
<1>9. ASSUME NEW to \in Holders, NEW out \in [Tokens -> Amounts \cup {0}], swap(bal, out, to)
      PROVE  Kept
  <2>1. out[0] \in Nat /\ out[1] \in Nat
    <3>1. \A n \in Amounts \cup {0} : n \in Nat
      BY AmmAssumption
    <3>2. out[0] \in Amounts \cup {0} /\ out[1] \in Amounts \cup {0}
      BY TokensAre
    <3> QED BY <3>1, <3>2
  <2> QED BY <1>0, <1>9, <2>1, SwapStep
<1>10. CASE UNCHANGED ammVars
  BY <1>0, <1>10, StrayTransfer DEF ammVars
<1> QED BY <1>1, <1>2, <1>3, <1>4, <1>5, <1>6, <1>7, <1>8, <1>9, <1>10 DEF AmmNext
-----------------------------------------------------------------------------
(* The theorems *)

\* At the start no token is in the pair and there are no shares.
LEMMA AmmStart == AmmInit => AmmInv
<1> SUFFICES ASSUME AmmInit PROVE AmmInv
  OBVIOUS
<1>0. Funding \in Nat /\ MaxReserve \in Nat
  BY AmmAssumption
<1>1. AmmTypeOK
  <2>1. 0 \in 0..MaxReserve /\ 0 \in Nat
    BY <1>0
  <2>2. bal \in [Tokens -> [Holders -> Nat]] /\ reserve \in [Tokens -> 0..MaxReserve]
    BY <1>0, <2>1 DEF AmmInit
  <2> QED BY <2>1, <2>2 DEF AmmTypeOK, AmmInit
<1>2. \A i \in Tokens : bal[i][Pair] >= reserve[i]
  BY OwnersFinite DEF AmmInit
<1>3. supply = SumFunctionOnSet(lp, Holders \cup {Zero})
  <2>1. \A h \in Owners : lp[h] = 0
    BY DEF AmmInit, Owners
  <2>2. SumFunctionOnSet(lp, Owners) = 0
    BY <2>1, OwnersFinite, SumZero
  <2> QED BY <2>2 DEF AmmInit, Owners
<1> QED BY <1>1, <1>2, <1>3 DEF AmmInv, PoolIsBacked, AmmInit

\* However deposits, withdrawals, swaps and stray transfers follow each other,
\* the pair owns what its reserves say, its liquidity tokens add up to
\* totalSupply, and once there are any the locked ones stay and no reserve
\* runs dry.
THEOREM PoolIsConsistent == AmmSpec => []AmmInv
<1>1. AmmInv /\ [AmmNext]_ammVars => AmmInv'
  BY AmmStep
<1> QED BY <1>1, AmmStart, PTL DEF AmmSpec

\* No call of anybody lowers the product of the reserves per square of the
\* shares: mint, burn, swap and the router round for those who hold shares.
THEOREM SharesKeepValue == AmmSpec => ShareValueNeverFalls
<1>1. AmmInv /\ [AmmNext]_ammVars => AmmInv' /\ [ShareStep]_ammVars
  BY AmmStep
<1>2. AmmSpec => [][ShareStep]_ammVars
  BY <1>1, AmmStart, PTL DEF AmmSpec
<1> QED BY <1>2 DEF ShareValueNeverFalls, ShareStep
-----------------------------------------------------------------------------
(* Rounding in the reachable states *)

LEMMA RootIsFloor ==
    ASSUME AmmInv
    PROVE  SqrtIsFloor
<1> DEFINE k == bal[0][Pair] * bal[1][Pair]
<1>1. k \in Nat
  <2> DEFINE x == bal[0][Pair]
             y == bal[1][Pair]
  <2>1. x \in Nat /\ y \in Nat
    BY PoolFacts, TokensAre
  <2>2. x * y \in Nat
    <3> HIDE DEF x, y
    <3> QED BY <2>1, MulNat
  <2> QED BY <2>2
<1>2. sqrt(k) * sqrt(k) <= k /\ k < (sqrt(k) + 1) * (sqrt(k) + 1)
  <2> HIDE DEF k
  <2> QED BY <1>1, SqrtIsRoot
<1> QED BY <1>2 DEF SqrtIsFloor

\* The K check with reserves ri, ro and balances bi, bo of the token put in
\* and the token taken out; what came in by the pair's reckoning is mi, mo.
LEMMA QuoteIsAccepted ==
    ASSUME NEW n \in Nat, n > 0, NEW ri \in Nat, NEW ro \in Nat, ri > 0, ro > 0,
           NEW bi \in Nat, NEW bo \in Nat, ri <= bi, ro <= bo
    PROVE  LET t == getAmountOut(n, ri, ro)
               ci == bi + n
               co == bo - t
               mi == IF ci > ri THEN ci - ri ELSE 0
               mo == IF co > ro - t THEN co - (ro - t) ELSE 0
               x == ci * FeeDen - mi * FeeNum
               y == co * FeeDen - mo * FeeNum
           IN  t < ro /\ mi > 0 /\ x \in Nat /\ y \in Nat /\ ri * ro * FeeDen * FeeDen <= x * y
<1> DEFINE t == getAmountOut(n, ri, ro)
           g == FeeDen - FeeNum
           w == n * g
           ci == bi + n
           co == bo - t
           mi == IF ci > ri THEN ci - ri ELSE 0
           mo == IF co > ro - t THEN co - (ro - t) ELSE 0
           x == ci * FeeDen - mi * FeeNum
           y == co * FeeDen - mo * FeeNum
<1>1. /\ g \in Nat /\ FeeDen \in Nat /\ FeeNum \in Nat /\ FeeDen = g + FeeNum
      /\ t \in Nat /\ t < ro /\ t * (ri * FeeDen + w) <= w * ro
  BY AmmAssumption, AmountOutBounds, AmountOutIsLess
<1> HIDE DEF t, g
<1>2. w \in Nat
  BY <1>1, MulNat
<1>3. mi = bi + n - ri /\ mi > 0 /\ mi \in Nat /\ mo = bo - ro /\ mo \in Nat /\ ci \in Nat /\ co \in Nat
  BY <1>1
<1>4. ri * FeeDen + w <= x /\ x \in Nat
  <2> DEFINE e == bi - ri
  <2>1. e \in Nat /\ mi = e + n /\ ci = ri + e + n
    BY <1>3
  <2> HIDE DEF e, mi, ci
  <2>2. x = ri * FeeDen + (e * g + w)
    BY <1>1, <2>1
  <2>3. e * g \in Nat /\ ri * FeeDen \in Nat
    BY <1>1, <2>1, MulNat
  <2> HIDE DEF x, w
  <2> QED BY <1>2, <2>2, <2>3
<1>5. (ro - t) * FeeDen <= y /\ y \in Nat
  <2> DEFINE e == bo - ro
             u == ro - t
  <2>1. e \in Nat /\ mo = e /\ co = u + e /\ u \in Nat
    BY <1>1, <1>3
  <2> HIDE DEF e, mo, co, u
  <2>2. y = u * FeeDen + e * g
    BY <1>1, <2>1
  <2>3. e * g \in Nat /\ u * FeeDen \in Nat
    BY <1>1, <2>1, MulNat
  <2>4. u * FeeDen <= y /\ y \in Nat
    <3> HIDE DEF y
    <3> QED BY <2>2, <2>3
  <2> QED BY <2>4 DEF u
<1>6. ri * ro * FeeDen * FeeDen <= x * y
  <2> DEFINE d == FeeDen
  <2>1. /\ d \in Nat /\ w \in Nat /\ t \in Nat /\ t <= ro /\ t * (ri * d + w) <= w * ro
        /\ x \in Nat /\ y \in Nat /\ ri * d + w <= x /\ (ro - t) * d <= y
    BY <1>1, <1>2, <1>4, <1>5
  <2>2. ri * ro * d * d <= x * y
    <3> HIDE DEF d, w, x, y
    <3> QED BY <2>1, QuotePassesK
  <2> QED BY <2>2
<1> QED BY <1>1, <1>3, <1>4, <1>5, <1>6 DEF t

LEMMA QuotesAreAccepted ==
    ASSUME AmmInv
    PROVE  RouterQuoteIsAccepted
<1> SUFFICES ASSUME supply > 0, NEW i \in Tokens, NEW n \in Amounts
             PROVE  LET t == getAmountOut(n, reserve[i], reserve[Other(i)])
                        out == [j \in Tokens |-> IF j = i THEN 0 ELSE t]
                        after == [bal EXCEPT ![i][Pair] = @ + n, ![Other(i)][Pair] = @ - t]
                    IN  t > 0 => t < reserve[Other(i)] /\ SwapOK(after, out)
  BY DEF RouterQuoteIsAccepted
<1> DEFINE o == Other(i)
           ri == reserve[i]
           ro == reserve[o]
           bi == bal[i][Pair]
           bo == bal[o][Pair]
           t == getAmountOut(n, ri, ro)
           out == [j \in Tokens |-> IF j = i THEN 0 ELSE t]
           after == [bal EXCEPT ![i][Pair] = @ + n, ![o][Pair] = @ - t]
           ci == bi + n
           co == bo - t
           mi == IF ci > ri THEN ci - ri ELSE 0
           mo == IF co > ro - t THEN co - (ro - t) ELSE 0
           x == ci * FeeDen - mi * FeeNum
           y == co * FeeDen - mo * FeeNum
<1>1. o \in Tokens /\ o # i /\ ((i = 0 /\ o = 1) \/ (i = 1 /\ o = 0))
  BY TokensAre DEF Other
<1>2. /\ n \in Nat /\ n > 0 /\ ri \in Nat /\ ro \in Nat /\ ri > 0 /\ ro > 0
      /\ bi \in Nat /\ bo \in Nat /\ ri <= bi /\ ro <= bo
  <2>1. n \in Nat /\ n > 0
    BY AmmAssumption
  <2>2. ri > 0 /\ ro > 0
    BY <1>1, PoolFacts
  <2> QED BY <1>1, <2>1, <2>2, PoolFacts
<1>3. t < ro /\ mi > 0 /\ x \in Nat /\ y \in Nat /\ ri * ro * FeeDen * FeeDen <= x * y
  <2> HIDE DEF ri, ro, bi, bo
  <2> QED BY <1>2, QuoteIsAccepted
<1>4. after[i][Pair] = ci /\ after[o][Pair] = co
  <2>1. bal \in Bals /\ Pair \in Holders
    BY PoolFacts, OwnersFinite
  <2> HIDE DEF t, o
  <2> QED BY <1>1, <2>1 DEF Bals
<1>5. out[i] = 0 /\ out[o] = t
  <2> HIDE DEF t, o
  <2> QED BY <1>1
<1>6. ri - 0 = ri
  <2> HIDE DEF ri
  <2> QED BY <1>2
<1>7. SwapOK(after, out)
  <2> DEFINE kept(j) == reserve[j] - out[j]
             in(j) == IF after[j][Pair] > kept(j) THEN after[j][Pair] - kept(j) ELSE 0
             adj(j) == after[j][Pair] * FeeDen - in(j) * FeeNum
  <2>1. in(i) = mi /\ in(o) = mo
    <3> HIDE DEF after, out, t, o
    <3> QED BY <1>4, <1>5, <1>6
  <2>2. adj(i) = x /\ adj(o) = y
    <3> HIDE DEF after, out, in
    <3> QED BY <1>4, <2>1
  <2>3. in(0) > 0 \/ in(1) > 0
    <3> HIDE DEF in, mi
    <3> QED BY <1>1, <1>3, <2>1
  <2>4. adj(0) * adj(1) >= reserve[0] * reserve[1] * FeeDen * FeeDen
    <3> HIDE DEF adj, x, y
    <3>1. x * y >= ri * ro * FeeDen * FeeDen /\ x * y = y * x
          /\ ri * ro * FeeDen * FeeDen = ro * ri * FeeDen * FeeDen
      <4> DEFINE k == ri * ro * FeeDen * FeeDen
                 p == x * y
      <4>1. FeeDen \in Nat
        BY AmmAssumption
      <4> HIDE DEF ri, ro
      <4>2. k \in Nat /\ p \in Nat /\ k <= p
        BY <1>2, <1>3, <4>1, MulNat
      <4>3. p >= k
        <5> HIDE DEF k, p
        <5> QED BY <4>2
      <4>4. x * y = y * x /\ ri * ro = ro * ri
        BY <1>2, <1>3, MulNat
      <4> QED BY <4>3, <4>4
    <3>2. CASE i = 0 /\ o = 1
      <4> HIDE DEF o
      <4> QED BY <2>2, <3>1, <3>2
    <3>3. CASE i = 1 /\ o = 0
      <4> HIDE DEF o
      <4> QED BY <2>2, <3>1, <3>3
    <3> QED BY <1>1, <3>2, <3>3
  <2> HIDE DEF after, out
  <2> QED BY <2>3, <2>4 DEF SwapOK
<1> QED BY <1>3, <1>7

LEMMA RoundTripsAreNoGain ==
    ASSUME AmmInv
    PROVE  RoundTripNeverPays
<1> SUFFICES ASSUME supply > 0, NEW i \in Tokens, NEW n \in Amounts
             PROVE  LET t == getAmountOut(n, reserve[i], reserve[Other(i)])
                        b == getAmountOut(t, reserve[Other(i)] - t, reserve[i] + n)
                    IN  t > 0 => b <= n
  BY DEF RoundTripNeverPays
<1> DEFINE ri == reserve[i]
           ro == reserve[Other(i)]
           d == FeeDen
           g == FeeDen - FeeNum
           t == getAmountOut(n, ri, ro)
           u == ro - t
           v == ri + n
           b == getAmountOut(t, u, v)
<1>1. n \in Nat /\ ri \in Nat /\ ro \in Nat /\ ri > 0 /\ ro > 0
  <2>1. Other(i) \in Tokens
    BY TokensAre DEF Other
  <2>2. n \in Nat
    BY AmmAssumption
  <2> QED BY <2>1, <2>2, PoolFacts, TokensAre
<1> HIDE DEF ri, ro
<1>2. /\ g \in Nat /\ g > 0 /\ g <= d /\ d \in Nat /\ t \in Nat
      /\ t * (ri * d + n * g) <= (n * g) * ro
      /\ t < ro
  BY <1>1, AmountOutBounds, AmountOutIsLess
<1> HIDE DEF t
<1>3. u \in Nat /\ u > 0 /\ v \in Nat
  BY <1>1, <1>2
<1>4. b \in Nat /\ b * (u * d + t * g) <= (t * g) * v
  <2> HIDE DEF u, v
  <2> QED BY <1>2, <1>3, AmountOutBounds
<1> HIDE DEF b, g, d
<1>5. t > 0 => b <= n
  BY <1>1, <1>2, <1>4, ThereAndBack
<1> QED BY <1>5 DEF b, t, ri, ro

\* In every reachable pool Math.sqrt is the root rounded down, the pair's K
\* check accepts what the router quotes, and a swap there and back returns
\* no more than was put in.
THEOREM RoundingFavoursThePool == AmmSpec => []RoundingIsRight
<1>1. AmmInv => RoundingIsRight
  BY RootIsFloor, QuotesAreAccepted, RoundTripsAreNoGain DEF RoundingIsRight
<1> QED BY <1>1, PoolIsConsistent, PTL
=============================================================================
