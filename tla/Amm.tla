-------------------------------- MODULE Amm ---------------------------------
(***************************************************************************)
(* contracts/src/amm: the constant-product pair with its liquidity token,   *)
(* the factory and the router, for one pair of tokens.  A transaction is    *)
(* one step: it runs alone and a failed require undoes all of it.  The pair *)
(* is open to everybody, so besides the router's functions the tokens may   *)
(* be sent to the pair, and mint, burn and swap called, in transactions of  *)
(* different senders.                                                       *)
(*                                                                          *)
(* Amounts are small naturals; MINIMUM_LIQUIDITY, the fee and the width of  *)
(* the reserves are parameters.  kLast is never set by the code, and        *)
(* blockTimestampLast is read by nobody.                                    *)
(***************************************************************************)
EXTENDS Integers, FiniteSets, Functions

CONSTANTS
    Users, Pair, Zero,  \* addresses
    Funding,            \* each user's tokens
    MinLiquidity,       \* MINIMUM_LIQUIDITY, 1000 in the code
    FeeNum, FeeDen,     \* the fee, 3 of 1000 in the code
    MaxReserve,         \* type(uint112).max
    Amounts,            \* amounts in the transactions
    Minimums            \* slippage limits in the transactions

ASSUME AmmAssumption ==
    /\ IsFiniteSet(Users) /\ Pair \notin Users /\ Zero \notin Users \cup {Pair}
    /\ Funding \in Nat /\ MinLiquidity \in Nat \ {0} /\ MaxReserve \in Nat \ {0}
    /\ FeeNum \in Nat /\ FeeDen \in Nat /\ FeeNum < FeeDen
    /\ Amounts \subseteq Nat \ {0} /\ Minimums \subseteq Nat

VARIABLES
    created,  \* getPair
    bal,      \* balanceOf of the two tokens
    reserve,  \* reserve0, reserve1
    lp,       \* balanceOf of the liquidity token
    supply    \* totalSupply of the liquidity token

ammVars == <<created, bal, reserve, lp, supply>>

Tokens == {0, 1}
Holders == Users \cup {Pair}
Other(i) == 1 - i

AmmTypeOK ==
    /\ created \in BOOLEAN
    /\ bal \in [Tokens -> [Holders -> Nat]]
    /\ reserve \in [Tokens -> 0..MaxReserve]
    /\ lp \in [Holders \cup {Zero} -> Nat]
    /\ supply \in Nat

AmmInit ==
    /\ created = FALSE
    /\ bal = [i \in Tokens |-> [h \in Holders |-> IF h = Pair THEN 0 ELSE Funding]]
    /\ reserve = [i \in Tokens |-> 0]
    /\ lp = [h \in Holders \cup {Zero} |-> 0]
    /\ supply = 0
-----------------------------------------------------------------------------
(* Arithmetic *)

minOf(x, y) == IF x < y THEN x ELSE y

\* Math.sqrt: Newton's iteration from y / 2 + 1 until it stops falling.
sqrt(y) ==
    LET next(x) == (y \div x + x) \div 2
        loop[x \in 1..y] == IF next(x) < x THEN loop[next(x)] ELSE x
    IN  IF y > 3 THEN loop[y \div 2 + 1] ELSE minOf(y, 1)

\* Mutant: rounded up.
getAmountOut_roundsUp(amountIn, reserveIn, reserveOut) ==
    LET withFee == amountIn * (FeeDen - FeeNum)
    IN  (withFee * reserveOut) \div (reserveIn * FeeDen + withFee) + 1

getAmountOut(amountIn, reserveIn, reserveOut) ==
    LET withFee == amountIn * (FeeDen - FeeNum)
    IN  (withFee * reserveOut) \div (reserveIn * FeeDen + withFee)

quote(amountA, reserveA, reserveB) == (amountA * reserveB) \div reserveA

\* ERC20 transfer, in the balances b.
CanMove(b, i, from, n) == b[i][from] >= n
Move(b, i, from, to, n) ==
    LET paid == [b EXCEPT ![i][from] = @ - n]
    IN  [paid EXCEPT ![i][to] = @ + n]
-----------------------------------------------------------------------------
(* UniswapV2Pair; b and l are the balances when the function is called *)

\* Mutant: the balances before the tokens went out.
Update_beforeTransfer(b) ==
    /\ \A i \in Tokens : bal[i][Pair] <= MaxReserve
    /\ reserve' = [i \in Tokens |-> bal[i][Pair]]

\* _update: the reserves become the balances, which must fit.
Update(b) ==
    /\ \A i \in Tokens : b[i][Pair] <= MaxReserve
    /\ reserve' = [i \in Tokens |-> b[i][Pair]]

\* Mutant: the more favourable of the two ratios.
Minted_max(amount) ==
    IF supply = 0 THEN sqrt(amount[0] * amount[1]) - MinLiquidity
    ELSE LET share(i) == (amount[i] * supply) \div reserve[i]
         IN  IF share(0) > share(1) THEN share(0) ELSE share(1)

\* The liquidity a deposit is worth.
Minted(amount) ==
    IF supply = 0 THEN sqrt(amount[0] * amount[1]) - MinLiquidity
    ELSE minOf((amount[0] * supply) \div reserve[0], (amount[1] * supply) \div reserve[1])

mint(b, to) ==
    LET liquidity == Minted([i \in Tokens |-> b[i][Pair] - reserve[i]])
        locked == IF supply = 0 THEN MinLiquidity ELSE 0
    IN  /\ liquidity > 0
        /\ lp' = [[lp EXCEPT ![Zero] = @ + locked] EXCEPT ![to] = @ + liquidity]
        /\ supply' = supply + locked + liquidity
        /\ Update(b)
        /\ bal' = b

burn(l, to) ==
    LET liquidity == l[Pair]
        amount(i) == (liquidity * bal[i][Pair]) \div supply
        b == Move(Move(bal, 0, Pair, to, amount(0)), 1, Pair, to, amount(1))
    IN  /\ supply > 0
        /\ amount(0) > 0 /\ amount(1) > 0
        /\ lp' = [l EXCEPT ![Pair] = 0]
        /\ supply' = supply - liquidity
        /\ Update(b)
        /\ bal' = b
        /\ UNCHANGED created

\* The requires of swap, with b the balances after the output has left.
SwapOK(b, out) ==
    LET amountIn(i) == LET kept == reserve[i] - out[i]
                       IN  IF b[i][Pair] > kept THEN b[i][Pair] - kept ELSE 0
        adjusted(i) == b[i][Pair] * FeeDen - amountIn(i) * FeeNum
    IN  /\ amountIn(0) > 0 \/ amountIn(1) > 0
        /\ adjusted(0) * adjusted(1) >= reserve[0] * reserve[1] * FeeDen * FeeDen

swap(b, out, to) ==
    LET after == Move(Move(b, 0, Pair, to, out[0]), 1, Pair, to, out[1])
    IN  /\ created
        /\ out[0] > 0 \/ out[1] > 0
        /\ out[0] < reserve[0] /\ out[1] < reserve[1]
        /\ SwapOK(after, out)
        /\ Update(after)
        /\ bal' = after
        /\ UNCHANGED <<created, lp, supply>>
-----------------------------------------------------------------------------
(* UniswapV2Factory and UniswapV2Router; a deadline that has passed is one   *)
(* more reason to fail; the users have approved the router and receive what  *)
(* they asked for themselves.                                                *)

createPair ==
    /\ ~created
    /\ created' = TRUE
    /\ UNCHANGED <<bal, reserve, lp, supply>>

\* _addLiquidity: what is deposited of the two tokens, if anything.
Deposits(want, least) ==
    LET optimal(i) == quote(want[Other(i)], reserve[Other(i)], reserve[i])
        short == IF optimal(1) <= want[1] THEN 1 ELSE 0
    IN  CASE reserve[0] = 0 /\ reserve[1] = 0 -> {want}
          [] OTHER -> {[want EXCEPT ![short] = n] :
                          n \in least[short]..want[short] \cap {optimal(short)}}

\* addLiquidity makes the pair when there is none.
addLiquidity(u, want, least) ==
    \E got \in Deposits(want, least) :
        /\ \A i \in Tokens : CanMove(bal, i, u, got[i])
        /\ mint(Move(Move(bal, 0, u, Pair, got[0]), 1, u, Pair, got[1]), u)
        /\ created' = TRUE

removeLiquidity(u, liquidity, least) ==
    /\ created
    /\ lp[u] >= liquidity
    /\ burn([[lp EXCEPT ![u] = @ - liquidity] EXCEPT ![Pair] = @ + liquidity], u)
    /\ \A i \in Tokens : bal'[i][u] - bal[i][u] >= least[i]

swapExactTokensForTokens(u, i, amountIn, amountOutMin) ==
    LET amountOut == getAmountOut(amountIn, reserve[i], reserve[Other(i)])
        out == [j \in Tokens |-> IF j = i THEN 0 ELSE amountOut]
    IN  /\ reserve[0] > 0 /\ reserve[1] > 0
        /\ amountOut >= amountOutMin
        /\ CanMove(bal, i, u, amountIn)
        /\ swap(Move(bal, i, u, Pair, amountIn), out, u)
-----------------------------------------------------------------------------
(* Transactions that go past the router *)

\* Tokens, or liquidity tokens, are sent to the pair.
SendToken(u, i, n) ==
    /\ created /\ CanMove(bal, i, u, n)
    /\ bal' = Move(bal, i, u, Pair, n)
    /\ UNCHANGED <<created, reserve, lp, supply>>

SendLiquidity(u, n) ==
    /\ created /\ lp[u] >= n
    /\ lp' = [[lp EXCEPT ![u] = @ - n] EXCEPT ![Pair] = @ + n]
    /\ UNCHANGED <<created, bal, reserve, supply>>

AmmNext ==
    \/ createPair
    \/ \E u \in Users :
          \/ \E want \in [Tokens -> Amounts], least \in [Tokens -> Minimums] :
                addLiquidity(u, want, least)
          \/ \E n \in Amounts, least \in [Tokens -> Minimums] : removeLiquidity(u, n, least)
          \/ \E i \in Tokens, n \in Amounts, least \in Minimums :
                swapExactTokensForTokens(u, i, n, least)
          \/ \E n \in Amounts : SendLiquidity(u, n) \/ \E i \in Tokens : SendToken(u, i, n)
    \/ \E to \in Holders :
          \/ created /\ mint(bal, to) /\ UNCHANGED created
          \/ burn(lp, to)
          \/ \E out \in [Tokens -> Amounts \cup {0}] : swap(bal, out, to)

AmmSpec == AmmInit /\ [][AmmNext]_ammVars
-----------------------------------------------------------------------------
(* Properties *)

\* The pair owns at least what its reserves say and the liquidity tokens add
\* up, so that no subtraction of mint, burn or swap underflows; the locked
\* part never leaves, so that totalSupply, which burn divides by, is never
\* zero again.
PoolIsBacked ==
    /\ \A i \in Tokens : bal[i][Pair] >= reserve[i]
    /\ supply = SumFunctionOnSet(lp, Holders \cup {Zero})
    /\ supply > 0 => lp[Zero] = MinLiquidity /\ reserve[0] > 0 /\ reserve[1] > 0

\* What the router works out from the reserves the pair accepts: no swap with
\* an output fails the K check, whoever sent tokens to the pair before.
RouterQuoteIsAccepted ==
    supply > 0 =>
        \A i \in Tokens, n \in Amounts :
            LET amountOut == getAmountOut(n, reserve[i], reserve[Other(i)])
                out == [j \in Tokens |-> IF j = i THEN 0 ELSE amountOut]
                after == [bal EXCEPT ![i][Pair] = @ + n, ![Other(i)][Pair] = @ - amountOut]
            IN  amountOut > 0 => amountOut < reserve[Other(i)] /\ SwapOK(after, out)

\* Swapping there and back never pays: the rounding is always for the pool.
RoundTripNeverPays ==
    supply > 0 =>
        \A i \in Tokens, n \in Amounts :
            LET there == getAmountOut(n, reserve[i], reserve[Other(i)])
                back == getAmountOut(there, reserve[Other(i)] - there, reserve[i] + n)
            IN  there > 0 => back <= n

\* A share of the pool never loses value (x * y over the square of the
\* shares), whatever sequence of deposits, withdrawals, swaps and stray
\* transfers others make.
ShareValueNeverFalls ==
    [][supply > 0 =>
         reserve'[0] * reserve'[1] * supply * supply
           >= reserve[0] * reserve[1] * supply' * supply']_ammVars

\* Math.sqrt is the integer square root.
SqrtIsFloor ==
    LET k == bal[0][Pair] * bal[1][Pair]
    IN  sqrt(k) * sqrt(k) <= k /\ k < (sqrt(k) + 1) * (sqrt(k) + 1)

\* The state of the pool, over every sequence of calls.
AmmInv == AmmTypeOK /\ PoolIsBacked

\* The integer arithmetic against what it stands for: the root, and the two
\* formulas for the output of a swap.
RoundingIsRight == SqrtIsFloor /\ RouterQuoteIsAccepted /\ RoundTripNeverPays
=============================================================================
