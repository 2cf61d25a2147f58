----------------------------- MODULE SumLemmas -----------------------------
(***************************************************************************)
(* Facts about SumFunctionOnSet, the SUM(...) of the models, over finite   *)
(* sets.  The community module defines it by a recursive function on the   *)
(* subsets of the index set.  The library's induction rules take an        *)
(* operator for the induction hypothesis; here it is a set, of the numbers *)
(* or of the subsets for which the hypothesis holds.  At the end, products *)
(* and quotients of naturals.                                              *)
(***************************************************************************)
EXTENDS Integers, FiniteSetTheorems, WellFoundedInduction, Functions, TLAPS

\* Induction over the naturals.
LEMMA InductionOnNat ==
    ASSUME NEW T, 0 \in T, \A n \in Nat : n \in T => n + 1 \in T
    PROVE  Nat \subseteq T
<1> DEFINE less == OpToRel(<, Nat)
           bad == Nat \ T
<1>1. \A m, n \in Nat : m < n => <<m, n>> \in less
  BY DEF OpToRel
<1>2. IsWellFoundedOn(less, Nat)
  BY NatLessThanWellFounded
<1> HIDE DEF less
<1>3. ASSUME bad # {} PROVE FALSE
  <2>1. PICK n \in bad : \A m \in bad : <<m, n>> \notin less
    BY <1>2, <1>3, WFMin
  <2>2. n \in Nat /\ n # 0
    OBVIOUS
  <2>3. n - 1 \in Nat /\ n - 1 < n
    BY <2>2
  <2>4. n - 1 \notin bad
    BY <1>1, <2>1, <2>2, <2>3
  <2>5. (n - 1) + 1 \in T
    BY <2>3, <2>4
  <2> QED BY <2>2, <2>5
<1> QED BY <1>3

\* Induction over the subsets of a finite set, one element at a time.
LEMMA InductionOnSubsets ==
    ASSUME NEW S, IsFiniteSet(S), NEW T, {} \in T,
           \A s \in SUBSET S, x \in S : s \in T /\ x \notin s => s \cup {x} \in T
    PROVE  S \in T
<1> DEFINE good == {n \in Nat : \A s \in SUBSET S : Cardinality(s) = n => s \in T}
<1>0. \A s \in SUBSET S : IsFiniteSet(s) /\ Cardinality(s) \in Nat
  BY FS_Subset, FS_CardinalityType
<1>1. 0 \in good
  BY <1>0, FS_EmptySet
<1>2. ASSUME NEW n \in Nat, n \in good PROVE n + 1 \in good
  <2> SUFFICES ASSUME NEW s \in SUBSET S, Cardinality(s) = n + 1 PROVE s \in T
    OBVIOUS
  <2>1. PICK x : x \in s
    BY <1>0, FS_EmptySet
  <2>2. Cardinality(s \ {x}) = Cardinality(s) - 1
    BY <1>0, <2>1, FS_RemoveElement
  <2>3. s \ {x} \in T
    BY <1>2, <2>2
  <2>4. (s \ {x}) \cup {x} \in T
    BY <2>1, <2>3
  <2>5. (s \ {x}) \cup {x} = s
    BY <2>1
  <2> QED BY <2>4, <2>5
<1>3. Cardinality(S) \in good
  <2> HIDE DEF good
  <2> QED BY <1>0, <1>1, <1>2, InductionOnNat
<1> QED BY <1>3
-----------------------------------------------------------------------------
(* The recursion *)

\* The element the fold takes first.
FirstOf(s) == CHOOSE x \in s : TRUE

\* it is the recursive function of MapThenFoldSet, on the sets in D.
IsSum(it, f, D) ==
    it = [s \in D |-> IF s = {} THEN 0 ELSE f[FirstOf(s)] + it[s \ {FirstOf(s)}]]

\* The recursion defines a function on all subsets of a finite set.
LEMMA SumExists ==
    ASSUME NEW S, IsFiniteSet(S), NEW f
    PROVE  \E it : IsSum(it, f, SUBSET S)
<1> DEFINE small(n) == {s \in SUBSET S : Cardinality(s) <= n}
           good == {n \in Nat : \E it : IsSum(it, f, small(n))}
<1>0. \A s \in SUBSET S : IsFiniteSet(s) /\ Cardinality(s) \in Nat
                            /\ Cardinality(s) <= Cardinality(S)
  BY FS_Subset, FS_CardinalityType
<1>1. 0 \in good
  <2>1. small(0) = {{}}
    BY <1>0, FS_EmptySet
  <2>2. IsSum([s \in {{}} |-> 0], f, small(0))
    BY <2>1 DEF IsSum
  <2> QED BY <2>2
<1>2. ASSUME NEW n \in Nat, n \in good PROVE n + 1 \in good
  <2>1. PICK it : IsSum(it, f, small(n))
    BY <1>2
  <2> DEFINE jt == [s \in small(n + 1) |->
                       IF s = {} THEN 0 ELSE f[FirstOf(s)] + it[s \ {FirstOf(s)}]]
  <2>2. small(n) \subseteq small(n + 1)
    BY <1>0
  <2>3. ASSUME NEW s \in small(n + 1), s # {}
        PROVE  s \ {FirstOf(s)} \in small(n)
    <3>1. FirstOf(s) \in s
      BY <2>3 DEF FirstOf
    <3>2. Cardinality(s \ {FirstOf(s)}) = Cardinality(s) - 1
      BY <1>0, <3>1, FS_RemoveElement
    <3> QED BY <1>0, <3>2
  <2>4. IsSum(jt, f, small(n + 1))
    <3> HIDE DEF small
    <3>1. \A s \in small(n) : jt[s] = it[s]
      BY <2>1, <2>2 DEF IsSum
    <3>2. \A s \in small(n + 1) : s # {} => jt[s \ {FirstOf(s)}] = it[s \ {FirstOf(s)}]
      BY <2>3, <3>1
    <3> QED BY <3>2 DEF IsSum
  <2> HIDE DEF small
  <2> QED BY <2>4
<1>3. Cardinality(S) \in good
  <2> HIDE DEF good
  <2> QED BY <1>0, <1>1, <1>2, InductionOnNat
<1>4. small(Cardinality(S)) = SUBSET S
  BY <1>0
<1> HIDE DEF small
<1> QED BY <1>3, <1>4

\* Two such functions agree where their summands do, whatever sets they are
\* defined on.
LEMMA SumUnique ==
    ASSUME NEW S, IsFiniteSet(S), NEW f, NEW g, NEW D, NEW E, NEW it, NEW jt,
           SUBSET S \subseteq D, SUBSET S \subseteq E,
           IsSum(it, f, D), IsSum(jt, g, E),
           \A x \in S : f[x] = g[x]
    PROVE  it[S] = jt[S]
<1> DEFINE good == {n \in Nat : \A s \in SUBSET S : Cardinality(s) = n => it[s] = jt[s]}
<1>0. \A s \in SUBSET S : IsFiniteSet(s) /\ Cardinality(s) \in Nat
  BY FS_Subset, FS_CardinalityType
<1>1. 0 \in good
  <2>1. it[{}] = 0 /\ jt[{}] = 0
    BY DEF IsSum
  <2> QED BY <1>0, <2>1, FS_EmptySet
<1>2. ASSUME NEW n \in Nat, n \in good PROVE n + 1 \in good
  <2> SUFFICES ASSUME NEW s \in SUBSET S, Cardinality(s) = n + 1 PROVE it[s] = jt[s]
    OBVIOUS
  <2>1. s # {}
    BY FS_EmptySet
  <2>2. FirstOf(s) \in s
    BY <2>1 DEF FirstOf
  <2>3. Cardinality(s \ {FirstOf(s)}) = Cardinality(s) - 1
    BY <1>0, <2>2, FS_RemoveElement
  <2>4. it[s \ {FirstOf(s)}] = jt[s \ {FirstOf(s)}]
    BY <1>2, <2>3
  <2>5. /\ it[s] = f[FirstOf(s)] + it[s \ {FirstOf(s)}]
        /\ jt[s] = g[FirstOf(s)] + jt[s \ {FirstOf(s)}]
    BY <2>1 DEF IsSum
  <2>6. f[FirstOf(s)] = g[FirstOf(s)]
    BY <2>2
  <2> QED BY <2>4, <2>5, <2>6
<1>3. Cardinality(S) \in good
  <2> HIDE DEF good
  <2> QED BY <1>0, <1>1, <1>2, InductionOnNat
<1> QED BY <1>3

\* The sum is the value of any such function.
LEMMA SumIsIt ==
    ASSUME NEW S, IsFiniteSet(S), NEW f, NEW g, NEW D, NEW it,
           SUBSET S \subseteq D, IsSum(it, g, D), \A x \in S : f[x] = g[x]
    PROVE  SumFunctionOnSet(f, S) = it[S]
<1>1. PICK jt : IsSum(jt, f, SUBSET S)
  BY SumExists
<1>2. SumFunctionOnSet(f, S) = (CHOOSE kt : IsSum(kt, f, SUBSET S))[S]
  BY DEF SumFunctionOnSet, FoldFunctionOnSet, MapThenFoldSet, IsSum, FirstOf
<1>3. PICK kt : IsSum(kt, f, SUBSET S) /\ SumFunctionOnSet(f, S) = kt[S]
  BY <1>1, <1>2
<1> QED BY <1>3, SumUnique
-----------------------------------------------------------------------------
(* Sums *)

\* The sum over no element is zero.
LEMMA SumEmpty == \A f : SumFunctionOnSet(f, {}) = 0
<1> TAKE f
<1>1. IsFiniteSet({})
  BY FS_EmptySet
<1>2. PICK it : IsSum(it, f, SUBSET {})
  BY <1>1, SumExists
<1>3. it[{}] = 0
  BY <1>2 DEF IsSum
<1> QED BY <1>1, <1>2, <1>3, SumIsIt

\* A sum depends on the summands in the index set only.
LEMMA SumEqual ==
    ASSUME NEW S, IsFiniteSet(S), NEW f, NEW g, \A x \in S : f[x] = g[x]
    PROVE  SumFunctionOnSet(f, S) = SumFunctionOnSet(g, S)
<1>1. PICK it : IsSum(it, g, SUBSET S)
  BY SumExists
<1> QED BY <1>1, SumIsIt

\* A sum over some elements is the first of them and the sum of the rest.
LEMMA SumFirst ==
    ASSUME NEW S, IsFiniteSet(S), S # {}, NEW f
    PROVE  /\ FirstOf(S) \in S
           /\ SumFunctionOnSet(f, S) = f[FirstOf(S)] + SumFunctionOnSet(f, S \ {FirstOf(S)})
<1>1. FirstOf(S) \in S
  BY DEF FirstOf
<1>2. PICK it : IsSum(it, f, SUBSET S)
  BY SumExists
<1>3. SumFunctionOnSet(f, S) = it[S]
  BY <1>2, SumIsIt
<1>4. SumFunctionOnSet(f, S \ {FirstOf(S)}) = it[S \ {FirstOf(S)}]
  <2>1. IsFiniteSet(S \ {FirstOf(S)}) /\ SUBSET (S \ {FirstOf(S)}) \subseteq SUBSET S
    BY FS_RemoveElement
  <2> QED BY <1>2, <2>1, SumIsIt
<1> QED BY <1>1, <1>2, <1>3, <1>4 DEF IsSum

\* A sum of integers is an integer.
LEMMA SumIsInt ==
    ASSUME NEW S, IsFiniteSet(S), NEW f, \A x \in S : f[x] \in Int
    PROVE  SumFunctionOnSet(f, S) \in Int
<1> DEFINE good == {n \in Nat : \A s \in SUBSET S :
                       Cardinality(s) = n => SumFunctionOnSet(f, s) \in Int}
<1>0. \A s \in SUBSET S : IsFiniteSet(s) /\ Cardinality(s) \in Nat
  BY FS_Subset, FS_CardinalityType
<1>1. 0 \in good
  BY <1>0, FS_EmptySet, SumEmpty
<1>2. ASSUME NEW n \in Nat, n \in good PROVE n + 1 \in good
  <2> SUFFICES ASSUME NEW s \in SUBSET S, Cardinality(s) = n + 1
               PROVE  SumFunctionOnSet(f, s) \in Int
    OBVIOUS
  <2>1. s # {}
    BY FS_EmptySet
  <2>2. /\ FirstOf(s) \in s
        /\ SumFunctionOnSet(f, s) = f[FirstOf(s)] + SumFunctionOnSet(f, s \ {FirstOf(s)})
    BY <1>0, <2>1, SumFirst
  <2>3. Cardinality(s \ {FirstOf(s)}) = Cardinality(s) - 1
    BY <1>0, <2>2, FS_RemoveElement
  <2>4. SumFunctionOnSet(f, s \ {FirstOf(s)}) \in Int
    BY <1>2, <2>3
  <2> QED BY <2>2, <2>4
<1>3. Cardinality(S) \in good
  <2> HIDE DEF good
  <2> QED BY <1>0, <1>1, <1>2, InductionOnNat
<1> QED BY <1>3

\* Any element may be taken out first: addition commutes.
LEMMA SumRemove ==
    ASSUME NEW S, IsFiniteSet(S), NEW f, \A x \in S : f[x] \in Int, NEW x \in S
    PROVE  SumFunctionOnSet(f, S) = f[x] + SumFunctionOnSet(f, S \ {x})
<1> DEFINE Sum(s) == SumFunctionOnSet(f, s)
           good == {n \in Nat : \A s \in SUBSET S :
                       Cardinality(s) = n => \A y \in s : Sum(s) = f[y] + Sum(s \ {y})}
<1>0. \A s \in SUBSET S : IsFiniteSet(s) /\ Cardinality(s) \in Nat /\ Sum(s) \in Int
  BY FS_Subset, FS_CardinalityType, SumIsInt
<1>1. 0 \in good
  BY <1>0, FS_EmptySet
<1>2. ASSUME NEW n \in Nat, n \in good PROVE n + 1 \in good
  <2> SUFFICES ASSUME NEW s \in SUBSET S, Cardinality(s) = n + 1, NEW y \in s
               PROVE  Sum(s) = f[y] + Sum(s \ {y})
    OBVIOUS
  <2> DEFINE c == FirstOf(s)
  <2>1. c \in s /\ Sum(s) = f[c] + Sum(s \ {c})
    BY <1>0, SumFirst
  <2> HIDE DEF c
  <2>2. CASE c = y
    BY <2>1, <2>2
  <2>3. CASE c # y
    <3>1. Cardinality(s \ {c}) = n /\ Cardinality(s \ {y}) = n
      <4>1. /\ Cardinality(s \ {c}) = Cardinality(s) - 1
            /\ Cardinality(s \ {y}) = Cardinality(s) - 1
        BY <1>0, <2>1, FS_RemoveElement
      <4> QED BY <4>1
    <3>2. /\ Sum(s \ {c}) = f[y] + Sum((s \ {c}) \ {y})
          /\ Sum(s \ {y}) = f[c] + Sum((s \ {y}) \ {c})
      <4>1. y \in s \ {c} /\ c \in s \ {y}
        BY <2>1, <2>3
      <4> HIDE DEF Sum
      <4> QED BY <1>2, <3>1, <4>1
    <3>3. (s \ {c}) \ {y} = (s \ {y}) \ {c}
      OBVIOUS
    <3>4. f[c] \in Int /\ f[y] \in Int /\ Sum((s \ {c}) \ {y}) \in Int
      BY <1>0, <2>1
    <3> DEFINE a == f[c]
               b == f[y]
               rest == Sum((s \ {c}) \ {y})
    <3>5. /\ Sum(s) = a + (b + rest) /\ Sum(s \ {y}) = a + rest
          /\ a \in Int /\ b \in Int /\ rest \in Int
      <4>1. Sum((s \ {y}) \ {c}) = rest
        BY <3>3
      <4> HIDE DEF Sum
      <4> QED BY <2>1, <3>2, <3>4, <4>1
    <3>6. f[y] = b
      OBVIOUS
    <3> HIDE DEF a, b, rest, Sum
    <3> QED BY <3>5, <3>6
  <2> QED BY <2>2, <2>3
<1>3. Cardinality(S) \in good
  <2> HIDE DEF good
  <2> QED BY <1>0, <1>1, <1>2, InductionOnNat
<1> QED BY <1>3

\* One element more.
LEMMA SumAdd ==
    ASSUME NEW S, IsFiniteSet(S), NEW x, x \notin S, NEW f,
           \A y \in S \cup {x} : f[y] \in Int
    PROVE  SumFunctionOnSet(f, S \cup {x}) = SumFunctionOnSet(f, S) + f[x]
<1>1. IsFiniteSet(S \cup {x}) /\ (S \cup {x}) \ {x} = S
  BY FS_AddElement
<1>2. SumFunctionOnSet(f, S \cup {x}) = f[x] + SumFunctionOnSet(f, (S \cup {x}) \ {x})
  BY <1>1, SumRemove
<1> DEFINE sum == SumFunctionOnSet(f, S)
           all == SumFunctionOnSet(f, S \cup {x})
           new == f[x]
<1>3. sum \in Int /\ new \in Int /\ all = new + sum
  BY <1>1, <1>2, SumIsInt
<1>4. all = sum + new
  <2> HIDE DEF sum, all, new
  <2> QED BY <1>3
<1> QED BY <1>4

\* The sum over one element.
LEMMA SumOne ==
    ASSUME NEW f, NEW x, f[x] \in Int
    PROVE  SumFunctionOnSet(f, {x}) = f[x]
<1>1. IsFiniteSet({}) /\ {} \cup {x} = {x}
  BY FS_EmptySet
<1>2. SumFunctionOnSet(f, {} \cup {x}) = SumFunctionOnSet(f, {}) + f[x]
  BY <1>1, SumAdd
<1> QED BY <1>1, <1>2, SumEmpty

\* The sum over two elements.
LEMMA SumTwo ==
    ASSUME NEW f, NEW x, NEW y, x # y, f[x] \in Int, f[y] \in Int
    PROVE  SumFunctionOnSet(f, {x, y}) = f[x] + f[y]
<1>1. IsFiniteSet({x}) /\ {x} \cup {y} = {x, y}
  BY FS_Singleton
<1>2. SumFunctionOnSet(f, {x} \cup {y}) = SumFunctionOnSet(f, {x}) + f[y]
  BY <1>1, SumAdd
<1> QED BY <1>1, <1>2, SumOne

\* A sum of naturals is a natural.
LEMMA SumIsNat ==
    ASSUME NEW S, IsFiniteSet(S), NEW f, \A x \in S : f[x] \in Nat
    PROVE  SumFunctionOnSet(f, S) \in Nat
<1> DEFINE T == {s \in SUBSET S : SumFunctionOnSet(f, s) \in Nat}
<1>1. {} \in T
  BY SumEmpty
<1>2. ASSUME NEW s \in SUBSET S, NEW x \in S, s \in T, x \notin s
      PROVE  s \cup {x} \in T
  <2>1. IsFiniteSet(s) /\ \A y \in s \cup {x} : f[y] \in Int
    BY FS_Subset
  <2>2. SumFunctionOnSet(f, s \cup {x}) = SumFunctionOnSet(f, s) + f[x]
    BY <1>2, <2>1, SumAdd
  <2>3. SumFunctionOnSet(f, s \cup {x}) \in Nat
    BY <1>2, <2>2
  <2> QED BY <2>3
<1>3. S \in T
  <2> HIDE DEF T
  <2> QED BY <1>1, <1>2, InductionOnSubsets
<1> QED BY <1>3

\* Sums add up term by term.
LEMMA SumPlus ==
    ASSUME NEW S, IsFiniteSet(S), NEW f, NEW g, NEW h,
           \A x \in S : f[x] \in Int /\ g[x] \in Int /\ h[x] = f[x] + g[x]
    PROVE  SumFunctionOnSet(h, S) = SumFunctionOnSet(f, S) + SumFunctionOnSet(g, S)
<1> DEFINE F(s) == SumFunctionOnSet(f, s)
           G(s) == SumFunctionOnSet(g, s)
           H(s) == SumFunctionOnSet(h, s)
           T == {s \in SUBSET S : H(s) = F(s) + G(s)}
<1>1. {} \in T
  BY SumEmpty
<1>2. ASSUME NEW s \in SUBSET S, NEW x \in S, s \in T, x \notin s
      PROVE  s \cup {x} \in T
  <2>1. IsFiniteSet(s) /\ \A y \in s \cup {x} : f[y] \in Int /\ g[y] \in Int /\ h[y] \in Int
    BY FS_Subset
  <2>2. /\ F(s \cup {x}) = F(s) + f[x]
        /\ G(s \cup {x}) = G(s) + g[x]
        /\ H(s \cup {x}) = H(s) + h[x]
    BY <1>2, <2>1, SumAdd
  <2>3. F(s) \in Int /\ G(s) \in Int
    BY <2>1, SumIsInt
  <2>4. H(s) = F(s) + G(s) /\ h[x] = f[x] + g[x] /\ f[x] \in Int /\ g[x] \in Int
    BY <1>2
  <2>5. H(s \cup {x}) = F(s \cup {x}) + G(s \cup {x})
    <3> DEFINE a == f[x]
               b == g[x]
               c == h[x]
    <3>1. /\ F(s \cup {x}) = F(s) + a /\ G(s \cup {x}) = G(s) + b
          /\ H(s \cup {x}) = H(s) + c /\ c = a + b /\ a \in Int /\ b \in Int
      BY <2>2, <2>4
    <3> HIDE DEF a, b, c, F, G, H
    <3> QED BY <2>3, <2>4, <3>1
  <2> HIDE DEF F, G, H
  <2> QED BY <2>5
<1>3. S \in T
  <2> HIDE DEF T
  <2> QED BY <1>1, <1>2, InductionOnSubsets
<1> QED BY <1>3

\* Summands that are 0 may be left out.
LEMMA SumZero ==
    ASSUME NEW S, IsFiniteSet(S), NEW f, \A x \in S : f[x] = 0
    PROVE  SumFunctionOnSet(f, S) = 0
<1> DEFINE sum == SumFunctionOnSet(f, S)
<1>1. sum = sum + sum
  BY SumPlus
<1>2. sum \in Int
  BY SumIsInt
<1>3. sum = 0
  <2> HIDE DEF sum
  <2> QED BY <1>1, <1>2
<1> QED BY <1>3

\* A sum over a union of disjoint sets.
LEMMA SumUnion ==
    ASSUME NEW S, NEW R, IsFiniteSet(S), IsFiniteSet(R), S \cap R = {}, NEW f,
           \A x \in S \cup R : f[x] \in Int
    PROVE  SumFunctionOnSet(f, S \cup R) = SumFunctionOnSet(f, S) + SumFunctionOnSet(f, R)
<1> DEFINE Sum(s) == SumFunctionOnSet(f, s)
           T == {s \in SUBSET R : Sum(S \cup s) = Sum(S) + Sum(s)}
<1>0. Sum(S) \in Int
  BY SumIsInt
<1>1. {} \in T
  <2>1. Sum({}) = 0 /\ S \cup {} = S
    BY SumEmpty
  <2> HIDE DEF Sum
  <2> QED BY <1>0, <2>1
<1>2. ASSUME NEW s \in SUBSET R, NEW x \in R, s \in T, x \notin s
      PROVE  s \cup {x} \in T
  <2>1. /\ IsFiniteSet(s) /\ IsFiniteSet(S \cup s) /\ x \notin S \cup s
        /\ S \cup (s \cup {x}) = (S \cup s) \cup {x}
    BY <1>2, FS_Subset, FS_Union
  <2>2. Sum(s \cup {x}) = Sum(s) + f[x]
    BY <1>2, <2>1, SumAdd
  <2>3. Sum((S \cup s) \cup {x}) = Sum(S \cup s) + f[x]
    BY <2>1, SumAdd
  <2>4. Sum(s) \in Int
    BY <2>1, SumIsInt
  <2>5. Sum(S \cup s) = Sum(S) + Sum(s)
    BY <1>2
  <2>6. Sum(S \cup (s \cup {x})) = Sum(S) + Sum(s \cup {x})
    <3> DEFINE a == f[x]
    <3>1. /\ a \in Int /\ Sum(s \cup {x}) = Sum(s) + a
          /\ Sum(S \cup (s \cup {x})) = Sum(S \cup s) + a
      BY <2>1, <2>2, <2>3
    <3> HIDE DEF a, Sum
    <3> QED BY <1>0, <2>4, <2>5, <3>1
  <2> HIDE DEF Sum
  <2> QED BY <2>6
<1>3. R \in T
  <2> HIDE DEF T
  <2> QED BY <1>1, <1>2, InductionOnSubsets
<1> QED BY <1>3

\* A sum changes by what one summand changes.
LEMMA SumChange ==
    ASSUME NEW S, IsFiniteSet(S), NEW f, NEW g, NEW x \in S,
           \A y \in S : f[y] \in Int /\ g[y] \in Int,
           \A y \in S \ {x} : g[y] = f[y]
    PROVE  SumFunctionOnSet(g, S) = SumFunctionOnSet(f, S) + (g[x] - f[x])
<1>1. /\ SumFunctionOnSet(f, S) = f[x] + SumFunctionOnSet(f, S \ {x})
      /\ SumFunctionOnSet(g, S) = g[x] + SumFunctionOnSet(g, S \ {x})
  BY SumRemove
<1>2. IsFiniteSet(S \ {x})
  BY FS_RemoveElement
<1>3. SumFunctionOnSet(g, S \ {x}) = SumFunctionOnSet(f, S \ {x})
  BY <1>2, SumEqual
<1> DEFINE a == f[x]
           b == g[x]
           rest == SumFunctionOnSet(f, S \ {x})
           old == SumFunctionOnSet(f, S)
           new == SumFunctionOnSet(g, S)
<1>4. /\ a \in Int /\ b \in Int /\ rest \in Int
      /\ old = a + rest /\ new = b + rest
  BY <1>1, <1>2, <1>3, SumIsInt
<1>5. new = old + (b - a)
  <2> HIDE DEF a, b, rest, old, new
  <2> QED BY <1>4
<1> QED BY <1>5

\* The sums over the parts of a set add up to the sum over the set: GROUP BY.
LEMMA SumByPart ==
    ASSUME NEW S, IsFiniteSet(S), NEW C, IsFiniteSet(C), NEW f, NEW part, NEW g,
           \A x \in S : f[x] \in Int,
           \A c \in C : part[c] \in SUBSET S /\ g[c] = SumFunctionOnSet(f, part[c]),
           \A x \in S : \E c \in C : x \in part[c],
           \A c, d \in C : c # d => part[c] \cap part[d] = {}
    PROVE  SumFunctionOnSet(g, C) = SumFunctionOnSet(f, S)
<1> DEFINE In(D) == {x \in S : \E c \in D : x \in part[c]}
           Sum(s) == SumFunctionOnSet(f, s)
           T == {D \in SUBSET C : SumFunctionOnSet(g, D) = Sum(In(D))}
<1>0. \A s \in SUBSET S : IsFiniteSet(s) /\ Sum(s) \in Int
  BY FS_Subset, SumIsInt
<1>1. {} \in T
  <2>1. In({}) = {}
    OBVIOUS
  <2> QED BY <2>1, SumEmpty
<1>2. ASSUME NEW D \in SUBSET C, NEW c \in C, D \in T, c \notin D
      PROVE  D \cup {c} \in T
  <2>1. IsFiniteSet(D) /\ c \notin D /\ \A d \in D \cup {c} : g[d] \in Int
    <3> HIDE DEF Sum
    <3> QED BY <1>0, <1>2, FS_Subset DEF Sum
  <2>2. SumFunctionOnSet(g, D \cup {c}) = SumFunctionOnSet(g, D) + g[c]
    BY <2>1, SumAdd
  <2>3. Sum(In(D) \cup part[c]) = Sum(In(D)) + Sum(part[c])
    <3>1. In(D) \in SUBSET S /\ part[c] \in SUBSET S /\ In(D) \cap part[c] = {}
      BY <1>2
    <3> HIDE DEF In
    <3>2. /\ IsFiniteSet(In(D)) /\ IsFiniteSet(part[c])
          /\ \A x \in In(D) \cup part[c] : f[x] \in Int
      BY <1>0, <3>1
    <3> QED BY <3>1, <3>2, SumUnion
  <2>4. In(D \cup {c}) = In(D) \cup part[c]
    OBVIOUS
  <2>5. SumFunctionOnSet(g, D) = Sum(In(D)) /\ g[c] = Sum(part[c])
    BY <1>2
  <2> HIDE DEF In, Sum
  <2> QED BY <2>2, <2>3, <2>4, <2>5
<1>3. C \in T
  <2> HIDE DEF T
  <2> QED BY <1>1, <1>2, InductionOnSubsets
<1>4. In(C) = S
  OBVIOUS
<1> QED BY <1>3, <1>4
\* The sum over an index set of what an injection points to is the sum over
\* its image.
LEMMA SumReindex ==
    ASSUME NEW S, IsFiniteSet(S), NEW f, NEW g, NEW h,
           \A i \in S : f[i] = g[h[i]] /\ f[i] \in Int,
           \A i, j \in S : h[i] = h[j] => i = j
    PROVE  SumFunctionOnSet(f, S) = SumFunctionOnSet(g, {h[i] : i \in S})
<1> DEFINE Image(s) == {h[i] : i \in s}
           F(s) == SumFunctionOnSet(f, s)
           G(s) == SumFunctionOnSet(g, s)
           T == {s \in SUBSET S : IsFiniteSet(Image(s)) /\ F(s) = G(Image(s))}
<1>1. {} \in T
  <2>1. Image({}) = {}
    OBVIOUS
  <2> QED BY <2>1, SumEmpty, FS_EmptySet
<1>2. ASSUME NEW s \in SUBSET S, NEW x \in S, s \in T, x \notin s
      PROVE  s \cup {x} \in T
  <2>1. IsFiniteSet(s) /\ x \notin s /\ \A y \in s \cup {x} : f[y] \in Int
    BY <1>2, FS_Subset
  <2>2. F(s \cup {x}) = F(s) + f[x]
    BY <2>1, SumAdd
  <2>3. Image(s \cup {x}) = Image(s) \cup {h[x]} /\ h[x] \notin Image(s)
    BY <1>2
  <2>4. IsFiniteSet(Image(s)) /\ F(s) = G(Image(s))
    BY <1>2
  <2>5. G(Image(s) \cup {h[x]}) = G(Image(s)) + g[h[x]]
    <3> DEFINE image == Image(s)
               y == h[x]
    <3>1. IsFiniteSet(image) /\ y \notin image /\ \A z \in image \cup {y} : g[z] \in Int
      BY <2>3, <2>4
    <3> HIDE DEF image, y
    <3>2. SumFunctionOnSet(g, image \cup {y}) = SumFunctionOnSet(g, image) + g[y]
      BY <3>1, SumAdd
    <3> QED BY <3>2 DEF image, y
  <2> HIDE DEF Image
  <2>6. IsFiniteSet(Image(s) \cup {h[x]})
    BY <2>4, FS_AddElement
  <2>7. F(s \cup {x}) = G(Image(s \cup {x}))
    <3>1. f[x] = g[h[x]]
      OBVIOUS
    <3> HIDE DEF F, G
    <3> QED BY <2>2, <2>3, <2>4, <2>5, <3>1
  <2> QED BY <2>3, <2>6, <2>7
<1>3. S \in T
  <2> HIDE DEF T
  <2> QED BY <1>1, <1>2, InductionOnSubsets
<1> QED BY <1>3
-----------------------------------------------------------------------------
(* Products and quotients of naturals *)

\* Products are naturals, in any order.
LEMMA MulNat ==
    ASSUME NEW a \in Nat, NEW b \in Nat
    PROVE  a * b \in Nat /\ a * b = b * a
OBVIOUS

\* Larger factors, larger products.
LEMMA MulMono ==
    ASSUME NEW a \in Nat, NEW b \in Nat, NEW c \in Nat, NEW d \in Nat, a <= c, b <= d
    PROVE  a * b <= c * d
OBVIOUS

\* Positive factors, a positive product.
LEMMA MulPositive ==
    ASSUME NEW a \in Nat, NEW b \in Nat, a > 0, b > 0
    PROVE  a * b > 0
OBVIOUS

\* A common factor may be dropped.
LEMMA MulCancel ==
    ASSUME NEW a \in Nat, NEW b \in Nat, NEW c \in Nat, c > 0, a * c <= b * c
    PROVE  a <= b
OBVIOUS

\* A common factor may be dropped from a strict inequality.
LEMMA MulCancelStrict ==
    ASSUME NEW a \in Nat, NEW b \in Nat, NEW c \in Nat, a * c < b * c
    PROVE  a < b
OBVIOUS

\* Division rounds down.
LEMMA DivBounds ==
    ASSUME NEW a \in Nat, NEW b \in Nat, b > 0
    PROVE  a \div b \in Nat /\ (a \div b) * b <= a /\ a < (a \div b) * b + b
OBVIOUS

\* A product of four in two orders.
LEMMA MulFour ==
    ASSUME NEW a \in Nat, NEW b \in Nat, NEW c \in Nat, NEW d \in Nat
    PROVE  (a * c) * (b * d) = a * b * c * d
OBVIOUS
=============================================================================
