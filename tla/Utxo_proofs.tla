---------------------------- MODULE Utxo_proofs ----------------------------
(***************************************************************************)
(* What the operations on an account table leave of its balances, for      *)
(* every set of accounts, every transaction and every word.                *)
(*                                                                         *)
(* What a transaction takes and gives is a sum over a set of entries, a    *)
(* fold of the community modules.  A fold is the function CHOOSE finds for *)
(* a recursive equation: that there is one, and that it is the only one,   *)
(* is shown here by induction on sets, in the form of a least number or of *)
(* a minimal finite set for which a claim fails (WFMin).  The same is      *)
(* shown for functions that are recursive over a measure, for the other    *)
(* components.                                                             *)
(***************************************************************************)
EXTENDS Utxo, FiniteSetTheorems, WellFoundedInduction, TLAPS

----------------------------------------------------------------------------
(* Induction over numbers and finite sets.                                 *)

LEMMA LessThan == OpToRel(<, Nat) = {p \in Nat \X Nat : p[1] < p[2]}
BY DEF OpToRel

\* A set of numbers has a least one.
LEMMA LeastNumber ==
  ASSUME NEW T \in SUBSET Nat, T # {}
  PROVE  \E n \in T : \A m \in T : n <= m
<1> DEFINE R == {p \in Nat \X Nat : p[1] < p[2]}
<1>1. IsWellFoundedOn(R, Nat)
  BY LessThan, NatLessThanWellFounded
<1>2. \E n \in T : \A m \in T : ~(<<m, n>> \in R)
  <2> HIDE DEF R
  <2> QED BY <1>1, WFMin
<1>3. PICK n \in T : \A m \in T : ~(<<m, n>> \in R)
  BY <1>2
<1>4. \A m \in T : ~(m < n)
  BY <1>3
<1> QED
  BY <1>4

\* Induction for a set of numbers in the place of a predicate.
LEMMA NumbersByInduction ==
  ASSUME NEW T \in SUBSET Nat, 0 \in T, \A n \in T : n + 1 \in T
  PROVE  T = Nat
<1> SUFFICES ASSUME T # Nat PROVE FALSE
  OBVIOUS
<1>1. PICK n \in Nat \ T : \A m \in Nat \ T : n <= m
  BY LeastNumber
<1>2. n - 1 \in T
  BY <1>1
<1> QED
  BY <1>2

\* A set of subsets of a finite set has a minimal one.
LEMMA MinimalSubset ==
  ASSUME NEW S, IsFiniteSet(S), NEW C \in SUBSET SUBSET S, C # {}
  PROVE  \E T \in C : \A U \in C : U \subseteq T => U = T
<1>1. IsWellFoundedOn(StrictSubsetOrdering(S), SUBSET S)
  BY FS_StrictSubsetOrderingWellFounded, FS_FiniteSubsetsOfFinite
<1>2. \E T \in C : \A U \in C : ~(<<U, T>> \in StrictSubsetOrdering(S))
  BY <1>1, WFMin
<1> QED
  BY <1>2 DEF StrictSubsetOrdering

\* Induction over the subsets of a finite set: C holds of a set when it
\* holds of all its parts.
LEMMA SubsetsByInduction ==
  ASSUME NEW S, IsFiniteSet(S), NEW C \in SUBSET SUBSET S,
         \A T \in SUBSET S : (\A x \in T : T \ {x} \in C) => T \in C
  PROVE  C = SUBSET S
<1> SUFFICES ASSUME C # SUBSET S PROVE FALSE
  OBVIOUS
<1> DEFINE D == (SUBSET S) \ C
<1>1. D \in SUBSET SUBSET S /\ D # {}
  OBVIOUS
<1>2. PICK T \in D : \A U \in D : U \subseteq T => U = T
  <2> HIDE DEF D
  <2> QED BY <1>1, MinimalSubset
<1>3. \A x \in T : T \ {x} \in C
  BY <1>2
<1> QED
  BY <1>2, <1>3

----------------------------------------------------------------------------
(* Recursive functions: a definition f[x \in X] == G(x, f) is obeyed if G    *)
(* looks only at arguments of a smaller measure mu, which takes the measure *)
(* as a function because an operator could not be instantiated.             *)

\* f obeys G at the arguments smaller than n.
ObeysBelow(f, G, X, mu, n) == \A x \in X : mu[x] < n => f[x] = G[<<x, f>>]

AgreeBelow(f, g, X, mu, n) == \A x \in X : mu[x] < n => f[x] = g[x]

Obeys(f, G, X) == \A x \in X : f[x] = G[<<x, f>>]

\* G looks only at smaller arguments than its own.
LooksBelow(G, X, Y, mu) ==
  \A x \in X : \A f, g \in [X -> Y] :
    (\A y \in X : mu[y] < mu[x] => f[y] = g[y]) => G[<<x, f>>] = G[<<x, g>>]

LEMMA RecursionBelow ==
  ASSUME NEW X, NEW Y, Y # {}, NEW mu \in [X -> Nat],
         NEW G \in [X \X [X -> Y] -> Y], LooksBelow(G, X, Y, mu)
  PROVE  \A n \in Nat : \E f \in [X -> Y] : ObeysBelow(f, G, X, mu, n)
<1> DEFINE T == {k \in Nat : \E f \in [X -> Y] : ObeysBelow(f, G, X, mu, k)}
<1>1. 0 \in T
  <2>1. PICK y \in Y : TRUE
    OBVIOUS
  <2>2. [x \in X |-> y] \in [X -> Y]
    BY <2>1
  <2>3. ObeysBelow([x \in X |-> y], G, X, mu, 0)
    BY DEF ObeysBelow
  <2> QED BY <2>2, <2>3
<1>2. ASSUME NEW k \in T PROVE k + 1 \in T
  <2>1. PICK f \in [X -> Y] : ObeysBelow(f, G, X, mu, k)
    OBVIOUS
  <2> DEFINE g == [x \in X |-> G[<<x, f>>]]
  <2>2. g \in [X -> Y]
    OBVIOUS
  <2>3. \A y \in X : mu[y] < k => f[y] = g[y]
    BY <2>1 DEF ObeysBelow
  <2>4. ASSUME NEW x \in X, mu[x] < k + 1 PROVE g[x] = G[<<x, g>>]
    <3>1. \A y \in X : mu[y] < mu[x] => f[y] = g[y]
      BY <2>3, <2>4
    <3>2. G[<<x, f>>] = G[<<x, g>>]
      <4> HIDE DEF g
      <4> QED BY <2>2, <3>1 DEF LooksBelow
    <3> QED BY <3>2
  <2>5. ObeysBelow(g, G, X, mu, k + 1)
    BY <2>4 DEF ObeysBelow
  <2>6. \E h \in [X -> Y] : ObeysBelow(h, G, X, mu, k + 1)
    <3> HIDE DEF g
    <3> QED BY <2>2, <2>5
  <2>7. k + 1 \in Nat
    OBVIOUS
  <2> QED BY <2>6, <2>7, Zenon
<1>3. T = Nat
  <2> HIDE DEF T
  <2>1. T \in SUBSET Nat
    BY DEF T
  <2> QED BY <1>1, <1>2, <2>1, NumbersByInduction
<1> QED BY <1>3

\* Two that obey G below n agree there.
LEMMA SameBelow ==
  ASSUME NEW X, NEW Y, NEW mu \in [X -> Nat],
         NEW G \in [X \X [X -> Y] -> Y], LooksBelow(G, X, Y, mu),
         NEW f \in [X -> Y], NEW g \in [X -> Y], NEW n \in Nat,
         ObeysBelow(f, G, X, mu, n), ObeysBelow(g, G, X, mu, n)
  PROVE  AgreeBelow(f, g, X, mu, n)
<1> DEFINE T == {k \in Nat : k <= n => \A x \in X : mu[x] < k => f[x] = g[x]}
<1>1. 0 \in T
  OBVIOUS
<1>2. ASSUME NEW k \in T PROVE k + 1 \in T
  <2>1. ASSUME k + 1 <= n, NEW x \in X, mu[x] < k + 1 PROVE f[x] = g[x]
    <3>1. \A y \in X : mu[y] < mu[x] => f[y] = g[y]
      BY <2>1
    <3>2. G[<<x, f>>] = G[<<x, g>>]
      BY <3>1 DEF LooksBelow
    <3>3. mu[x] < n
      BY <2>1
    <3>4. f[x] = G[<<x, f>>] /\ g[x] = G[<<x, g>>]
      BY <3>3 DEF ObeysBelow
    <3> QED BY <3>2, <3>4
  <2> QED BY <2>1
<1>3. T = Nat
  <2> HIDE DEF T
  <2>1. T \in SUBSET Nat
    BY DEF T
  <2> QED BY <1>1, <1>2, <2>1, NumbersByInduction
<1> QED BY <1>3 DEF AgreeBelow

\* A function may be defined by what G makes of its values at smaller
\* arguments.
LEMMA Recursion ==
  ASSUME NEW X, NEW Y, Y # {}, NEW mu \in [X -> Nat],
         NEW G \in [X \X [X -> Y] -> Y], LooksBelow(G, X, Y, mu)
  PROVE  \E f \in [X -> Y] : Obeys(f, G, X)
<1> DEFINE F(n) == CHOOSE f \in [X -> Y] : ObeysBelow(f, G, X, mu, n)
           f == [x \in X |-> F(mu[x] + 1)[x]]
<1>1. \A n \in Nat : F(n) \in [X -> Y] /\ ObeysBelow(F(n), G, X, mu, n)
  BY RecursionBelow
<1> HIDE DEF F
<1>2. f \in [X -> Y]
  BY <1>1
<1>3. ASSUME NEW x \in X PROVE f[x] = G[<<x, f>>]
  <2> DEFINE g == F(mu[x] + 1)
  <2>0. mu[x] + 1 \in Nat /\ mu[x] < mu[x] + 1
    OBVIOUS
  <2>1. g \in [X -> Y] /\ ObeysBelow(g, G, X, mu, mu[x] + 1)
    BY <1>1, <2>0
  <2>2. g[x] = G[<<x, g>>]
    <3> HIDE DEF g
    <3> QED BY <2>0, <2>1 DEF ObeysBelow
  <2>3. ASSUME NEW y \in X, mu[y] < mu[x] PROVE f[y] = g[y]
    <3> DEFINE h == F(mu[y] + 1)
    <3>1. mu[y] + 1 \in Nat /\ mu[y] < mu[y] + 1
      OBVIOUS
    <3>2. h \in [X -> Y] /\ ObeysBelow(h, G, X, mu, mu[y] + 1)
      BY <1>1, <3>1
    <3> HIDE DEF g
    <3>3. ASSUME NEW z \in X, mu[z] < mu[y] + 1 PROVE g[z] = G[<<z, g>>]
      <4>1. mu[z] < mu[x] + 1
        BY <2>3, <3>3
      <4> QED BY <2>1, <4>1 DEF ObeysBelow
    <3>4. ObeysBelow(g, G, X, mu, mu[y] + 1)
      BY <3>3 DEF ObeysBelow
    <3>5. h[y] = g[y]
      <4> DEFINE n == mu[y] + 1
      <4> HIDE DEF h
      <4>1. /\ n \in Nat /\ g \in [X -> Y] /\ h \in [X -> Y]
            /\ ObeysBelow(h, G, X, mu, n) /\ ObeysBelow(g, G, X, mu, n)
        BY <2>1, <3>1, <3>2, <3>4
      <4> HIDE DEF n
      <4>2. AgreeBelow(h, g, X, mu, n)
        BY <4>1, SameBelow, Zenon
      <4> QED BY <3>1, <4>2 DEF n, AgreeBelow
    <3> QED BY <3>5
  <2>4. G[<<x, f>>] = G[<<x, g>>]
    <3> HIDE DEF f, g
    <3> QED BY <1>2, <2>1, <2>3 DEF LooksBelow
  <2> QED BY <2>2, <2>4
<1>4. \A x \in X : f[x] = G[<<x, f>>]
  BY <1>3
<1> QED
  <2> HIDE DEF f
  <2> QED BY <1>2, <1>4 DEF Obeys

----------------------------------------------------------------------------
(* Numbers modulo a word.                                                  *)

LEMMA Multiple ==
  ASSUME NEW w \in Nat, NEW d \in Nat, d >= 1
  PROVE  w * d >= w
OBVIOUS

LEMMA MultipleOfDifference ==
  ASSUME NEW w \in Nat, NEW a \in Int, NEW b \in Int
  PROVE  w * (a - b) = w * a - w * b
OBVIOUS

\* A remainder is determined.
LEMMA OneRemainder ==
  ASSUME NEW w \in Nat \ {0},
         NEW p \in Int, NEW q \in Int, NEW r \in Int, NEW s \in Int,
         0 <= r, r < w, 0 <= s, s < w, w * p + r = w * q + s
  PROVE  r = s
<1>1. ~(p - q >= 1)
  <2> SUFFICES ASSUME p - q >= 1 PROVE FALSE
    OBVIOUS
  <2> DEFINE d == p - q
  <2>1. d \in Nat /\ d >= 1 /\ w * d = s - r
    BY MultipleOfDifference
  <2> HIDE DEF d
  <2>2. w * d >= w
    BY <2>1, Multiple
  <2> QED
    BY <2>1, <2>2
<1>2. ~(q - p >= 1)
  <2> SUFFICES ASSUME q - p >= 1 PROVE FALSE
    OBVIOUS
  <2> DEFINE d == q - p
  <2>1. d \in Nat /\ d >= 1 /\ w * d = r - s
    BY MultipleOfDifference
  <2> HIDE DEF d
  <2>2. w * d >= w
    BY <2>1, Multiple
  <2> QED
    BY <2>1, <2>2
<1>3. p = q
  BY <1>1, <1>2
<1> QED
  BY <1>3

LEMMA Remainder ==
  ASSUME NEW w \in Nat \ {0}, NEW z \in Int
  PROVE  /\ z \div w \in Int /\ z % w \in 0..(w - 1)
         /\ z = w * (z \div w) + (z % w)
OBVIOUS

\* Once around the word changes nothing.
LEMMA Around ==
  ASSUME NEW w \in Nat \ {0}, NEW z \in Int
  PROVE  (z + w) % w = z % w
<1> DEFINE p == (z \div w) + 1
           q == (z + w) \div w
           r == z % w
           s == (z + w) % w
<1>1. z = w * (z \div w) + r /\ z + w = w * q + s
  BY Remainder
<1>2. w * p = w * (z \div w) + w /\ z \div w \in Int
  OBVIOUS
<1>3. /\ p \in Int /\ q \in Int /\ r \in Int /\ s \in Int
      /\ 0 <= r /\ r < w /\ 0 <= s /\ s < w
  OBVIOUS
<1>4. w * p + r = w * q + s
  <2> HIDE DEF p, q, r, s
  <2> QED BY <1>1, <1>2, <1>3
<1>5. r = s
  <2> HIDE DEF p, q, r, s
  <2> QED BY <1>3, <1>4, OneRemainder
<1> QED
  BY <1>5 DEF r, s

\* The same added to equal remainders.
LEMMA SameRemainder ==
  ASSUME NEW w \in Nat \ {0}, NEW x \in Int, NEW y \in Int, NEW i \in Int,
         x % w = y % w
  PROVE  (x + i) % w = (y + i) % w
<1> DEFINE p == x \div w
           q == y \div w
           r == x % w
           c == (x + i) \div w
           s == (x + i) % w
           d == (y + i) \div w
           e == (y + i) % w
<1>1. x = w * p + r /\ y = w * q + r /\ x + i = w * c + s /\ y + i = w * d + e
  BY Remainder
<1>2. /\ p \in Int /\ q \in Int /\ r \in Int /\ c \in Int /\ d \in Int
      /\ s \in Int /\ 0 <= s /\ s < w /\ e \in Int /\ 0 <= e /\ e < w
  OBVIOUS
<1> HIDE DEF p, q, r, c, s, d, e
<1>3. w * (c - p) = w * c - w * p /\ w * (d - q) = w * d - w * q
  BY <1>2, MultipleOfDifference
<1>4. w * (c - p) + s = w * (d - q) + e
  BY <1>1, <1>2, <1>3
<1>5. s = e
  <2>1. c - p \in Int /\ d - q \in Int
    BY <1>2
  <2> QED BY <1>2, <1>4, <2>1, OneRemainder
<1> QED
  BY <1>5 DEF s, e

----------------------------------------------------------------------------
(* The sum of the values of entries.                                       *)

OneOf(ts) == CHOOSE t \in ts : TRUE

\* The equation of the sums of the subsets of ts.
SumsOf(f, ts) ==
  f = [us \in SUBSET ts |->
         IF us = {} THEN 0 ELSE OneOf(us).v + f[us \ {OneOf(us)}]]

Priced(ts) == IsFiniteSet(ts) /\ \A t \in ts : t.v \in Nat

LEMMA SumIsChosen ==
  ASSUME NEW ts
  PROVE  Sum(ts) = (CHOOSE f : SumsOf(f, ts))[ts]
BY DEF Sum, MapThenSumSet, MapThenFoldSet, SumsOf, OneOf

LEMMA OneOfThem ==
  ASSUME NEW ts, ts # {}
  PROVE  OneOf(ts) \in ts
BY DEF OneOf

\* f obeys it for the sets of up to n entries.
SumsUpTo(f, ts, n) ==
  \A us \in SUBSET ts : Cardinality(us) <= n =>
    f[us] = IF us = {} THEN 0 ELSE OneOf(us).v + f[us \ {OneOf(us)}]

\* Sums up to n entries give sums up to n + 1.
LEMMA SumsUpToAny ==
  ASSUME NEW S, Priced(S), NEW n \in Nat
  PROVE  \E f \in [SUBSET S -> Nat] : SumsUpTo(f, S, n)
<1> DEFINE Adds(f, us) ==
             f[us] = IF us = {} THEN 0 ELSE OneOf(us).v + f[us \ {OneOf(us)}]
           T == {k \in Nat : \E f \in [SUBSET S -> Nat] : SumsUpTo(f, S, k)}
<1>1. 0 \in T
  <2> DEFINE f == [us \in SUBSET S |-> 0]
  <2>1. f \in [SUBSET S -> Nat]
    OBVIOUS
  <2>2. ASSUME NEW us \in SUBSET S, Cardinality(us) <= 0 PROVE us = {}
    BY <2>2, FS_Subset, FS_EmptySet, FS_CardinalityType DEF Priced
  <2>3. \A us \in SUBSET S : Cardinality(us) <= 0 => Adds(f, us)
    BY <2>2
  <2> QED
    BY <2>1, <2>3 DEF SumsUpTo
<1>2. ASSUME NEW k \in T PROVE k + 1 \in T
  <2>1. PICK f \in [SUBSET S -> Nat] : \A us \in SUBSET S :
                Cardinality(us) <= k => Adds(f, us)
    BY DEF SumsUpTo
  <2> DEFINE g == [us \in SUBSET S |->
                     IF us = {} THEN 0 ELSE OneOf(us).v + f[us \ {OneOf(us)}]]
  <2>2. ASSUME NEW us \in SUBSET S, us # {}
        PROVE  OneOf(us).v \in Nat /\ us \ {OneOf(us)} \in SUBSET S
    BY <2>2, OneOfThem DEF Priced
  <2>3. g \in [SUBSET S -> Nat]
    BY <2>2
  <2>4. ASSUME NEW us \in SUBSET S, Cardinality(us) <= k PROVE g[us] = f[us]
    BY <2>1, <2>4
  <2>5. ASSUME NEW us \in SUBSET S, us # {}, Cardinality(us) <= k + 1
        PROVE  Cardinality(us \ {OneOf(us)}) <= k
    <3>1. IsFiniteSet(us) /\ OneOf(us) \in us
      BY <2>5, OneOfThem, FS_Subset DEF Priced
    <3>2. Cardinality(us) \in Nat /\ Cardinality(us \ {OneOf(us)}) = Cardinality(us) - 1
      BY <3>1, FS_RemoveElement, FS_CardinalityType
    <3> QED
      BY <2>5, <3>2
  <2>6. ASSUME NEW us \in SUBSET S, Cardinality(us) <= k + 1 PROVE Adds(g, us)
    <3>1. CASE us = {}
      BY <3>1
    <3>2. CASE us # {}
      <4>1. g[us \ {OneOf(us)}] = f[us \ {OneOf(us)}]
        BY <2>2, <2>4, <2>5, <2>6, <3>2
      <4> QED
        BY <3>2, <4>1
    <3> QED
      BY <3>1, <3>2
  <2>7. SumsUpTo(g, S, k + 1)
    <3>1. \A us \in SUBSET S : Cardinality(us) <= k + 1 => Adds(g, us)
      BY <2>6
    <3> HIDE DEF g
    <3> QED
      BY <3>1 DEF SumsUpTo
  <2>8. \E h \in [SUBSET S -> Nat] : SumsUpTo(h, S, k + 1)
    <3> HIDE DEF g
    <3> QED
      BY <2>3, <2>7
  <2>9. k + 1 \in Nat
    OBVIOUS
  <2> QED
    BY <2>8, <2>9, Zenon
<1>3. T = Nat
  <2> HIDE DEF T
  <2>1. T \in SUBSET Nat
    BY DEF T
  <2> QED BY <1>1, <1>2, <2>1, NumbersByInduction
<1> QED
  BY <1>3

\* There are sums, and only one function of them.
LEMMA SumsExist ==
  ASSUME NEW S, Priced(S)
  PROVE  \E f \in [SUBSET S -> Nat] : SumsOf(f, S)
<1> DEFINE n == Cardinality(S)
<1>1. n \in Nat /\ \A us \in SUBSET S : Cardinality(us) <= n
  BY FS_Subset, FS_CardinalityType DEF Priced
<1> HIDE DEF n
<1>2. PICK f \in [SUBSET S -> Nat] : SumsUpTo(f, S, n)
  BY <1>1, SumsUpToAny
<1>3. \A us \in SUBSET S :
        f[us] = IF us = {} THEN 0 ELSE OneOf(us).v + f[us \ {OneOf(us)}]
  BY <1>1, <1>2 DEF SumsUpTo
<1>4. SumsOf(f, S)
  BY <1>3 DEF SumsOf
<1> QED
  BY <1>4

LEMMA SumsUnique ==
  ASSUME NEW S, IsFiniteSet(S), NEW T, S \subseteq T,
         NEW f, SumsOf(f, S), NEW g, SumsOf(g, T)
  PROVE  \A us \in SUBSET S : f[us] = g[us]
<1> DEFINE C == {us \in SUBSET S : f[us] = g[us]}
<1>1. ASSUME NEW us \in SUBSET S, \A t \in us : us \ {t} \in C PROVE us \in C
  <2>1. f[us] = IF us = {} THEN 0 ELSE OneOf(us).v + f[us \ {OneOf(us)}]
    BY DEF SumsOf
  <2>2. g[us] = IF us = {} THEN 0 ELSE OneOf(us).v + g[us \ {OneOf(us)}]
    <3>1. us \in SUBSET T
      OBVIOUS
    <3> QED BY <3>1 DEF SumsOf
  <2>3. us # {} => f[us \ {OneOf(us)}] = g[us \ {OneOf(us)}]
    BY <1>1, OneOfThem
  <2> QED
    BY <2>1, <2>2, <2>3
<1>2. C = SUBSET S
  <2> HIDE DEF C
  <2>1. C \in SUBSET SUBSET S
    BY DEF C
  <2> QED BY <1>1, <2>1, SubsetsByInduction
<1> QED
  BY <1>2

\* Sum is that function.
LEMMA SumOfSubset ==
  ASSUME NEW S, Priced(S), NEW f \in [SUBSET S -> Nat], SumsOf(f, S),
         NEW us \in SUBSET S
  PROVE  Sum(us) = f[us]
<1>1. Priced(us)
  BY FS_Subset DEF Priced
<1>2. \E g : SumsOf(g, us)
  BY <1>1, SumsExist
<1> DEFINE g == CHOOSE h : SumsOf(h, us)
<1>3. SumsOf(g, us)
  BY <1>2
<1>4. Sum(us) = g[us]
  BY SumIsChosen
<1>5. g[us] = f[us]
  <2> HIDE DEF g
  <2>1. IsFiniteSet(us) /\ us \subseteq S
    BY <1>1 DEF Priced
  <2>2. \A vs \in SUBSET us : g[vs] = f[vs]
    BY ONLY SumsOf(f, S), <1>3, <2>1, SumsUnique
  <2> QED
    BY <2>2
<1> QED
  BY <1>4, <1>5

LEMMA SumType ==
  ASSUME NEW S, Priced(S)
  PROVE  Sum(S) \in Nat
<1>1. PICK f \in [SUBSET S -> Nat] : SumsOf(f, S)
  BY SumsExist
<1>2. Sum(S) = f[S] /\ f[S] \in Nat
  BY <1>1, SumOfSubset
<1> QED
  BY <1>2

LEMMA SumOfNone == Sum({}) = 0
<1>1. Priced({})
  BY FS_EmptySet DEF Priced
<1>2. PICK f \in [SUBSET {} -> Nat] : SumsOf(f, {})
  BY <1>1, SumsExist
<1>3. Sum({}) = f[{}]
  BY <1>1, <1>2, SumOfSubset
<1> QED
  BY <1>2, <1>3 DEF SumsOf

\* A sum without one of its entries: whichever OneOf takes first.
LEMMA SumWithout ==
  ASSUME NEW S, Priced(S), NEW t \in S
  PROVE  Sum(S) = t.v + Sum(S \ {t})
<1>1. PICK f \in [SUBSET S -> Nat] : SumsOf(f, S)
  BY SumsExist
<1> DEFINE Takes(us, x) == f[us] = x.v + f[us \ {x}]
           C == {us \in SUBSET S : \A x \in us : Takes(us, x)}
<1>2. ASSUME NEW us \in SUBSET S, \A x \in us : us \ {x} \in C PROVE us \in C
  <2> SUFFICES ASSUME NEW x \in us PROVE Takes(us, x)
    OBVIOUS
  <2> DEFINE y == OneOf(us)
  <2>1. y \in us /\ f[us] = y.v + f[us \ {y}]
    BY <1>1, OneOfThem DEF SumsOf
  <2> HIDE DEF y
  <2>2. CASE x = y
    BY <2>1, <2>2
  <2>3. CASE x # y
    <3> DEFINE rest == (us \ {x}) \ {y}
    <3>1. f[us \ {y}] = x.v + f[rest] /\ f[us \ {x}] = y.v + f[rest]
      <4>1. Takes(us \ {y}, x) /\ Takes(us \ {x}, y)
        BY <1>2, <2>1, <2>3
      <4>2. (us \ {y}) \ {x} = rest
        OBVIOUS
      <4> QED
        BY <4>1, <4>2
    <3>2. f[us] = y.v + f[us \ {y}]
      BY <2>1
    <3>3. x.v \in Nat /\ y.v \in Nat /\ f[rest] \in Nat
      BY <2>1 DEF Priced
    <3> HIDE DEF rest
    <3> QED
      BY <3>1, <3>2, <3>3
  <2> QED
    BY <2>2, <2>3
<1>3. C = SUBSET S
  <2>1. C \in SUBSET SUBSET S
    OBVIOUS
  <2>2. IsFiniteSet(S)
    BY DEF Priced
  <2> HIDE DEF C
  <2> QED BY <1>2, <2>1, <2>2, SubsetsByInduction
<1>4. Takes(S, t)
  BY <1>3
<1>5. Sum(S) = f[S] /\ Sum(S \ {t}) = f[S \ {t}]
  BY <1>1, SumOfSubset
<1> QED
  BY <1>4, <1>5

LEMMA SumWith ==
  ASSUME NEW S, Priced(S), NEW t, t \notin S, t.v \in Nat
  PROVE  Sum(S \cup {t}) = Sum(S) + t.v /\ Sum(S) \in Nat
<1>1. Priced(S \cup {t})
  BY FS_AddElement DEF Priced
<1>2. (S \cup {t}) \ {t} = S
  OBVIOUS
<1>3. Sum(S) \in Nat
  BY SumType
<1> QED
  BY <1>1, <1>2, <1>3, SumWithout

\* The sum of entries of two kinds.
LEMMA SumOfUnion ==
  ASSUME NEW S, Priced(S), NEW T, Priced(T), S \cap T = {}
  PROVE  Sum(S \cup T) = Sum(S) + Sum(T)
<1> DEFINE C == {us \in SUBSET T : Sum(S \cup us) = Sum(S) + Sum(us)}
<1>1. ASSUME NEW us \in SUBSET T, \A x \in us : us \ {x} \in C PROVE us \in C
  <2>1. Sum(S) \in Nat
    BY SumType
  <2>2. CASE us = {}
    BY <2>1, <2>2, SumOfNone
  <2>3. CASE us # {}
    <3>1. PICK x \in us : TRUE
      BY <2>3
    <3> DEFINE vs == us \ {x}
    <3>2. Sum(S \cup vs) = Sum(S) + Sum(vs)
      BY <1>1
    <3>3. /\ Priced(vs) /\ Priced(S \cup vs) /\ x.v \in Nat
          /\ x \notin vs /\ x \notin S \cup vs
      BY FS_Subset, FS_Union DEF Priced
    <3>4. us = vs \cup {x} /\ S \cup us = (S \cup vs) \cup {x}
      OBVIOUS
    <3> HIDE DEF vs
    <3>5. Sum(us) = Sum(vs) + x.v /\ Sum(vs) \in Nat
      BY <3>3, <3>4, SumWith
    <3>6. Sum(S \cup us) = Sum(S \cup vs) + x.v
      BY <3>3, <3>4, SumWith
    <3> QED
      BY <2>1, <3>2, <3>3, <3>5, <3>6
  <2> QED
    BY <2>2, <2>3
<1>2. C = SUBSET T
  <2>1. C \in SUBSET SUBSET T /\ IsFiniteSet(T)
    BY DEF Priced
  <2> HIDE DEF C
  <2> QED BY <1>1, <2>1, SubsetsByInduction
<1> QED
  BY <1>2

\* Entries of nothing.
LEMMA SumOfZeros ==
  ASSUME NEW S, IsFiniteSet(S), \A e \in S : e.v = 0
  PROVE  Sum(S) = 0
<1> DEFINE C == {us \in SUBSET S : Sum(us) = 0}
<1>1. ASSUME NEW us \in SUBSET S, \A x \in us : us \ {x} \in C PROVE us \in C
  <2>1. CASE us = {}
    BY <2>1, SumOfNone
  <2>2. CASE us # {}
    <3>1. PICK x \in us : TRUE
      BY <2>2
    <3>2. Priced(us) /\ x.v = 0 /\ Sum(us \ {x}) = 0
      BY <1>1, FS_Subset DEF Priced
    <3>3. Sum(us) = x.v + Sum(us \ {x})
      BY <3>2, SumWithout
    <3> QED
      BY <3>2, <3>3
  <2> QED
    BY <2>1, <2>2
<1>2. C = SUBSET S
  <2>1. C \in SUBSET SUBSET S
    OBVIOUS
  <2> HIDE DEF C
  <2> QED BY <1>1, <2>1, SubsetsByInduction
<1> QED
  BY <1>2

LEMMA SumOfOne ==
  ASSUME NEW e, e.v \in Nat
  PROVE  Sum({e}) = e.v
<1>1. Priced({})
  BY FS_EmptySet DEF Priced
<1>2. Sum({} \cup {e}) = Sum({}) + e.v
  BY <1>1, SumWith
<1> QED
  BY <1>2, SumOfNone

----------------------------------------------------------------------------
(* What transactions take and give.                                        *)

\* One transaction has as many entries as it has inputs and outputs at most.
LEMMA OnePriced ==
  ASSUME NEW t \in Tx, NEW a
  PROVE  Priced(From(a, {t})) /\ Priced(To(a, {t}))
<1>1. /\ t.In \in Seq(InType) /\ t.Out \in Seq(OutType)
      /\ DOMAIN t.In = 1..Len(t.In) /\ DOMAIN t.Out = 1..Len(t.Out)
  BY DEF Tx
<1>2. IsFiniteSet(DOMAIN t.In) /\ IsFiniteSet(DOMAIN t.Out)
  <2>1. Len(t.In) \in Int /\ Len(t.Out) \in Int
    BY <1>1
  <2> QED
    BY <1>1, <2>1, FS_Interval
<1>3. ASSUME NEW D, IsFiniteSet(D), NEW S, NEW f, f \in [D -> S], \A e \in S : \E i \in D : f[i] = e
      PROVE  IsFiniteSet(S)
  <2>1. f \in Surjection(D, S)
    BY <1>3 DEF Surjection
  <2> QED
    BY <1>3, <2>1, FS_Surjection
<1>4. IsFiniteSet(From(a, {t}))
  <2> DEFINE D == {i \in DOMAIN t.In : t.In[i].PrevTx = a}
             f == [i \in D |-> [tx |-> t, at |-> i, v |-> t.In[i].Index]]
  <2>1. IsFiniteSet(D)
    BY <1>2, FS_Subset
  <2>2. From(a, {t}) = {f[i] : i \in D}
    <3>1. \A e : e \in From(a, {t}) <=>
            \E i \in D : e = [tx |-> t, at |-> i, v |-> t.In[i].Index]
      BY Zenon DEF From
    <3>2. \A i \in D : f[i] = [tx |-> t, at |-> i, v |-> t.In[i].Index]
      OBVIOUS
    <3> HIDE DEF D, f
    <3>3. \A e : e \in From(a, {t}) <=> \E i \in D : e = f[i]
      BY <3>1, <3>2, Zenon
    <3> QED
      BY <3>3
  <2>3. f \in [D -> From(a, {t})]
    BY <2>2
  <2> HIDE DEF f, D
  <2> QED
    BY <1>3, <2>1, <2>2, <2>3
<1>5. IsFiniteSet(To(a, {t}))
  <2> DEFINE D == {i \in DOMAIN t.Out : t.Out[i].Address = a}
             f == [i \in D |-> [tx |-> t, at |-> i, v |-> t.Out[i].Value]]
  <2>1. IsFiniteSet(D)
    BY <1>2, FS_Subset
  <2>2. To(a, {t}) = {f[i] : i \in D}
    <3>1. \A e : e \in To(a, {t}) <=>
            \E i \in D : e = [tx |-> t, at |-> i, v |-> t.Out[i].Value]
      BY Zenon DEF To
    <3>2. \A i \in D : f[i] = [tx |-> t, at |-> i, v |-> t.Out[i].Value]
      OBVIOUS
    <3> HIDE DEF D, f
    <3>3. \A e : e \in To(a, {t}) <=> \E i \in D : e = f[i]
      BY <3>1, <3>2, Zenon
    <3> QED
      BY <3>3
  <2>3. f \in [D -> To(a, {t})]
    BY <2>2
  <2> HIDE DEF f, D
  <2> QED
    BY <1>3, <2>1, <2>2, <2>3
<1>6. /\ \A e \in From(a, {t}) : e.v \in Nat
      /\ \A e \in To(a, {t}) : e.v \in Nat
  <2>1. /\ \A i \in DOMAIN t.In : t.In[i].Index \in Nat
        /\ \A i \in DOMAIN t.Out : t.Out[i].Value \in Nat
    <3>1. /\ \A i \in DOMAIN t.In : t.In[i] \in InType
          /\ \A i \in DOMAIN t.Out : t.Out[i] \in OutType
      BY <1>1
    <3> QED
      BY <3>1, WordAssumption DEF InType, OutType, Value
  <2> QED
    BY <2>1 DEF From, To
<1> QED
  BY <1>4, <1>5, <1>6 DEF Priced

LEMMA EntriesWith ==
  ASSUME NEW ts, NEW t, NEW a
  PROVE  /\ From(a, ts \cup {t}) = From(a, ts) \cup From(a, {t})
         /\ To(a, ts \cup {t}) = To(a, ts) \cup To(a, {t})
         /\ t \notin ts => /\ From(a, ts) \cap From(a, {t}) = {}
                          /\ To(a, ts) \cap To(a, {t}) = {}
<1>1. /\ \A us : \A e \in From(a, us) : e.tx \in us
      /\ \A us : \A e \in To(a, us) : e.tx \in us
  BY DEF From, To
<1> QED
  BY <1>1 DEF From, To

LEMMA EntriesPriced ==
  ASSUME NEW ts \in SUBSET Tx, IsFiniteSet(ts), NEW a
  PROVE  Priced(From(a, ts)) /\ Priced(To(a, ts))
<1> DEFINE C == {us \in SUBSET ts : Priced(From(a, us)) /\ Priced(To(a, us))}
<1>1. ASSUME NEW us \in SUBSET ts, \A x \in us : us \ {x} \in C PROVE us \in C
  <2>1. CASE us = {}
    <3>1. From(a, us) = {} /\ To(a, us) = {}
      BY <2>1 DEF From, To
    <3> QED
      BY <3>1, FS_EmptySet DEF Priced
  <2>2. CASE us # {}
    <3>1. PICK x \in us : TRUE
      BY <2>2
    <3>2. /\ From(a, us) = From(a, us \ {x}) \cup From(a, {x})
          /\ To(a, us) = To(a, us \ {x}) \cup To(a, {x})
      <4> DEFINE vs == us \ {x}
      <4>1. us = vs \cup {x}
        OBVIOUS
      <4> HIDE DEF vs
      <4>2. /\ From(a, vs \cup {x}) = From(a, vs) \cup From(a, {x})
            /\ To(a, vs \cup {x}) = To(a, vs) \cup To(a, {x})
        BY EntriesWith
      <4> QED
        BY <4>1, <4>2, Zenon DEF vs
    <3>3. Priced(From(a, us \ {x})) /\ Priced(To(a, us \ {x}))
      BY <1>1
    <3>4. Priced(From(a, {x})) /\ Priced(To(a, {x}))
      BY OnePriced
    <3>5. ASSUME NEW S, NEW T, Priced(S), Priced(T) PROVE Priced(S \cup T)
      BY <3>5, FS_Union DEF Priced
    <3>6. Priced(From(a, us)) /\ Priced(To(a, us))
      <4> HIDE DEF C
      <4> QED
        BY <3>2, <3>3, <3>4, <3>5, Zenon
    <3> QED
      BY <3>6
  <2> QED
    BY <2>1, <2>2
<1>2. C = SUBSET ts
  <2>1. C \in SUBSET SUBSET ts
    OBVIOUS
  <2> HIDE DEF C
  <2> QED BY <1>1, <2>1, SubsetsByInduction
<1> QED
  BY <1>2

\* One transaction more.
LEMMA SumsWith ==
  ASSUME NEW ts \in SUBSET Tx, IsFiniteSet(ts), NEW t \in Tx \ ts, NEW a
  PROVE  /\ Sum(From(a, ts \cup {t})) = Sum(From(a, ts)) + Sum(From(a, {t}))
         /\ Sum(To(a, ts \cup {t})) = Sum(To(a, ts)) + Sum(To(a, {t}))
<1>1. /\ Priced(From(a, ts)) /\ Priced(To(a, ts))
      /\ Priced(From(a, {t})) /\ Priced(To(a, {t}))
  BY EntriesPriced, OnePriced
<1>2. /\ From(a, ts \cup {t}) = From(a, ts) \cup From(a, {t})
      /\ To(a, ts \cup {t}) = To(a, ts) \cup To(a, {t})
      /\ From(a, ts) \cap From(a, {t}) = {} /\ To(a, ts) \cap To(a, {t}) = {}
  BY EntriesWith
<1>3. /\ Sum(From(a, ts) \cup From(a, {t})) = Sum(From(a, ts)) + Sum(From(a, {t}))
      /\ Sum(To(a, ts) \cup To(a, {t})) = Sum(To(a, ts)) + Sum(To(a, {t}))
  BY ONLY <1>1, <1>2, SumOfUnion
<1> QED
  BY <1>2, <1>3, Zenon

LEMMA SumsType ==
  ASSUME NEW ts \in SUBSET Tx, IsFiniteSet(ts), NEW a
  PROVE  Sum(From(a, ts)) \in Nat /\ Sum(To(a, ts)) \in Nat
BY EntriesPriced, SumType

LEMMA OneType ==
  ASSUME NEW t \in Tx, NEW a
  PROVE  Sum(From(a, {t})) \in Nat /\ Sum(To(a, {t})) \in Nat
BY OnePriced, SumType

----------------------------------------------------------------------------
(* Account tables.                                                         *)

LEMMA BalanceType ==
  ASSUME NEW acc \in Balances, NEW a
  PROVE  Balance(acc, a) \in Value
BY WordAssumption DEF Balances, Balance, Value

LEMMA PutIs ==
  ASSUME NEW acc \in Balances, NEW a \in Accounts, NEW v \in Value
  PROVE  /\ Put(acc, a, v) \in Balances
         /\ DOMAIN Put(acc, a, v) = {a} \cup DOMAIN acc
         /\ \A x : Balance(Put(acc, a, v), x) = IF x = a THEN v ELSE Balance(acc, x)
<1>1. DOMAIN acc \in SUBSET Accounts /\ \A x \in DOMAIN acc : acc[x] \in Value
  BY DEF Balances
<1>2. Put(acc, a, v) = [x \in {a} \cup DOMAIN acc |-> IF x = a THEN v ELSE acc[x]]
  BY DEF Put, Overwrite
<1>3. Put(acc, a, v) \in [{a} \cup DOMAIN acc -> Value]
  BY <1>1, <1>2
<1>4. {a} \cup DOMAIN acc \in SUBSET Accounts
  BY <1>1
<1>5. Put(acc, a, v) \in Balances
  BY <1>3, <1>4 DEF Balances
<1> QED
  BY <1>2, <1>5 DEF Balance

LEMMA DeleteIs ==
  ASSUME NEW acc, NEW a
  PROVE  Delete(acc, a) = [x \in DOMAIN acc \ {a} |-> acc[x]]
BY DEF Delete, Restrict

LEMMA OverwriteIs ==
  ASSUME NEW acc \in Balances, NEW as \in SUBSET Accounts, NEW new \in [as -> Value]
  PROVE  /\ Overwrite(new, acc) \in Balances
         /\ DOMAIN Overwrite(new, acc) = as \cup DOMAIN acc
         /\ \A a \in as : Balance(Overwrite(new, acc), a) = new[a]
         /\ \A a : a \notin as => Balance(Overwrite(new, acc), a) = Balance(acc, a)
<1>1. DOMAIN acc \in SUBSET Accounts /\ \A x \in DOMAIN acc : acc[x] \in Value
  BY DEF Balances
<1>2. Overwrite(new, acc)
        = [x \in as \cup DOMAIN acc |-> IF x \in as THEN new[x] ELSE acc[x]]
  BY DEF Overwrite
<1>3. Overwrite(new, acc) \in [as \cup DOMAIN acc -> Value]
  BY <1>1, <1>2
<1>4. Overwrite(new, acc) \in Balances
  BY <1>1, <1>3 DEF Balances
<1> QED
  BY <1>2, <1>4 DEF Balance

\* Arithmetic modulo Word gives a value.
LEMMA Modulo ==
  ASSUME NEW i \in Int
  PROVE  i % Word \in Value
BY WordAssumption DEF Value

LEMMA OneRemains ==
  ASSUME NEW acc \in Balances, NEW t \in Tx, NEW a
  PROVE  /\ (Balance(acc, a) - Sum(From(a, {t}))) % Word \in Value
         /\ (Balance(acc, a) + Sum(From(a, {t}))) % Word \in Value
         /\ (Balance(acc, a) + Sum(To(a, {t}))) % Word \in Value
<1> DEFINE b == Balance(acc, a)
           f == Sum(From(a, {t}))
           e == Sum(To(a, {t}))
<1>1. b \in Int /\ f \in Int /\ e \in Int
  BY BalanceType, OneType, WordAssumption DEF Value
<1> HIDE DEF b, f, e
<1>2. b - f \in Int /\ b + f \in Int /\ b + e \in Int
  BY <1>1
<1>3. (b - f) % Word \in Value /\ (b + f) % Word \in Value /\ (b + e) % Word \in Value
  BY <1>2, Modulo
<1> QED
  BY <1>3 DEF b, f, e

\* What a transaction takes from the accounts as.
LEMMA LockIs ==
  ASSUME NEW acc \in Balances, NEW t \in Tx, NEW as \in SUBSET Accounts
  PROVE  /\ LockUTXO(acc, t, as) \in Balances
         /\ DOMAIN LockUTXO(acc, t, as) = as \cup DOMAIN acc
         /\ \A a \in as : Balance(LockUTXO(acc, t, as), a)
                          = (Balance(acc, a) - Sum(From(a, {t}))) % Word
         /\ \A a : a \notin as => Balance(LockUTXO(acc, t, as), a) = Balance(acc, a)
<1> DEFINE new == [a \in as |-> (Balance(acc, a) - Sum(From(a, {t}))) % Word]
<1>1. new \in [as -> Value]
  BY OneRemains
<1>2. \A a \in as : new[a] = (Balance(acc, a) - Sum(From(a, {t}))) % Word
  OBVIOUS
<1>3. LockUTXO(acc, t, as) = Overwrite(new, acc)
  BY DEF LockUTXO
<1> HIDE DEF new
<1>4. /\ Overwrite(new, acc) \in Balances
      /\ DOMAIN Overwrite(new, acc) = as \cup DOMAIN acc
      /\ \A a \in as : Balance(Overwrite(new, acc), a) = new[a]
      /\ \A a : a \notin as => Balance(Overwrite(new, acc), a) = Balance(acc, a)
  BY <1>1, OverwriteIs, Zenon
<1> QED
  BY <1>2, <1>3, <1>4

\* What it gives back to them.
LEMMA UnlockIs ==
  ASSUME NEW acc \in Balances, NEW t \in Tx, NEW as \in SUBSET Accounts
  PROVE  /\ UnlockUTXO(acc, t, as) \in Balances
         /\ DOMAIN UnlockUTXO(acc, t, as) = as \cup DOMAIN acc
         /\ \A a \in as : Balance(UnlockUTXO(acc, t, as), a)
                          = (Balance(acc, a) + Sum(From(a, {t}))) % Word
         /\ \A a : a \notin as => Balance(UnlockUTXO(acc, t, as), a) = Balance(acc, a)
<1> DEFINE new == [a \in as |-> (Balance(acc, a) + Sum(From(a, {t}))) % Word]
<1>1. new \in [as -> Value]
  BY OneRemains
<1>2. \A a \in as : new[a] = (Balance(acc, a) + Sum(From(a, {t}))) % Word
  OBVIOUS
<1>3. UnlockUTXO(acc, t, as) = Overwrite(new, acc)
  BY DEF UnlockUTXO
<1> HIDE DEF new
<1>4. /\ Overwrite(new, acc) \in Balances
      /\ DOMAIN Overwrite(new, acc) = as \cup DOMAIN acc
      /\ \A a \in as : Balance(Overwrite(new, acc), a) = new[a]
      /\ \A a : a \notin as => Balance(Overwrite(new, acc), a) = Balance(acc, a)
  BY <1>1, OverwriteIs, Zenon
<1> QED
  BY <1>2, <1>3, <1>4

\* What it gives to them.
LEMMA GiveIs ==
  ASSUME NEW acc \in Balances, NEW t \in Tx, NEW as \in SUBSET Accounts
  PROVE  /\ Give(acc, t, as) \in Balances
         /\ DOMAIN Give(acc, t, as) = as \cup DOMAIN acc
         /\ \A a \in as : Balance(Give(acc, t, as), a)
                          = (Balance(acc, a) + Sum(To(a, {t}))) % Word
         /\ \A a : a \notin as => Balance(Give(acc, t, as), a) = Balance(acc, a)
<1> DEFINE new == [a \in as |-> (Balance(acc, a) + Sum(To(a, {t}))) % Word]
<1>1. new \in [as -> Value]
  BY OneRemains
<1>2. \A a \in as : new[a] = (Balance(acc, a) + Sum(To(a, {t}))) % Word
  OBVIOUS
<1>3. Give(acc, t, as) = Overwrite(new, acc)
  BY DEF Give
<1> HIDE DEF new
<1>4. /\ Overwrite(new, acc) \in Balances
      /\ DOMAIN Overwrite(new, acc) = as \cup DOMAIN acc
      /\ \A a \in as : Balance(Overwrite(new, acc), a) = new[a]
      /\ \A a : a \notin as => Balance(Overwrite(new, acc), a) = Balance(acc, a)
  BY <1>1, OverwriteIs, Zenon
<1> QED
  BY <1>2, <1>3, <1>4

\* The shard's payers and payees are accounts, and an account of the shard
\* that is not one of them is not touched.
LEMMA PartiesAre ==
  ASSUME NEW t \in Tx, NEW s
  PROVE  /\ Payers(t, s) \in SUBSET Accounts /\ Payees(t, s) \in SUBSET Accounts
         /\ \A a \in Accounts : ShardIndex(a) = s =>
              /\ a \notin Payers(t, s) => Sum(From(a, {t})) = 0
              /\ a \notin Payees(t, s) => Sum(To(a, {t})) = 0
<1>1. t.In \in Seq(InType) /\ t.Out \in Seq(OutType)
  BY DEF Tx
<1>2. /\ \A i \in DOMAIN t.In : t.In[i].PrevTx \in Accounts
      /\ \A i \in DOMAIN t.Out : t.Out[i].Address \in Accounts
  <2>1. /\ \A i \in DOMAIN t.In : t.In[i] \in InType
        /\ \A i \in DOMAIN t.Out : t.Out[i] \in OutType
    BY <1>1
  <2> QED
    BY <2>1 DEF InType, OutType
<1>3. Payers(t, s) \in SUBSET Accounts /\ Payees(t, s) \in SUBSET Accounts
  BY <1>2 DEF Payers, Payees
<1>4. ASSUME NEW a \in Accounts, ShardIndex(a) = s
      PROVE  /\ a \notin Payers(t, s) => From(a, {t}) = {}
             /\ a \notin Payees(t, s) => To(a, {t}) = {}
  BY <1>4 DEF Payers, Payees, From, To
<1> QED
  BY <1>3, <1>4, SumOfNone
=============================================================================
